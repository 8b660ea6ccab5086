\* Two runs over overlapping months, with another end each, and two sources that change
\* between builds and releases, for every selection a reader can make.
SPECIFICATION Spec
CONSTANTS
  NumMonths = 3
  Year = 2
  Reporters = {"us", "kr"}
  Products = {"memory", "parts"}
  Countries = {china, japan}
  Answers <- MCAnswers
  Totals <- MCTotals
  Backgrounds <- MCBackgrounds
  Runs <- MCRuns
  None = None
  Changing <- MCChanging
  MaxLoads = 2
  Scale = 10
  china = china
  japan = japan
  other = other
INVARIANTS
  BasesAgreeWithMarts
  UnnoticedShareIsExact
  CommonMonthsHaveData
PROPERTIES
  ReleaseShowsRaw
CHECK_DEADLOCK FALSE
