\* Two releases, downloaded in part, staged twice and built once, with failing
\* renames, crashes and one change by hand.
SPECIFICATION Spec
CONSTANTS
  Releases = {older, newer}
  Stagers = {first, second}
  Builders = {"build"}
  DataFiles = {"monthly"}
  None = None
  MaxEdits = 1
  older = older
  newer = newer
  first = first
  second = second
SYMMETRY MCSymmetry
INVARIANTS
  TypeOK
  ReleasedWhole
  StagedWhole
  BuiltWhole
PROPERTIES
  NothingLost
CHECK_DEADLOCK FALSE
