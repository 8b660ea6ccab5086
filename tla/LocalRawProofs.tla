--------------------------- MODULE LocalRawProofs ---------------------------
(***************************************************************************)
(* Theorems about LocalRaw, for any answers, executions, runs and bounds:  *)
(* what appears in the local root, and that it can be read.                *)
(***************************************************************************)
EXTENDS LocalRaw, FiniteSetTheorems, WellFoundedInduction, TLAPS

-----------------------------------------------------------------------------
(* The two validators *)

\* Rows of identity i that have passed validate_dataset.
Ready(i, rows) ==
  /\ rows # {}
  /\ \E a \in Answers : rows \subseteq a
  /\ \A r \in rows : KindOf(r) = i[2]
  /\ Accepted(i, rows)

\* The directory d is what save_source writes for path p.
Written(p, d) ==
  \E i \in Identity, n \in 1..MaxRevision, rows \in SUBSET UNION Answers :
    /\ Ready(i, rows)
    /\ d = Source(i, n, rows)
    /\ p = PathOf(d.manifest)

\* Accepted rows have one edition, which is supported and that of every row.
LEMMA EditionFacts ==
  ASSUME NEW i \in Identity, NEW rows, Ready(i, rows)
  PROVE  /\ EditionOf(rows) \in Editions
         /\ \A r \in rows : r.edition = EditionOf(rows)
<1>1. EditionsOf(rows) # {} /\ EditionsOf(rows) \subseteq Editions
  BY DEF Ready, Accepted, OneEdition, EditionsOf
<1>2. EditionOf(rows) \in EditionsOf(rows)
  BY <1>1 DEF EditionOf
<1>3. IsFiniteSet(EditionsOf(rows))
  BY <1>1, SourcesAssumption, FS_Subset
<1>4. PICK e : EditionsOf(rows) = {e}
  BY <1>3, FS_Singleton DEF Ready, Accepted, OneEdition
<1>5. \A r \in rows : r.edition \in EditionsOf(rows)
  BY DEF EditionsOf
<1> QED BY <1>1, <1>2, <1>4, <1>5

\* Accepted rows are of one partner each, whichever kind they are of.
LEMMA GrainFacts ==
  ASSUME NEW i \in Identity, NEW rows, Ready(i, rows)
  PROVE  /\ OneRowPerPartner(rows)
         /\ i[2] = "world_total" => Cardinality(rows) = 1
<1>1. CASE i[2] = "partner_detail"
  BY <1>1 DEF Ready, Accepted, Valid
<1>2. CASE i[2] = "world_total"
  <2>1. IsFiniteSet(rows)
    BY LocalRawAssumption, FS_Subset DEF Ready
  <2>2. Cardinality(rows) = 1
    BY <1>2 DEF Ready, Accepted, Valid
  <2>3. PICK r : rows = {r}
    BY <2>1, <2>2, FS_Singleton
  <2> QED BY <2>2, <2>3 DEF OneRowPerPartner
<1> QED BY <1>1, <1>2 DEF Identity, Kinds

\* What validate_dataset accepts and save_source writes, verify reads, if Raw can
\* represent it: the validators on both sides of the disk agree.
THEOREM AcceptedIsVerified ==
  ASSUME NEW p, NEW d, Written(p, d), Representable(d.data)
  PROVE  Readable(p, d)
<1>1. PICK i \in Identity, n \in 1..MaxRevision, rows \in SUBSET UNION Answers :
        /\ Ready(i, rows)
        /\ d = Source(i, n, rows)
        /\ p = PathOf(d.manifest)
  BY DEF Written
<1> DEFINE m == ManifestOf(i, n, rows)
<1>2. d.data = rows /\ d.manifest = m
  BY <1>1 DEF Source
<1>3. d.data # Missing /\ d.manifest # Missing
  BY <1>1, <1>2, LocalRawAssumption DEF Ready
<1>4. /\ m.identity = i /\ m.edition = EditionOf(rows) /\ m.revision = n
      /\ m.checksum = rows /\ m.count = Cardinality(rows) /\ m.sum = Total(rows)
  BY DEF ManifestOf
<1>5. m.edition \in Editions /\ \A r \in rows : r.edition = m.edition
  BY <1>1, <1>4, EditionFacts
<1>6. OneRowPerPartner(rows) /\ (i[2] = "world_total" => Cardinality(rows) = 1)
  BY <1>1, GrainFacts
<1>7. ASSUME NEW r \in rows PROVE VerifiedRow(m, r)
  <2>1. r.original /\ r.asked /\ r.reporter = i[1] /\ r.amount >= 0
    BY <1>1 DEF Ready, Accepted, Valid
  <2>2. r.partner >= 0 /\ Numeric(r.amount)
    BY <1>2 DEF Representable
  <2>3. i[2] = "world_total" <=> r.partner = 0
    BY <1>1 DEF Ready, KindOf
  <2> QED BY <2>1, <2>2, <2>3, <1>4, <1>5 DEF VerifiedRow
<1>8. Numeric(Total(rows))
  BY <1>2 DEF Representable
<1>9. n >= 1
  BY LocalRawAssumption
<1> HIDE DEF m
<1> QED BY <1>1, <1>2, <1>3, <1>4, <1>5, <1>6, <1>7, <1>8, <1>9 DEF Readable

-----------------------------------------------------------------------------
(* Revisions *)

\* A scan that finds sources finds a latest one.
LEMMA LatestFacts ==
  ASSUME NEW i \in Identity, Latest(i) # Missing
  PROVE  Latest(i) \in Committed(i)
<1>1. Committed(i) # {}
  BY DEF Latest
<1>2. Committed(i) \subseteq Path /\ \A p \in Committed(i) : p.revision \in 1..MaxRevision
  BY DEF Committed, Path
<1> DEFINE Left == {MaxRevision - p.revision : p \in Committed(i)}
<1>3. Left \subseteq Nat /\ Left # {}
  BY <1>1, <1>2, LocalRawAssumption
<1>4. PICK x \in Left : \A y \in Left : ~ (<<y, x>> \in OpToRel(<, Nat))
  <2> HIDE DEF Left
  <2> QED BY <1>3, NatLessThanWellFounded, WFMin
<1>5. \A y \in Left : ~ (y < x)
  BY <1>3, <1>4 DEF OpToRel
<1>6. PICK p \in Committed(i) : x = MaxRevision - p.revision
  BY <1>4
<1>7. \A q \in Committed(i) : q.revision <= p.revision
  <2>1. TAKE q \in Committed(i)
  <2>2. MaxRevision - q.revision \in Left
    OBVIOUS
  <2>3. ~ (MaxRevision - q.revision < MaxRevision - p.revision)
    BY <1>5, <1>6, <2>2
  <2> QED BY <1>2, <2>3, LocalRawAssumption
<1> QED BY <1>1, <1>6, <1>7 DEF Latest

-----------------------------------------------------------------------------
(* The inductive invariant *)

\* Functions keep their domains.
Shape ==
  /\ DOMAIN root = Path
  /\ DOMAIN pc = Extractors
  /\ DOMAIN existing = Extractors
  /\ \A e \in Extractors : DOMAIN existing[e] = Identity
  /\ DOMAIN response = Extractors
  /\ DOMAIN todo = Extractors
  /\ DOMAIN target = Extractors
  /\ DOMAIN stage = Extractors
  /\ DOMAIN unavailable = Extractors

\* What an execution remembers has a revision of a path.
RevisionsKnown ==
  \A e \in Extractors, i \in Identity :
    existing[e][i] # Missing => existing[e][i].revision \in 1..MaxRevision

\* An execution saves rows of one answer.
ResponsesAnswered ==
  \A e \in Extractors : response[e] # {} => \E a \in Answers : response[e] \subseteq a

\* What is being written is on its way to its own path.
StagesWritten ==
  \A e \in Extractors :
    /\ pc[e] \in {"rename", "read"} => target[e] \in Path
    /\ pc[e] = "rename" => Written(target[e], stage[e])

\* Whatever the root has was written for its path.
RootWritten == \A p \in Path : root[p] # Missing => Written(p, root[p])

RootInv == Shape /\ RevisionsKnown /\ ResponsesAnswered /\ StagesWritten /\ RootWritten

LEMMA InitRootInv == Init => RootInv
BY DEF Init, Nothing, RootInv, Shape, RevisionsKnown, ResponsesAnswered, StagesWritten,
       RootWritten

\* What an execution is about to write is written for its path.
LEMMA NewFacts ==
  ASSUME RootInv, NEW e \in Extractors, NEW i \in Identity, Changed(e, i)
  PROVE  /\ PathOf(New(e, i).manifest) \in Path
         /\ Written(PathOf(New(e, i).manifest), New(e, i))
<1> DEFINE rows == Given(e, i)
<1>1. rows # {} /\ Accepted(i, rows)
  BY DEF Changed
<1>2. rows \subseteq response[e] /\ \A r \in rows : KindOf(r) = i[2]
  BY DEF Given, Selected
<1>3. Ready(i, rows) /\ rows \in SUBSET UNION Answers
  BY <1>1, <1>2 DEF RootInv, ResponsesAnswered, Ready
<1>4. Revision(e, i) \in 1..MaxRevision
  <2>1. Revision(e, i) <= MaxRevision
    BY DEF Changed
  <2>2. existing[e][i] # Missing => existing[e][i].revision \in 1..MaxRevision
    BY DEF RootInv, RevisionsKnown
  <2>3. MaxRevision \in Nat
    BY LocalRawAssumption
  <2>4. CASE existing[e][i] = Missing
    BY <2>1, <2>3, <2>4 DEF Revision
  <2>5. CASE existing[e][i] # Missing
    BY <2>1, <2>2, <2>3, <2>5 DEF Revision
  <2> QED BY <2>4, <2>5
<1> HIDE DEF rows
<1>5. New(e, i) = Source(i, Revision(e, i), rows)
  BY DEF New, rows
<1>6. Written(PathOf(New(e, i).manifest), New(e, i))
  BY <1>3, <1>4, <1>5 DEF Written
<1>7. PathOf(New(e, i).manifest) =
        [identity |-> i, edition |-> EditionOf(rows), revision |-> Revision(e, i)]
  BY <1>5 DEF Source, ManifestOf, PathOf
<1> QED BY <1>3, <1>4, <1>6, <1>7, EditionFacts DEF Path

\* An execution that ends, in whichever way, changes nothing of the root.
LEMMA EndStep ==
  ASSUME RootInv, NEW e \in Extractors, NEW label, End(e, label),
         label \notin {"rename", "read"}
  PROVE  RootInv'
<1>1. Shape'
  BY DEF End, Goto, Nothing, RootInv, Shape
<1>2. RevisionsKnown'
  BY DEF End, Nothing, RootInv, Shape, RevisionsKnown
<1>3. ResponsesAnswered'
  BY DEF End, RootInv, Shape, ResponsesAnswered
<1>4. StagesWritten'
  BY DEF End, Goto, RootInv, Shape, StagesWritten, Written, Ready
<1>5. RootWritten'
  BY DEF End, RootInv, RootWritten, Written, Ready
<1> QED BY <1>1, <1>2, <1>3, <1>4, <1>5 DEF RootInv

LEMMA FailStep ==
  ASSUME RootInv, NEW e \in Extractors, Fail(e)
  PROVE  RootInv'
BY EndStep DEF Fail

\* A step that does not write to disk keeps the invariant as long as it answers for
\* what it changes of an execution.
LEMMA QuietStep ==
  ASSUME RootInv, UNCHANGED <<root, stage, target>>, Shape',
         RevisionsKnown', ResponsesAnswered',
         \A e \in Extractors : pc'[e] = pc[e] \/ pc'[e] \notin {"rename", "read"}
  PROVE  RootInv'
BY DEF RootInv, StagesWritten, RootWritten, Written, Ready

LEMMA ScanStep ==
  ASSUME RootInv, NEW e \in Extractors, Scan(e)
  PROVE  RootInv'
<1>1. ASSUME NEW i \in Identity, Latest(i) # Missing
      PROVE  Known(Latest(i)).revision \in 1..MaxRevision
  BY <1>1, LatestFacts DEF Known, Committed, Path
<1>2. Shape' /\ ResponsesAnswered'
  BY DEF Scan, Goto, RootInv, Shape, ResponsesAnswered
<1>3. RevisionsKnown'
  BY <1>1 DEF Scan, RootInv, Shape, RevisionsKnown
<1>4. UNCHANGED <<root, stage, target>>
  BY DEF Scan
<1>5. \A f \in Extractors : pc'[f] = pc[f] \/ pc'[f] \notin {"rename", "read"}
  BY DEF Scan, Goto, RootInv, Shape
<1> QED BY <1>2, <1>3, <1>4, <1>5, QuietStep

LEMMA RespondStep ==
  ASSUME RootInv, NEW e \in Extractors, Respond(e)
  PROVE  RootInv'
<1>1. Shape' /\ RevisionsKnown'
  BY DEF Respond, Goto, RootInv, Shape, RevisionsKnown
<1>2. ResponsesAnswered'
  BY DEF Respond, RootInv, Shape, ResponsesAnswered
<1>3. UNCHANGED <<root, stage, target>>
  BY DEF Respond
<1>4. \A f \in Extractors : pc'[f] = pc[f] \/ pc'[f] \notin {"rename", "read"}
  BY DEF Respond, Goto, RootInv, Shape
<1> QED BY <1>1, <1>2, <1>3, <1>4, QuietStep

LEMMA StageStep ==
  ASSUME RootInv, NEW e \in Extractors, NEW i \in Identity, Stage(e, i)
  PROVE  RootInv'
<1> DEFINE p == PathOf(New(e, i).manifest)
<1>1. p \in Path /\ Written(p, New(e, i))
  BY NewFacts DEF Stage
<1>2. /\ target' = [target EXCEPT ![e] = p]
      /\ stage' = [stage EXCEPT ![e] = New(e, i)]
      /\ pc' = [pc EXCEPT ![e] = "rename"]
      /\ UNCHANGED <<root, existing, response, todo, unavailable>>
  BY DEF Stage, Goto
<1> HIDE DEF p
<1>3. Shape' /\ RevisionsKnown' /\ ResponsesAnswered'
  BY <1>2 DEF RootInv, Shape, RevisionsKnown, ResponsesAnswered
<1>4. StagesWritten'
  BY <1>1, <1>2 DEF RootInv, Shape, StagesWritten, Written, Ready
<1>5. RootWritten'
  BY <1>2 DEF RootInv, RootWritten, Written, Ready
<1> QED BY <1>3, <1>4, <1>5 DEF RootInv

LEMMA ExistsStep ==
  ASSUME RootInv, NEW e \in Extractors, NEW i \in Identity, Exists(e, i)
  PROVE  RootInv'
<1> DEFINE p == PathOf(New(e, i).manifest)
<1>1. CASE Fail(e)
  BY <1>1, FailStep
<1>2. CASE /\ target' = [target EXCEPT ![e] = p]
           /\ pc' = [pc EXCEPT ![e] = "read"]
           /\ UNCHANGED <<root, existing, response, todo, stage, unavailable>>
  <2>1. p \in Path
    BY NewFacts DEF Exists
  <2> HIDE DEF p
  <2>2. Shape' /\ RevisionsKnown' /\ ResponsesAnswered'
    BY <1>2 DEF RootInv, Shape, RevisionsKnown, ResponsesAnswered
  <2>3. StagesWritten'
    BY <1>2, <2>1 DEF RootInv, Shape, StagesWritten, Written, Ready
  <2>4. RootWritten'
    BY <1>2 DEF RootInv, RootWritten, Written, Ready
  <2> QED BY <2>2, <2>3, <2>4 DEF RootInv
<1> QED BY <1>1, <1>2 DEF Exists, Goto

LEMMA RenameStep ==
  ASSUME RootInv, NEW e \in Extractors, Rename(e)
  PROVE  RootInv'
<1>1. CASE Fail(e)
  BY <1>1, FailStep
<1>2. CASE /\ root' = [root EXCEPT ![target[e]] = stage[e]]
           /\ stage' = [stage EXCEPT ![e] = Missing]
           /\ pc' = [pc EXCEPT ![e] = "read"]
           /\ UNCHANGED <<existing, response, todo, target, unavailable>>
  <2>1. target[e] \in Path /\ Written(target[e], stage[e])
    BY DEF Rename, RootInv, StagesWritten
  <2>2. Shape' /\ RevisionsKnown' /\ ResponsesAnswered'
    BY <1>2 DEF RootInv, Shape, RevisionsKnown, ResponsesAnswered
  <2>3. StagesWritten'
    BY <1>2, <2>1 DEF RootInv, Shape, StagesWritten, Written, Ready
  <2>4. RootWritten'
    BY <1>2, <2>1 DEF RootInv, Shape, RootWritten, Written, Ready
  <2> QED BY <2>2, <2>3, <2>4 DEF RootInv
<1> QED BY <1>1, <1>2 DEF Rename, Goto

LEMMA ReadBackStep ==
  ASSUME RootInv, NEW e \in Extractors, ReadBack(e)
  PROVE  RootInv'
<1>1. CASE Fail(e)
  BY <1>1, FailStep
<1>2. CASE /\ existing' = [existing EXCEPT ![e][target[e].identity] = Known(target[e])]
           /\ target' = [target EXCEPT ![e] = Missing]
           /\ pc' = [pc EXCEPT ![e] = "save"]
           /\ todo' = [todo EXCEPT ![e] = @ \ {target[e].identity}]
           /\ UNCHANGED <<root, response, stage, unavailable>>
  <2>1. target[e] \in Path
    BY DEF ReadBack, RootInv, StagesWritten
  <2>2. Known(target[e]).revision \in 1..MaxRevision
    BY <2>1 DEF Known, Path
  <2>3. Shape' /\ ResponsesAnswered'
    BY <1>2 DEF RootInv, Shape, ResponsesAnswered
  <2>4. RevisionsKnown'
    BY <1>2, <2>2 DEF RootInv, Shape, RevisionsKnown
  <2>5. StagesWritten'
    BY <1>2 DEF RootInv, Shape, StagesWritten, Written, Ready
  <2>6. RootWritten'
    BY <1>2 DEF RootInv, RootWritten, Written, Ready
  <2> QED BY <2>3, <2>4, <2>5, <2>6 DEF RootInv
<1> QED BY <1>1, <1>2 DEF ReadBack, Goto

LEMMA ExtractionStep ==
  ASSUME RootInv, NEW e \in Extractors, Extraction(e)
  PROVE  RootInv'
<1>1. CASE NothingToAsk(e)
  BY <1>1, QuietStep DEF NothingToAsk, Goto, RootInv, Shape, RevisionsKnown, ResponsesAnswered
<1>2. CASE Exhaust(e)
  BY <1>2, EndStep DEF Exhaust
<1>3. ASSUME NEW i \in Identity, Keep(e, i) PROVE RootInv'
  BY <1>3, QuietStep DEF Keep, RootInv, Shape, RevisionsKnown, ResponsesAnswered
<1>4. ASSUME NEW i \in Identity, Skip(e, i) PROVE RootInv'
  BY <1>4, QuietStep DEF Skip, RootInv, Shape, RevisionsKnown, ResponsesAnswered
<1>5. ASSUME NEW i \in Identity, Refuse(e, i) PROVE RootInv'
  BY <1>5, FailStep DEF Refuse
<1>6. CASE Complete(e)
  <2>1. Shape' /\ RevisionsKnown' /\ ResponsesAnswered'
    BY <1>6 DEF Complete, Goto, Nothing, RootInv, Shape, RevisionsKnown, ResponsesAnswered
  <2>2. \A f \in Extractors : pc'[f] = pc[f] \/ pc'[f] \notin {"rename", "read"}
    BY <1>6 DEF Complete, Goto, RootInv, Shape
  <2> QED BY <1>6, <2>1, <2>2, QuietStep DEF Complete
<1>7. CASE Crash(e)
  BY <1>7, FailStep DEF Crash
<1>8. ASSUME NEW i \in Identity, Stage(e, i) \/ Exists(e, i) PROVE RootInv'
  BY <1>8, StageStep, ExistsStep
<1>9. CASE Scan(e) \/ Respond(e) \/ Rename(e) \/ ReadBack(e)
  BY <1>9, ScanStep, RespondStep, RenameStep, ReadBackStep
<1> QED BY <1>1, <1>2, <1>3, <1>4, <1>5, <1>6, <1>7, <1>8, <1>9 DEF Extraction

\* A sync run, or whoever else writes to S3, leaves the root and the executions alone.
LEMMA OthersStep ==
  ASSUME RootInv, UNCHANGED <<root, extraction>>
  PROVE  RootInv'
<1>1. UNCHANGED <<root, pc, existing, response, todo, target, stage, unavailable>>
  BY DEF extraction
<1>2. Shape' /\ RevisionsKnown' /\ ResponsesAnswered'
  BY <1>1 DEF RootInv, Shape, RevisionsKnown, ResponsesAnswered
<1> QED BY <1>1, <1>2, QuietStep

LEMMA SyncLeavesRoot ==
  ASSUME NEW u \in Runs, Sync(u)
  PROVE  UNCHANGED <<root, extraction>>
BY DEF Sync, SyncScan, Begins, Upload, Record, HandOver, SyncCrash, Stop

\* The inductive invariant RootInv: the root has sources at their own paths, written
\* from accepted rows, and so have the hidden directories that will be renamed.
THEOREM RootInvariant == Spec => []RootInv
<1>1. RootInv /\ [Next]_vars => RootInv'
  <2> SUFFICES ASSUME RootInv, [Next]_vars PROVE RootInv'
    OBVIOUS
  <2>1. ASSUME NEW e \in Extractors, Extraction(e) PROVE RootInv'
    BY <2>1, ExtractionStep
  <2>2. ASSUME NEW u \in Runs, Sync(u) PROVE RootInv'
    BY <2>2, SyncLeavesRoot, OthersStep
  <2>3. ASSUME NEW i \in Identity, CommitElsewhere(i) PROVE RootInv'
    BY <2>3, OthersStep DEF CommitElsewhere
  <2>4. CASE UNCHANGED vars
    BY <2>4, OthersStep DEF vars, extraction
  <2> QED BY <2>1, <2>2, <2>3, <2>4 DEF Next
<1> QED BY <1>1, InitRootInv, PTL DEF Spec

\* A source that is in the root is readable by every later execution, by the upload
\* and by load, unless Raw cannot represent its values.
THEOREM RootIsReadable == Spec => []AcceptedIsReadable
<1>1. RootInv => AcceptedIsReadable
  BY AcceptedIsVerified DEF RootInv, RootWritten, AcceptedIsReadable
<1> QED BY <1>1, RootInvariant, PTL

\* What is written for a path: a source, with the manifest that attests it.
LEMMA WrittenFacts ==
  ASSUME NEW p, NEW d, Written(p, d)
  PROVE  /\ d # Missing /\ IsSource(d)
         /\ d.manifest # Missing /\ d.manifest.checksum = d.data
         /\ PathOf(d.manifest) = p
<1>1. PICK i \in Identity, n \in 1..MaxRevision, rows \in SUBSET UNION Answers :
        Ready(i, rows) /\ d = Source(i, n, rows) /\ p = PathOf(d.manifest)
  BY DEF Written
<1>2. /\ d.data = rows /\ d.manifest = ManifestOf(i, n, rows)
      /\ DOMAIN d = {"data", "manifest"}
  BY <1>1 DEF Source
<1>3. d # Missing /\ d.manifest # Missing
  BY <1>1, <1>2, LocalRawAssumption DEF Ready
<1>4. /\ d.manifest.checksum = rows
      /\ d.manifest.identity = i /\ d.manifest.revision = n
  BY <1>2 DEF ManifestOf
<1>5. IsSource(d)
  BY <1>1, <1>2, <1>4 DEF IsSource
<1> QED BY <1>1, <1>2, <1>3, <1>4, <1>5

\* The only step that changes the root is a rename into a path that is free.
LEMMA RootStep ==
  ASSUME RootInv, [Next]_vars, NEW p \in Path, root'[p] # root[p]
  PROVE  root[p] = Missing /\ Written(p, root'[p])
<1>1. ASSUME NEW e \in Extractors, Rename(e)
      PROVE  root[p] = Missing /\ Written(p, root'[p])
  <2>1. CASE Fail(e)
    BY <2>1 DEF Fail, End
  <2>2. CASE root[target[e]] = Missing /\ root' = [root EXCEPT ![target[e]] = stage[e]]
    <3>1. target[e] \in Path /\ Written(target[e], stage[e])
      BY <1>1 DEF Rename, RootInv, StagesWritten
    <3> QED BY <2>2, <3>1 DEF RootInv, Shape
  <2> QED BY <1>1, <2>1, <2>2 DEF Rename
<1>2. ASSUME NEW e \in Extractors, Extraction(e), ~Rename(e) PROVE root' = root
  BY <1>2 DEF Extraction, Scan, NothingToAsk, Exhaust, Respond, Keep, Skip, Refuse, Exists,
       Stage, ReadBack, Complete, Crash, Fail, End
<1>3. ASSUME NEW u \in Runs, Sync(u) PROVE root' = root
  BY <1>3, SyncLeavesRoot
<1>4. ASSUME NEW i \in Identity, CommitElsewhere(i) PROVE root' = root
  BY <1>4 DEF CommitElsewhere
<1> QED BY <1>1, <1>2, <1>3, <1>4 DEF Next, vars

\* Whatever executions interleave, fail and die, a directory of the root appears in
\* one step, whole and at its own path, and never changes.
THEOREM RootIsWhole == Spec => InstalledWhole
<1> DEFINE Whole ==
      \A p \in Path : root'[p] # root[p] =>
        /\ root[p] = Missing
        /\ root'[p].manifest # Missing
        /\ root'[p].manifest.checksum = root'[p].data
        /\ PathOf(root'[p].manifest) = p
<1>1. RootInv /\ [Next]_vars => [Whole]_vars
  BY RootStep, WrittenFacts
<1>2. Spec => [][Whole]_vars
  BY <1>1, RootInvariant, PTL DEF Spec
<1> QED BY <1>2 DEF InstalledWhole

-----------------------------------------------------------------------------
(* What an execution that completes has covered *)

\* The source at path p is in the root, and every reader accepts it.
Attested(p) == root[p] # Missing /\ Readable(p, root[p])

\* The root has a readable source for identity i, with --refresh the rows e was given.
Covers(e, i) ==
  \E p \in Path :
    /\ p.identity = i
    /\ Attested(p)
    /\ e \in Refreshing => root[p].data = Given(e, i)

\* An execution remembers readable sources only; those it has come past are covered, and
\* the one it is writing or reading back has the rows it was given.
ExecutionOK(e) ==
  /\ \A i \in Identity : existing[e][i] # Missing =>
       \E p \in Path : p.identity = i /\ Attested(p) /\ existing[e][i] = Known(p)
  /\ pc[e] \in {"save", "rename", "read"} =>
       \A i \in Identity \ (unavailable[e] \cup todo[e]) : Covers(e, i)
  /\ pc[e] = "complete" => \A i \in Identity \ unavailable[e] : Covers(e, i)
  /\ pc[e] = "rename" => stage[e].data = Given(e, target[e].identity)
  /\ pc[e] = "read" => /\ root[target[e]] # Missing
                       /\ root[target[e]].data = Given(e, target[e].identity)

CoverInv == \A e \in Extractors : ExecutionOK(e)


\* The root only grows.
RootGrows == \A p \in Path : root[p] # Missing => root'[p] = root[p]

LEMMA AttestedStays ==
  ASSUME RootGrows, NEW p \in Path, Attested(p)
  PROVE  Attested(p)' /\ root'[p] = root[p] /\ Known(p)' = Known(p)
BY DEF RootGrows, Attested, Known

LEMMA CoveredStays ==
  ASSUME RootGrows, NEW e \in Extractors, NEW i \in Identity, Covers(e, i),
         response'[e] = response[e]
  PROVE  Covers(e, i)'
BY AttestedStays DEF Covers, Given

\* What is remembered stays remembered until it is replaced by what was read back.
Remembers(e, i) ==
  existing[e][i] # Missing =>
    \E p \in Path : p.identity = i /\ Attested(p) /\ existing[e][i] = Known(p)

LEMMA RememberedStays ==
  ASSUME RootGrows, NEW e \in Extractors, NEW i \in Identity, Remembers(e, i),
         existing'[e][i] = existing[e][i] \/ existing'[e][i] = Missing
  PROVE  Remembers(e, i)'
BY AttestedStays DEF Remembers

\* An execution at rest.
LEMMA OthersCover ==
  ASSUME RootInv, RootGrows, NEW e \in Extractors, ExecutionOK(e),
         pc'[e] = pc[e], existing'[e] = existing[e], response'[e] = response[e],
         todo'[e] = todo[e], target'[e] = target[e], stage'[e] = stage[e],
         unavailable'[e] = unavailable[e]
  PROVE  ExecutionOK(e)'
<1>1. \A i \in Identity : Remembers(e, i)'
  BY RememberedStays DEF ExecutionOK, Remembers
<1>2. \A i \in Identity : Covers(e, i) => Covers(e, i)'
  BY CoveredStays
<1>3. pc[e] = "read" => target[e] \in Path
  BY DEF RootInv, StagesWritten
<1>4. pc[e] = "read" => root'[target[e]] = root[target[e]]
  BY <1>3 DEF RootGrows, ExecutionOK
<1>5. \A i : Given(e, i)' = Given(e, i)
  BY DEF Given
<1> QED BY <1>1, <1>2, <1>4, <1>5 DEF ExecutionOK, Remembers

LEMMA EndCovers ==
  ASSUME RootInv, NEW e \in Extractors, NEW label, End(e, label),
         label \in {"incomplete", "failed"}
  PROVE  ExecutionOK(e)'
<1>1. pc'[e] = label /\ existing'[e] = Nothing
  BY DEF End, Goto, RootInv, Shape
<1> QED BY <1>1 DEF Nothing, ExecutionOK

LEMMA IdentityFacts ==
  ASSUME NEW i \in Identity
  PROVE  i[1] \in Reporters /\ i[2] \in Kinds /\ i = <<i[1], i[2]>>
BY DEF Identity

\* A reporter that is not asked for has the sources that are remembered.
LEMMA NotAsked ==
  ASSUME NEW e \in Extractors, NEW i \in Identity, i[1] \notin Group(e), Remembers(e, i)
  PROVE  Covers(e, i)
<1>1. e \notin Refreshing /\ existing[e][i] # Missing
  BY IdentityFacts DEF Group
<1> QED BY <1>1 DEF Remembers, Covers

LEMMA ScanCovers ==
  ASSUME RootInv, NEW e \in Extractors, ExecutionOK(e), Scan(e)
  PROVE  ExecutionOK(e)'
<1>1. /\ pc'[e] \in {"ask", "failed"} /\ root' = root
      /\ existing'[e] = [i \in Identity |-> IF Scannable /\ Latest(i) # Missing
                                            THEN Known(Latest(i)) ELSE Missing]
  BY DEF Scan, Goto, RootInv, Shape
<1>2. ASSUME NEW i \in Identity, existing'[e][i] # Missing
      PROVE  \E p \in Path : p.identity = i /\ Attested(p)' /\ existing'[e][i] = Known(p)'
  <2>1. Scannable /\ Latest(i) # Missing /\ existing'[e][i] = Known(Latest(i))
    BY <1>1, <1>2
  <2>2. PICK p \in Committed(i) : p = Latest(i)
    BY <2>1, LatestFacts
  <2>3. p \in Path /\ p.identity = i /\ root[p] # Missing
    BY DEF Committed
  <2>4. Attested(p) /\ existing'[e][i] = Known(p)
    BY <2>1, <2>2, <2>3 DEF Scannable, Attested
  <2>5. Attested(p)' /\ Known(p)' = Known(p)
    BY <1>1, <2>4 DEF Attested, Known
  <2> QED BY <2>3, <2>4, <2>5
<1> QED BY <1>1, <1>2 DEF ExecutionOK

LEMMA AskCovers ==
  ASSUME RootInv, RootGrows, NEW e \in Extractors, ExecutionOK(e),
         NothingToAsk(e) \/ Respond(e)
  PROVE  ExecutionOK(e)'
<1>1. \A i \in Identity : Remembers(e, i) /\ Remembers(e, i)'
  BY RememberedStays DEF NothingToAsk, Respond, ExecutionOK, Remembers
<1>2. CASE NothingToAsk(e)
  <2>1. \A i \in Identity : Covers(e, i)
    BY <1>1, <1>2, NotAsked, IdentityFacts DEF NothingToAsk
  <2>2. \A i \in Identity : Covers(e, i)'
    BY <1>2, <2>1, CoveredStays DEF NothingToAsk
  <2>3. pc'[e] = "complete"
    BY <1>2 DEF NothingToAsk, Goto, RootInv, Shape
  <2> QED BY <1>1, <2>2, <2>3 DEF ExecutionOK, Remembers
<1>3. CASE Respond(e)
  <2>1. PICK rows : /\ response' = [response EXCEPT ![e] = rows]
                    /\ todo' = [todo EXCEPT ![e] = {i \in Identity : i[1] \in Group(e)}]
    BY <1>3 DEF Respond
  <2>2. pc'[e] \in {"save", "failed"}
    BY <1>3 DEF Respond, Goto, RootInv, Shape
  <2>3. ASSUME NEW i \in Identity, i \notin todo'[e]
        PROVE  Covers(e, i)'
    <3>1. i[1] \notin Group(e)
      BY <2>1, <2>3 DEF RootInv, Shape
    <3>2. Covers(e, i)
      BY <1>1, <3>1, NotAsked
    <3>3. e \notin Refreshing
      BY <3>1, IdentityFacts DEF Group
    <3> QED BY <3>2, <3>3, AttestedStays DEF Covers
  <2> QED BY <1>1, <2>2, <2>3 DEF ExecutionOK, Remembers
<1> QED BY <1>2, <1>3

LEMMA SaveCovers ==
  ASSUME RootInv, RootGrows, NEW e \in Extractors, ExecutionOK(e), NEW i \in Identity,
         Keep(e, i) \/ Skip(e, i)
  PROVE  ExecutionOK(e)'
<1>1. \A k \in Identity : Remembers(e, k) /\ Remembers(e, k)'
  BY RememberedStays DEF Keep, Skip, ExecutionOK, Remembers
<1>2. pc[e] = "save" /\ pc'[e] = "save" /\ response' = response
  BY DEF Keep, Skip, Saving
<1>3. CASE Keep(e, i)
  <2>1. Covers(e, i)
    <3>1. PICK p \in Path : p.identity = i /\ Attested(p) /\ existing[e][i] = Known(p)
      BY <1>1, <1>3 DEF Keep, Remembers
    <3>2. e \in Refreshing => Given(e, i) = existing[e][i].checksum
      BY <1>3 DEF Keep
    <3>3. existing[e][i].checksum = root[p].data
      BY <3>1 DEF Attested, Readable, Known
    <3> QED BY <3>1, <3>2, <3>3 DEF Covers
  <2>2. unavailable'[e] = unavailable[e] /\ \A k \in todo[e] : k = i \/ k \in todo'[e]
    BY <1>3 DEF Keep, Saving, RootInv, Shape
  <2>3. \A k \in Identity \ (unavailable[e] \cup todo[e]) : Covers(e, k)
    BY <1>2 DEF ExecutionOK
  <2>4. \A k \in Identity \ (unavailable'[e] \cup todo'[e]) : Covers(e, k)
    BY <2>1, <2>2, <2>3
  <2> QED BY <1>1, <1>2, <2>4, CoveredStays DEF ExecutionOK, Remembers
<1>4. CASE Skip(e, i)
  <2>1. \A k \in Identity \ (unavailable'[e] \cup todo'[e]) : Covers(e, k)
    BY <1>2, <1>4 DEF Skip, ExecutionOK, RootInv, Shape
  <2> QED BY <1>1, <1>2, <2>1, CoveredStays DEF ExecutionOK, Remembers
<1> QED BY <1>3, <1>4

\* The path of what is written is of its identity, and its data are the rows given.
LEMMA NewRows ==
  ASSUME NEW e \in Extractors, NEW i \in Identity
  PROVE  New(e, i).data = Given(e, i) /\ PathOf(New(e, i).manifest).identity = i
BY DEF New, Source, ManifestOf, PathOf

LEMMA WriteCovers ==
  ASSUME RootInv, RootGrows, NEW e \in Extractors, ExecutionOK(e), NEW i \in Identity,
         Exists(e, i) \/ Stage(e, i)
  PROVE  ExecutionOK(e)'
<1>1. CASE Fail(e)
  BY <1>1, EndCovers DEF Fail
<1>2. CASE ~Fail(e)
  <2> DEFINE p == PathOf(New(e, i).manifest)
  <2>1. /\ pc[e] = "save" /\ target' = [target EXCEPT ![e] = p]
        /\ UNCHANGED <<root, existing, response, todo, unavailable>>
        /\ \/ pc'[e] = "read" /\ root[p] # Missing /\ root[p] = New(e, i)
           \/ pc'[e] = "rename" /\ stage'[e] = New(e, i)
    BY <1>2 DEF Exists, Stage, Changed, Saving, Goto, RootInv, Shape
  <2>2. New(e, i).data = Given(e, i) /\ p.identity = i
    BY NewRows
  <2> HIDE DEF p
  <2>3. \A k \in Identity : Remembers(e, k)'
    BY <2>1, RememberedStays DEF ExecutionOK, Remembers
  <2>4. \A k \in Identity \ (unavailable[e] \cup todo[e]) : Covers(e, k)'
    BY <2>1, CoveredStays DEF ExecutionOK
  <2>5. target'[e] = p
    BY <2>1 DEF RootInv, Shape
  <2>6. \A k : Given(e, k)' = Given(e, k)
    BY <2>1 DEF Given
  <2> QED BY <2>1, <2>2, <2>3, <2>4, <2>5, <2>6 DEF ExecutionOK, Remembers
<1> QED BY <1>1, <1>2

LEMMA RenameCovers ==
  ASSUME RootInv, RootGrows, NEW e \in Extractors, ExecutionOK(e), Rename(e)
  PROVE  ExecutionOK(e)'
<1>1. CASE Fail(e)
  BY <1>1, EndCovers DEF Fail
<1>2. CASE ~Fail(e)
  <2>1. /\ pc[e] = "rename" /\ pc'[e] = "read"
        /\ root' = [root EXCEPT ![target[e]] = stage[e]]
        /\ UNCHANGED <<existing, response, todo, target, unavailable>>
    BY <1>2 DEF Rename, Goto, RootInv, Shape
  <2>2. target[e] \in Path /\ Written(target[e], stage[e])
    BY <2>1 DEF RootInv, StagesWritten
  <2>3. root'[target[e]] = stage[e] /\ stage[e] # Missing
    BY <2>1, <2>2, WrittenFacts DEF RootInv, Shape
  <2>4. \A k \in Identity : Remembers(e, k)'
    BY <2>1, RememberedStays DEF ExecutionOK, Remembers
  <2>5. \A k \in Identity \ (unavailable[e] \cup todo[e]) : Covers(e, k)'
    BY <2>1, CoveredStays DEF ExecutionOK
  <2>6. \A k : Given(e, k)' = Given(e, k)
    BY <2>1 DEF Given
  <2>7. stage[e].data = Given(e, target[e].identity)
    BY <2>1 DEF ExecutionOK
  <2> QED BY <2>1, <2>3, <2>4, <2>5, <2>6, <2>7 DEF ExecutionOK, Remembers
<1> QED BY <1>1, <1>2

LEMMA ReadBackCovers ==
  ASSUME RootInv, RootGrows, NEW e \in Extractors, ExecutionOK(e), ReadBack(e)
  PROVE  ExecutionOK(e)'
<1>1. CASE Fail(e)
  BY <1>1, EndCovers DEF Fail
<1>2. CASE ~Fail(e)
  <2>1. /\ pc[e] = "read" /\ pc'[e] = "save"
        /\ Readable(target[e], root[target[e]])
        /\ existing' = [existing EXCEPT ![e][target[e].identity] = Known(target[e])]
        /\ todo' = [todo EXCEPT ![e] = @ \ {target[e].identity}]
        /\ UNCHANGED <<root, response, unavailable>>
    BY <1>2 DEF ReadBack, Goto, RootInv, Shape
  <2>2. target[e] \in Path
    BY <2>1 DEF RootInv, StagesWritten
  <2>3. PICK p \in Path : p = target[e]
    BY <2>2
  <2>4. Attested(p) /\ root[p].data = Given(e, p.identity)
    BY <2>1, <2>3 DEF Attested, ExecutionOK
  <2>5. Attested(p)' /\ Known(p)' = Known(p)
    BY <2>4, AttestedStays
  <2>6. ASSUME NEW k \in Identity PROVE Remembers(e, k)'
    <3>1. CASE k = p.identity
      BY <2>1, <2>3, <2>5, <3>1 DEF Remembers, RootInv, Shape
    <3>2. CASE k # p.identity
      <4>1. existing'[e][k] = existing[e][k]
        BY <2>1, <2>3, <3>2 DEF RootInv, Shape
      <4> QED BY <4>1, RememberedStays DEF ExecutionOK, Remembers
    <3> QED BY <3>1, <3>2
  <2>7. ASSUME NEW k \in Identity \ (unavailable'[e] \cup todo'[e]) PROVE Covers(e, k)'
    <3>1. CASE k = p.identity
      <4>1. Covers(e, k)
        BY <2>4, <3>1 DEF Covers
      <4> QED BY <2>1, <4>1, CoveredStays
    <3>2. CASE k # p.identity
      <4>1. k \notin unavailable[e] \cup todo[e]
        BY <2>1, <2>3, <3>2 DEF RootInv, Shape
      <4>2. Covers(e, k)
        BY <2>1, <4>1 DEF ExecutionOK
      <4> QED BY <2>1, <4>2, CoveredStays
    <3> QED BY <3>1, <3>2
  <2> QED BY <2>1, <2>6, <2>7 DEF ExecutionOK, Remembers
<1> QED BY <1>1, <1>2

LEMMA CompleteKeeps ==
  ASSUME RootInv, RootGrows, NEW e \in Extractors, ExecutionOK(e), Complete(e)
  PROVE  ExecutionOK(e)'
<1>1. /\ pc[e] = "save" /\ pc'[e] = "complete" /\ todo[e] = {}
      /\ existing'[e] = Nothing
      /\ UNCHANGED <<response, unavailable>>
  BY DEF Complete, Goto, RootInv, Shape
<1>2. \A k \in Identity \ unavailable[e] : Covers(e, k)'
  BY <1>1, CoveredStays DEF ExecutionOK
<1> QED BY <1>1, <1>2 DEF ExecutionOK, Nothing

\* The step of an execution leaves the variables of the others alone.
LEMMA OthersRest ==
  ASSUME RootInv, NEW e \in Extractors, Extraction(e), NEW f \in Extractors \ {e}
  PROVE  /\ pc'[f] = pc[f] /\ existing'[f] = existing[f] /\ response'[f] = response[f]
         /\ todo'[f] = todo[f] /\ target'[f] = target[f] /\ stage'[f] = stage[f]
         /\ unavailable'[f] = unavailable[f]
BY DEF Extraction, Scan, NothingToAsk, Exhaust, Respond, Keep, Skip, Refuse, Exists, Stage,
       Rename, ReadBack, Complete, Crash, Fail, End, Goto, RootInv, Shape

LEMMA ExtractionCovers ==
  ASSUME RootInv, RootGrows, NEW e \in Extractors, ExecutionOK(e), Extraction(e)
  PROVE  ExecutionOK(e)'
<1>1. CASE Scan(e) \/ NothingToAsk(e) \/ Respond(e)
  BY <1>1, ScanCovers, AskCovers
<1>2. CASE Exhaust(e) \/ Crash(e)
  BY <1>2, EndCovers DEF Exhaust, Crash, Fail
<1>3. ASSUME NEW i \in Identity, Keep(e, i) \/ Skip(e, i) PROVE ExecutionOK(e)'
  BY <1>3, SaveCovers
<1>4. ASSUME NEW i \in Identity, Refuse(e, i) PROVE ExecutionOK(e)'
  BY <1>4, EndCovers DEF Refuse, Fail
<1>5. ASSUME NEW i \in Identity, Exists(e, i) \/ Stage(e, i) PROVE ExecutionOK(e)'
  BY <1>5, WriteCovers
<1>6. CASE Rename(e) \/ ReadBack(e) \/ Complete(e)
  BY <1>6, RenameCovers, ReadBackCovers, CompleteKeeps
<1> QED BY <1>1, <1>2, <1>3, <1>4, <1>5, <1>6 DEF Extraction

LEMMA CoverStep ==
  ASSUME RootInv, CoverInv, [Next]_vars
  PROVE  CoverInv'
<1>1. RootGrows
  BY RootStep DEF RootGrows
<1>2. ASSUME NEW e \in Extractors, Extraction(e) PROVE CoverInv'
  <2>1. ExecutionOK(e)'
    BY <1>1, <1>2, ExtractionCovers DEF CoverInv
  <2>2. ASSUME NEW f \in Extractors \ {e} PROVE ExecutionOK(f)'
    BY <1>1, <1>2, OthersRest, OthersCover DEF CoverInv
  <2> QED BY <2>1, <2>2 DEF CoverInv
<1>3. ASSUME UNCHANGED <<root, extraction>> PROVE CoverInv'
  <2>1. UNCHANGED <<pc, existing, response, todo, target, stage, unavailable>>
    BY <1>3 DEF extraction
  <2> QED BY <1>1, <2>1, OthersCover DEF CoverInv
<1>4. ASSUME NEW u \in Runs, Sync(u) PROVE CoverInv'
  BY <1>3, <1>4, SyncLeavesRoot
<1>5. ASSUME NEW i \in Identity, CommitElsewhere(i) PROVE CoverInv'
  BY <1>3, <1>5 DEF CommitElsewhere
<1>6. CASE UNCHANGED vars
  BY <1>3, <1>6 DEF vars, extraction
<1> QED BY <1>2, <1>4, <1>5, <1>6 DEF Next

\* The inductive invariant of executions on a root: what an execution has planned and not
\* yet saved, reported or found readable is still ahead of it, and what it remembers can
\* be read, whatever others commit meanwhile.
THEOREM CoverInvariant == Spec => []CoverInv
<1>1. Init => CoverInv
  BY DEF Init, Nothing, CoverInv, ExecutionOK
<1>2. RootInv /\ CoverInv /\ [Next]_vars => CoverInv'
  BY CoverStep
<1> QED BY <1>1, <1>2, RootInvariant, PTL DEF Spec

\* An execution that reports completion has a readable source for every identity that it
\* does not report as unavailable, with --refresh the rows it was given: whatever was
\* there before, whatever failed, and whoever wrote to the root beside it.
THEOREM CompletionCovers == Spec => []CompleteCovers
<1>1. CoverInv => CompleteCovers
  BY DEF CoverInv, ExecutionOK, Covers, Attested, Committed, CompleteCovers
<1> QED BY <1>1, CoverInvariant, PTL

-----------------------------------------------------------------------------
(* What a sync run hands over *)

\* The root and S3 have the same readable source of identity i at path p.
InBoth(p, i) ==
  /\ p \in Path /\ p.identity = i
  /\ root[p] # Missing
  /\ bucket[p] = root[p]
  /\ Readable(p, bucket[p])

\* A run remembers what it has scanned while it uploads, and what it has uploaded, noted
\* or handed over is in the root and in S3.
RunOK(u) ==
  /\ phase[u] # "upload" => found[u] = Nothing /\ uploaded[u] = {}
  /\ \A i \in Identity :
       /\ found[u][i] # Missing => /\ found[u][i] \in Committed(i)
                                   /\ i \in uploaded[u] => InBoth(found[u][i], i)
       /\ progress[u][i] # Missing => InBoth(progress[u][i], i)
       /\ handoff[u] # Missing /\ handoff[u][i] # Missing => InBoth(handoff[u][i], i)

RunTypes ==
  /\ phase \in [Runs -> {"idle", "upload", "hand over"}]
  /\ found \in [Runs -> [Identity -> Path \cup {Missing}]]
  /\ uploaded \in [Runs -> SUBSET Identity]
  /\ progress \in [Runs -> [Identity -> Path \cup {Missing}]]
  /\ handoff \in [Runs -> [Identity -> Path \cup {Missing}] \cup {Missing}]
  /\ DOMAIN bucket = Path

HandInv == RunTypes /\ \A u \in Runs : RunOK(u)

\* So does S3.
BucketGrows == \A p \in Path : bucket[p] # Missing => bucket'[p] = bucket[p]

LEMMA InBothStays ==
  ASSUME RootGrows, BucketGrows, NEW i \in Identity, NEW p, InBoth(p, i)
  PROVE  InBoth(p, i)'
BY DEF RootGrows, BucketGrows, InBoth

LEMMA NothingFacts == Nothing \in [Identity -> Path \cup {Missing}]
                      /\ \A i \in Identity : Nothing[i] = Missing
BY DEF Nothing

\* A run at rest.
LEMMA OthersHand ==
  ASSUME RootGrows, BucketGrows, NEW u \in Runs, RunOK(u), phase'[u] = phase[u],
         found'[u] = found[u], uploaded'[u] = uploaded[u], progress'[u] = progress[u],
         handoff'[u] = handoff[u]
  PROVE  RunOK(u)'
<1>1. \A i \in Identity : \A p : InBoth(p, i) => InBoth(p, i)'
  BY InBothStays
<1>2. \A i \in Identity : found[u][i] \in Committed(i) => found[u][i] \in Committed(i)'
  BY DEF Committed, RootGrows
<1> QED BY <1>1, <1>2 DEF RunOK

LEMMA StopHands ==
  ASSUME HandInv, NEW u \in Runs, Stop(u), RootGrows, BucketGrows
  PROVE  RunTypes' /\ RunOK(u)'
<1>1. RunTypes'
  BY NothingFacts DEF Stop, HandInv, RunTypes
<1>2. found'[u] = Nothing /\ uploaded'[u] = {} /\ UNCHANGED <<progress, handoff>>
  BY DEF Stop, HandInv, RunTypes
<1>3. \A i \in Identity : \A p : InBoth(p, i) => InBoth(p, i)'
  BY InBothStays
<1> QED BY <1>1, <1>2, <1>3, NothingFacts DEF HandInv, RunOK

LEMMA SyncScanHands ==
  ASSUME HandInv, NEW u \in Runs, SyncScan(u), RootGrows, BucketGrows
  PROVE  RunTypes' /\ RunOK(u)'
<1> DEFINE scan == [i \in Identity |-> Latest(i)]
<1>1. \A i \in Identity : Latest(i) \in Committed(i) \cup {Missing}
  BY LatestFacts
<1>2. scan \in [Identity -> Path \cup {Missing}]
  BY <1>1 DEF Committed
<1>3. \A i \in Identity : scan[i] # Missing => scan[i] \in Committed(i)
  BY <1>1
<1>4. root' = root /\ UNCHANGED <<bucket, uploaded, progress, handoff>>
  BY DEF SyncScan
<1>5. CASE UNCHANGED <<found, phase>>
  BY <1>4, <1>5, OthersHand DEF HandInv, RunTypes
<1>6. CASE /\ found' = [found EXCEPT ![u] = scan]
           /\ phase' = [phase EXCEPT ![u] = "upload"]
  <2> HIDE DEF scan
  <2>1. RunTypes'
    BY <1>2, <1>4, <1>6 DEF HandInv, RunTypes
  <2>2. phase'[u] = "upload" /\ found'[u] = scan /\ uploaded'[u] = {}
    BY <1>4, <1>6 DEF SyncScan, HandInv, RunTypes, RunOK
  <2>3. \A i \in Identity : Committed(i)' = Committed(i)
    BY <1>4 DEF Committed
  <2>4. \A i \in Identity : \A p : InBoth(p, i) => InBoth(p, i)'
    BY InBothStays
  <2> QED BY <1>3, <1>4, <2>1, <2>2, <2>3, <2>4 DEF HandInv, RunOK
<1> QED BY <1>5, <1>6 DEF SyncScan

LEMMA UploadHands ==
  ASSUME HandInv, NEW u \in Runs, NEW i \in Identity, Upload(u, i), RootGrows, BucketGrows
  PROVE  RunTypes' /\ RunOK(u)'
<1>1. CASE Stop(u)
  BY <1>1, StopHands
<1>2. CASE ~Stop(u)
  <2>1. PICK p : p = found[u][i]
    OBVIOUS
  <2>2. /\ found[u][i] # Missing /\ phase[u] = "upload"
        /\ Readable(p, root[p])
        /\ bucket' = [bucket EXCEPT ![p] = root[p]]
        /\ uploaded' = [uploaded EXCEPT ![u] = @ \cup {i}]
        /\ UNCHANGED <<root, phase, found, progress, handoff>>
    BY <1>2, <2>1 DEF Upload, ToUpload
  <2>3. p \in Committed(i)
    BY <2>1, <2>2 DEF HandInv, RunOK
  <2>4. p \in Path /\ p.identity = i /\ root[p] # Missing
    BY <2>3 DEF Committed
  <2>5. InBoth(p, i)'
    BY <2>2, <2>4 DEF InBoth, HandInv, RunTypes
  <2>6. RunTypes'
    BY <2>2 DEF HandInv, RunTypes
  <2>7. uploaded'[u] = uploaded[u] \cup {i}
    BY <2>2 DEF HandInv, RunTypes
  <2>8. \A k \in Identity : \A q : InBoth(q, k) => InBoth(q, k)'
    BY InBothStays
  <2>9. \A k \in Identity : Committed(k)' = Committed(k)
    BY <2>2 DEF Committed
  <2> QED BY <2>1, <2>2, <2>5, <2>6, <2>7, <2>8, <2>9 DEF HandInv, RunOK
<1> QED BY <1>1, <1>2

LEMMA RecordHands ==
  ASSUME HandInv, NEW u \in Runs, Record(u), RootGrows, BucketGrows
  PROVE  RunTypes' /\ RunOK(u)'
<1> DEFINE noted == [i \in Identity |-> IF found[u][i] # Missing THEN found[u][i]
                                                                ELSE progress[u][i]]
<1>1. /\ phase[u] = "upload" /\ ToUpload(u) = {}
      /\ progress' = [progress EXCEPT ![u] = noted]
      /\ phase' = [phase EXCEPT ![u] = "hand over"]
      /\ found' = [found EXCEPT ![u] = Nothing]
      /\ uploaded' = [uploaded EXCEPT ![u] = {}]
      /\ UNCHANGED <<root, bucket, handoff>>
  BY DEF Record
<1>2. noted \in [Identity -> Path \cup {Missing}]
  <2>1. /\ found[u] \in [Identity -> Path \cup {Missing}]
        /\ progress[u] \in [Identity -> Path \cup {Missing}]
    BY DEF HandInv, RunTypes
  <2>2. \A i \in Identity : (IF found[u][i] # Missing THEN found[u][i] ELSE progress[u][i])
                               \in Path \cup {Missing}
    BY <2>1
  <2> QED BY <2>2
<1>3. \A i \in Identity : noted[i] # Missing => InBoth(noted[i], i)
  BY <1>1 DEF HandInv, RunOK, ToUpload
<1> HIDE DEF noted
<1>4. RunTypes'
  BY <1>1, <1>2, NothingFacts DEF HandInv, RunTypes
<1>5. progress'[u] = noted /\ found'[u] = Nothing /\ uploaded'[u] = {}
  BY <1>1 DEF HandInv, RunTypes
<1>6. \A i \in Identity : \A p : InBoth(p, i) => InBoth(p, i)'
  BY InBothStays
<1> QED BY <1>1, <1>3, <1>4, <1>5, <1>6, NothingFacts DEF HandInv, RunOK

LEMMA HandOverHands ==
  ASSUME HandInv, NEW u \in Runs, HandOver(u), RootGrows, BucketGrows
  PROVE  RunTypes' /\ RunOK(u)'
<1>1. PICK sources \in {Missing, progress[u]} :
        /\ phase[u] = "hand over"
        /\ phase' = [phase EXCEPT ![u] = "idle"]
        /\ handoff' = [handoff EXCEPT ![u] = sources]
        /\ UNCHANGED <<root, bucket, found, uploaded, progress>>
  BY DEF HandOver
<1>2. RunTypes'
  BY <1>1 DEF HandInv, RunTypes
<1>3. handoff'[u] \in {Missing, progress[u]} /\ phase'[u] = "idle"
  BY <1>1 DEF HandInv, RunTypes
<1>4. \A i \in Identity : \A p : InBoth(p, i) => InBoth(p, i)'
  BY InBothStays
<1>5. found[u] = Nothing /\ uploaded[u] = {}
  BY <1>1 DEF HandInv, RunOK
<1> QED BY <1>1, <1>2, <1>3, <1>4, <1>5, NothingFacts DEF HandInv, RunOK

LEMMA SyncHands ==
  ASSUME HandInv, NEW u \in Runs, Sync(u), RootGrows, BucketGrows
  PROVE  HandInv'
<1>1. RunTypes' /\ RunOK(u)'
  BY SyncScanHands, UploadHands, RecordHands, HandOverHands, StopHands DEF Sync, SyncCrash
<1>2. ASSUME NEW v \in Runs \ {u}
      PROVE  /\ phase'[v] = phase[v] /\ found'[v] = found[v] /\ uploaded'[v] = uploaded[v]
             /\ progress'[v] = progress[v] /\ handoff'[v] = handoff[v]
  BY DEF Sync, SyncScan, Upload, Record, HandOver, SyncCrash, Stop, HandInv, RunTypes
<1>3. \A v \in Runs \ {u} : RunOK(v)'
  BY <1>2, OthersHand DEF HandInv
<1> QED BY <1>1, <1>3 DEF HandInv

\* What is committed to S3 stays, whoever commits next to it.
LEMMA BucketStep ==
  ASSUME RootInv, HandInv, [Next]_vars
  PROVE  BucketGrows
<1>1. ASSUME NEW e \in Extractors, Extraction(e) PROVE bucket' = bucket
  BY <1>1 DEF Extraction, Scan, NothingToAsk, Exhaust, Respond, Keep, Skip, Refuse, Exists,
       Stage, Rename, ReadBack, Complete, Crash, Fail, End
<1>2. ASSUME NEW u \in Runs, NEW i \in Identity, Upload(u, i) PROVE BucketGrows
  <2>1. CASE bucket' = bucket
    BY <2>1 DEF BucketGrows
  <2>2. CASE bucket' # bucket
    <3>1. PICK p : bucket[p] \in {Missing, root[p]} /\ bucket' = [bucket EXCEPT ![p] = root[p]]
      BY <1>2, <2>2 DEF Upload, Stop
    <3> QED BY <3>1 DEF BucketGrows, HandInv, RunTypes
  <2> QED BY <2>1, <2>2
<1>3. ASSUME NEW u \in Runs, Sync(u), \A i \in Identity : ~Upload(u, i)
      PROVE  bucket' = bucket
  BY <1>3 DEF Sync, SyncScan, Record, HandOver, SyncCrash, Stop
<1>4. ASSUME NEW i \in Identity, CommitElsewhere(i) PROVE BucketGrows
  <2>1. PICK a \in Answers, n \in 1..MaxRevision :
          LET s == Source(i, n, Selected(a, i))
              versions == {p \in Path : p.identity = i /\ bucket[p] # Missing} IN
          /\ \A p \in versions : p.revision < n
          /\ bucket' = [bucket EXCEPT ![PathOf(s.manifest)] = s]
    BY <1>4 DEF CommitElsewhere
  <2> DEFINE s == Source(i, n, Selected(a, i))
             p == PathOf(s.manifest)
  <2>2. p.identity = i /\ p.revision = n
    BY DEF Source, ManifestOf, PathOf
  <2>3. bucket' = [bucket EXCEPT ![p] = s]
    BY <2>1
  <2>4. \A q \in Path : q.identity = i /\ bucket[q] # Missing => q.revision < n
    BY <2>1
  <2> HIDE DEF s, p
  <2>5. \A q \in Path : bucket[q] # Missing => q # p
    BY <2>2, <2>4
  <2> QED BY <2>3, <2>5 DEF BucketGrows, HandInv, RunTypes
<1>5. CASE UNCHANGED vars
  BY <1>5 DEF vars, BucketGrows
<1> QED BY <1>1, <1>2, <1>3, <1>4, <1>5 DEF Next, BucketGrows

LEMMA HandStep ==
  ASSUME RootInv, HandInv, [Next]_vars
  PROVE  HandInv'
<1>1. RootGrows /\ BucketGrows
  BY RootStep, BucketStep DEF RootGrows
<1>2. ASSUME NEW u \in Runs, Sync(u) PROVE HandInv'
  BY <1>1, <1>2, SyncHands
<1>3. ASSUME UNCHANGED sync, DOMAIN bucket' = DOMAIN bucket PROVE HandInv'
  <2>1. UNCHANGED <<phase, found, uploaded, progress, handoff>>
    BY <1>3 DEF sync
  <2>2. RunTypes'
    BY <1>3, <2>1 DEF HandInv, RunTypes
  <2> QED BY <1>1, <2>1, <2>2, OthersHand DEF HandInv
<1>4. ASSUME NEW e \in Extractors, Extraction(e)
      PROVE  UNCHANGED sync /\ bucket' = bucket
  BY <1>4 DEF Extraction, Scan, NothingToAsk, Exhaust, Respond, Keep, Skip, Refuse, Exists,
       Stage, Rename, ReadBack, Complete, Crash, Fail, End
<1>5. ASSUME NEW i \in Identity, CommitElsewhere(i)
      PROVE  UNCHANGED sync /\ DOMAIN bucket' = DOMAIN bucket
  BY <1>5 DEF CommitElsewhere
<1>6. CASE UNCHANGED vars
  BY <1>3, <1>6 DEF vars, sync
<1> QED BY <1>2, <1>3, <1>4, <1>5, <1>6 DEF Next

\* The inductive invariant of sync runs: what a run has uploaded of its scan is alike in
\* the root and in S3, and stays so.
THEOREM HandInvariant == Spec => []HandInv
<1>1. Init => HandInv
  BY NothingFacts DEF Init, HandInv, RunTypes, RunOK
<1>2. RootInv /\ HandInv /\ [Next]_vars => HandInv'
  BY HandStep
<1> QED BY <1>1, <1>2, RootInvariant, PTL DEF Spec

\* What a sync run hands over is in the root and in S3 alike, and load can verify it,
\* however often the run was interrupted and whatever others have put to S3.
THEOREM HandoffsAgree == Spec => []HandoffInBoth
<1>1. HandInv => HandoffInBoth
  BY DEF HandInv, RunOK, InBoth, HandoffInBoth
<1> QED BY <1>1, HandInvariant, PTL

-----------------------------------------------------------------------------
(* Types *)

\* The variables of executions; those of runs are RunTypes.
ExtractionTypes ==
  /\ pc \in [Extractors -> Ended \cup {"ask", "save", "rename", "read"}]
  /\ existing \in [Extractors -> [Identity -> Version \cup {Missing}]]
  /\ response \in [Extractors -> SUBSET UNION Answers]
  /\ todo \in [Extractors -> SUBSET Identity]
  /\ target \in [Extractors -> Path \cup {Missing}]
  /\ DOMAIN stage = Extractors
  /\ \A e \in Extractors : IF pc[e] = "rename" THEN IsSource(stage[e]) ELSE stage[e] = Missing
  /\ unavailable \in [Extractors -> SUBSET Identity]

BucketTypes == \A p \in Path : bucket[p] = Missing \/ IsSource(bucket[p])

StartTypes == starts \in [Extractors \cup Runs \cup {Elsewhere} -> Nat]

TypeInv == ExtractionTypes /\ BucketTypes /\ StartTypes

LEMMA KnownTypes ==
  ASSUME RootInv, NEW p \in Path, root[p] # Missing
  PROVE  Known(p) \in Version
<1>1. IsSource(root[p]) /\ root[p].manifest.checksum = root[p].data
  BY WrittenFacts DEF RootInv, RootWritten
<1> QED BY <1>1 DEF IsSource, Known, Version, Path

LEMMA EndTypes ==
  ASSUME ExtractionTypes, NEW e \in Extractors, NEW label \in Ended, End(e, label)
  PROVE  ExtractionTypes'
<1>1. Nothing \in [Identity -> Version \cup {Missing}] /\ label # "rename"
  BY DEF Nothing, Ended
<1> QED BY <1>1 DEF End, Goto, ExtractionTypes

LEMMA ScanTypes ==
  ASSUME RootInv, ExtractionTypes, NEW e \in Extractors, Scan(e)
  PROVE  ExtractionTypes'
<1> DEFINE scan == [i \in Identity |-> IF Scannable /\ Latest(i) # Missing
                                       THEN Known(Latest(i)) ELSE Missing]
<1>1. \A i \in Identity : Latest(i) # Missing => Known(Latest(i)) \in Version
  BY LatestFacts, KnownTypes DEF Committed
<1>2. scan \in [Identity -> Version \cup {Missing}]
  BY <1>1
<1>3. /\ existing' = [existing EXCEPT ![e] = scan]
      /\ response' = [response EXCEPT ![e] = {}]
      /\ unavailable' = [unavailable EXCEPT ![e] = {}]
      /\ pc[e] \in Ended
      /\ pc' = [pc EXCEPT ![e] = IF Scannable THEN "ask" ELSE "failed"]
      /\ UNCHANGED <<todo, target, stage>>
  BY DEF Scan, Goto
<1> HIDE DEF scan
<1>4. pc' \in [Extractors -> Ended \cup {"ask", "save", "rename", "read"}]
  BY <1>3 DEF ExtractionTypes, Ended
<1>5. \A f \in Extractors :
        IF pc'[f] = "rename" THEN IsSource(stage[f]) ELSE stage[f] = Missing
  BY <1>3 DEF ExtractionTypes, Ended
<1> QED BY <1>2, <1>3, <1>4, <1>5 DEF ExtractionTypes

LEMMA RespondTypes ==
  ASSUME ExtractionTypes, NEW e \in Extractors, Respond(e)
  PROVE  ExtractionTypes'
<1>1. PICK rows \in SUBSET UNION Answers :
        /\ response' = [response EXCEPT ![e] = rows]
        /\ todo' = [todo EXCEPT ![e] = {i \in Identity : i[1] \in Group(e)}]
        /\ pc' = [pc EXCEPT ![e] = IF \A r \in rows : r.reporter \in Group(e)
                                   THEN "save" ELSE "failed"]
  BY DEF Respond, Goto
<1>2. /\ pc[e] = "ask" /\ pc' \in [Extractors -> Ended \cup {"ask", "save", "rename", "read"}]
      /\ pc'[e] # "rename" /\ \A f \in Extractors \ {e} : pc'[f] = pc[f]
  BY <1>1 DEF Respond, ExtractionTypes, Ended
<1>3. {i \in Identity : i[1] \in Group(e)} \in SUBSET Identity
  OBVIOUS
<1>4. UNCHANGED <<existing, target, stage, unavailable>>
  BY DEF Respond
<1> QED BY <1>1, <1>2, <1>3, <1>4 DEF ExtractionTypes

LEMMA WriteTypes ==
  ASSUME RootInv, ExtractionTypes, NEW e \in Extractors, NEW i \in Identity,
         Exists(e, i) \/ Stage(e, i)
  PROVE  ExtractionTypes'
<1>1. CASE Fail(e)
  BY <1>1, EndTypes DEF Fail, Ended
<1>2. CASE ~Fail(e)
  <2> DEFINE p == PathOf(New(e, i).manifest)
  <2>1. p \in Path /\ IsSource(New(e, i))
    BY NewFacts, WrittenFacts DEF Exists, Stage
  <2>2. /\ pc[e] = "save" /\ target' = [target EXCEPT ![e] = p]
        /\ UNCHANGED <<existing, response, todo, unavailable>>
        /\ \/ pc' = [pc EXCEPT ![e] = "read"] /\ stage' = stage
           \/ pc' = [pc EXCEPT ![e] = "rename"] /\ stage' = [stage EXCEPT ![e] = New(e, i)]
    BY <1>2 DEF Exists, Stage, Changed, Saving, Goto
  <2> HIDE DEF p
  <2> QED BY <2>1, <2>2 DEF ExtractionTypes
<1> QED BY <1>1, <1>2

LEMMA DiskTypes ==
  ASSUME RootInv, CoverInv, ExtractionTypes, NEW e \in Extractors, Rename(e) \/ ReadBack(e)
  PROVE  ExtractionTypes'
<1>1. CASE Fail(e)
  BY <1>1, EndTypes DEF Fail, Ended
<1>2. CASE ~Fail(e) /\ Rename(e)
  <2>1. /\ pc' = [pc EXCEPT ![e] = "read"] /\ stage' = [stage EXCEPT ![e] = Missing]
        /\ UNCHANGED <<existing, response, todo, target, unavailable>>
    BY <1>2 DEF Rename, Goto
  <2> QED BY <2>1 DEF ExtractionTypes
<1>3. CASE ~Fail(e) /\ ReadBack(e)
  <2>1. /\ pc[e] = "read" /\ pc' = [pc EXCEPT ![e] = "save"]
        /\ existing' = [existing EXCEPT ![e][target[e].identity] = Known(target[e])]
        /\ todo' = [todo EXCEPT ![e] = @ \ {target[e].identity}]
        /\ target' = [target EXCEPT ![e] = Missing]
        /\ UNCHANGED <<response, stage, unavailable>>
    BY <1>3 DEF ReadBack, Goto
  <2>2. target[e] \in Path /\ root[target[e]] # Missing
    BY <2>1 DEF RootInv, StagesWritten, CoverInv, ExecutionOK
  <2>3. Known(target[e]) \in Version
    BY <2>2, KnownTypes
  <2>4. existing' \in [Extractors -> [Identity -> Version \cup {Missing}]]
    BY <2>1, <2>3 DEF ExtractionTypes
  <2>5. todo' \in [Extractors -> SUBSET Identity]
    BY <2>1 DEF ExtractionTypes
  <2> QED BY <2>1, <2>4, <2>5 DEF ExtractionTypes
<1> QED BY <1>1, <1>2, <1>3

LEMMA ExtractionTypeStep ==
  ASSUME RootInv, CoverInv, ExtractionTypes, NEW e \in Extractors, Extraction(e)
  PROVE  ExtractionTypes'
<1>1. CASE Scan(e) \/ Respond(e)
  BY <1>1, ScanTypes, RespondTypes
<1>2. CASE NothingToAsk(e)
  BY <1>2 DEF NothingToAsk, Goto, ExtractionTypes, Ended
<1>3. CASE Exhaust(e) \/ Crash(e)
  BY <1>3, EndTypes DEF Exhaust, Crash, Fail, Ended
<1>4. ASSUME NEW i \in Identity, Keep(e, i) \/ Skip(e, i) PROVE ExtractionTypes'
  BY <1>4 DEF Keep, Skip, ExtractionTypes
<1>5. ASSUME NEW i \in Identity, Refuse(e, i) PROVE ExtractionTypes'
  BY <1>5, EndTypes DEF Refuse, Fail, Ended
<1>6. ASSUME NEW i \in Identity, Exists(e, i) \/ Stage(e, i) PROVE ExtractionTypes'
  BY <1>6, WriteTypes
<1>7. CASE Rename(e) \/ ReadBack(e)
  BY <1>7, DiskTypes
<1>8. CASE Complete(e)
  <2>1. Nothing \in [Identity -> Version \cup {Missing}]
    BY DEF Nothing
  <2> QED BY <1>8, <2>1 DEF Complete, Goto, ExtractionTypes, Ended
<1> QED BY <1>1, <1>2, <1>3, <1>4, <1>5, <1>6, <1>7, <1>8 DEF Extraction

LEMMA BucketTypeStep ==
  ASSUME RootInv, HandInv, BucketTypes, [Next]_vars
  PROVE  BucketTypes'
<1>1. ASSUME NEW u \in Runs, NEW i \in Identity, Upload(u, i), bucket' # bucket
      PROVE  BucketTypes'
  <2>1. PICK p : /\ p = found[u][i] /\ found[u][i] # Missing
                 /\ bucket' = [bucket EXCEPT ![p] = root[p]]
    BY <1>1 DEF Upload, Stop, ToUpload
  <2>2. p \in Path /\ root[p] # Missing
    BY <2>1 DEF HandInv, RunOK, Committed
  <2>3. IsSource(root[p])
    BY <2>2, WrittenFacts DEF RootInv, RootWritten
  <2> QED BY <2>1, <2>2, <2>3 DEF BucketTypes, HandInv, RunTypes
<1>2. ASSUME NEW i \in Identity, CommitElsewhere(i) PROVE BucketTypes'
  <2>1. PICK a \in Answers, n \in 1..MaxRevision :
          bucket' = [bucket EXCEPT ![PathOf(Source(i, n, Selected(a, i)).manifest)] =
                                     Source(i, n, Selected(a, i))]
    BY <1>2 DEF CommitElsewhere
  <2> DEFINE s == Source(i, n, Selected(a, i))
  <2>2. IsSource(s)
    BY DEF IsSource, Source, ManifestOf, Selected
  <2> HIDE DEF s
  <2>3. bucket' = [bucket EXCEPT ![PathOf(s.manifest)] = s]
    BY <2>1 DEF s
  <2> QED BY <2>2, <2>3 DEF BucketTypes, HandInv, RunTypes
<1>3. CASE bucket' = bucket
  BY <1>3 DEF BucketTypes, IsSource
<1>4. ASSUME NEW e \in Extractors, Extraction(e) PROVE bucket' = bucket
  BY <1>4 DEF Extraction, Scan, NothingToAsk, Exhaust, Respond, Keep, Skip, Refuse, Exists,
       Stage, Rename, ReadBack, Complete, Crash, Fail, End
<1>5. ASSUME NEW u \in Runs, Sync(u), \A i \in Identity : ~Upload(u, i)
      PROVE  bucket' = bucket
  BY <1>5 DEF Sync, SyncScan, Record, HandOver, SyncCrash, Stop
<1> QED BY <1>1, <1>2, <1>3, <1>4, <1>5 DEF Next, vars

LEMMA StartTypeStep ==
  ASSUME StartTypes, [Next]_vars
  PROVE  StartTypes'
<1>1. CASE starts' = starts
  BY <1>1 DEF StartTypes
<1>2. ASSUME NEW x, starts' = [starts EXCEPT ![x] = @ + 1]
      PROVE  StartTypes'
  <2> DEFINE X == Extractors \cup Runs \cup {Elsewhere}
  <2>1. starts \in [X -> Nat] /\ (x \in X => starts[x] + 1 \in Nat)
    BY DEF StartTypes
  <2> HIDE DEF X
  <2>2. starts' \in [X -> Nat]
    BY <1>2, <2>1
  <2> QED BY <2>2 DEF StartTypes, X
<1>3. ASSUME NEW e \in Extractors, Extraction(e)
      PROVE  starts' = starts \/ \E x : starts' = [starts EXCEPT ![x] = @ + 1]
  BY <1>3 DEF Extraction, Scan, NothingToAsk, Exhaust, Respond, Keep, Skip, Refuse, Exists,
       Stage, Rename, ReadBack, Complete, Crash, Fail, End, Begins
<1>4. ASSUME NEW u \in Runs, Sync(u)
      PROVE  starts' = starts \/ \E x : starts' = [starts EXCEPT ![x] = @ + 1]
  BY <1>4 DEF Sync, SyncScan, Upload, Record, HandOver, SyncCrash, Stop, Begins
<1>5. ASSUME NEW i \in Identity, CommitElsewhere(i)
      PROVE  \E x : starts' = [starts EXCEPT ![x] = @ + 1]
  BY <1>5 DEF CommitElsewhere, Begins
<1> QED BY <1>1, <1>2, <1>3, <1>4, <1>5 DEF Next, vars

LEMMA TypeStep ==
  ASSUME RootInv, CoverInv, HandInv, TypeInv, [Next]_vars
  PROVE  TypeInv'
<1>1. BucketTypes' /\ StartTypes'
  BY BucketTypeStep, StartTypeStep DEF TypeInv
<1>2. CASE UNCHANGED extraction
  <2>1. UNCHANGED <<pc, existing, response, todo, target, stage, unavailable>>
    BY <1>2 DEF extraction
  <2> QED BY <1>1, <2>1 DEF TypeInv, ExtractionTypes, IsSource
<1>3. ASSUME NEW e \in Extractors, Extraction(e) PROVE TypeInv'
  BY <1>1, <1>3, ExtractionTypeStep DEF TypeInv
<1>4. ASSUME NEW u \in Runs, Sync(u) PROVE UNCHANGED extraction
  BY <1>4, SyncLeavesRoot
<1>5. ASSUME NEW i \in Identity, CommitElsewhere(i) PROVE UNCHANGED extraction
  BY <1>5 DEF CommitElsewhere
<1>6. CASE UNCHANGED vars
  BY <1>2, <1>6 DEF vars, extraction
<1> QED BY <1>2, <1>3, <1>4, <1>5, <1>6 DEF Next

\* Directories, objects and records keep their shape, and a hidden directory is there
\* only for a rename to come.
THEOREM TypesHold == Spec => []TypeOK
<1>1. Init => TypeInv
  <2> SUFFICES ASSUME Init PROVE TypeInv
    OBVIOUS
  <2>1. Nothing \in [Identity -> Version \cup {Missing}]
    BY DEF Nothing
  <2>2. ExtractionTypes
    BY <2>1 DEF Init, ExtractionTypes, Ended
  <2> QED BY <2>2 DEF Init, TypeInv, BucketTypes, StartTypes
<1>2. RootInv /\ CoverInv /\ HandInv /\ TypeInv /\ [Next]_vars => TypeInv'
  BY TypeStep
<1>3. RootInv /\ HandInv /\ TypeInv => TypeOK
  <2> SUFFICES ASSUME RootInv, HandInv, TypeInv PROVE TypeOK
    OBVIOUS
  <2>1. \A p \in Path : root[p] = Missing \/ IsSource(root[p])
    BY WrittenFacts DEF RootInv, RootWritten
  <2> QED BY <2>1 DEF TypeInv, ExtractionTypes, BucketTypes, StartTypes, HandInv, RunTypes,
                     TypeOK
<1> QED BY <1>1, <1>2, <1>3, RootInvariant, CoverInvariant, HandInvariant, PTL DEF Spec

=============================================================================
