--------------------------- MODULE PipelineProofs ---------------------------
(***************************************************************************)
(* Theorems about Pipeline, for every set of runs, scopes and bounds.      *)
(***************************************************************************)
EXTENDS Pipeline, TLAPS

-----------------------------------------------------------------------------
(* Months, loads and the history *)

\* A commit lengthens the history by the new state of the Raw tables and keeps
\* every earlier one.
LEMMA AppendFacts ==
  ASSUME NEW s \in Seq(Rows), NEW x \in Rows
  PROVE  /\ Append(s, x) \in Seq(Rows)
         /\ Len(Append(s, x)) = Len(s) + 1
         /\ Append(s, x)[Len(s) + 1] = x
         /\ \A i \in 1..Len(s) : Append(s, x)[i] = s[i]
OBVIOUS

\* A commit installs a revision of the month and leaves a new state of the tables.
LEMMA CommitFacts ==
  ASSUME TypeOK, NEW m \in Months, NEW v \in Revision, Commit(m, v)
  PROVE  /\ raw' \in Rows
         /\ history' \in Seq(Rows)
         /\ Len(history') = Len(history) + 1
         /\ Watermark' = Watermark + 1
         /\ history'[Len(history')] = raw'
         /\ \A i \in 1..Len(history) : history'[i] = history[i]
         /\ raw'[m] = v
         /\ \A n \in Months \ {m} : raw'[n] = raw[n]
<1>1. raw' \in Rows
  BY DEF Commit, TypeOK, Rows
<1>2. raw'[m] = v /\ \A n \in Months \ {m} : raw'[n] = raw[n]
  BY DEF Commit, TypeOK, Rows
<1>3. history \in Seq(Rows) /\ history' = Append(history, raw')
  BY DEF TypeOK, Commit
<1> QED BY <1>1, <1>2, <1>3, AppendFacts DEF Watermark

\* Rows of the Raw tables, for some of the months, make a fact refresh.
LEMMA RefreshTyped ==
  ASSUME NEW w \in Workers, evidence[w] \in Evidence, raw \in Rows, NEW S \in SUBSET Months
  PROVE  Refresh(w, [m \in S |-> raw[m]]) \in Merge
<1>1. [m \in S |-> raw[m]] \in [S -> Revision]
  BY DEF Rows
<1>2. [m \in S |-> raw[m]] \in UNION {[T -> Revision] : T \in SUBSET Months}
  BY <1>1
<1>3. RunOf[w] \in Runs /\ evidence[w].attempt \in Attempt
  BY PipelineAssumption DEF Evidence
<1> QED BY <1>2, <1>3 DEF Merge, Refresh

\* A fact refresh has a revision for each of its months.
LEMMA MergeRows ==
  ASSUME NEW j \in Merge
  PROVE  /\ DOMAIN j.rows \subseteq Months
         /\ \A m \in DOMAIN j.rows : j.rows[m] \in Revision
<1>1. j.rows \in UNION {[S -> Revision] : S \in SUBSET Months}
  BY DEF Merge
<1>2. PICK S \in SUBSET Months : j.rows \in [S -> Revision]
  BY <1>1
<1> QED BY <1>2

-----------------------------------------------------------------------------
(* Type correctness, with the chain of handoffs it rests on *)

ChainInv == TypeOK /\ HandoffChain /\ history # <<>>

\* The initial states are typed and no stage has run.
LEMMA ChainInit == Init => ChainInv
<1> SUFFICES ASSUME Init PROVE ChainInv
  OBVIOUS
<1>1. raw \in Rows /\ sources \in Rows /\ facts \in Rows
  BY PipelineAssumption DEF Init, Rows, Revision
<1>2. history \in Seq(Rows)
  BY <1>1 DEF Init
<1>3. TypeOK
  <2>1. /\ late \subseteq [month : Months, revision : Revision, seen : Revision]
        /\ merging \subseteq Merge
        /\ exists \in BOOLEAN
        /\ view \in {0} \cup {End[r] : r \in Runs}
        /\ build \in Build \cup {Nothing}
        /\ starts \in 0..MaxStarts
    <3>1. MaxStarts \in Nat
      BY PipelineAssumption
    <3>2. late = {} /\ merging = {} /\ exists = FALSE /\ build = Nothing
      BY DEF Init
    <3>3. view \in {0} \cup {End[r] : r \in Runs}
      BY DEF Init
    <3>4. starts \in 0..MaxStarts
      BY <3>1 DEF Init
    <3> QED BY <3>2, <3>3, <3>4
  <2>2. /\ extracted \in [Runs -> Rows \cup {Nothing}]
        /\ loaded \in [Runs -> BOOLEAN]
        /\ attempt \in [Runs -> Nat]
        /\ transformed \in [Runs -> Evidence \cup {Nothing}]
        /\ published \in [Runs -> Release \cup {Nothing}]
    BY DEF Init
  <2>3. /\ pc \in [Workers -> {"idle", "load", "build", "marts", "after", "evidence", "read",
                              "check", "upload"}]
        /\ todo \in [Workers -> SUBSET Months]
        /\ evidence \in [Workers -> Evidence \cup {Nothing}]
        /\ snapshot \in [Workers -> Snapshot \cup {Nothing}]
    BY DEF Init
  <2> QED BY <1>1, <1>2, <2>1, <2>2, <2>3 DEF TypeOK
<1>4. HandoffChain
  BY PipelineAssumption DEF Init, HandoffChain
<1>5. history # <<>>
  BY DEF Init
<1> QED BY <1>3, <1>4, <1>5 DEF ChainInv

\* The labels of a stage.
Labels == {"idle", "load", "build", "marts", "after", "evidence", "read", "check", "upload"}

\* A stage that ends forgets what it was doing and touches nothing else.
LEMMA StopTyped ==
  ASSUME TypeOK, NEW w \in Workers, Stop(w)
  PROVE  /\ pc' \in [Workers -> Labels]
         /\ todo' \in [Workers -> SUBSET Months]
         /\ evidence' \in [Workers -> Evidence \cup {Nothing}]
         /\ snapshot' \in [Workers -> Snapshot \cup {Nothing}]
         /\ pc'[w] = "idle" /\ evidence'[w] = Nothing
         /\ \A v \in Workers \ {w} : /\ pc'[v] = pc[v] /\ todo'[v] = todo[v]
                                     /\ evidence'[v] = evidence[v] /\ snapshot'[v] = snapshot[v]
BY DEF TypeOK, Stop, Goto, Labels

\* Writing extract.json keeps the types: its revisions are those of S3 Raw.
LEMMA ExtractTyped ==
  ASSUME TypeOK, NEW r \in Runs, Extract(r)
  PROVE  TypeOK'
<1>1. sources' \in Rows
  <2>1. PICK revised \in SUBSET Scope[r] :
          /\ \A m \in revised : sources[m] < MaxRevision
          /\ sources' = [m \in Months |-> IF m \in revised THEN sources[m] + 1 ELSE sources[m]]
    BY DEF Extract
  <2>2. \A m \in Months : sources[m] \in 0..MaxRevision
    BY DEF TypeOK, Rows, Revision
  <2> DEFINE next(m) == IF m \in revised THEN sources[m] + 1 ELSE sources[m]
  <2>3. \A m \in Months : next(m) \in 0..MaxRevision
    <3>1. MaxRevision \in Nat
      BY PipelineAssumption
    <3>2. \A m \in revised : sources[m] < MaxRevision
      BY <2>1
    <3> QED BY <2>2, <3>1, <3>2
  <2>4. sources' = [m \in Months |-> next(m)]
    BY <2>1
  <2> HIDE DEF next
  <2>5. sources' \in [Months -> 0..MaxRevision]
    BY <2>3, <2>4
  <2> QED BY <2>5 DEF Rows, Revision
<1>2. [m \in Months |-> IF m \in Scope[r] THEN sources'[m] ELSE 0] \in Rows
  BY <1>1, PipelineAssumption DEF Rows, Revision
<1>3. extracted' \in [Runs -> Rows \cup {Nothing}]
  BY <1>2 DEF Extract, TypeOK
<1> QED BY <1>1, <1>3 DEF TypeOK, Extract, warehouse, local

\* Loading a month keeps the types: a month still to load has a source.
LEMMA LoadMonthTyped ==
  ASSUME ChainInv, NEW w \in Workers, LoadMonth(w)
  PROVE  TypeOK'
<1>1. TypeOK /\ extracted[RunOf[w]] # Nothing
  BY DEF ChainInv, HandoffChain, LoadMonth
<1>2. PICK m \in todo[w] :
       IF raw[m] > Handed(w, m)
       THEN Stop(w) /\ UNCHANGED <<raw, history>>
       ELSE /\ todo' = [todo EXCEPT ![w] = @ \ {m}]
            /\ IF raw[m] = Handed(w, m)
               THEN UNCHANGED <<raw, history>>
               ELSE Commit(m, Handed(w, m))
            /\ UNCHANGED <<pc, evidence, snapshot>>
  BY DEF LoadMonth
<1>3. m \in Months /\ Handed(w, m) \in Revision
  BY <1>1, PipelineAssumption DEF TypeOK, Rows, Handed
<1>4. raw' \in Rows /\ history' \in Seq(Rows)
  BY <1>1, <1>2, <1>3, CommitFacts DEF TypeOK
<1>5. CASE raw[m] > Handed(w, m)
  <2>1. Stop(w)
    BY <1>2, <1>5
  <2> QED BY <1>1, <1>4, <2>1, StopTyped DEF TypeOK, LoadMonth, handoffs, Labels
<1>6. CASE ~(raw[m] > Handed(w, m))
  <2>1. todo' \in [Workers -> SUBSET Months]
    <3>1. todo' = [todo EXCEPT ![w] = @ \ {m}]
      BY <1>2, <1>6
    <3>2. todo \in [Workers -> SUBSET Months]
      BY <1>1 DEF TypeOK
    <3> QED BY <3>1, <3>2
  <2> QED BY <1>1, <1>2, <1>4, <1>6, <2>1 DEF TypeOK, LoadMonth, handoffs
<1> QED BY <1>5, <1>6

\* A load script the stage gives up on is remembered with the month it will load.
LEMMA LoadTimeoutTyped ==
  ASSUME ChainInv, NEW w \in Workers, LoadTimeout(w)
  PROVE  TypeOK'
<1>1. TypeOK /\ extracted[RunOf[w]] # Nothing
  BY DEF ChainInv, HandoffChain, LoadTimeout
<1>2. PICK m \in todo[w] :
        late' = late \cup {[month |-> m, revision |-> Handed(w, m), seen |-> raw[m]]}
  BY DEF LoadTimeout
<1>3. m \in Months /\ Handed(w, m) \in Revision /\ raw[m] \in Revision
  BY <1>1, PipelineAssumption DEF TypeOK, Rows, Handed
<1>4. late' \subseteq [month : Months, revision : Revision, seen : Revision]
  BY <1>1, <1>2, <1>3 DEF TypeOK
<1>5. Stop(w)
  BY DEF LoadTimeout
<1> QED BY <1>1, <1>4, <1>5, StopTyped DEF TypeOK, LoadTimeout, handoffs, Labels

\* A late script changes the Raw tables as the load it belongs to would have.
LEMMA LateScriptTyped ==
  ASSUME TypeOK, LateScript
  PROVE  TypeOK'
<1>1. PICK j \in late :
        /\ late' = late \ {j}
        /\ IF raw[j.month] = j.seen THEN Commit(j.month, j.revision)
           ELSE UNCHANGED <<raw, history>>
  BY DEF LateScript
<1>2. j.month \in Months /\ j.revision \in Revision
  BY DEF TypeOK
<1>3. raw' \in Rows /\ history' \in Seq(Rows)
  BY <1>1, <1>2, CommitFacts DEF TypeOK
<1>4. late' \subseteq [month : Months, revision : Revision, seen : Revision]
  BY <1>1 DEF TypeOK
<1> QED BY <1>3, <1>4 DEF TypeOK, LateScript, handoffs, local

\* Replacing the months of a refresh leaves a revision in every month.
LEMMA MergeFactsKeepsTypes ==
  ASSUME TypeOK, MergeFacts
  PROVE  TypeOK'
<1>1. PICK j \in merging :
        /\ merging' = merging \ {j}
        /\ facts' = [m \in Months |-> IF m \in DOMAIN j.rows THEN j.rows[m] ELSE facts[m]]
  BY DEF MergeFacts
<1>2. j \in Merge
  BY DEF TypeOK
<1>3. \A m \in DOMAIN j.rows : j.rows[m] \in Revision
  BY <1>2, MergeRows
<1>4. \A m \in Months : facts[m] \in Revision
  BY DEF TypeOK, Rows
<1>5. facts' \in Rows
  BY <1>1, <1>3, <1>4 DEF Rows
<1>6. merging' \subseteq Merge
  BY <1>1 DEF TypeOK
<1>7. exists' \in BOOLEAN
  BY DEF MergeFacts
<1> QED BY <1>5, <1>6, <1>7 DEF TypeOK, MergeFacts, handoffs, local

\* The watermark of a history that is not empty counts its commits.
LEMMA WatermarkNat ==
  ASSUME ChainInv
  PROVE  Watermark \in Nat /\ Watermark + 1 = Len(history) /\ Len(history) \in Nat \ {0}
<1>1. history \in Seq(Rows) /\ history # <<>>
  BY DEF ChainInv, TypeOK
<1>2. Len(history) \in Nat \ {0}
  BY <1>1
<1> QED BY <1>2 DEF Watermark

\* Starting a stage counts it and reaches its first label.
LEMMA BeginTyped ==
  ASSUME TypeOK, NEW w \in Workers, Begin(w)
  PROVE  starts' \in 0..MaxStarts
<1>1. MaxStarts \in Nat
  BY PipelineAssumption
<1> QED BY <1>1 DEF TypeOK, Begin

\* Going on reaches a label and leaves the others.
LEMMA GotoTyped ==
  ASSUME TypeOK, NEW w \in Workers, NEW label \in Labels, Goto(w, label)
  PROVE  /\ pc' \in [Workers -> Labels]
         /\ pc'[w] = label
         /\ \A v \in Workers \ {w} : pc'[v] = pc[v]
BY DEF TypeOK, Goto, Labels

\* The steps of load that do not commit keep the types.
LEMMA LoadStageTyped ==
  ASSUME ChainInv, NEW w \in Workers, StartLoad(w) \/ WriteLoad(w)
  PROVE  TypeOK'
<1>0. TypeOK /\ RunOf[w] \in Runs
  BY PipelineAssumption DEF ChainInv
<1>1. CASE StartLoad(w)
  <2>1. todo' \in [Workers -> SUBSET Months]
    <3>1. Loads(RunOf[w]) \in SUBSET Months
      BY DEF Loads
    <3> QED BY <1>0, <1>1, <3>1 DEF TypeOK, StartLoad
  <2>2. starts' \in 0..MaxStarts /\ pc' \in [Workers -> Labels]
    BY <1>0, <1>1, BeginTyped, GotoTyped DEF StartLoad, Labels
  <2> QED BY <1>0, <1>1, <2>1, <2>2 DEF TypeOK, StartLoad, warehouse, handoffs, Labels
<1>2. CASE WriteLoad(w)
  <2>1. loaded' \in [Runs -> BOOLEAN]
    BY <1>0, <1>2 DEF TypeOK, WriteLoad
  <2>2. Stop(w)
    BY <1>2 DEF WriteLoad
  <2> QED BY <1>0, <1>2, <2>1, <2>2, StopTyped DEF TypeOK, WriteLoad, warehouse, Labels
<1> QED BY <1>1, <1>2

\* The steps of transform keep the types of the facts, the views and the records.
LEMMA BuildTyped ==
  ASSUME ChainInv, NEW w \in Workers,
         \/ StartTransform(w) \/ RebuildFacts(w) \/ SelectFacts(w)
         \/ BuildMarts(w) \/ WriteTransform(w)
  PROVE  TypeOK'
<1>0. TypeOK /\ Watermark \in Nat /\ RunOf[w] \in Runs
  BY WatermarkNat, PipelineAssumption DEF ChainInv
<1>a. pc[w] \in {"build", "marts", "after"} => evidence[w] \in Evidence
  BY <1>0 DEF ChainInv, HandoffChain, TypeOK
<1>1. CASE StartTransform(w)
  <2>1. attempt' \in [Runs -> Nat] /\ attempt'[RunOf[w]] \in Attempt
    BY <1>0, <1>1 DEF TypeOK, StartTransform, Attempt
  <2>2. [attempt |-> attempt'[RunOf[w]], watermark |-> Watermark] \in Evidence
    BY <1>0, <2>1 DEF Evidence
  <2>3. evidence' \in [Workers -> Evidence \cup {Nothing}]
    BY <1>0, <1>1, <2>2 DEF TypeOK, StartTransform
  <2>4. starts' \in 0..MaxStarts /\ pc' \in [Workers -> Labels]
    BY <1>0, <1>1, BeginTyped, GotoTyped DEF StartTransform, Labels
  <2> QED BY <1>0, <1>1, <2>1, <2>3, <2>4 DEF TypeOK, StartTransform, warehouse, Labels
<1>2. CASE RebuildFacts(w)
  <2>1. pc' \in [Workers -> Labels]
    BY <1>0, <1>2, GotoTyped DEF RebuildFacts, Labels
  <2>2. raw \in Rows /\ raw = [m \in Months |-> raw[m]]
    BY <1>0 DEF TypeOK, Rows
  <2>3. Refresh(w, raw) \in Merge
    BY <1>2, <1>a, <2>2, RefreshTyped DEF RebuildFacts
  <2>4. merging' \subseteq Merge
    BY <1>0, <1>2, <2>3 DEF TypeOK, RebuildFacts
  <2> QED BY <1>0, <1>2, <2>1, <2>4 DEF TypeOK, RebuildFacts, handoffs, local, Labels
<1>3. CASE SelectFacts(w)
  <2>1. pc' \in [Workers -> Labels]
    BY <1>0, <1>3, GotoTyped DEF SelectFacts, Labels
  <2>2. Loads(RunOf[w]) \in SUBSET Months /\ raw \in Rows
    BY <1>0 DEF Loads, TypeOK
  <2>3. Refresh(w, [m \in Loads(RunOf[w]) |-> raw[m]]) \in Merge
    BY <1>3, <1>a, <2>2, RefreshTyped DEF SelectFacts
  <2>4. merging' \subseteq Merge
    BY <1>0, <1>3, <2>3 DEF TypeOK, SelectFacts
  <2> QED BY <1>0, <1>3, <2>1, <2>4 DEF TypeOK, SelectFacts, handoffs, local, Labels
<1>4. CASE BuildMarts(w)
  <2>1. PICK passed \in BOOLEAN :
          /\ build' = [run |-> RunOf[w], attempt |-> evidence[w].attempt, passed |-> passed]
          /\ view' \in {End[RunOf[w]]} \cup (IF passed THEN {} ELSE {view})
          /\ IF passed THEN Goto(w, "after") /\ UNCHANGED local ELSE Stop(w)
    BY <1>4 DEF BuildMarts
  <2>2. evidence[w].attempt \in Attempt
    BY <1>4, <1>a DEF BuildMarts, Evidence
  <2>3. build' \in Build \cup {Nothing}
    BY <1>0, <2>1, <2>2 DEF Build
  <2>4. view' \in {0} \cup {End[r] : r \in Runs}
    <3>1. view' = End[RunOf[w]] \/ view' = view
      BY <2>1
    <3> QED BY <1>0, <3>1 DEF TypeOK
  <2>5. /\ pc' \in [Workers -> Labels]
        /\ todo' \in [Workers -> SUBSET Months]
        /\ evidence' \in [Workers -> Evidence \cup {Nothing}]
        /\ snapshot' \in [Workers -> Snapshot \cup {Nothing}]
    <3>1. CASE passed
      BY <1>0, <2>1, <3>1, GotoTyped DEF TypeOK, local, Labels
    <3>2. CASE ~passed
      BY <1>0, <2>1, <3>2, StopTyped
    <3> QED BY <3>1, <3>2
  <2> QED BY <1>0, <1>4, <2>3, <2>4, <2>5 DEF TypeOK, BuildMarts, handoffs, Labels
<1>5. CASE WriteTransform(w)
  <2>1. evidence[w] \in Evidence
    BY <1>5, <1>a DEF WriteTransform
  <2>2. transformed' \in [Runs -> Evidence \cup {Nothing}]
    BY <1>0, <1>5, <2>1 DEF TypeOK, WriteTransform
  <2>3. Stop(w)
    BY <1>5 DEF WriteTransform
  <2> QED BY <1>0, <1>5, <2>2, <2>3, StopTyped DEF TypeOK, WriteTransform, warehouse, Labels
<1> QED BY <1>1, <1>2, <1>3, <1>4, <1>5

\* The checks of publish either go on or end the stage.
LEMMA CheckTyped ==
  ASSUME TypeOK, NEW w \in Workers, CheckEvidence(w) \/ CheckPublish(w)
  PROVE  TypeOK'
<1>1. UNCHANGED <<sources, warehouse, handoffs, starts>>
  BY DEF CheckEvidence, CheckPublish
<1>2. Stop(w) \/ ((\E label \in {"read", "upload"} : Goto(w, label)) /\ UNCHANGED local)
  BY DEF CheckEvidence, CheckPublish
<1>3. CASE Stop(w)
  BY <1>1, <1>3, StopTyped DEF TypeOK, warehouse, handoffs, Labels
<1>4. CASE (\E label \in {"read", "upload"} : Goto(w, label)) /\ UNCHANGED local
  <2>1. pc' \in [Workers -> Labels]
    BY <1>4, GotoTyped DEF Labels
  <2> QED BY <1>1, <1>4, <2>1 DEF TypeOK, warehouse, handoffs, local, Labels
<1> QED BY <1>2, <1>3, <1>4

\* The steps of publish, and a crash, keep the types of the snapshot and the release.
LEMMA PublishTyped ==
  ASSUME ChainInv, NEW w \in Workers,
         StartPublish(w) \/ ReadMarts(w) \/ WritePublish(w) \/ Crash(w)
  PROVE  TypeOK'
<1>0. TypeOK /\ RunOf[w] \in Runs
  BY PipelineAssumption DEF ChainInv
<1>1. CASE StartPublish(w)
  <2>1. starts' \in 0..MaxStarts /\ pc' \in [Workers -> Labels]
    BY <1>0, <1>1, BeginTyped, GotoTyped DEF StartPublish, Labels
  <2>2. evidence' \in [Workers -> Evidence \cup {Nothing}]
    BY <1>0, <1>1 DEF TypeOK, StartPublish
  <2> QED BY <1>0, <1>1, <2>1, <2>2 DEF TypeOK, StartPublish, warehouse, handoffs, Labels
<1>2. CASE ReadMarts(w)
  <2>1. CASE Stop(w)
    BY <1>0, <1>2, <2>1, StopTyped DEF TypeOK, ReadMarts, warehouse, handoffs, Labels
  <2>2. CASE ~Stop(w)
    <3>1. /\ snapshot' = [snapshot EXCEPT ![w] = [facts |-> facts, world |-> raw,
                                                       build |-> build]]
          /\ Goto(w, "check")
          /\ UNCHANGED <<todo, evidence>>
      BY <1>2, <2>2 DEF ReadMarts
    <3>2. [facts |-> facts, world |-> raw, build |-> build] \in Snapshot
      BY <1>0 DEF TypeOK, Snapshot
    <3>3. snapshot' \in [Workers -> Snapshot \cup {Nothing}]
      BY <1>0, <3>1, <3>2 DEF TypeOK
    <3>4. pc' \in [Workers -> Labels]
      BY <1>0, <3>1, GotoTyped DEF Labels
    <3> QED BY <1>0, <1>2, <3>1, <3>3, <3>4 DEF TypeOK, ReadMarts, warehouse, handoffs, Labels
  <2> QED BY <2>1, <2>2
<1>3. CASE WritePublish(w)
  <2>1. snapshot[w] \in Snapshot /\ evidence[w] \in Evidence
    BY <1>0, <1>3 DEF ChainInv, HandoffChain, TypeOK, WritePublish
  <2>2. [release |-> snapshot[w], watermark |-> evidence[w].watermark] \in Release
    BY <2>1 DEF Release, Evidence
  <2>3. published' \in [Runs -> Release \cup {Nothing}]
    BY <1>0, <1>3, <2>2 DEF TypeOK, WritePublish
  <2>4. Stop(w)
    BY <1>3 DEF WritePublish
  <2> QED BY <1>0, <1>3, <2>3, <2>4, StopTyped DEF TypeOK, WritePublish, warehouse, Labels
<1>4. CASE Crash(w)
  BY <1>0, <1>4, StopTyped DEF TypeOK, Crash, warehouse, handoffs, Labels
<1> QED BY <1>1, <1>2, <1>3, <1>4

\* Every step keeps the types.
LEMMA TypedStep ==
  ASSUME ChainInv, [Next]_vars
  PROVE  TypeOK'
<1>0. TypeOK
  BY DEF ChainInv
<1>1. CASE \E r \in Runs : Extract(r)
  BY <1>0, <1>1, ExtractTyped
<1>2. CASE \E w \in Workers : LoadMonth(w) \/ LoadTimeout(w)
  BY <1>2, LoadMonthTyped, LoadTimeoutTyped
<1>3. CASE \E w \in Workers : StartLoad(w) \/ WriteLoad(w)
  BY <1>3, LoadStageTyped
<1>4. CASE \E w \in Workers : \/ StartTransform(w) \/ RebuildFacts(w) \/ SelectFacts(w)
                              \/ BuildMarts(w) \/ WriteTransform(w)
  BY <1>4, BuildTyped
<1>5. CASE \E w \in Workers : StartPublish(w) \/ ReadMarts(w) \/ WritePublish(w) \/ Crash(w)
  BY <1>5, PublishTyped
<1>6. CASE \E w \in Workers : CheckEvidence(w) \/ CheckPublish(w)
  BY <1>0, <1>6, CheckTyped
<1>7. CASE LateScript \/ MergeFacts
  BY <1>0, <1>7, LateScriptTyped, MergeFactsKeepsTypes
<1>8. CASE UNCHANGED vars
  BY <1>0, <1>8 DEF TypeOK, vars, warehouse, handoffs, local
<1> QED BY <1>1, <1>2, <1>3, <1>4, <1>5, <1>6, <1>7, <1>8 DEF Next

-----------------------------------------------------------------------------
(* What a step does to a worker and to the records of a run *)

\* A step leaves a worker alone, ends or begins its stage, or takes the stage on.
WorkerChange(w) ==
  \/ pc'[w] = pc[w] /\ evidence'[w] = evidence[w] /\ snapshot'[w] = snapshot[w]
  \/ pc'[w] = "idle" /\ evidence'[w] = Nothing
  \/ /\ StartLoad(w)
     /\ pc'[w] = "load" /\ evidence'[w] = evidence[w]
  \/ /\ StartTransform(w)
     /\ pc'[w] = "build"
     /\ evidence'[w] = [attempt |-> attempt'[RunOf[w]], watermark |-> Watermark]
  \/ /\ RebuildFacts(w) \/ SelectFacts(w)
     /\ pc'[w] = "marts" /\ evidence'[w] = evidence[w]
  \/ /\ BuildMarts(w)
     /\ build' = [run |-> RunOf[w], attempt |-> evidence[w].attempt, passed |-> TRUE]
     /\ pc'[w] = "after" /\ evidence'[w] = evidence[w]
  \/ /\ StartPublish(w)
     /\ pc'[w] = "evidence" /\ evidence'[w] = transformed[RunOf[w]]
  \/ /\ CheckEvidence(w) /\ LatestSucceeded(w) /\ RawUnchanged(w)
     /\ pc'[w] = "read" /\ evidence'[w] = evidence[w]
  \/ /\ ReadMarts(w)
     /\ pc'[w] = "check" /\ evidence'[w] = evidence[w]
     /\ snapshot'[w] = [facts |-> facts, world |-> raw, build |-> build]
  \/ /\ CheckPublish(w) /\ RawUnchanged(w)
     /\ pc'[w] = "upload" /\ evidence'[w] = evidence[w] /\ snapshot'[w] = snapshot[w]

\* A stage that ends and a worker no action is about change in the first two ways.
LEMMA StopWorker ==
  ASSUME TypeOK, NEW v \in Workers, Stop(v), NEW w \in Workers
  PROVE  WorkerChange(w)
<1>1. CASE w = v
  BY <1>1, StopTyped DEF WorkerChange
<1>2. CASE w # v
  BY <1>2, StopTyped DEF WorkerChange
<1> QED BY <1>1, <1>2

\* Where no stage moves, a worker is as it was.
LEMMA IdleWorker ==
  ASSUME UNCHANGED <<pc, evidence, snapshot>>, NEW w \in Workers
  PROVE  WorkerChange(w)
BY DEF WorkerChange

\* A worker that takes no part keeps what it has.
LEMMA OtherWorker ==
  ASSUME TypeOK, NEW v \in Workers, NEW w \in Workers \ {v}, NEW label \in Labels,
         Goto(v, label),
         NEW x, \/ UNCHANGED evidence
                \/ evidence' = [evidence EXCEPT ![v] = x],
         NEW y, \/ UNCHANGED snapshot
                \/ snapshot' = [snapshot EXCEPT ![v] = y]
  PROVE  WorkerChange(w)
<1>1. pc'[w] = pc[w]
  BY GotoTyped
<1>2. evidence'[w] = evidence[w] /\ snapshot'[w] = snapshot[w]
  BY DEF TypeOK
<1> QED BY <1>1, <1>2 DEF WorkerChange

\* The steps of load, transform and publish take a stage from label to label.
LEMMA LoadWorker ==
  ASSUME TypeOK, NEW v \in Workers, NEW w \in Workers,
         \/ StartLoad(v) \/ LoadMonth(v) \/ LoadTimeout(v) \/ WriteLoad(v) \/ Crash(v)
  PROVE  WorkerChange(w)
<1>1. CASE StartLoad(v)
  <2>1. Goto(v, "load") /\ UNCHANGED <<evidence, snapshot>>
    BY <1>1 DEF StartLoad
  <2>2. pc'[v] = "load"
    BY <2>1, GotoTyped DEF Labels
  <2>3. CASE w = v
    BY <1>1, <2>1, <2>2, <2>3 DEF WorkerChange
  <2>4. CASE w # v
    BY <2>1, <2>4, OtherWorker DEF Labels
  <2> QED BY <2>3, <2>4
<1>2. CASE LoadMonth(v)
  <2>1. Stop(v) \/ UNCHANGED <<pc, evidence, snapshot>>
    BY <1>2 DEF LoadMonth
  <2> QED BY <2>1, StopWorker, IdleWorker
<1>3. CASE LoadTimeout(v) \/ WriteLoad(v) \/ Crash(v)
  BY <1>3, StopWorker DEF LoadTimeout, WriteLoad, Crash
<1> QED BY <1>1, <1>2, <1>3

\* The steps of transform take a stage from label to label.
LEMMA BuildWorker ==
  ASSUME TypeOK, NEW v \in Workers, NEW w \in Workers,
         \/ StartTransform(v) \/ RebuildFacts(v) \/ SelectFacts(v)
         \/ BuildMarts(v) \/ WriteTransform(v)
  PROVE  WorkerChange(w)
<1>1. CASE StartTransform(v)
  <2> DEFINE e == [attempt |-> attempt'[RunOf[v]], watermark |-> Watermark]
  <2>1. Goto(v, "build") /\ evidence' = [evidence EXCEPT ![v] = e] /\ UNCHANGED snapshot
    BY <1>1 DEF StartTransform
  <2> HIDE DEF e
  <2>2. pc'[v] = "build" /\ evidence'[v] = e
    BY <2>1, GotoTyped DEF Labels, TypeOK
  <2>3. CASE w = v
    BY <1>1, <2>2, <2>3 DEF WorkerChange, e
  <2>4. CASE w # v
    BY <2>1, <2>4, OtherWorker DEF Labels
  <2> QED BY <2>3, <2>4
<1>2. CASE RebuildFacts(v) \/ SelectFacts(v)
  <2>1. Goto(v, "marts") /\ UNCHANGED <<evidence, snapshot>>
    BY <1>2 DEF RebuildFacts, SelectFacts, local
  <2>2. pc'[v] = "marts"
    BY <2>1, GotoTyped DEF Labels
  <2>3. CASE w = v
    BY <1>2, <2>1, <2>2, <2>3 DEF WorkerChange
  <2>4. CASE w # v
    BY <2>1, <2>4, OtherWorker DEF Labels
  <2> QED BY <2>3, <2>4
<1>3. CASE BuildMarts(v)
  <2>1. \/ Stop(v)
        \/ /\ build' = [run |-> RunOf[v], attempt |-> evidence[v].attempt, passed |-> TRUE]
           /\ Goto(v, "after") /\ UNCHANGED <<evidence, snapshot>>
    BY <1>3 DEF BuildMarts, local
  <2>2. CASE Stop(v)
    BY <2>2, StopWorker
  <2>3. CASE /\ build' = [run |-> RunOf[v], attempt |-> evidence[v].attempt, passed |-> TRUE]
             /\ Goto(v, "after") /\ UNCHANGED <<evidence, snapshot>>
    <3>1. pc'[v] = "after"
      BY <2>3, GotoTyped DEF Labels
    <3>2. CASE w = v
      BY <1>3, <2>3, <3>1, <3>2 DEF WorkerChange
    <3>3. CASE w # v
      BY <2>3, <3>3, OtherWorker DEF Labels
    <3> QED BY <3>2, <3>3
  <2> QED BY <2>1, <2>2, <2>3
<1>4. CASE WriteTransform(v)
  BY <1>4, StopWorker DEF WriteTransform
<1> QED BY <1>1, <1>2, <1>3, <1>4

\* The steps of publish do, each past the check it makes.
LEMMA PublishWorker ==
  ASSUME TypeOK, NEW v \in Workers, NEW w \in Workers,
         \/ StartPublish(v) \/ CheckEvidence(v) \/ ReadMarts(v)
         \/ CheckPublish(v) \/ WritePublish(v)
  PROVE  WorkerChange(w)
<1>1. CASE StartPublish(v)
  <2>1. /\ Goto(v, "evidence") /\ UNCHANGED snapshot
        /\ evidence' = [evidence EXCEPT ![v] = transformed[RunOf[v]]]
    BY <1>1 DEF StartPublish
  <2>2. pc'[v] = "evidence" /\ evidence'[v] = transformed[RunOf[v]]
    BY <2>1, GotoTyped DEF Labels, TypeOK
  <2>3. CASE w = v
    BY <1>1, <2>2, <2>3 DEF WorkerChange
  <2>4. CASE w # v
    BY <2>1, <2>4, OtherWorker DEF Labels
  <2> QED BY <2>3, <2>4
<1>2. CASE CheckEvidence(v)
  <2>1. \/ Stop(v)
        \/ /\ LatestSucceeded(v) /\ RawUnchanged(v)
           /\ Goto(v, "read") /\ UNCHANGED <<evidence, snapshot>>
    BY <1>2 DEF CheckEvidence, local
  <2>2. CASE Stop(v)
    BY <2>2, StopWorker
  <2>3. CASE /\ LatestSucceeded(v) /\ RawUnchanged(v)
             /\ Goto(v, "read") /\ UNCHANGED <<evidence, snapshot>>
    <3>1. pc'[v] = "read"
      BY <2>3, GotoTyped DEF Labels
    <3>2. CASE w = v
      BY <1>2, <2>3, <3>1, <3>2 DEF WorkerChange
    <3>3. CASE w # v
      BY <2>3, <3>3, OtherWorker DEF Labels
    <3> QED BY <3>2, <3>3
  <2> QED BY <2>1, <2>2, <2>3
<1>3. CASE ReadMarts(v)
  <2> DEFINE s == [facts |-> facts, world |-> raw, build |-> build]
  <2>1. \/ Stop(v)
        \/ /\ snapshot' = [snapshot EXCEPT ![v] = s]
           /\ Goto(v, "check") /\ UNCHANGED evidence
    BY <1>3 DEF ReadMarts
  <2> HIDE DEF s
  <2>2. CASE Stop(v)
    BY <2>2, StopWorker
  <2>3. CASE /\ snapshot' = [snapshot EXCEPT ![v] = s]
             /\ Goto(v, "check") /\ UNCHANGED evidence
    <3>1. pc'[v] = "check" /\ snapshot'[v] = s
      BY <2>3, GotoTyped DEF Labels, TypeOK
    <3>2. CASE w = v
      BY <1>3, <2>3, <3>1, <3>2 DEF WorkerChange, s
    <3>3. CASE w # v
      BY <2>3, <3>3, OtherWorker DEF Labels
    <3> QED BY <3>2, <3>3
  <2> QED BY <2>1, <2>2, <2>3
<1>4. CASE CheckPublish(v)
  <2>1. \/ Stop(v)
        \/ RawUnchanged(v) /\ Goto(v, "upload") /\ UNCHANGED <<evidence, snapshot>>
    BY <1>4 DEF CheckPublish, local
  <2>2. CASE Stop(v)
    BY <2>2, StopWorker
  <2>3. CASE RawUnchanged(v) /\ Goto(v, "upload") /\ UNCHANGED <<evidence, snapshot>>
    <3>1. pc'[v] = "upload"
      BY <2>3, GotoTyped DEF Labels
    <3>2. CASE w = v
      BY <1>4, <2>3, <3>1, <3>2 DEF WorkerChange
    <3>3. CASE w # v
      BY <2>3, <3>3, OtherWorker DEF Labels
    <3> QED BY <3>2, <3>3
  <2> QED BY <2>1, <2>2, <2>3
<1>5. CASE WritePublish(v)
  BY <1>5, StopWorker DEF WritePublish
<1> QED BY <1>1, <1>2, <1>3, <1>4, <1>5

\* Whatever the step is, a worker changes only in these ways.
LEMMA WorkerStep ==
  ASSUME TypeOK, [Next]_vars, NEW w \in Workers
  PROVE  WorkerChange(w)
<1>1. CASE (\E r \in Runs : Extract(r)) \/ LateScript \/ MergeFacts \/ UNCHANGED vars
  BY <1>1, IdleWorker DEF Extract, LateScript, MergeFacts, vars, local
<1>2. CASE \E v \in Workers : \/ StartLoad(v) \/ LoadMonth(v) \/ LoadTimeout(v)
                              \/ WriteLoad(v) \/ Crash(v)
  BY <1>2, LoadWorker
<1>3. CASE \E v \in Workers : \/ StartTransform(v) \/ RebuildFacts(v) \/ SelectFacts(v)
                              \/ BuildMarts(v) \/ WriteTransform(v)
  BY <1>3, BuildWorker
<1>4. CASE \E v \in Workers : \/ StartPublish(v) \/ CheckEvidence(v) \/ ReadMarts(v)
                              \/ CheckPublish(v) \/ WritePublish(v)
  BY <1>4, PublishWorker
<1> QED BY <1>1, <1>2, <1>3, <1>4 DEF Next

\* The records of a run change only when a worker of that run writes one.
Recorded(r) ==
  /\ extracted[r] # Nothing => extracted'[r] = extracted[r]
  /\ \/ loaded'[r] = loaded[r]
     \/ \E w \in Workers : RunOf[w] = r /\ WriteLoad(w) /\ loaded'[r]
  /\ \/ attempt'[r] = attempt[r]
     \/ \E w \in Workers : RunOf[w] = r /\ StartTransform(w) /\ attempt'[r] = attempt[r] + 1
  /\ \/ transformed'[r] = transformed[r]
     \/ \E w \in Workers : /\ RunOf[w] = r /\ WriteTransform(w) /\ RawUnchanged(w)
                           /\ transformed'[r] = evidence[w] /\ pc'[w] = "idle"
  /\ \/ published'[r] = published[r]
     \/ \E w \in Workers :
          /\ RunOf[w] = r /\ pc[w] = "upload" /\ pc'[w] = "idle"
          /\ published'[r] = [release |-> snapshot[w], watermark |-> evidence[w].watermark]

\* Whatever the step is, the records of a run change only in these ways.
LEMMA RecordStep ==
  ASSUME TypeOK, [Next]_vars, NEW r \in Runs
  PROVE  Recorded(r)
<1>1. ASSUME NEW q \in Runs, Extract(q)
      PROVE  Recorded(r)
  <2>1. extracted[r] # Nothing => extracted'[r] = extracted[r]
    BY <1>1 DEF Extract, TypeOK
  <2> QED BY <1>1, <2>1 DEF Extract, Recorded
<1>2. ASSUME NEW w \in Workers, WriteLoad(w)
      PROVE  Recorded(r)
  <2>1. IF RunOf[w] = r THEN loaded'[r] ELSE loaded'[r] = loaded[r]
    BY <1>2 DEF WriteLoad, TypeOK
  <2>2. UNCHANGED <<extracted, attempt, transformed, published>>
    BY <1>2 DEF WriteLoad
  <2> QED BY <1>2, <2>1, <2>2 DEF Recorded
<1>3. ASSUME NEW w \in Workers, StartTransform(w)
      PROVE  Recorded(r)
  <2>1. IF RunOf[w] = r THEN attempt'[r] = attempt[r] + 1 ELSE attempt'[r] = attempt[r]
    BY <1>3 DEF StartTransform, TypeOK
  <2>2. UNCHANGED <<extracted, loaded, transformed, published>>
    BY <1>3 DEF StartTransform
  <2> QED BY <1>3, <2>1, <2>2 DEF Recorded
<1>4. ASSUME NEW w \in Workers, WriteTransform(w)
      PROVE  Recorded(r)
  <2>1. pc'[w] = "idle"
    BY <1>4, StopTyped DEF WriteTransform
  <2>2. \/ transformed'[r] = transformed[r]
        \/ RunOf[w] = r /\ RawUnchanged(w) /\ transformed'[r] = evidence[w]
    BY <1>4 DEF WriteTransform, TypeOK, RawUnchanged
  <2>3. UNCHANGED <<extracted, loaded, attempt, published>>
    BY <1>4 DEF WriteTransform
  <2> QED BY <1>4, <2>1, <2>2, <2>3 DEF Recorded
<1>5. ASSUME NEW w \in Workers, WritePublish(w)
      PROVE  Recorded(r)
  <2>1. pc'[w] = "idle" /\ pc[w] = "upload"
    BY <1>5, StopTyped DEF WritePublish
  <2> DEFINE p == [release |-> snapshot[w], watermark |-> evidence[w].watermark]
  <2>2. IF RunOf[w] = r THEN published'[r] = p ELSE published'[r] = published[r]
    <3>1. published' = [published EXCEPT ![RunOf[w]] = p]
      BY <1>5 DEF WritePublish
    <3> HIDE DEF p
    <3> QED BY <3>1 DEF TypeOK
  <2>3. UNCHANGED <<extracted, loaded, attempt, transformed>>
    BY <1>5 DEF WritePublish
  <2> QED BY <2>1, <2>2, <2>3 DEF Recorded
<1>6. CASE UNCHANGED handoffs
  BY <1>6 DEF handoffs, Recorded
<1>7. CASE \E w \in Workers : \/ StartLoad(w) \/ LoadMonth(w) \/ LoadTimeout(w) \/ RebuildFacts(w)
                              \/ SelectFacts(w) \/ BuildMarts(w)
  BY <1>6, <1>7 DEF StartLoad, LoadMonth, LoadTimeout, RebuildFacts, SelectFacts, BuildMarts
<1>8. CASE \E w \in Workers : \/ StartPublish(w) \/ CheckEvidence(w) \/ ReadMarts(w)
                              \/ CheckPublish(w) \/ Crash(w)
  BY <1>6, <1>8 DEF StartPublish, CheckEvidence, ReadMarts, CheckPublish, Crash
<1>9. CASE LateScript \/ MergeFacts \/ UNCHANGED vars
  BY <1>6, <1>9 DEF LateScript, MergeFacts, vars
<1> QED BY <1>1, <1>2, <1>3, <1>4, <1>5, <1>7, <1>8, <1>9 DEF Next

\* A record stays, and the months of a run are fixed once extract.json is there.
LEMMA RecordsStay ==
  ASSUME TypeOK, [Next]_vars, NEW r \in Runs
  PROVE  /\ extracted[r] # Nothing => extracted'[r] # Nothing /\ Loads(r)' = Loads(r)
         /\ loaded[r] => loaded'[r]
<1>1. Recorded(r)
  BY RecordStep
<1>2. extracted[r] # Nothing => extracted'[r] # Nothing /\ Loads(r)' = Loads(r)
  BY <1>1 DEF Recorded, Loads
<1>3. loaded[r] => loaded'[r]
  BY <1>1 DEF Recorded
<1> QED BY <1>2, <1>3

\* Every step keeps the chain of handoffs.
LEMMA ChainStep ==
  ASSUME ChainInv, [Next]_vars
  PROVE  HandoffChain'
<1>0. TypeOK /\ HandoffChain
  BY DEF ChainInv
<1>1. ASSUME NEW r \in Runs
      PROVE  /\ loaded'[r] => extracted'[r] # Nothing
             /\ transformed'[r] # Nothing => loaded'[r]
  <2>1. Recorded(r)
    BY <1>0, RecordStep
  <2>2. loaded'[r] => extracted[r] # Nothing
    BY <1>0, <2>1 DEF Recorded, WriteLoad, HandoffChain
  <2>3. transformed'[r] # Nothing => loaded[r]
    BY <1>0, <2>1 DEF Recorded, WriteTransform, HandoffChain
  <2> QED BY <1>0, <2>2, <2>3, RecordsStay
<1>2. ASSUME NEW w \in Workers
      PROVE  /\ pc'[w] = "load" => extracted'[RunOf[w]] # Nothing
             /\ pc'[w] \in {"build", "marts", "after", "evidence", "read", "check", "upload"} =>
                  loaded'[RunOf[w]] /\ evidence'[w] # Nothing
             /\ pc'[w] \in {"check", "upload"} => snapshot'[w] \in Snapshot
  <2>1. WorkerChange(w) /\ RunOf[w] \in Runs
    BY <1>0, WorkerStep, PipelineAssumption
  <2>2. pc'[w] = "load" => extracted[RunOf[w]] # Nothing
    BY <1>0, <2>1 DEF WorkerChange, StartLoad, HandoffChain
  <2>3. pc'[w] \in {"build", "marts", "after", "evidence", "read", "check", "upload"} =>
          loaded[RunOf[w]]
    BY <1>0, <2>1 DEF WorkerChange, StartTransform, RebuildFacts, SelectFacts, BuildMarts,
       StartPublish, CheckEvidence, ReadMarts, CheckPublish, HandoffChain
  <2>4. evidence'[w] # Nothing \/ pc'[w] \in {"idle", "load"}
    <3>1. \A e \in Evidence : e # Nothing
      BY PipelineAssumption DEF Evidence, Attempt
    <3>2. StartTransform(w) => evidence'[w] # Nothing
      <4>1. StartTransform(w) => evidence'[w] \in Evidence
        <5> SUFFICES ASSUME StartTransform(w) PROVE evidence'[w] \in Evidence
          OBVIOUS
        <5>1. Watermark \in Nat
          BY WatermarkNat
        <5>2. evidence'[w] = [attempt |-> attempt'[RunOf[w]], watermark |-> Watermark]
          BY <1>0 DEF StartTransform, TypeOK
        <5>3. attempt'[RunOf[w]] \in Attempt
          BY <1>0, <2>1 DEF StartTransform, TypeOK, Attempt
        <5> QED BY <5>1, <5>2, <5>3 DEF Evidence
      <4> QED BY <3>1, <4>1
    <3> QED BY <1>0, <2>1, <3>2, PipelineAssumption DEF WorkerChange, RebuildFacts, SelectFacts,
          BuildMarts, StartPublish, CheckEvidence, ReadMarts, CheckPublish, HandoffChain,
          TypeOK, Labels
  <2>5. pc'[w] \in {"check", "upload"} => snapshot'[w] \in Snapshot
    <3>1. [facts |-> facts, world |-> raw, build |-> build] \in Snapshot
      BY <1>0 DEF TypeOK, Snapshot
    <3> QED BY <1>0, <2>1, <3>1 DEF WorkerChange, HandoffChain, CheckPublish
  <2> QED BY <1>0, <2>1, <2>2, <2>3, <2>4, <2>5, RecordsStay
<1> QED BY <1>1, <1>2 DEF HandoffChain

\* The history of the Raw tables only grows: a commit appends the new state, every
\* other step leaves history and tables alone.
LEMMA HistoryStep ==
  ASSUME ChainInv, [Next]_vars
  PROVE  \/ UNCHANGED <<raw, history>>
         \/ \E m \in Months, v \in Revision : Commit(m, v)
<1>0. TypeOK /\ HandoffChain
  BY DEF ChainInv
<1>1. ASSUME NEW w \in Workers, LoadMonth(w)
      PROVE  UNCHANGED <<raw, history>> \/ \E m \in Months, v \in Revision : Commit(m, v)
  <2>1. PICK m \in todo[w] : UNCHANGED <<raw, history>> \/ Commit(m, Handed(w, m))
    BY <1>1 DEF LoadMonth
  <2>2. m \in Months /\ Handed(w, m) \in Revision
    BY <1>0, <1>1, PipelineAssumption DEF TypeOK, Rows, HandoffChain, LoadMonth, Handed
  <2> QED BY <2>1, <2>2
<1>2. ASSUME LateScript
      PROVE  UNCHANGED <<raw, history>> \/ \E m \in Months, v \in Revision : Commit(m, v)
  <2>1. PICK j \in late : UNCHANGED <<raw, history>> \/ Commit(j.month, j.revision)
    BY <1>2 DEF LateScript
  <2>2. j.month \in Months /\ j.revision \in Revision
    BY <1>0 DEF TypeOK
  <2> QED BY <2>1, <2>2
<1>3. CASE \/ \E r \in Runs : Extract(r)
           \/ \E w \in Workers : \/ StartLoad(w) \/ LoadTimeout(w) \/ WriteLoad(w)
                                 \/ StartTransform(w) \/ WriteTransform(w)
  BY <1>3 DEF Extract, StartLoad, LoadTimeout, WriteLoad, StartTransform, WriteTransform,
              warehouse
<1>4. CASE \E w \in Workers : RebuildFacts(w) \/ SelectFacts(w) \/ BuildMarts(w)
  BY <1>4 DEF RebuildFacts, SelectFacts, BuildMarts
<1>5. CASE \E w \in Workers : \/ StartPublish(w) \/ CheckEvidence(w) \/ ReadMarts(w)
                              \/ CheckPublish(w) \/ WritePublish(w) \/ Crash(w)
  BY <1>5 DEF StartPublish, CheckEvidence, ReadMarts, CheckPublish, WritePublish, Crash,
              warehouse
<1>6. CASE MergeFacts
  BY <1>6 DEF MergeFacts
<1>7. CASE UNCHANGED vars
  BY <1>7 DEF vars, warehouse
<1> QED BY <1>1, <1>2, <1>3, <1>4, <1>5, <1>6, <1>7 DEF Next

\* The chain, the types and a history that is not empty are inductive.
LEMMA ChainInvStep ==
  ASSUME ChainInv, [Next]_vars
  PROVE  ChainInv'
<1>1. TypeOK' /\ HandoffChain'
  BY TypedStep, ChainStep
<1>2. history' # <<>>
  <2>1. CASE UNCHANGED <<raw, history>>
    BY <2>1 DEF ChainInv
  <2>2. CASE \E m \in Months, v \in Revision : Commit(m, v)
    <3>1. Len(history') = Len(history) + 1
      BY <2>2, CommitFacts DEF ChainInv
    <3>2. Len(history) \in Nat
      BY WatermarkNat
    <3> QED BY <3>1, <3>2
  <2> QED BY <2>1, <2>2, HistoryStep
<1> QED BY <1>1, <1>2 DEF ChainInv

\* Every reachable state is typed and a stage only ever runs on the records before it.
THEOREM PipelineChain == Spec => []ChainInv
<1>1. ChainInv /\ [Next]_vars => ChainInv'
  BY ChainInvStep
<1> QED BY ChainInit, <1>1, PTL DEF Spec

\* Every record, row and stage always has the shape the code gives it.
THEOREM PipelineTypeCorrect == Spec => []TypeOK
<1>1. ChainInv => TypeOK
  BY DEF ChainInv
<1> QED BY PipelineChain, <1>1, PTL

-----------------------------------------------------------------------------
(* A release shows the Raw tables of the watermark it names *)

\* History and tables after a step: the watermark does not go back, what was true at
\* a watermark stays on record, and the last entry is the tables as they are.
LEMMA HistoryGrows ==
  ASSUME ChainInv, HistoryCurrent, [Next]_vars
  PROVE  /\ Watermark' \in Nat
         /\ Watermark <= Watermark'
         /\ history'[Watermark' + 1] = raw'
         /\ \A w \in 0..Watermark : history'[w + 1] = history[w + 1]
<1>1. Watermark \in Nat /\ Watermark + 1 = Len(history)
  BY WatermarkNat
<1>2. CASE UNCHANGED <<raw, history>>
  <2>1. Watermark' = Watermark
    BY <1>2 DEF Watermark
  <2> QED BY <1>1, <1>2, <2>1 DEF HistoryCurrent
<1>3. CASE \E m \in Months, v \in Revision : Commit(m, v)
  <2>1. /\ Watermark' = Watermark + 1
        /\ Len(history') = Len(history) + 1
        /\ history'[Len(history')] = raw'
        /\ \A i \in 1..Len(history) : history'[i] = history[i]
    BY <1>3, CommitFacts DEF ChainInv
  <2>2. Len(history') = Watermark' + 1
    BY <1>1, <2>1
  <2>3. \A w \in 0..Watermark : w + 1 \in 1..Len(history)
    BY <1>1
  <2> QED BY <1>1, <2>1, <2>2, <2>3
<1> QED BY <1>2, <1>3, HistoryStep

\* What the publish invariant needs of one state: the watermarks of the records and
\* of the stages are in the history.
LEMMA WatermarksInHistory ==
  ASSUME ChainInv, HistoryCurrent
  PROVE  /\ Watermark \in Nat /\ Watermark + 1 = Len(history)
         /\ \A r \in Runs : transformed[r] # Nothing => transformed[r].watermark \in 0..Watermark
         /\ \A w \in Workers : evidence[w] # Nothing => evidence[w].watermark \in 0..Watermark
<1>1. Watermark \in Nat /\ Watermark + 1 = Len(history)
  BY WatermarkNat
<1>2. \A r \in Runs : transformed[r] # Nothing => transformed[r].watermark \in Nat
  BY DEF ChainInv, TypeOK, Evidence
<1>3. \A w \in Workers : evidence[w] # Nothing => evidence[w].watermark \in Nat
  BY DEF ChainInv, TypeOK, Evidence
<1> QED BY <1>1, <1>2, <1>3 DEF HistoryCurrent

\* Stages that read or write publish go by evidence.
LEMMA StagesHaveEvidence ==
  ASSUME ChainInv, NEW w \in Workers, pc[w] \notin {"idle", "load"}
  PROVE  evidence[w] \in Evidence /\ evidence[w] # Nothing /\ loaded[RunOf[w]]
BY DEF ChainInv, TypeOK, HandoffChain, Labels

\* No watermark that is recorded or gone by is ahead of the tables.
LEMMA HistoryCurrentStep ==
  ASSUME ChainInv, HistoryCurrent, [Next]_vars
  PROVE  HistoryCurrent'
<1>1. ChainInv' /\ TypeOK
  BY ChainInvStep DEF ChainInv
<1>2. /\ Watermark \in Nat /\ Watermark' \in Nat /\ Watermark <= Watermark'
      /\ history'[Watermark' + 1] = raw'
  BY HistoryGrows, WatermarkNat
<1>3. history'[Len(history')] = raw'
  <2>1. Len(history') \in Nat
    BY <1>1 DEF ChainInv, TypeOK
  <2>2. Watermark' + 1 = Len(history')
    BY <2>1 DEF Watermark
  <2> QED BY <1>2, <2>2
<1>4. ASSUME NEW x, x \in 0..Watermark
      PROVE  x <= Watermark'
  BY <1>2, <1>4
<1>5. ASSUME NEW r \in Runs, transformed'[r] # Nothing
      PROVE  transformed'[r].watermark <= Watermark'
  <2>1. \/ transformed'[r] = transformed[r]
        \/ \E w \in Workers : pc[w] = "after" /\ transformed'[r] = evidence[w]
    BY <1>1, RecordStep DEF Recorded, WriteTransform
  <2>2. transformed'[r].watermark \in 0..Watermark
    BY <1>5, <2>1, WatermarksInHistory
  <2> QED BY <1>4, <2>2
<1>6. ASSUME NEW w \in Workers, evidence'[w] # Nothing
      PROVE  evidence'[w].watermark <= Watermark'
  <2>1. \/ evidence'[w] = evidence[w]
        \/ evidence'[w] = transformed[RunOf[w]]
        \/ evidence'[w].watermark = Watermark
    <3>1. WorkerChange(w)
      BY <1>1, WorkerStep
    <3> QED BY <1>6, <3>1 DEF WorkerChange
  <2>2. evidence'[w].watermark \in 0..Watermark
    BY <1>2, <1>6, <2>1, WatermarksInHistory, PipelineAssumption
  <2> QED BY <1>4, <2>2
<1> QED BY <1>1, <1>3, <1>5, <1>6 DEF HistoryCurrent, ChainInv

\* What is read stays between the watermarks of the two checks.
LEMMA SnapshotBracketedStep ==
  ASSUME ChainInv, HistoryCurrent, SnapshotBracketed, [Next]_vars
  PROVE  SnapshotBracketed'
<1> SUFFICES ASSUME NEW w \in Workers
             PROVE  /\ pc'[w] = "check" =>
                         \E h \in evidence'[w].watermark..Watermark' :
                           snapshot'[w].world = history'[h + 1]
                    /\ pc'[w] = "upload" =>
                         snapshot'[w].world = history'[evidence'[w].watermark + 1]
  BY DEF SnapshotBracketed
<1>1. WorkerChange(w)
  BY WorkerStep DEF ChainInv
<1>2. /\ Watermark \in Nat /\ Watermark' \in Nat /\ Watermark <= Watermark'
      /\ \A h \in 0..Watermark : history'[h + 1] = history[h + 1]
  BY HistoryGrows, WatermarkNat
<1>3. pc[w] \in {"read", "check", "upload"} => evidence[w].watermark \in 0..Watermark
  BY StagesHaveEvidence, WatermarksInHistory
<1>4. ASSUME pc'[w] = "check"
      PROVE  \E h \in evidence'[w].watermark..Watermark' : snapshot'[w].world = history'[h + 1]
  <2>1. CASE pc[w] = "check" /\ evidence'[w] = evidence[w] /\ snapshot'[w] = snapshot[w]
    <3>1. PICK h \in evidence[w].watermark..Watermark : snapshot[w].world = history[h + 1]
      BY <2>1 DEF SnapshotBracketed
    <3>2. h \in 0..Watermark /\ h \in evidence[w].watermark..Watermark'
      BY <1>2, <1>3, <2>1, <3>1
    <3> QED BY <1>2, <2>1, <3>1, <3>2
  <2>2. CASE pc[w] = "read" /\ evidence'[w] = evidence[w] /\ snapshot'[w].world = raw
    <3>1. raw = history[Watermark + 1]
      BY <1>2, WatermarkNat DEF HistoryCurrent
    <3>2. Watermark \in 0..Watermark /\ Watermark \in evidence[w].watermark..Watermark'
      BY <1>2, <1>3, <2>2
    <3> QED BY <1>2, <2>2, <3>1, <3>2
  <2> QED BY <1>1, <1>4, <2>1, <2>2 DEF WorkerChange, ReadMarts
<1>5. ASSUME pc'[w] = "upload"
      PROVE  snapshot'[w].world = history'[evidence'[w].watermark + 1]
  <2>1. /\ evidence'[w] = evidence[w] /\ snapshot'[w] = snapshot[w]
        /\ pc[w] = "upload" \/ (pc[w] = "check" /\ RawUnchanged(w))
    BY <1>1, <1>5 DEF WorkerChange, CheckPublish
  <2>2. snapshot[w].world = history[evidence[w].watermark + 1]
    <3>1. CASE pc[w] = "upload"
      BY <3>1 DEF SnapshotBracketed
    <3>2. CASE pc[w] = "check" /\ RawUnchanged(w)
      <4>1. PICK h \in evidence[w].watermark..Watermark : snapshot[w].world = history[h + 1]
        BY <3>2 DEF SnapshotBracketed
      <4>2. h = evidence[w].watermark
        BY <1>2, <3>2, <4>1 DEF RawUnchanged
      <4> QED BY <4>1, <4>2
    <3> QED BY <2>1, <3>1, <3>2
  <2> QED BY <1>2, <1>3, <2>1, <2>2
<1> QED BY <1>4, <1>5

\* A release keeps the tables of its watermark, and a new one has them.
LEMMA ReleasedStep ==
  ASSUME ChainInv, HistoryCurrent, SnapshotBracketed, ReleasedAsOfWatermark, [Next]_vars
  PROVE  ReleasedAsOfWatermark'
<1> SUFFICES ASSUME NEW r \in Runs, published'[r] # Nothing
             PROVE  /\ published'[r].watermark < Len(history')
                    /\ published'[r].release.world = history'[published'[r].watermark + 1]
  BY DEF ReleasedAsOfWatermark
<1>1. /\ Watermark \in Nat /\ Watermark' \in Nat /\ Watermark <= Watermark'
      /\ Watermark + 1 = Len(history) /\ Watermark' + 1 = Len(history')
      /\ \A h \in 0..Watermark : history'[h + 1] = history[h + 1]
  <2>1. Watermark \in Nat /\ Watermark + 1 = Len(history)
    BY WatermarkNat
  <2>2. /\ Watermark' \in Nat /\ Watermark <= Watermark'
        /\ \A h \in 0..Watermark : history'[h + 1] = history[h + 1]
    BY HistoryGrows
  <2>3. Len(history') \in Nat
    BY ChainInvStep DEF ChainInv, TypeOK
  <2> QED BY <2>1, <2>2, <2>3 DEF Watermark
<1>2. /\ published'[r].watermark \in 0..Watermark
      /\ published'[r].release.world = history[published'[r].watermark + 1]
  <2>1. CASE published'[r] = published[r]
    <3>1. published[r].watermark \in Nat
      BY <2>1 DEF ChainInv, TypeOK, Release
    <3> QED BY <1>1, <2>1, <3>1 DEF ReleasedAsOfWatermark
  <2>2. \/ published'[r] = published[r]
        \/ \E w \in Workers :
             /\ pc[w] = "upload"
             /\ published'[r] = [release |-> snapshot[w], watermark |-> evidence[w].watermark]
    <3>1. Recorded(r)
      BY RecordStep DEF ChainInv
    <3> QED BY <3>1 DEF Recorded
  <2>3. ASSUME published'[r] # published[r]
        PROVE  /\ published'[r].watermark \in 0..Watermark
               /\ published'[r].release.world = history[published'[r].watermark + 1]
    <3>1. PICK w \in Workers :
            /\ pc[w] = "upload"
            /\ published'[r] = [release |-> snapshot[w], watermark |-> evidence[w].watermark]
      BY <2>2, <2>3
    <3>2. evidence[w].watermark \in 0..Watermark
      BY <3>1, StagesHaveEvidence, WatermarksInHistory
    <3>3. snapshot[w].world = history[evidence[w].watermark + 1]
      BY <3>1 DEF SnapshotBracketed
    <3>4. /\ published'[r].watermark = evidence[w].watermark
          /\ published'[r].release = snapshot[w]
      BY <3>1
    <3> QED BY <3>2, <3>3, <3>4
  <2> QED BY <2>1, <2>3
<1>3. published'[r].release.world = history'[published'[r].watermark + 1]
  BY <1>1, <1>2
<1>4. published'[r].watermark < Len(history')
  <2>1. published'[r].watermark \in 0..Watermark
    BY <1>2
  <2> QED BY <1>1, <2>1
<1> QED BY <1>3, <1>4

\* The publish invariant holds at first.
LEMMA PublishInit == Init => PublishInv
<1> SUFFICES ASSUME Init PROVE PublishInv
  OBVIOUS
<1>1. ChainInv
  BY ChainInit
<1>2. Len(history) = 1 /\ history[1] = raw
  BY DEF Init
<1>3. HistoryCurrent
  BY <1>2 DEF Init, HistoryCurrent, Watermark
<1>4. SnapshotBracketed /\ ReleasedAsOfWatermark
  BY DEF Init, SnapshotBracketed, ReleasedAsOfWatermark
<1> QED BY <1>1, <1>3, <1>4 DEF PublishInv, ChainInv

\* Every step keeps the publish invariant.
LEMMA PublishStep ==
  ASSUME PublishInv, [Next]_vars
  PROVE  PublishInv'
<1>1. ChainInv /\ HistoryCurrent /\ SnapshotBracketed /\ ReleasedAsOfWatermark
  BY DEF PublishInv, ChainInv, HistoryCurrent
<1>2. ChainInv' /\ HistoryCurrent' /\ SnapshotBracketed' /\ ReleasedAsOfWatermark'
  BY <1>1, ChainInvStep, HistoryCurrentStep, SnapshotBracketedStep, ReleasedStep
<1> QED BY <1>2 DEF PublishInv, ChainInv

\* What is read between two equal watermarks is the state of that watermark.
THEOREM PublishInvariant == Spec => []PublishInv
<1> QED BY PublishInit, PublishStep, PTL DEF Spec

\* In every state a release shows the Raw tables of the watermark its evidence
\* names, for any number of stages at the same time, of one run or of several, and
\* scripts that commit late.
THEOREM ReleasesAreOfOneWatermark == Spec => []ReleasedAsOfWatermark
<1>1. PublishInv => ReleasedAsOfWatermark
  BY DEF PublishInv
<1> QED BY PublishInvariant, <1>1, PTL

-----------------------------------------------------------------------------
(* One stage at a time: the facts only advance *)

\* A worker that begins a stage leaves the others as they are.
LEMMA BeginAlone ==
  ASSUME TypeOK, NEW v \in Workers, StartLoad(v) \/ StartTransform(v) \/ StartPublish(v)
  PROVE  Begin(v) /\ \A w \in Workers \ {v} : pc'[w] = pc[w]
<1>1. Begin(v) /\ \E label \in Labels : Goto(v, label)
  BY DEF StartLoad, StartTransform, StartPublish, Labels
<1> QED BY <1>1, GotoTyped

\* Whoever is busy after a step was busy before it or has just begun.
LEMMA BusyStep ==
  ASSUME TypeOK, [Next]_vars, NEW w \in Workers, pc'[w] # "idle"
  PROVE  pc[w] # "idle" \/ StartLoad(w) \/ StartTransform(w) \/ StartPublish(w)
<1>1. WorkerChange(w)
  BY WorkerStep
<1> QED BY <1>1 DEF WorkerChange, RebuildFacts, SelectFacts, BuildMarts, CheckEvidence, ReadMarts,
               CheckPublish

\* The fact table and the refreshes under way change in three actions only.
LEMMA FactsStep ==
  ASSUME [Next]_vars
  PROVE  \/ UNCHANGED <<facts, merging>>
         \/ /\ \E w \in Workers : RebuildFacts(w) \/ SelectFacts(w)
            /\ UNCHANGED facts
         \/ MergeFacts
<1>1. CASE \/ \E r \in Runs : Extract(r)
           \/ \E w \in Workers : \/ StartLoad(w) \/ WriteLoad(w) \/ StartTransform(w)
                                 \/ WriteTransform(w) \/ StartPublish(w) \/ CheckEvidence(w)
                                 \/ ReadMarts(w) \/ CheckPublish(w) \/ WritePublish(w)
                                 \/ Crash(w)
  BY <1>1 DEF Extract, StartLoad, WriteLoad, StartTransform, WriteTransform, StartPublish,
              CheckEvidence, ReadMarts, CheckPublish, WritePublish, Crash, warehouse
<1>2. CASE \E w \in Workers : LoadMonth(w) \/ LoadTimeout(w) \/ BuildMarts(w)
  BY <1>2 DEF LoadMonth, LoadTimeout, BuildMarts
<1>3. CASE \E w \in Workers : RebuildFacts(w) \/ SelectFacts(w)
  BY <1>3 DEF RebuildFacts, SelectFacts
<1>4. CASE LateScript
  BY <1>4 DEF LateScript
<1>5. CASE UNCHANGED vars
  BY <1>5 DEF vars, warehouse
<1> QED BY <1>1, <1>2, <1>3, <1>4, <1>5 DEF Next

\* A stage that reads Raw for dbt finds no refresh under way when stages execute one
\* at a time, and a build that goes on to the marts has seen its own replaced.
LEMMA NoMergeUnderway ==
  ASSUME OneStage, NEW w \in Workers, pc[w] # "idle", pc[w] # "marts" \/ BuildMarts(w)
  PROVE  merging = {}
<1>1. CASE pc[w] # "marts"
  BY <1>1 DEF OneStage
<1>2. CASE BuildMarts(w)
  BY <1>2 DEF OneStage, BuildMarts
<1> QED BY <1>1, <1>2

\* A refresh that begins is the only one and has the rows of the Raw tables, those of
\* the run's months at least.
LEMMA RefreshBegins ==
  ASSUME TypeOK, OneStage, NEW w \in Workers, RebuildFacts(w) \/ SelectFacts(w)
  PROVE  \E rows : /\ merging' = {Refresh(w, rows)}
                   /\ Loads(RunOf[w]) \subseteq DOMAIN rows
                   /\ DOMAIN rows \subseteq Months
                   /\ \A m \in DOMAIN rows : rows[m] = raw[m]
                   /\ raw' = raw
<1>1. merging = {}
  BY NoMergeUnderway DEF RebuildFacts, SelectFacts
<1>2. Loads(RunOf[w]) \subseteq Months /\ DOMAIN raw = Months
  BY DEF Loads, TypeOK, Rows
<1>3. CASE RebuildFacts(w)
  <2>1. merging' = {Refresh(w, raw)} /\ raw' = raw
    BY <1>1, <1>3 DEF RebuildFacts
  <2> QED BY <1>2, <2>1
<1>4. CASE SelectFacts(w)
  <2> DEFINE rows == [m \in Loads(RunOf[w]) |-> raw[m]]
  <2>1. merging' = {Refresh(w, rows)} /\ raw' = raw
    BY <1>1, <1>4 DEF SelectFacts
  <2>2. DOMAIN rows = Loads(RunOf[w]) /\ \A m \in DOMAIN rows : rows[m] = raw[m]
    OBVIOUS
  <2> HIDE DEF rows
  <2> QED BY <1>2, <2>1, <2>2
<1> QED BY <1>3, <1>4

\* While a refresh is under way, all that a step can do to the stages is end one.
LEMMA WhileMerging ==
  ASSUME Exclusive, OneStage, merging # {}, [Next]_vars, TypeOK
  PROVE  /\ \A w \in Workers : pc'[w] = "idle" \/ (pc'[w] = pc[w] /\ evidence'[w] = evidence[w])
         /\ merging' \subseteq merging
<1>1. \A w \in Workers : pc[w] \in {"idle", "marts"} /\ ~Begin(w) /\ ~BuildMarts(w)
  BY NoMergeUnderway DEF Begin, BuildMarts
<1>2. \A w \in Workers : pc'[w] = "idle" \/ (pc'[w] = pc[w] /\ evidence'[w] = evidence[w])
  <2> SUFFICES ASSUME NEW w \in Workers
               PROVE  pc'[w] = "idle" \/ (pc'[w] = pc[w] /\ evidence'[w] = evidence[w])
    OBVIOUS
  <2>1. WorkerChange(w)
    BY WorkerStep
  <2> QED BY <1>1, <2>1 DEF WorkerChange, StartLoad, StartTransform, StartPublish, RebuildFacts,
             SelectFacts, CheckEvidence, ReadMarts, CheckPublish
<1>3. merging' \subseteq merging
  BY <1>1, FactsStep DEF RebuildFacts, SelectFacts, MergeFacts
<1> QED BY <1>2, <1>3

\* At most one stage executes, and a refresh under way is that of the build or of
\* one that has died.
LEMMA OneStageStep ==
  ASSUME Exclusive, ChainInv, OneStage, [Next]_vars
  PROVE  OneStage'
<1>0. TypeOK
  BY DEF ChainInv
<1>1. ASSUME NEW v \in Workers, NEW w \in Workers, pc'[v] # "idle", pc'[w] # "idle"
      PROVE  v = w
  <2>1. CASE pc[v] # "idle" /\ pc[w] # "idle"
    BY <2>1 DEF OneStage
  <2>2. ASSUME NEW x \in Workers, StartLoad(x) \/ StartTransform(x) \/ StartPublish(x)
        PROVE  \A y \in Workers \ {x} : pc'[y] = "idle"
    BY <1>0, <2>2, BeginAlone DEF Begin
  <2> QED BY <1>0, <1>1, <2>1, <2>2, BusyStep
<1>2. CASE merging # {}
  <2>1. /\ \A w \in Workers : pc'[w] = "idle" \/ (pc'[w] = pc[w] /\ evidence'[w] = evidence[w])
        /\ merging' \subseteq merging
    BY <1>0, <1>2, WhileMerging
  <2> QED BY <1>1, <2>1 DEF OneStage
<1>3. CASE merging = {}
  <2>1. CASE merging' = {}
    BY <1>1, <2>1 DEF OneStage
  <2>2. ASSUME NEW w \in Workers, RebuildFacts(w) \/ SelectFacts(w)
        PROVE  OneStage'
    <3>1. /\ pc'[w] = "marts"
          /\ evidence' = evidence
      BY <1>0, <2>2, GotoTyped DEF RebuildFacts, SelectFacts, Labels, local
    <3>2. PICK rows : merging' = {Refresh(w, rows)}
      BY <1>0, <2>2, RefreshBegins
    <3>3. \A j \in merging' : j.run = RunOf[w] /\ j.attempt = evidence'[w].attempt
      BY <3>1, <3>2 DEF Refresh
    <3>4. \A j, k \in merging' : j = k
      BY <3>2
    <3>5. \A v \in Workers : pc'[v] # "idle" => v = w
      BY <1>1, <3>1
    <3> QED BY <1>1, <3>1, <3>3, <3>4, <3>5 DEF OneStage
  <2>3. (\E w \in Workers : RebuildFacts(w) \/ SelectFacts(w)) \/ merging' = {}
    BY <1>3, FactsStep DEF MergeFacts
  <2> QED BY <2>1, <2>2, <2>3
<1> QED BY <1>2, <1>3

\* A commit installs a newer revision, whether the stage or a late script makes it.
LEMMA RawGrows ==
  ASSUME ChainInv, FactsBehindRaw, [Next]_vars
  PROVE  \A m \in Months : raw[m] <= raw'[m]
<1>0. /\ TypeOK
      /\ \A m \in Months : raw[m] \in Nat
  BY DEF ChainInv, TypeOK, Rows, Revision
<1>c. ASSUME NEW m \in Months, NEW v \in Revision, Commit(m, v), raw[m] <= v
      PROVE  \A n \in Months : raw[n] <= raw'[n]
  <2>1. raw'[m] = v /\ \A n \in Months \ {m} : raw'[n] = raw[n]
    BY <1>0, <1>c, CommitFacts
  <2> QED BY <1>0, <1>c, <2>1
<1>1. ASSUME NEW w \in Workers, LoadMonth(w)
      PROVE  \A n \in Months : raw[n] <= raw'[n]
  <2>1. PICK m \in todo[w] : \/ UNCHANGED raw
                             \/ ~(raw[m] > Handed(w, m)) /\ Commit(m, Handed(w, m))
    BY <1>1 DEF LoadMonth
  <2>2. m \in Months /\ Handed(w, m) \in Revision
    BY <1>0, <1>1, PipelineAssumption
       DEF ChainInv, TypeOK, Rows, HandoffChain, LoadMonth, Handed
  <2>3. ~(raw[m] > Handed(w, m)) => raw[m] <= Handed(w, m)
    BY <1>0, <2>2 DEF Revision
  <2> QED BY <1>0, <1>c, <2>1, <2>2, <2>3
<1>2. ASSUME LateScript
      PROVE  \A n \in Months : raw[n] <= raw'[n]
  <2>1. PICK j \in late : \/ UNCHANGED raw
                          \/ raw[j.month] = j.seen /\ Commit(j.month, j.revision)
    BY <1>2 DEF LateScript
  <2>2. j.month \in Months /\ j.revision \in Revision /\ j.seen \in Revision
    BY <1>0 DEF TypeOK
  <2>3. j.seen <= j.revision
    BY <2>2 DEF FactsBehindRaw, Revision
  <2> QED BY <1>0, <1>c, <2>1, <2>2, <2>3
<1>3. CASE UNCHANGED raw
  BY <1>0, <1>3
<1>4. \/ \E w \in Workers : LoadMonth(w)
      \/ LateScript
      \/ UNCHANGED raw
  <2>1. CASE \/ \E r \in Runs : Extract(r)
             \/ \E w \in Workers : \/ StartLoad(w) \/ WriteLoad(w) \/ StartTransform(w)
                                   \/ WriteTransform(w) \/ StartPublish(w) \/ CheckEvidence(w)
                                   \/ ReadMarts(w) \/ CheckPublish(w) \/ WritePublish(w)
                                   \/ Crash(w)
    BY <2>1 DEF Extract, StartLoad, WriteLoad, StartTransform, WriteTransform, StartPublish,
                CheckEvidence, ReadMarts, CheckPublish, WritePublish, Crash, warehouse
  <2>2. CASE \E w \in Workers : \/ LoadTimeout(w) \/ RebuildFacts(w) \/ SelectFacts(w)
                                \/ BuildMarts(w)
    BY <2>2 DEF LoadTimeout, RebuildFacts, SelectFacts, BuildMarts
  <2>3. CASE MergeFacts
    BY <2>3 DEF MergeFacts
  <2>4. CASE UNCHANGED vars
    BY <2>4 DEF vars, warehouse
  <2> QED BY <2>1, <2>2, <2>3, <2>4 DEF Next
<1> QED BY <1>1, <1>2, <1>3, <1>4

\* A script a stage has given up on has a newer revision than the one it found.
LEMMA LateStep ==
  ASSUME ChainInv, FactsBehindRaw, [Next]_vars
  PROVE  \A j \in late' : j.revision > j.seen
<1>1. ASSUME NEW w \in Workers, LoadTimeout(w)
      PROVE  \A j \in late' : j.revision > j.seen
  <2>1. PICK m \in todo[w] :
          /\ raw[m] < Handed(w, m)
          /\ late' = late \cup {[month |-> m, revision |-> Handed(w, m), seen |-> raw[m]]}
    BY <1>1 DEF LoadTimeout
  <2>2. m \in Months /\ raw[m] \in Nat /\ Handed(w, m) \in Nat
    BY <1>1, PipelineAssumption
       DEF ChainInv, TypeOK, Rows, Revision, HandoffChain, LoadTimeout, Handed
  <2>3. Handed(w, m) > raw[m]
    BY <2>1, <2>2
  <2> QED BY <2>1, <2>3 DEF FactsBehindRaw
<1>2. (\E w \in Workers : LoadTimeout(w)) \/ late' \subseteq late
  <2>1. CASE \/ \E r \in Runs : Extract(r)
             \/ \E w \in Workers : \/ StartLoad(w) \/ WriteLoad(w) \/ StartTransform(w)
                                   \/ WriteTransform(w) \/ StartPublish(w) \/ CheckEvidence(w)
                                   \/ ReadMarts(w) \/ CheckPublish(w) \/ WritePublish(w)
                                   \/ Crash(w)
    BY <2>1 DEF Extract, StartLoad, WriteLoad, StartTransform, WriteTransform, StartPublish,
                CheckEvidence, ReadMarts, CheckPublish, WritePublish, Crash, warehouse
  <2>2. CASE \E w \in Workers : LoadMonth(w) \/ RebuildFacts(w) \/ SelectFacts(w) \/ BuildMarts(w)
    BY <2>2 DEF LoadMonth, RebuildFacts, SelectFacts, BuildMarts
  <2>3. CASE MergeFacts \/ LateScript
    BY <2>3 DEF MergeFacts, LateScript
  <2>4. CASE UNCHANGED vars
    BY <2>4 DEF vars, warehouse
  <2> QED BY <2>1, <2>2, <2>3, <2>4 DEF Next
<1> QED BY <1>1, <1>2 DEF FactsBehindRaw

\* A row of facts or of the Raw tables is a number, in two successive states.
LEMMA RowsAreNumbers ==
  ASSUME ChainInv, [Next]_vars
  PROVE  \A m \in Months : /\ facts[m] \in Nat /\ raw[m] \in Nat
                           /\ facts'[m] \in Nat /\ raw'[m] \in Nat
<1>1. /\ facts \in Rows /\ raw \in Rows
      /\ facts' \in Rows /\ raw' \in Rows
  BY TypedStep DEF ChainInv, TypeOK
<1> QED BY <1>1 DEF Rows, Revision

\* What a fact refresh replaces is no older than what it finds.
LEMMA FactsGrow ==
  ASSUME ChainInv, OneStage, FactsBehindRaw, [Next]_vars
  PROVE  \A m \in Months : facts[m] <= facts'[m]
<1>1. \A m \in Months : facts[m] \in Nat /\ raw[m] \in Nat
  BY DEF ChainInv, TypeOK, Rows, Revision
<1>2. CASE UNCHANGED facts
  BY <1>1, <1>2
<1>3. CASE MergeFacts
  <2>1. PICK j \in merging :
          facts' = [m \in Months |-> IF m \in DOMAIN j.rows THEN j.rows[m] ELSE facts[m]]
    BY <1>3 DEF MergeFacts
  <2>2. \A m \in DOMAIN j.rows : facts[m] <= j.rows[m]
    BY DEF FactsBehindRaw
  <2> QED BY <1>1, <2>1, <2>2
<1> QED BY <1>2, <1>3, FactsStep

\* Facts and refreshes under way stay behind the Raw tables.
LEMMA FactsBehindRawStep ==
  ASSUME ChainInv, OneStage, FactsBehindRaw, [Next]_vars
  PROVE  FactsBehindRaw'
<1>0. /\ TypeOK
      /\ \A m \in Months : facts[m] \in Nat /\ raw[m] \in Nat
      /\ \A m \in Months : facts'[m] \in Nat /\ raw'[m] \in Nat
  BY RowsAreNumbers DEF ChainInv
<1>1. \A m \in Months : raw[m] <= raw'[m]
  BY RawGrows
<1>2. \A j \in merging : DOMAIN j.rows \subseteq Months
                         /\ \A m \in DOMAIN j.rows : j.rows[m] \in Nat
  BY <1>0, MergeRows DEF TypeOK, Revision
<1> DEFINE Behind == /\ \A m \in Months : facts[m] <= raw[m]
                     /\ \A j \in merging : \A m \in DOMAIN j.rows :
                          facts[m] <= j.rows[m] /\ j.rows[m] <= raw[m]
<1>3. Behind
  BY DEF FactsBehindRaw
<1>4. Behind'
  <2>1. CASE UNCHANGED <<facts, merging>>
    <3>1. \A m \in Months : facts[m] <= raw'[m]
      BY <1>0, <1>1, <1>3
    <3>2. \A j \in merging : \A m \in DOMAIN j.rows : j.rows[m] <= raw'[m]
      BY <1>0, <1>1, <1>2, <1>3
    <3> QED BY <1>3, <2>1, <3>1, <3>2
  <2>2. ASSUME NEW w \in Workers, RebuildFacts(w) \/ SelectFacts(w), UNCHANGED facts
        PROVE  Behind'
    <3>1. PICK rows : /\ merging' = {Refresh(w, rows)}
                      /\ DOMAIN rows \subseteq Months
                      /\ \A m \in DOMAIN rows : rows[m] = raw[m]
                      /\ raw' = raw
      BY <1>0, <2>2, RefreshBegins
    <3>2. \A j \in merging' : j.rows = rows
      BY <3>1 DEF Refresh
    <3> QED BY <1>0, <1>3, <2>2, <3>1, <3>2
  <2>3. CASE MergeFacts
    <3>1. PICK j \in merging :
            /\ merging' = merging \ {j}
            /\ facts' = [m \in Months |-> IF m \in DOMAIN j.rows THEN j.rows[m] ELSE facts[m]]
            /\ raw' = raw
      BY <2>3 DEF MergeFacts
    <3>2. merging' = {}
      BY <3>1 DEF OneStage
    <3> QED BY <1>3, <3>1, <3>2
  <2> QED BY <2>1, <2>2, <2>3, FactsStep
<1> QED BY <1>4, LateStep DEF FactsBehindRaw

\* The order of facts, refreshes and Raw tables holds at first.
LEMMA OrderInit == Init => OrderInv
<1> SUFFICES ASSUME Init PROVE OrderInv
  OBVIOUS
<1>1. PublishInv
  BY PublishInit
<1>2. OneStage
  BY DEF Init, OneStage
<1>3. FactsBehindRaw
  BY DEF Init, FactsBehindRaw
<1> QED BY <1>1, <1>2, <1>3 DEF OrderInv

\* Every step of stages that execute one at a time keeps the order.
LEMMA OrderStep ==
  ASSUME Exclusive, OrderInv, [Next]_vars
  PROVE  OrderInv'
<1>1. ChainInv /\ PublishInv /\ OneStage /\ FactsBehindRaw
  BY DEF OrderInv, PublishInv, ChainInv, HistoryCurrent
<1> QED BY <1>1, PublishStep, OneStageStep, FactsBehindRawStep DEF OrderInv

\* With one stage at a time, facts are never ahead of Raw and a refresh under way is
\* never behind the facts it will replace.
THEOREM OrderInvariant == Exclusive => (Spec => []OrderInv)
<1> SUFFICES ASSUME Exclusive PROVE Spec => []OrderInv
  OBVIOUS
<1>1. OrderInv /\ [Next]_vars => OrderInv'
  BY OrderStep
<1> QED BY OrderInit, <1>1, PTL DEF Spec

\* With one stage at a time, the facts of a month never go back to an older
\* revision, for any runs on any months, with late loads and dead dbt workers.
THEOREM FactsAdvance == Exclusive => (Spec => FactsNeverRegress)
<1> SUFFICES ASSUME Exclusive PROVE Spec => FactsNeverRegress
  OBVIOUS
<1>1. OrderInv /\ [Next]_vars => [\A m \in Months : facts'[m] >= facts[m]]_vars
  <2> SUFFICES ASSUME OrderInv, [Next]_vars
               PROVE  \A m \in Months : facts'[m] >= facts[m]
    OBVIOUS
  <2>1. ChainInv /\ OneStage /\ FactsBehindRaw
    BY DEF OrderInv, PublishInv, ChainInv, HistoryCurrent
  <2>2. \A m \in Months : facts[m] \in Nat /\ facts'[m] \in Nat
    BY <2>1, RowsAreNumbers
  <2> QED BY <2>1, <2>2, FactsGrow
<1> QED BY OrderInvariant, <1>1, PTL DEF Spec, FactsNeverRegress

-----------------------------------------------------------------------------
(* One stage at a time: releases advance and are consistent in their own months *)

\* A commit puts the watermark ahead of every record of it and of every stage.
LEMMA CommitAhead ==
  ASSUME ChainInv, HistoryCurrent, [Next]_vars, ~UNCHANGED <<raw, history>>
  PROVE  /\ \A w \in Workers : evidence'[w] # Nothing => ~RawUnchanged(w)'
         /\ \A r \in Runs : transformed'[r] # Nothing => transformed'[r].watermark # Watermark'
<1>1. Watermark \in Nat /\ Watermark' = Watermark + 1
  BY HistoryStep, CommitFacts, WatermarkNat DEF ChainInv
<1>3. ~(\E w \in Workers : StartTransform(w) \/ WriteTransform(w) \/ StartPublish(w))
  BY DEF StartTransform, WriteTransform, StartPublish, warehouse
<1>4. ASSUME NEW w \in Workers, evidence'[w] # Nothing
      PROVE  ~RawUnchanged(w)'
  <2>1. WorkerChange(w)
    BY WorkerStep DEF ChainInv
  <2>2. evidence'[w] = evidence[w]
    BY <1>3, <1>4, <2>1 DEF WorkerChange
  <2>3. evidence[w].watermark \in 0..Watermark
    BY <1>4, <2>2, WatermarksInHistory
  <2> QED BY <1>1, <2>2, <2>3 DEF RawUnchanged
<1>5. ASSUME NEW r \in Runs, transformed'[r] # Nothing
      PROVE  transformed'[r].watermark # Watermark'
  <2>1. Recorded(r)
    BY RecordStep DEF ChainInv
  <2>2. transformed'[r] = transformed[r]
    BY <1>3, <2>1 DEF Recorded
  <2>3. transformed[r].watermark \in 0..Watermark
    BY <1>5, <2>2, WatermarksInHistory
  <2> QED BY <1>1, <2>2, <2>3
<1> QED BY <1>4, <1>5

\* When the one stage is past its build, or publishes, nothing changes the facts.
LEMMA FactsAtRest ==
  ASSUME OneStage, [Next]_vars, NEW w \in Workers, pc[w] \notin {"idle", "build", "marts"}
  PROVE  facts' = facts /\ merging = {} /\ merging' = {}
<1>1. merging = {}
  BY NoMergeUnderway
<1>2. \A v \in Workers : pc[v] # "build"
  BY DEF OneStage
<1> QED BY <1>1, <1>2, FactsStep DEF RebuildFacts, SelectFacts, MergeFacts

\* What a build has made of the months of its run, up to the end of the publish stage.
LEMMA StageCurrent ==
  ASSUME OrderInv, FactsCurrent, [Next]_vars, UNCHANGED <<raw, history>>, NEW w \in Workers,
         evidence'[w].watermark = Watermark
  PROVE  /\ pc'[w] = "marts" =>
              \A m \in Loads(RunOf[w]) :
                IF merging' = {} THEN facts'[m] = raw[m]
                ELSE \A j \in merging' : m \in DOMAIN j.rows /\ j.rows[m] = raw[m]
         /\ pc'[w] \in {"after", "evidence", "read"} =>
              \A m \in Loads(RunOf[w]) : facts'[m] = raw[m]
<1>0. ChainInv /\ TypeOK /\ OneStage
  BY DEF OrderInv, PublishInv, ChainInv, HistoryCurrent
<1>1. WorkerChange(w) /\ RunOf[w] \in Runs
  BY <1>0, WorkerStep, PipelineAssumption
<1>2. ASSUME pc'[w] = "marts"
      PROVE  \A m \in Loads(RunOf[w]) :
               IF merging' = {} THEN facts'[m] = raw[m]
               ELSE \A j \in merging' : m \in DOMAIN j.rows /\ j.rows[m] = raw[m]
  <2>1. CASE RebuildFacts(w) \/ SelectFacts(w)
    <3>1. PICK rows : /\ merging' = {Refresh(w, rows)}
                      /\ Loads(RunOf[w]) \subseteq DOMAIN rows
                      /\ \A m \in DOMAIN rows : rows[m] = raw[m]
      BY <1>0, <2>1, RefreshBegins
    <3>2. \A j \in merging' : j.rows = rows
      BY <3>1 DEF Refresh
    <3> QED BY <3>1, <3>2
  <2>2. CASE pc[w] = "marts" /\ evidence'[w] = evidence[w]
    <3>1. \A m \in Loads(RunOf[w]) :
            IF merging = {} THEN facts[m] = raw[m]
            ELSE \A j \in merging : m \in DOMAIN j.rows /\ j.rows[m] = raw[m]
      BY <2>2 DEF FactsCurrent, RawUnchanged
    <3>2. CASE UNCHANGED <<facts, merging>>
      BY <3>1, <3>2
    <3>3. CASE MergeFacts
      <4>1. PICK j \in merging :
              /\ merging' = merging \ {j}
              /\ facts' = [m \in Months |-> IF m \in DOMAIN j.rows THEN j.rows[m] ELSE facts[m]]
        BY <3>3 DEF MergeFacts
      <4>2. merging' = {}
        BY <1>0, <4>1 DEF OneStage
      <4>3. \A m \in Loads(RunOf[w]) : m \in Months /\ m \in DOMAIN j.rows /\ j.rows[m] = raw[m]
        BY <3>1, <4>1 DEF Loads
      <4> QED BY <4>1, <4>2, <4>3
    <3>4. ~(\E v \in Workers : RebuildFacts(v) \/ SelectFacts(v))
      BY <1>0, <2>2 DEF OneStage, RebuildFacts, SelectFacts
    <3> QED BY <3>2, <3>3, <3>4, FactsStep
  <2> QED BY <1>1, <1>2, <2>1, <2>2 DEF WorkerChange
<1>3. ASSUME pc'[w] \in {"after", "evidence", "read"}
      PROVE  \A m \in Loads(RunOf[w]) : facts'[m] = raw[m]
  <2>1. CASE BuildMarts(w) /\ evidence'[w] = evidence[w]
    <3>1. merging = {} /\ pc[w] = "marts" /\ facts' = facts
      BY <1>0, <2>1, NoMergeUnderway DEF BuildMarts
    <3> QED BY <2>1, <3>1 DEF FactsCurrent, RawUnchanged
  <2>2. CASE pc[w] \in {"after", "evidence", "read"} /\ evidence'[w] = evidence[w]
    BY <1>0, <2>2, FactsAtRest DEF FactsCurrent, RawUnchanged
  <2>3. CASE StartPublish(w) /\ evidence'[w] = transformed[RunOf[w]]
    <3>1. facts' = facts /\ transformed[RunOf[w]] # Nothing
      BY <2>3 DEF StartPublish, warehouse
    <3> QED BY <1>1, <2>3, <3>1 DEF FactsCurrent
  <2> QED BY <1>1, <1>3, <2>1, <2>2, <2>3 DEF WorkerChange, CheckEvidence
<1> QED BY <1>2, <1>3

\* While the watermark of a run's evidence is that of the tables, its months stay
\* current, whichever run's refresh replaces them.
LEMMA EvidenceCurrent ==
  ASSUME OrderInv, FactsCurrent, [Next]_vars, UNCHANGED <<raw, history>>, NEW r \in Runs,
         transformed'[r] # Nothing, transformed'[r].watermark = Watermark
  PROVE  \A m \in Loads(r) :
           /\ facts'[m] = raw[m]
           /\ \A j \in merging' : m \in DOMAIN j.rows => j.rows[m] = raw[m]
<1>0. ChainInv /\ TypeOK /\ OneStage
  BY DEF OrderInv, PublishInv, ChainInv, HistoryCurrent
<1>1. Recorded(r)
  BY <1>0, RecordStep
<1>2. ASSUME NEW w \in Workers, RunOf[w] = r, WriteTransform(w), RawUnchanged(w)
      PROVE  \A m \in Loads(r) :
               /\ facts'[m] = raw[m]
               /\ \A j \in merging' : m \in DOMAIN j.rows => j.rows[m] = raw[m]
  <2>1. facts' = facts /\ merging' = {}
    BY <1>0, <1>2, FactsAtRest DEF WriteTransform
  <2> QED BY <1>2, <2>1 DEF FactsCurrent, WriteTransform
<1>3. CASE transformed'[r] = transformed[r]
  <2>1. \A m \in Loads(r) :
          /\ facts[m] = raw[m]
          /\ \A j \in merging : m \in DOMAIN j.rows => j.rows[m] = raw[m]
    BY <1>3 DEF FactsCurrent
  <2>2. CASE UNCHANGED <<facts, merging>>
    BY <2>1, <2>2
  <2>3. ASSUME NEW v \in Workers, RebuildFacts(v) \/ SelectFacts(v)
        PROVE  \A j \in merging' : \A m \in DOMAIN j.rows : j.rows[m] = raw[m]
    <3>1. PICK rows : /\ merging' = {Refresh(v, rows)}
                      /\ \A m \in DOMAIN rows : rows[m] = raw[m]
      BY <1>0, <2>3, RefreshBegins
    <3>2. \A j \in merging' : j.rows = rows
      BY <3>1 DEF Refresh
    <3> QED BY <3>1, <3>2
  <2>4. CASE MergeFacts
    <3>1. PICK j \in merging :
            /\ merging' = merging \ {j}
            /\ facts' = [m \in Months |-> IF m \in DOMAIN j.rows THEN j.rows[m] ELSE facts[m]]
      BY <2>4 DEF MergeFacts
    <3>2. Loads(r) \subseteq Months
      BY DEF Loads
    <3> QED BY <2>1, <3>1, <3>2
  <2> QED BY <2>1, <2>2, <2>3, <2>4, FactsStep
<1> QED BY <1>1, <1>2, <1>3 DEF Recorded

\* Facts of a run's own months stay current up to the release.
LEMMA FactsCurrentStep ==
  ASSUME OrderInv, FactsCurrent, [Next]_vars
  PROVE  FactsCurrent'
<1>0. ChainInv /\ HistoryCurrent /\ TypeOK /\ HandoffChain /\ OneStage
  BY DEF OrderInv, PublishInv, ChainInv, HistoryCurrent
<1>1. ChainInv' /\ HandoffChain'
  BY <1>0, ChainInvStep DEF ChainInv
<1>2. \A r \in Runs : loaded[r] => Loads(r)' = Loads(r)
  BY <1>0, RecordsStay DEF HandoffChain
<1> DEFINE Stage(w) ==
      /\ pc[w] = "marts" /\ RawUnchanged(w) =>
           \A m \in Loads(RunOf[w]) :
             IF merging = {} THEN facts[m] = raw[m]
             ELSE \A j \in merging : m \in DOMAIN j.rows /\ j.rows[m] = raw[m]
      /\ pc[w] \in {"after", "evidence", "read"} /\ RawUnchanged(w) =>
           \A m \in Loads(RunOf[w]) : facts[m] = raw[m]
<1> DEFINE Read(w) ==
      \/ pc[w] = "check" /\ RawUnchanged(w)
      \/ pc[w] = "upload"
      => \A m \in Loads(RunOf[w]) : snapshot[w].facts[m] = snapshot[w].world[m]
<1> DEFINE Record(r) ==
      /\ transformed[r] # Nothing /\ transformed[r].watermark = Watermark =>
           \A m \in Loads(r) :
             /\ facts[m] = raw[m]
             /\ \A j \in merging : m \in DOMAIN j.rows => j.rows[m] = raw[m]
      /\ published[r] # Nothing => loaded[r]
<1>w. ASSUME NEW w \in Workers, pc'[w] \notin {"idle", "load"}
      PROVE  Loads(RunOf[w])' = Loads(RunOf[w]) /\ evidence'[w] # Nothing
  <2>1. RunOf[w] \in Runs /\ WorkerChange(w)
    BY <1>0, WorkerStep, PipelineAssumption
  <2>2. loaded[RunOf[w]]
    BY <1>0, <1>w, <2>1 DEF WorkerChange, HandoffChain, StartTransform, RebuildFacts, SelectFacts,
       BuildMarts, StartPublish, CheckEvidence, ReadMarts, CheckPublish, TypeOK, Labels
  <2>3. evidence'[w] # Nothing
    BY <1>1, <1>w, StagesHaveEvidence DEF ChainInv, TypeOK, HandoffChain, Labels
  <2> QED BY <1>2, <2>1, <2>2, <2>3
<1>4. ASSUME NEW w \in Workers
      PROVE  Stage(w)'
  <2>1. CASE UNCHANGED <<raw, history>>
    <3>1. Watermark' = Watermark
      BY <2>1 DEF Watermark
    <3>2. RawUnchanged(w)' => evidence'[w].watermark = Watermark
      BY <3>1 DEF RawUnchanged
    <3>3. pc'[w] \in {"marts", "after", "evidence", "read"} => Loads(RunOf[w])' = Loads(RunOf[w])
      BY <1>w
    <3> QED BY <2>1, <3>2, <3>3, StageCurrent
  <2>2. CASE ~UNCHANGED <<raw, history>>
    <3>1. pc'[w] \in {"marts", "after", "evidence", "read"} => ~RawUnchanged(w)'
      BY <1>0, <1>w, <2>2, CommitAhead
    <3> QED BY <3>1
  <2> QED BY <2>1, <2>2
<1>5. ASSUME NEW w \in Workers
      PROVE  Read(w)'
  <2>1. WorkerChange(w)
    BY <1>0, WorkerStep
  <2>2. ASSUME pc'[w] = "check", RawUnchanged(w)'
        PROVE  \A m \in Loads(RunOf[w])' : snapshot'[w].facts[m] = snapshot'[w].world[m]
    <3>1. UNCHANGED <<raw, history>>
      BY <1>0, <1>w, <2>2, CommitAhead
    <3>2. evidence'[w].watermark = Watermark
      BY <2>2, <3>1 DEF RawUnchanged, Watermark
    <3>3. CASE pc[w] = "check" /\ evidence'[w] = evidence[w] /\ snapshot'[w] = snapshot[w]
      BY <1>w, <2>2, <3>2, <3>3 DEF FactsCurrent, RawUnchanged
    <3>4. CASE /\ pc[w] = "read" /\ evidence'[w] = evidence[w]
               /\ snapshot'[w] = [facts |-> facts, world |-> raw, build |-> build]
      <4>1. \A m \in Loads(RunOf[w]) : facts[m] = raw[m]
        BY <3>2, <3>4 DEF FactsCurrent, RawUnchanged
      <4>2. snapshot'[w].facts = facts /\ snapshot'[w].world = raw
        BY <3>4
      <4> QED BY <1>w, <2>2, <4>1, <4>2
    <3> QED BY <2>1, <2>2, <3>3, <3>4 DEF WorkerChange, ReadMarts
  <2>3. ASSUME pc'[w] = "upload"
        PROVE  \A m \in Loads(RunOf[w])' : snapshot'[w].facts[m] = snapshot'[w].world[m]
    <3>1. /\ snapshot'[w] = snapshot[w]
          /\ pc[w] = "upload" \/ (pc[w] = "check" /\ RawUnchanged(w))
      BY <2>1, <2>3 DEF WorkerChange, CheckPublish
    <3> QED BY <1>w, <2>3, <3>1 DEF FactsCurrent
  <2> QED BY <2>2, <2>3
<1>6. ASSUME NEW r \in Runs
      PROVE  Record(r)'
  <2>1. Recorded(r)
    BY <1>0, RecordStep
  <2>2. published'[r] # Nothing => loaded'[r]
    <3>1. \A w \in Workers : pc[w] = "upload" => loaded[RunOf[w]]
      BY <1>0 DEF HandoffChain
    <3>2. published'[r] # Nothing => loaded[r]
      BY <2>1, <3>1 DEF Recorded, FactsCurrent
    <3> QED BY <1>0, <3>2, RecordsStay
  <2>3. ASSUME transformed'[r] # Nothing, transformed'[r].watermark = Watermark'
        PROVE  \A m \in Loads(r)' :
                 /\ facts'[m] = raw'[m]
                 /\ \A j \in merging' : m \in DOMAIN j.rows => j.rows[m] = raw'[m]
    <3>1. UNCHANGED <<raw, history>>
      BY <1>0, <2>3, CommitAhead
    <3>2. transformed'[r].watermark = Watermark
      BY <2>3, <3>1 DEF Watermark
    <3>3. Loads(r)' = Loads(r)
      <4>1. loaded[r]
        BY <1>0, <2>1, <2>3 DEF Recorded, WriteTransform, HandoffChain
      <4> QED BY <1>2, <4>1
    <3> QED BY <2>3, <3>1, <3>2, <3>3, EvidenceCurrent
  <2> QED BY <2>2, <2>3
<1> QED BY <1>4, <1>5, <1>6 DEF FactsCurrent

\* A release about to be written is of the latest watermark released or later.
LEMMA ReleasesBehindStep ==
  ASSUME OrderInv, ReleasesBehind, [Next]_vars
  PROVE  ReleasesBehind'
<1>0. ChainInv /\ HistoryCurrent /\ OneStage /\ TypeOK
  BY DEF OrderInv, PublishInv, ChainInv, HistoryCurrent
<1>1. Watermark \in Nat /\ Watermark' \in Nat /\ Watermark <= Watermark'
  BY <1>0, HistoryGrows, WatermarkNat
<1>2. \A r \in Runs : published[r] # Nothing => published[r].watermark \in 0..Watermark
  <2>1. \A r \in Runs : published[r] # Nothing => published[r].watermark \in Nat
    BY <1>0 DEF TypeOK, Release
  <2> QED BY <1>1, <2>1 DEF ReleasesBehind
<1>3. \A w \in Workers : pc[w] \in {"check", "upload"} => evidence[w].watermark \in 0..Watermark
  BY <1>0, StagesHaveEvidence, WatermarksInHistory
<1> SUFFICES ASSUME NEW r \in Runs, published'[r] # Nothing
             PROVE  /\ published'[r].watermark <= Watermark'
                    /\ \A w \in Workers : pc'[w] = "upload" =>
                         published'[r].watermark <= evidence'[w].watermark
  BY DEF ReleasesBehind
<1>4. \A w \in Workers : WorkerChange(w)
  BY <1>0, WorkerStep
<1>5. CASE published'[r] = published[r]
  <2>1. published[r].watermark <= Watermark'
    BY <1>1, <1>2, <1>5
  <2>2. ASSUME NEW w \in Workers, pc'[w] = "upload"
        PROVE  published[r].watermark <= evidence'[w].watermark
    <3>1. /\ evidence'[w] = evidence[w]
          /\ pc[w] = "upload" \/ (pc[w] = "check" /\ RawUnchanged(w))
      BY <1>4, <2>2 DEF WorkerChange, CheckPublish
    <3>2. CASE pc[w] = "upload"
      BY <1>5, <3>1, <3>2 DEF ReleasesBehind
    <3>3. CASE pc[w] = "check" /\ RawUnchanged(w)
      BY <1>2, <1>5, <3>1, <3>3 DEF RawUnchanged
    <3> QED BY <3>1, <3>2, <3>3
  <2> QED BY <1>5, <2>1, <2>2
<1>6. CASE published'[r] # published[r]
  <2>1. PICK v \in Workers :
          /\ pc[v] = "upload" /\ pc'[v] = "idle"
          /\ published'[r] = [release |-> snapshot[v], watermark |-> evidence[v].watermark]
    <3>1. Recorded(r)
      BY <1>0, RecordStep
    <3> QED BY <1>6, <3>1 DEF Recorded
  <2>2. published'[r].watermark = evidence[v].watermark
    BY <2>1
  <2>3. evidence[v].watermark <= Watermark'
    BY <1>1, <1>3, <2>1
  <2>4. \A w \in Workers : pc'[w] # "upload"
    <3>1. \A w \in Workers : pc'[w] = "upload" => pc[w] # "idle"
      BY <1>4 DEF WorkerChange, CheckPublish
    <3> QED BY <1>0, <2>1, <3>1 DEF OneStage
  <2> QED BY <2>2, <2>3, <2>4
<1> QED BY <1>5, <1>6

\* The release invariant holds at first.
LEMMA ReleaseInit == Init => ReleaseInv
<1> SUFFICES ASSUME Init PROVE ReleaseInv
  OBVIOUS
<1>1. OrderInv
  BY OrderInit
<1>2. FactsCurrent /\ ReleasesBehind /\ OwnMonthsConsistent
  BY DEF Init, FactsCurrent, ReleasesBehind, OwnMonthsConsistent
<1> QED BY <1>1, <1>2 DEF ReleaseInv

\* A release is what the upload holds, so its own months are consistent.
LEMMA OwnMonthsStep ==
  ASSUME ReleaseInv, [Next]_vars
  PROVE  OwnMonthsConsistent'
<1>0. ChainInv /\ HandoffChain /\ TypeOK
  BY DEF ReleaseInv, OrderInv, PublishInv, ChainInv, HistoryCurrent
<1> SUFFICES ASSUME NEW r \in Runs, published'[r] # Nothing
             PROVE  \A m \in Loads(r)' :
                      published'[r].release.facts[m] = published'[r].release.world[m]
  BY DEF OwnMonthsConsistent
<1>1. Recorded(r)
  BY <1>0, RecordStep
<1>2. loaded[r] => Loads(r)' = Loads(r)
  BY <1>0, RecordsStay DEF HandoffChain
<1>3. CASE published'[r] = published[r]
  BY <1>2, <1>3 DEF ReleaseInv, OwnMonthsConsistent, FactsCurrent
<1>4. CASE published'[r] # published[r]
  <2>1. PICK w \in Workers :
          /\ RunOf[w] = r /\ pc[w] = "upload"
          /\ published'[r] = [release |-> snapshot[w], watermark |-> evidence[w].watermark]
    BY <1>1, <1>4 DEF Recorded
  <2>2. \A m \in Loads(r) : snapshot[w].facts[m] = snapshot[w].world[m]
    BY <2>1 DEF ReleaseInv, FactsCurrent
  <2>3. published'[r].release = snapshot[w] /\ loaded[r]
    BY <1>0, <2>1 DEF HandoffChain
  <2> QED BY <1>2, <2>2, <2>3
<1> QED BY <1>3, <1>4

\* With one stage at a time the release invariant is inductive.
THEOREM ReleaseInvariant == Exclusive => (Spec => []ReleaseInv)
<1> SUFFICES ASSUME Exclusive PROVE Spec => []ReleaseInv
  OBVIOUS
<1>1. ReleaseInv /\ [Next]_vars => ReleaseInv'
  BY OrderStep, FactsCurrentStep, ReleasesBehindStep, OwnMonthsStep DEF ReleaseInv
<1> QED BY ReleaseInit, <1>1, PTL DEF Spec

\* With one stage at a time, the months a run has loaded are released with facts and
\* world totals of the same revision.
THEOREM OwnMonthsAreConsistent == Exclusive => (Spec => []OwnMonthsConsistent)
<1> SUFFICES ASSUME Exclusive PROVE Spec => []OwnMonthsConsistent
  OBVIOUS
<1>1. ReleaseInv => OwnMonthsConsistent
  BY DEF ReleaseInv
<1> QED BY ReleaseInvariant, <1>1, PTL

\* With one stage at a time, no release is of an older watermark than one before it.
THEOREM WatermarksAdvance == Exclusive => (Spec => ReleasesAdvance)
<1> SUFFICES ASSUME Exclusive PROVE Spec => ReleasesAdvance
  OBVIOUS
<1>1. ReleaseInv /\ [Next]_vars =>
        [\A r, s \in Runs : published'[r] # published[r] /\ published[s] # Nothing =>
           published'[r].watermark >= published[s].watermark]_vars
  <2> SUFFICES ASSUME ReleaseInv, [Next]_vars, NEW r \in Runs, NEW s \in Runs,
                      published'[r] # published[r], published[s] # Nothing
               PROVE  published'[r].watermark >= published[s].watermark
    OBVIOUS
  <2>0. ChainInv /\ TypeOK
    BY DEF ReleaseInv, OrderInv, PublishInv, ChainInv, HistoryCurrent
  <2>1. PICK w \in Workers :
          /\ pc[w] = "upload"
          /\ published'[r] = [release |-> snapshot[w], watermark |-> evidence[w].watermark]
    <3>1. Recorded(r)
      BY <2>0, RecordStep
    <3> QED BY <3>1 DEF Recorded
  <2>2. published[s].watermark <= evidence[w].watermark
    BY <2>1 DEF ReleaseInv, ReleasesBehind
  <2>3. evidence[w] \in Evidence /\ published[s] \in Release
    BY <2>0, <2>1, StagesHaveEvidence DEF TypeOK
  <2>4. evidence[w].watermark \in Nat /\ published[s].watermark \in Nat
    BY <2>3 DEF Evidence, Release
  <2>5. published'[r].watermark = evidence[w].watermark
    BY <2>1
  <2> QED BY <2>2, <2>4, <2>5
<1> QED BY ReleaseInvariant, <1>1, PTL DEF Spec, ReleasesAdvance

-----------------------------------------------------------------------------
(* One stage at a time: a run does not release a failed build of its own *)

\* Only a build that reaches its tests is remembered as the last one.
LEMMA BuildStep ==
  ASSUME ChainInv, [Next]_vars
  PROVE  \/ build' = build
         \/ \E v \in Workers : BuildMarts(v) /\ build' \in Build /\ build'.run = RunOf[v]
<1>1. ASSUME NEW v \in Workers, BuildMarts(v)
      PROVE  build' \in Build /\ build'.run = RunOf[v]
  <2>1. PICK passed \in BOOLEAN :
          build' = [run |-> RunOf[v], attempt |-> evidence[v].attempt, passed |-> passed]
    BY <1>1 DEF BuildMarts
  <2>2. evidence[v].attempt \in Attempt /\ RunOf[v] \in Runs
    BY <1>1, StagesHaveEvidence, PipelineAssumption DEF BuildMarts, Evidence
  <2> QED BY <2>1, <2>2 DEF Build
<1>2. CASE \/ \E r \in Runs : Extract(r)
           \/ \E w \in Workers : \/ StartLoad(w) \/ WriteLoad(w) \/ StartTransform(w)
                                 \/ WriteTransform(w) \/ StartPublish(w) \/ CheckEvidence(w)
                                 \/ ReadMarts(w) \/ CheckPublish(w) \/ WritePublish(w)
                                 \/ Crash(w)
  BY <1>2 DEF Extract, StartLoad, WriteLoad, StartTransform, WriteTransform, StartPublish,
              CheckEvidence, ReadMarts, CheckPublish, WritePublish, Crash, warehouse
<1>3. CASE \E w \in Workers : LoadMonth(w) \/ LoadTimeout(w) \/ RebuildFacts(w) \/ SelectFacts(w)
  BY <1>3 DEF LoadMonth, LoadTimeout, RebuildFacts, SelectFacts
<1>4. CASE LateScript \/ MergeFacts
  BY <1>4 DEF LateScript, MergeFacts
<1>5. CASE UNCHANGED vars
  BY <1>5 DEF vars, warehouse
<1> QED BY <1>1, <1>2, <1>3, <1>4, <1>5 DEF Next

\* While a stage stays at its label, no record of an attempt or of its outcome and no
\* build is added: only the one stage could.
LEMMA BusyAlone ==
  ASSUME Exclusive, ChainInv, OneStage, [Next]_vars,
         NEW w \in Workers, pc[w] # "idle", pc'[w] = pc[w]
  PROVE  /\ \A r \in Runs : attempt'[r] = attempt[r] /\ transformed'[r] = transformed[r]
         /\ build' = build
<1>0. TypeOK
  BY DEF ChainInv
<1>1. \A v \in Workers : ~StartTransform(v)
  BY DEF StartTransform, Begin
<1>2. \A v \in Workers : WriteTransform(v) => v = w
  BY DEF OneStage, WriteTransform
<1>3. ~WriteTransform(w)
  BY <1>0, StopTyped DEF WriteTransform
<1>4. \A v \in Workers : BuildMarts(v) => v = w
  BY DEF OneStage, BuildMarts
<1>5. ~BuildMarts(w)
  <2>1. BuildMarts(w) => pc[w] = "marts" /\ (Stop(w) \/ Goto(w, "after"))
    BY DEF BuildMarts
  <2> QED BY <1>0, <2>1, StopTyped, GotoTyped DEF Labels
<1>6. \A r \in Runs : attempt'[r] = attempt[r] /\ transformed'[r] = transformed[r]
  BY <1>0, <1>1, <1>2, <1>3, RecordStep DEF Recorded
<1>7. build' = build
  BY <1>4, <1>5, BuildStep
<1> QED BY <1>6, <1>7

\* The last build stays sound for the runs whose latest attempt has its evidence.
LEMMA BuildSoundRecord ==
  ASSUME Exclusive, OrderInv, BuildSound, [Next]_vars, NEW r \in Runs, transformed'[r] # Nothing
  PROVE  /\ transformed'[r].attempt <= attempt'[r]
         /\ transformed'[r].attempt = attempt'[r] => Sound(r, build')
<1>0. ChainInv /\ TypeOK /\ OneStage
  BY DEF OrderInv, PublishInv, ChainInv, HistoryCurrent
<1>1. Recorded(r) /\ attempt[r] \in Nat
  BY <1>0, RecordStep DEF TypeOK
<1>2. ASSUME NEW w \in Workers, RunOf[w] = r, WriteTransform(w), transformed'[r] = evidence[w]
      PROVE  /\ transformed'[r].attempt <= attempt'[r]
             /\ transformed'[r].attempt = attempt'[r] => Sound(r, build')
  <2>1. attempt' = attempt /\ build' = build /\ pc[w] = "after"
    BY <1>2 DEF WriteTransform, warehouse
  <2>2. evidence[w].attempt = attempt[r] /\ Sound(r, build)
    BY <1>2, <2>1 DEF BuildSound
  <2> QED BY <1>1, <1>2, <2>1, <2>2
<1>3. CASE transformed'[r] = transformed[r]
  <2>1. transformed[r].attempt \in Nat /\ transformed[r].attempt <= attempt[r]
    BY <1>0, <1>3 DEF BuildSound, TypeOK, Evidence, Attempt
  <2>2. CASE attempt'[r] = attempt[r] + 1
    BY <1>1, <1>3, <2>1, <2>2
  <2>3. CASE attempt'[r] = attempt[r]
    <3>1. CASE build' = build
      BY <1>3, <2>1, <2>3, <3>1 DEF BuildSound
    <3>2. ASSUME NEW v \in Workers, BuildMarts(v), build' \in Build, build'.run = RunOf[v]
          PROVE  transformed[r].attempt = attempt[r] => Sound(r, build')
      <4>1. RunOf[v] = r => transformed[r].attempt < attempt[r]
        BY <1>3, <3>2 DEF BuildSound, BuildMarts
      <4> QED BY <1>1, <3>2, <4>1 DEF Sound
    <3> QED BY <1>0, <1>3, <2>1, <2>3, <3>1, <3>2, BuildStep
  <2> QED BY <1>1, <2>2, <2>3 DEF Recorded
<1> QED BY <1>1, <1>2, <1>3 DEF Recorded

\* A stage goes by the latest attempt until it has written or read its marts.
LEMMA BuildSoundStage ==
  ASSUME Exclusive, OrderInv, BuildSound, [Next]_vars, NEW w \in Workers
  PROVE  /\ pc'[w] \in {"build", "marts", "after"} =>
              /\ evidence'[w].attempt = attempt'[RunOf[w]]
              /\ transformed'[RunOf[w]] # Nothing =>
                   transformed'[RunOf[w]].attempt < attempt'[RunOf[w]]
         /\ pc'[w] = "after" => Sound(RunOf[w], build')
         /\ pc'[w] = "evidence" => evidence'[w] = transformed'[RunOf[w]]
         /\ pc'[w] = "read" => Sound(RunOf[w], build')
         /\ pc'[w] \in {"check", "upload"} => Sound(RunOf[w], snapshot'[w].build)
<1> DEFINE r == RunOf[w]
<1>0. ChainInv /\ TypeOK /\ OneStage /\ r \in Runs
  BY PipelineAssumption DEF OrderInv, PublishInv, ChainInv, HistoryCurrent
<1>1. WorkerChange(w)
  BY <1>0, WorkerStep
<1>2. CASE pc'[w] = pc[w] /\ evidence'[w] = evidence[w] /\ snapshot'[w] = snapshot[w]
  <2>1. CASE pc[w] = "idle"
    BY <1>2, <2>1
  <2>2. CASE pc[w] # "idle"
    <3>1. attempt'[r] = attempt[r] /\ transformed'[r] = transformed[r] /\ build' = build
      BY <1>0, <1>2, <2>2, BusyAlone
    <3> QED BY <1>2, <3>1 DEF BuildSound
  <2> QED BY <2>1, <2>2
<1>3. CASE pc'[w] \in {"idle", "load"}
  BY <1>3
<1>4. CASE /\ StartTransform(w)
           /\ pc'[w] = "build"
           /\ evidence'[w] = [attempt |-> attempt'[r], watermark |-> Watermark]
  <2>1. attempt'[r] = attempt[r] + 1 /\ transformed' = transformed /\ attempt[r] \in Nat
    BY <1>0, <1>4 DEF StartTransform, TypeOK
  <2>2. transformed[r] # Nothing => transformed[r].attempt \in Nat
                                    /\ transformed[r].attempt <= attempt[r]
    BY <1>0 DEF BuildSound, TypeOK, Evidence, Attempt
  <2>3. evidence'[w].attempt = attempt'[r]
    BY <1>4
  <2> QED BY <1>4, <2>1, <2>2, <2>3
<1>5. CASE /\ RebuildFacts(w) \/ SelectFacts(w)
           /\ pc'[w] = "marts" /\ evidence'[w] = evidence[w]
  <2>1. pc[w] = "build" /\ UNCHANGED handoffs
    BY <1>5 DEF RebuildFacts, SelectFacts
  <2> QED BY <1>5, <2>1 DEF BuildSound, handoffs
<1>6. CASE /\ BuildMarts(w)
           /\ build' = [run |-> r, attempt |-> evidence[w].attempt, passed |-> TRUE]
           /\ pc'[w] = "after" /\ evidence'[w] = evidence[w]
  <2>1. pc[w] = "marts" /\ UNCHANGED handoffs
    BY <1>6 DEF BuildMarts
  <2>2. evidence[w].attempt \in Attempt
    BY <1>0, <2>1, StagesHaveEvidence DEF Evidence
  <2>3. Sound(r, build')
    BY <1>0, <1>6, <2>2 DEF Sound, Build
  <2> QED BY <1>6, <2>1, <2>3 DEF BuildSound, handoffs
<1>7. CASE StartPublish(w) /\ pc'[w] = "evidence" /\ evidence'[w] = transformed[r]
  BY <1>7 DEF StartPublish, handoffs
<1>8. CASE /\ CheckEvidence(w) /\ LatestSucceeded(w)
           /\ pc'[w] = "read" /\ evidence'[w] = evidence[w]
  <2>1. pc[w] = "evidence" /\ build' = build /\ attempt[r] = evidence[w].attempt
    BY <1>8 DEF CheckEvidence, LatestSucceeded, warehouse
  <2>2. evidence[w] = transformed[r] /\ evidence[w] # Nothing
    BY <1>0, <2>1, StagesHaveEvidence DEF BuildSound
  <2>3. Sound(r, build)
    BY <1>0, <2>1, <2>2 DEF BuildSound
  <2> QED BY <1>8, <2>1, <2>3
<1>9. CASE /\ ReadMarts(w)
           /\ pc'[w] = "check"
           /\ snapshot'[w] = [facts |-> facts, world |-> raw, build |-> build]
  <2>1. pc[w] = "read" /\ snapshot'[w].build = build
    BY <1>9 DEF ReadMarts
  <2> QED BY <1>9, <2>1 DEF BuildSound
<1>10. CASE CheckPublish(w) /\ pc'[w] = "upload" /\ snapshot'[w] = snapshot[w]
  BY <1>10 DEF CheckPublish, BuildSound
<1> QED BY <1>1, <1>2, <1>3, <1>4, <1>5, <1>6, <1>7, <1>8, <1>9, <1>10 DEF WorkerChange

\* What is released is what the upload holds.
LEMMA OwnBuildStep ==
  ASSUME BuildInv, [Next]_vars
  PROVE  OwnFailedBuildNotReleased'
<1>0. TypeOK
  BY DEF BuildInv, OrderInv, PublishInv
<1> SUFFICES ASSUME NEW r \in Runs, published'[r] # Nothing
             PROVE  published'[r].release.build.run = r => published'[r].release.build.passed
  BY DEF OwnFailedBuildNotReleased
<1>1. Recorded(r)
  BY <1>0, RecordStep
<1>2. CASE published'[r] = published[r]
  BY <1>2 DEF BuildInv, OwnFailedBuildNotReleased
<1>3. CASE published'[r] # published[r]
  <2>1. PICK w \in Workers :
          /\ RunOf[w] = r /\ pc[w] = "upload"
          /\ published'[r] = [release |-> snapshot[w], watermark |-> evidence[w].watermark]
    BY <1>1, <1>3 DEF Recorded
  <2>2. Sound(r, snapshot[w].build)
    BY <2>1 DEF BuildInv, BuildSound
  <2>3. published'[r].release = snapshot[w]
    BY <2>1
  <2> QED BY <2>2, <2>3 DEF Sound
<1> QED BY <1>2, <1>3

\* With one stage at a time the build invariant is inductive.
THEOREM BuildInvariant == Exclusive => (Spec => []BuildInv)
<1> SUFFICES ASSUME Exclusive PROVE Spec => []BuildInv
  OBVIOUS
<1>1. Init => BuildInv
  <2> SUFFICES ASSUME Init PROVE BuildInv
    OBVIOUS
  <2>1. OrderInv
    BY OrderInit
  <2>2. BuildSound /\ OwnFailedBuildNotReleased
    BY PipelineAssumption DEF Init, BuildSound, OwnFailedBuildNotReleased
  <2> QED BY <2>1, <2>2 DEF BuildInv
<1>2. BuildInv /\ [Next]_vars => BuildInv'
  <2> SUFFICES ASSUME BuildInv, [Next]_vars PROVE BuildInv'
    OBVIOUS
  <2>1. OrderInv /\ BuildSound
    BY DEF BuildInv
  <2>2. OrderInv'
    BY <2>1, OrderStep
  <2>3. BuildSound'
    BY <2>1, BuildSoundRecord, BuildSoundStage DEF BuildSound
  <2>4. OwnFailedBuildNotReleased'
    BY OwnBuildStep
  <2> QED BY <2>2, <2>3, <2>4 DEF BuildInv
<1> QED BY <1>1, <1>2, PTL DEF Spec

\* With one stage at a time, a run never releases what a failed build of its own has
\* left in the warehouse, whatever evidence of an earlier attempt is still there.
THEOREM OwnBuildsHavePassed == Exclusive => (Spec => []OwnFailedBuildNotReleased)
<1> SUFFICES ASSUME Exclusive PROVE Spec => []OwnFailedBuildNotReleased
  OBVIOUS
<1>1. BuildInv => OwnFailedBuildNotReleased
  BY DEF BuildInv
<1> QED BY BuildInvariant, <1>1, PTL

=============================================================================
