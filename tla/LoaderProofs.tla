---------------------------- MODULE LoaderProofs ----------------------------
(***************************************************************************)
(* Theorems about Loader, for every set of loaders, months, places and     *)
(* contents and every set of handoffs.                                     *)
(***************************************************************************)
EXTENDS Loader, TLAPS, FiniteSetTheorems

-----------------------------------------------------------------------------
(* Rows and metadata *)

\* The rows of a source are finitely many, at least one, and all of its version.
LEMMA RowsFacts ==
  ASSUME NEW v \in Version
  PROVE  /\ IsFiniteSet(Rows(v))
         /\ Rows(v) # {}
         /\ \A r \in Rows(v) : r.revision = v.revision /\ r.checksum = v.checksum
         /\ Rows(v) \subseteq [revision: 1..MaxRevision, checksum: Checksum,
                               partner: UNION {Content[c] : c \in Checksum}]
<1>1. v.checksum \in Checksum /\ v.revision \in 1..MaxRevision
  BY DEF Version
<1>2. IsFiniteSet(Content[v.checksum]) /\ Content[v.checksum] # {}
  BY <1>1, LoaderAssumption
<1> DEFINE row(p) == [revision |-> v.revision, checksum |-> v.checksum, partner |-> p]
           f == [p \in Content[v.checksum] |-> row(p)]
<1>3. f \in Surjection(Content[v.checksum], Rows(v))
  BY DEF Surjection, Rows
<1>4. IsFiniteSet(Rows(v))
  BY <1>2, <1>3, FS_Surjection
<1>5. Rows(v) # {}
  BY <1>2 DEF Rows
<1>6. \A r \in Rows(v) : r.revision = v.revision /\ r.checksum = v.checksum
  BY DEF Rows
<1>7. Rows(v) \subseteq [revision: 1..MaxRevision, checksum: Checksum,
                         partner: UNION {Content[c] : c \in Checksum}]
  BY <1>1 DEF Rows
<1> QED BY <1>4, <1>5, <1>6, <1>7

\* A partition that holds one source has that source's revision and checksum.
LEMMA VersionOfRows ==
  ASSUME NEW k \in Key, NEW v \in Version, table[k] = Rows(v)
  PROVE  /\ table[k] # {}
         /\ Revisions(k) = {v.revision}
         /\ Checksums(k) = {v.checksum}
BY RowsFacts DEF Revisions, Checksums

\* The metadata query describes the source a partition holds, or its absence.
LEMMA MetadataFacts ==
  ASSUME NEW k \in Key, SingleVersion
  PROVE  /\ Metadata(k) \in Observation
         /\ table[k] = {} => Metadata(k) = Absent
         /\ \A v \in Version : table[k] = Rows(v) =>
              Metadata(k).revision = v.revision /\ Metadata(k).checksum = v.checksum
<1>1. CASE table[k] = {}
  <2>1. Absent \in Observation
    BY LoaderAssumption DEF Absent, Observation
  <2> QED BY <1>1, <2>1, RowsFacts DEF Metadata
<1>2. CASE table[k] # {}
  <2>1. PICK v \in Version : table[k] = Rows(v)
    BY <1>2 DEF SingleVersion
  <2>2. Revisions(k) = {v.revision} /\ Checksums(k) = {v.checksum}
    BY <2>1, VersionOfRows
  <2>3. Cardinality(table[k]) \in Nat
    BY <2>1, RowsFacts, FS_CardinalityType
  <2>4. Metadata(k) = [count |-> Cardinality(table[k]), revision |-> v.revision,
                       checksum |-> v.checksum]
    BY <1>2, <2>2 DEF Metadata
  <2>5. \A w \in Version : table[k] = Rows(w) =>
          w.revision = v.revision /\ w.checksum = v.checksum
    BY <2>1, <2>2, VersionOfRows
  <2> QED BY <1>2, <2>3, <2>4, <2>5, LoaderAssumption DEF Observation, Version
<1> QED BY <1>1, <1>2

\* A source the decision lets in is newer than the metadata it was decided on;
\* one it finds already loaded is the source the metadata names.
LEMMA DecisionFacts ==
  ASSUME NEW old \in Observation, NEW new \in Version
  PROVE  /\ Decision(old, new) = "load" => new.revision > old.revision
         /\ Decision(old, new) = "already_loaded" =>
              /\ old.revision = new.revision
              /\ old.checksum = new.checksum
              /\ old.revision > 0
BY LoaderAssumption DEF Decision, Observation, Version, Absent

-----------------------------------------------------------------------------
(* Type correctness.  The metadata is well formed because partitions are not
   mixed, and what a script installs is a source because it was handed off. *)

TypedTable ==
  /\ TypeOK
  /\ SingleVersion
  /\ \A j \in jobs : j.keys \subseteq Handed(j.owner)

\* Every source that is handed to a stage comes with a version.
LEMMA HandedVersion ==
  ASSUME TypeOK, NEW l \in Loaders, NEW k \in Handed(l)
  PROVE  k \in Key /\ handoff[l][k] \in Version
BY LoaderAssumption DEF TypeOK, Handed

\* The empty warehouse and idle stages are typed.
LEMMA TypedInit == Init => TypedTable
<1> SUFFICES ASSUME Init PROVE TypedTable
  OBVIOUS
<1>1. \A k \in Key : Absent \in Observation
  BY LoaderAssumption DEF Absent, Observation
<1>2. TypeOK
  BY <1>1, LoaderAssumption DEF Init, TypeOK
<1> QED BY <1>2 DEF Init, TypedTable, SingleVersion

\* A stage that starts keeps the types.
LEMMA TypedStart ==
  ASSUME TypedTable, NEW l \in Loaders, Start(l)
  PROVE  TypedTable'
<1>1. Absent \in Observation
  BY LoaderAssumption DEF Absent, Observation
<1>2. {MonthOf(k) : k \in Handed(l)} \subseteq Months
  BY DEF MonthOf, Handed, Key
<1>3. attempt' \in [Loaders -> Nat]
  BY LoaderAssumption DEF TypedTable, TypeOK, Start
<1>4. TypeOK'
  BY <1>1, <1>2, <1>3 DEF TypedTable, TypeOK, Start, Goto
<1> QED BY <1>4 DEF TypedTable, SingleVersion, Start, Handed

\* Reading metadata keeps the types.
LEMMA TypedRead ==
  ASSUME TypedTable, NEW l \in Loaders, ReadPartnerDetail(l) \/ ReadWorldTotal(l)
  PROVE  TypedTable'
<1>1. PICK kind \in Kinds, next \in {"world_total", "decide"} : ReadKind(l, kind, next)
  BY DEF ReadPartnerDetail, ReadWorldTotal, Kinds
<1>2. PICK m \in todo[l] :
        observed' = [observed EXCEPT ![l] =
          [k \in Key |-> IF k \in {k2 \in Key : MonthOf(k2) = m /\ KindOf(k2) = kind}
                         THEN Metadata(k) ELSE @[k]]]
  BY <1>1 DEF ReadKind
<1>3. \A k \in Key : Metadata(k) \in Observation
  BY MetadataFacts DEF TypedTable
<1>4. observed' \in [Loaders -> [Key -> Observation]]
  BY <1>2, <1>3 DEF TypedTable, TypeOK
<1>5. pc' \in [Loaders -> {"idle", "partner_detail", "world_total", "decide",
                           "wait", "loaded", "failed"}]
  BY <1>1 DEF TypedTable, TypeOK, ReadKind, Goto
<1>6. TypeOK'
  BY <1>1, <1>4, <1>5 DEF TypedTable, TypeOK, ReadKind
<1> QED BY <1>1, <1>6 DEF TypedTable, SingleVersion, ReadKind, Handed

\* Submitting a script keeps the types: the job names sources and what was read of them.
LEMMA TypedSubmit ==
  ASSUME TypedTable, NEW l \in Loaders, Submit(l)
  PROVE  TypedTable'
<1>1. PICK m \in todo[l] :
        jobs' = jobs \cup {[owner |-> l, attempt |-> attempt[l], month |-> m,
                            keys |-> ToLoad(l, m), observed |-> observed[l],
                            status |-> "running"]}
  BY DEF Submit
<1>2. ToLoad(l, m) \subseteq Handed(l) /\ Handed(l) \subseteq Key
  BY DEF ToLoad, Batch, Handed
<1>3. m \in Months /\ observed[l] \in [Key -> Observation]
  BY DEF TypedTable, TypeOK
<1>4. jobs' \subseteq Job
  BY <1>1, <1>2, <1>3 DEF TypedTable, TypeOK, Job
<1>5. TypeOK'
  BY <1>4 DEF TypedTable, TypeOK, Submit, Goto
<1>6. \A j \in jobs' : j.keys \subseteq Handed(j.owner)
  BY <1>1, <1>2 DEF TypedTable
<1> QED BY <1>5, <1>6 DEF TypedTable, SingleVersion, Submit, Handed

\* The steps of a loader that only move it on, to the next month or out.
LEMMA TypedMove ==
  ASSUME TypedTable, NEW l \in Loaders,
         Reject(l) \/ SkipMonth(l) \/ JobSucceeded(l) \/ JobFailed(l)
           \/ Timeout(l) \/ Crash(l) \/ Finish(l)
  PROVE  TypedTable'
<1>1. Absent \in Observation
  BY LoaderAssumption DEF Absent, Observation
<1>2. UNCHANGED <<table, audit, jobs, handoff, attempt>>
  BY DEF Reject, SkipMonth, JobSucceeded, JobFailed, Timeout, Crash, Finish
<1>3. /\ pc' \in [Loaders -> {"idle", "partner_detail", "world_total", "decide",
                              "wait", "loaded", "failed"}]
      /\ todo' \in [Loaders -> SUBSET Months]
      /\ observed' \in [Loaders -> [Key -> Observation]]
  <2>1. CASE SkipMonth(l) \/ JobSucceeded(l)
    <3>1. PICK m : FinishMonth(l, m)
      BY <2>1 DEF SkipMonth, JobSucceeded
    <3> QED BY <1>1, <3>1 DEF FinishMonth, Goto, TypedTable, TypeOK
  <2>2. CASE Reject(l) \/ JobFailed(l) \/ Timeout(l) \/ Crash(l) \/ Finish(l)
    BY <2>2 DEF Reject, JobFailed, Timeout, Crash, Finish, Goto, TypedTable, TypeOK
  <2> QED BY <2>1, <2>2
<1>4. TypeOK'
  BY <1>2, <1>3 DEF TypedTable, TypeOK
<1> QED BY <1>2, <1>4 DEF TypedTable, SingleVersion, Handed

\* The end of a job changes nothing but its status.
LEMMA EndedJobs ==
  ASSUME TypedTable, NEW j \in jobs, NEW s \in {"success", "failed"}, Ended(j, s)
  PROVE  /\ jobs' \subseteq Job
         /\ \A i \in jobs' : \/ i \in jobs
                             \/ i = [j EXCEPT !.status = s]
         /\ \A i \in jobs' : \E old \in jobs :
              /\ i.owner = old.owner /\ i.keys = old.keys /\ i.month = old.month
              /\ i.attempt = old.attempt /\ i.observed = old.observed
BY DEF TypedTable, TypeOK, Job, Ended

\* A script that commits, fails its assertions or is aborted keeps the types.
LEMMA TypedExecute ==
  ASSUME TypedTable, NEW j \in jobs, Execute(j)
  PROVE  TypedTable'
<1>1. UNCHANGED loaderVars
  BY DEF Execute, Commit, AssertionFails, Abort
<1>2. PICK s \in {"success", "failed"} : Ended(j, s)
  BY DEF Execute, Commit, AssertionFails, Abort
<1>3. /\ jobs' \subseteq Job
      /\ \A i \in jobs' : \E old \in jobs : i.owner = old.owner /\ i.keys = old.keys
  BY <1>2, EndedJobs
<1>4. \A i \in jobs' : i.keys \subseteq Handed(i.owner)'
  BY <1>1, <1>3 DEF TypedTable, loaderVars, Handed
<1>5. CASE Commit(j)
  <2>1. \A k \in j.keys : k \in Key /\ handoff[j.owner][k] \in Version
    BY HandedVersion DEF TypedTable, TypeOK, Job
  <2>2. j.owner \in Loaders /\ j.attempt \in Nat
    BY DEF TypedTable, TypeOK, Job
  <2>3. SingleVersion'
    BY <1>5, <2>1 DEF Commit, SingleVersion, TypedTable, Rows
  <2>4. table' \in [Key -> SUBSET [revision: 1..MaxRevision, checksum: Checksum,
                                   partner: UNION {Content[c] : c \in Checksum}]]
    BY <1>5, <2>1, RowsFacts DEF Commit, TypedTable, TypeOK
  <2>5. audit' \subseteq [key: Key, revision: 1..MaxRevision, checksum: Checksum,
                          owner: Loaders, attempt: Nat]
    BY <1>5, <2>1, <2>2 DEF Commit, TypedTable, TypeOK, Version
  <2>6. TypeOK'
    BY <1>1, <1>3, <2>4, <2>5 DEF TypedTable, TypeOK, loaderVars
  <2> QED BY <1>4, <2>3, <2>6 DEF TypedTable
<1>6. CASE AssertionFails(j) \/ Abort(j)
  <2>1. UNCHANGED <<table, audit>>
    BY <1>6 DEF AssertionFails, Abort
  <2>2. TypeOK'
    BY <1>1, <1>3, <2>1 DEF TypedTable, TypeOK, loaderVars
  <2> QED BY <1>4, <2>1, <2>2 DEF TypedTable, SingleVersion
<1> QED BY <1>5, <1>6 DEF Execute

\* Every step keeps the types.
LEMMA TypedStep == TypedTable /\ [Next]_vars => TypedTable'
<1> SUFFICES ASSUME TypedTable, [Next]_vars PROVE TypedTable'
  OBVIOUS
<1>1. CASE \E l \in Loaders : Start(l) \/ Proceed(l) \/ Crash(l)
  BY <1>1, TypedStart, TypedRead, TypedSubmit, TypedMove DEF Proceed
<1>2. CASE \E j \in jobs : Execute(j)
  BY <1>2, TypedExecute
<1>3. CASE UNCHANGED vars
  BY <1>3 DEF vars, TypedTable, TypeOK, SingleVersion, Handed
<1> QED BY <1>1, <1>2, <1>3 DEF Next

\* Every variable keeps its type.
THEOREM TypeCorrect == Spec => []TypeOK
<1>1. TypedTable => TypeOK
  BY DEF TypedTable
<1> QED BY <1>1, TypedInit, TypedStep, PTL DEF Spec

\* No partition of the Raw tables ever mixes two sources or holds part of one.
THEOREM NoMixedPartition == Spec => []SingleVersion
<1>1. TypedTable => SingleVersion
  BY DEF TypedTable
<1> QED BY <1>1, TypedInit, TypedStep, PTL DEF Spec

-----------------------------------------------------------------------------
(* The inductive invariant *)

\* The inductive invariant includes the types.
LEMMA InvTyped == LoaderInv => TypedTable
BY DEF LoaderInv, TypedTable, JobsJustified

\* The audit log only grows, so what was committed stays committed.
LEMMA AuditedStays ==
  ASSUME NEW k, NEW v, audit \subseteq audit', Audited(k, v)
  PROVE  \E a \in audit' : a.key = k /\ a.revision = v.revision /\ a.checksum = v.checksum
BY DEF Audited

\* Metadata read now names a committed source.
LEMMA MetadataAudited ==
  ASSUME LoaderInv, NEW k \in Key, Metadata(k).revision > 0
  PROVE  Audited(k, Metadata(k))
<1>1. TypeOK /\ SingleVersion /\ ServesNewestAudited
  BY DEF LoaderInv
<1>2. table[k] # {}
  BY <1>1, MetadataFacts DEF Absent
<1>3. PICK a \in audit :
        /\ a.key = k
        /\ table[k] = Rows([revision |-> a.revision, checksum |-> a.checksum])
  BY <1>1, <1>2 DEF ServesNewestAudited
<1>4. [revision |-> a.revision, checksum |-> a.checksum] \in Version
  BY <1>1 DEF TypeOK, Version
<1>5. Metadata(k).revision = a.revision /\ Metadata(k).checksum = a.checksum
  BY <1>1, <1>3, <1>4, MetadataFacts
<1> QED BY <1>3, <1>5 DEF Audited

\* What a verdict says about a source of the batch.
LEMMA VerdictFacts ==
  ASSUME LoaderInv, NEW l \in Loaders, NEW k \in Handed(l)
  PROVE  /\ Verdict(l, k) = "load" => handoff[l][k].revision > observed[l][k].revision
         /\ Verdict(l, k) = "already_loaded" => Audited(k, handoff[l][k])
<1>1. TypeOK /\ ObservedAudited
  BY DEF LoaderInv
<1>2. k \in Key /\ handoff[l][k] \in Version /\ observed[l][k] \in Observation
  BY <1>1, HandedVersion DEF TypeOK
<1>3. ASSUME Verdict(l, k) = "load"
      PROVE  Decision(observed[l][k], handoff[l][k]) = "load"
  BY <1>3 DEF Verdict
<1>4. ASSUME Verdict(l, k) = "already_loaded"
      PROVE  Audited(k, handoff[l][k])
  <2>1. Decision(observed[l][k], handoff[l][k]) = "already_loaded"
    BY <1>4 DEF Verdict
  <2>2. Audited(k, observed[l][k])
    BY <1>1, <1>2, <2>1, DecisionFacts DEF ObservedAudited
  <2> QED BY <1>2, <2>1, <2>2, DecisionFacts DEF Audited
<1> QED BY <1>2, <1>3, <1>4, DecisionFacts

\* When the assertion on a partition passes, everything ever committed to the
\* partition is older than the source the script is about to install.
LEMMA AssertedOlder ==
  ASSUME LoaderInv, NEW j \in jobs, j.status = "running",
         NEW k \in j.keys, AsObserved(k, j.observed[k])
  PROVE  /\ \A r \in table[k] : r.revision < handoff[j.owner][k].revision
         /\ \A a \in audit : a.key = k => a.revision < handoff[j.owner][k].revision
<1> DEFINE new == handoff[j.owner][k]
<1>1. TypeOK /\ ServesNewestAudited /\ JobsJustified
  BY DEF LoaderInv
<1>2. k \in Key /\ new \in Version /\ j.observed[k] \in Observation
  <2>1. j.owner \in Loaders /\ k \in Handed(j.owner)
    BY <1>1 DEF TypeOK, Job, JobsJustified
  <2> QED BY <1>1, <2>1, HandedVersion DEF TypeOK, Job
<1>3. new.revision > j.observed[k].revision
  BY <1>1 DEF JobsJustified
<1>4. \A r \in table[k] : r.revision = j.observed[k].revision
  BY DEF AsObserved, Revisions
<1>5. ASSUME NEW b \in audit, b.key = k
      PROVE  b.revision < new.revision
  <2>1. table[k] # {}
    BY <1>1, <1>2, <1>5 DEF ServesNewestAudited
  <2>2. PICK a \in audit :
          /\ a.key = k
          /\ table[k] = Rows([revision |-> a.revision, checksum |-> a.checksum])
          /\ b.revision <= a.revision
    BY <1>1, <1>2, <1>5, <2>1 DEF ServesNewestAudited
  <2>3. [revision |-> a.revision, checksum |-> a.checksum] \in Version
    BY <1>1 DEF TypeOK, Version
  <2>4. a.revision = j.observed[k].revision
    BY <1>4, <2>1, <2>2, <2>3, RowsFacts
  <2> QED BY <1>1, <1>2, <1>3, <2>2, <2>4 DEF TypeOK, Version, Observation
<1>6. \A r \in table[k] : r.revision < new.revision
  BY <1>2, <1>3, <1>4 DEF Version, Observation
<1> QED BY <1>5, <1>6

\* The inductive invariant holds at first.
LEMMA InvInit == Init => LoaderInv
<1> SUFFICES ASSUME Init PROVE LoaderInv
  OBVIOUS
<1>1. TypeOK /\ SingleVersion
  BY TypedInit DEF TypedTable
<1>2. ServesNewestAudited /\ CommittedOnce /\ JobsJustified
  BY DEF Init, ServesNewestAudited, CommittedOnce, JobsJustified
<1>3. ObservedAudited /\ DoneMonthsAudited /\ LoadedIsDone
  BY DEF Init, ObservedAudited, DoneMonthsAudited, LoadedIsDone, Absent
<1> QED BY <1>1, <1>2, <1>3 DEF LoaderInv

\* A step of a loader leaves the warehouse alone.
LEMMA SameWarehouse ==
  ASSUME LoaderInv, UNCHANGED <<table, audit>>
  PROVE  ServesNewestAudited' /\ CommittedOnce'
BY DEF LoaderInv, ServesNewestAudited, CommittedOnce, Rows

\* A step that submits or ends no job leaves what is known of them.
LEMMA SameJobs ==
  ASSUME LoaderInv, UNCHANGED <<audit, jobs, handoff>>
  PROVE  JobsJustified'
BY DEF LoaderInv, JobsJustified, Audited, Batch, Handed

\* A stage that starts keeps the invariant.
LEMMA InvStart ==
  ASSUME LoaderInv, NEW l \in Loaders, Start(l)
  PROVE  LoaderInv'
<1>1. TypedTable'
  BY InvTyped, TypedStart
<1>2. UNCHANGED <<table, audit, jobs, handoff>>
  BY DEF Start
<1>3. TypeOK /\ ObservedAudited /\ DoneMonthsAudited /\ LoadedIsDone
  BY DEF LoaderInv
<1>4. ObservedAudited'
  BY <1>2, <1>3 DEF Start, TypeOK, ObservedAudited, Audited, Absent
<1>5. DoneMonthsAudited'
  <2> SUFFICES ASSUME NEW i \in Loaders, pc'[i] \notin {"idle", "failed"},
                      NEW k \in Handed(i), MonthOf(k) \notin todo'[i]
               PROVE  Audited(k, handoff[i][k])
    BY <1>2 DEF DoneMonthsAudited, Handed, Audited
  <2>1. CASE i = l
    BY <1>3, <2>1 DEF Start, TypeOK
  <2>2. CASE i # l
    BY <1>3, <2>2 DEF Start, Goto, TypeOK, DoneMonthsAudited
  <2> QED BY <2>1, <2>2
<1>6. LoadedIsDone'
  BY <1>3 DEF Start, Goto, TypeOK, LoadedIsDone
<1> QED BY <1>1, <1>2, <1>4, <1>5, <1>6, SameWarehouse, SameJobs
        DEF LoaderInv, TypedTable

\* What is read of a month is in the audit log.
LEMMA InvRead ==
  ASSUME LoaderInv, NEW l \in Loaders, ReadPartnerDetail(l) \/ ReadWorldTotal(l)
  PROVE  LoaderInv'
<1>1. TypedTable'
  BY InvTyped, TypedRead
<1>2. PICK kind \in Kinds, next \in {"world_total", "decide"} : ReadKind(l, kind, next)
  BY DEF ReadPartnerDetail, ReadWorldTotal, Kinds
<1>3. UNCHANGED <<table, audit, jobs, handoff, todo>>
  BY <1>2 DEF ReadKind
<1>4. TypeOK /\ ObservedAudited /\ DoneMonthsAudited /\ LoadedIsDone
  BY DEF LoaderInv
<1>5. ObservedAudited'
  <2> SUFFICES ASSUME NEW i \in Loaders, NEW k \in Key, observed'[i][k].revision > 0
               PROVE  Audited(k, observed'[i][k])
    BY <1>3 DEF ObservedAudited, Audited
  <2>1. observed'[i][k] = observed[i][k] \/ observed'[i][k] = Metadata(k)
    BY <1>2, <1>4 DEF ReadKind, TypeOK
  <2> QED BY <1>4, <2>1, MetadataAudited DEF ObservedAudited
<1>6. /\ pc[l] \notin {"idle", "failed", "loaded"}
      /\ \A i \in Loaders \ {l} : pc'[i] = pc[i]
      /\ pc'[l] # "loaded"
  BY <1>2, <1>4 DEF ReadKind, Goto, TypeOK, Kinds
<1>7. DoneMonthsAudited'
  BY <1>3, <1>4, <1>6 DEF DoneMonthsAudited, Handed, Audited
<1>8. LoadedIsDone'
  BY <1>3, <1>4, <1>6 DEF LoadedIsDone
<1> QED BY <1>1, <1>3, <1>5, <1>7, <1>8, SameWarehouse, SameJobs
        DEF LoaderInv, TypedTable

\* A submitted script names the sources that were judged loadable on what was read.
LEMMA InvSubmit ==
  ASSUME LoaderInv, NEW l \in Loaders, Submit(l)
  PROVE  LoaderInv'
<1>1. TypedTable'
  BY InvTyped, TypedSubmit
<1>2. UNCHANGED <<table, audit, handoff, todo, observed>>
  BY DEF Submit
<1>3. TypeOK /\ JobsJustified /\ ObservedAudited /\ DoneMonthsAudited /\ LoadedIsDone
  BY DEF LoaderInv
<1>4. PICK m \in todo[l] :
        /\ Acceptable(l, m)
        /\ ToLoad(l, m) # {}
        /\ jobs' = jobs \cup {[owner |-> l, attempt |-> attempt[l], month |-> m,
                               keys |-> ToLoad(l, m), observed |-> observed[l],
                               status |-> "running"]}
  BY DEF Submit
<1>5. ToLoad(l, m) \subseteq Batch(l, m) /\ Batch(l, m) \subseteq Handed(l)
  BY DEF ToLoad, Batch
<1>6. \A k \in ToLoad(l, m) : handoff[l][k].revision > observed[l][k].revision
  BY <1>5, VerdictFacts DEF ToLoad
<1>7. \A k \in Batch(l, m) \ ToLoad(l, m) : Audited(k, handoff[l][k])
  BY <1>4, <1>5, VerdictFacts DEF ToLoad, Acceptable
<1>8. JobsJustified'
  BY <1>2, <1>3, <1>4, <1>5, <1>6, <1>7 DEF JobsJustified, Audited, Batch, Handed
<1>9. DoneMonthsAudited' /\ LoadedIsDone' /\ ObservedAudited'
  BY <1>2, <1>3 DEF Submit, Goto, TypeOK, DoneMonthsAudited, LoadedIsDone,
                    ObservedAudited, Handed, Audited
<1> QED BY <1>1, <1>2, <1>8, <1>9, SameWarehouse DEF LoaderInv, TypedTable

\* The two ways load_month returns: everything handed off for m is committed.
LEMMA InvFinishMonth ==
  ASSUME LoaderInv, NEW l \in Loaders, NEW m, FinishMonth(l, m),
         \A k \in Batch(l, m) : Audited(k, handoff[l][k]),
         pc[l] \notin {"idle", "failed"},
         UNCHANGED <<table, audit, jobs, handoff, attempt>>
  PROVE  ObservedAudited' /\ DoneMonthsAudited' /\ LoadedIsDone'
<1>1. TypeOK /\ ObservedAudited /\ DoneMonthsAudited /\ LoadedIsDone
  BY DEF LoaderInv
<1>2. ObservedAudited'
  BY <1>1 DEF FinishMonth, TypeOK, ObservedAudited, Audited, Absent
<1>3. DoneMonthsAudited'
  <2> SUFFICES ASSUME NEW i \in Loaders, pc'[i] \notin {"idle", "failed"},
                      NEW k \in Handed(i), MonthOf(k) \notin todo'[i]
               PROVE  Audited(k, handoff[i][k])
    BY DEF DoneMonthsAudited, Handed, Audited
  <2>1. CASE i = l /\ MonthOf(k) = m
    BY <2>1 DEF Batch
  <2>2. CASE ~(i = l /\ MonthOf(k) = m)
    BY <1>1, <2>2 DEF FinishMonth, Goto, TypeOK, DoneMonthsAudited
  <2> QED BY <2>1, <2>2
<1>4. LoadedIsDone'
  BY <1>1 DEF FinishMonth, Goto, TypeOK, LoadedIsDone
<1> QED BY <1>2, <1>3, <1>4

\* A stage that moves on or ends keeps the invariant.
LEMMA InvMove ==
  ASSUME LoaderInv, NEW l \in Loaders,
         Reject(l) \/ SkipMonth(l) \/ JobSucceeded(l) \/ JobFailed(l)
           \/ Timeout(l) \/ Crash(l) \/ Finish(l)
  PROVE  LoaderInv'
<1>1. TypedTable'
  BY InvTyped, TypedMove
<1>2. UNCHANGED <<table, audit, jobs, handoff, attempt>>
  BY DEF Reject, SkipMonth, JobSucceeded, JobFailed, Timeout, Crash, Finish
<1>3. TypeOK /\ JobsJustified /\ ObservedAudited /\ DoneMonthsAudited /\ LoadedIsDone
  BY DEF LoaderInv
<1>4. ObservedAudited' /\ DoneMonthsAudited' /\ LoadedIsDone'
  <2>1. CASE SkipMonth(l)
    <3>1. PICK m \in todo[l] :
            Acceptable(l, m) /\ ToLoad(l, m) = {} /\ FinishMonth(l, m)
      BY <2>1 DEF SkipMonth
    <3>2. \A k \in Batch(l, m) : k \in Handed(l) /\ Audited(k, handoff[l][k])
      BY <3>1, VerdictFacts DEF Acceptable, ToLoad, Batch
    <3>3. pc[l] \notin {"idle", "failed"}
      BY <2>1 DEF SkipMonth
    <3> QED BY <1>2, <3>1, <3>2, <3>3, InvFinishMonth
  <2>2. CASE JobSucceeded(l)
    <3>1. PICK j \in jobs : Mine(l, j) /\ j.status = "success" /\ FinishMonth(l, j.month)
      BY <2>2 DEF JobSucceeded
    <3>2. \A k \in Batch(l, j.month) : Audited(k, handoff[l][k])
      BY <1>3, <3>1 DEF JobsJustified, Mine
    <3>3. pc[l] \notin {"idle", "failed"}
      BY <2>2 DEF JobSucceeded
    <3> QED BY <1>2, <3>1, <3>2, <3>3, InvFinishMonth
  <2>3. CASE Finish(l)
    BY <1>3, <2>3 DEF Finish, Goto, TypeOK, ObservedAudited, DoneMonthsAudited,
                      LoadedIsDone, Handed, Audited
  <2>4. CASE Reject(l) \/ JobFailed(l) \/ Timeout(l) \/ Crash(l)
    <3>1. UNCHANGED <<todo, observed>> /\ Goto(l, "failed")
      BY <2>4 DEF Reject, JobFailed, Timeout, Crash
    <3> QED BY <1>2, <1>3, <3>1 DEF Goto, TypeOK, ObservedAudited,
               DoneMonthsAudited, LoadedIsDone, Handed, Audited
  <2> QED BY <2>1, <2>2, <2>3, <2>4
<1> QED BY <1>1, <1>2, <1>4, SameWarehouse, SameJobs DEF LoaderInv, TypedTable

\* The end of a script, seen by everything that only needs the log to grow.
LEMMA InvEnded ==
  ASSUME LoaderInv, NEW j \in jobs, NEW s \in {"success", "failed"}, Ended(j, s),
         UNCHANGED loaderVars, audit \subseteq audit',
         s = "success" => \A k \in j.keys : Audited(k, handoff[j.owner][k])'
  PROVE  JobsJustified' /\ ObservedAudited' /\ DoneMonthsAudited' /\ LoadedIsDone'
<1>1. TypeOK /\ JobsJustified /\ ObservedAudited /\ DoneMonthsAudited /\ LoadedIsDone
  BY DEF LoaderInv
<1>2. UNCHANGED <<handoff, pc, todo, observed>>
  BY DEF loaderVars
<1>3. \A k, v : Audited(k, v) =>
        \E a \in audit' : a.key = k /\ a.revision = v.revision /\ a.checksum = v.checksum
  BY AuditedStays
<1>4. JobsJustified'
  <2> SUFFICES ASSUME NEW i \in jobs'
               PROVE  /\ i.keys # {} /\ i.keys \subseteq Handed(i.owner)
                      /\ \A k \in i.keys :
                           /\ handoff[i.owner][k].revision > i.observed[k].revision
                           /\ i.status = "success" => Audited(k, handoff[i.owner][k])'
                      /\ \A k \in Batch(i.owner, i.month) \ i.keys :
                           Audited(k, handoff[i.owner][k])'
    BY <1>2 DEF JobsJustified, Batch, Handed
  <2>1. CASE i \in jobs
    BY <1>1, <1>2, <1>3, <2>1 DEF JobsJustified, Audited
  <2>2. CASE i = [j EXCEPT !.status = s]
    <3>1. /\ i.owner = j.owner /\ i.keys = j.keys /\ i.month = j.month
          /\ i.observed = j.observed /\ i.status = s
      BY <1>1, <2>2 DEF TypeOK, Job
    <3> QED BY <1>1, <1>2, <1>3, <3>1 DEF JobsJustified, Audited
  <2> QED BY <2>1, <2>2 DEF Ended
<1>5. ObservedAudited'
  BY <1>1, <1>2, <1>3 DEF ObservedAudited, Audited
<1>6. DoneMonthsAudited' /\ LoadedIsDone'
  BY <1>1, <1>2, <1>3 DEF DoneMonthsAudited, LoadedIsDone, Audited, Handed
<1> QED BY <1>4, <1>5, <1>6

\* A commit whose assertions hold installs newer sources, each audited for the first time.
LEMMA InvCommit ==
  ASSUME LoaderInv, NEW j \in jobs, Commit(j)
  PROVE  LoaderInv'
<1>1. TypedTable'
  BY InvTyped, TypedExecute DEF Execute
<1>2. TypeOK /\ ServesNewestAudited /\ CommittedOnce /\ JobsJustified
  BY DEF LoaderInv
<1> DEFINE new(k) == handoff[j.owner][k]
           row(k) == [key |-> k, revision |-> new(k).revision,
                      checksum |-> new(k).checksum,
                      owner |-> j.owner, attempt |-> j.attempt]
<1>3. audit' = audit \cup {row(k) : k \in j.keys}
  BY DEF Commit
<1>4. \A k \in j.keys : k \in Key /\ new(k) \in Version
  <2>1. j.owner \in Loaders /\ j.keys \subseteq Handed(j.owner)
    BY <1>2 DEF TypeOK, Job, JobsJustified
  <2> QED BY <1>2, <2>1, HandedVersion
<1>5. \A k \in j.keys : \A a \in audit : a.key = k => a.revision < new(k).revision
  BY AssertedOlder DEF Commit
<1>6. UNCHANGED handoff
  BY DEF Commit, loaderVars
<1>7. \A k \in j.keys : Audited(k, handoff[j.owner][k])'
  <2> SUFFICES ASSUME NEW k \in j.keys
               PROVE  \E a \in audit' : /\ a.key = k
                                        /\ a.revision = handoff'[j.owner][k].revision
                                        /\ a.checksum = handoff'[j.owner][k].checksum
    BY DEF Audited
  <2>1. row(k) \in audit'
    BY <1>3
  <2>2. row(k).key = k /\ row(k).revision = new(k).revision /\ row(k).checksum = new(k).checksum
    OBVIOUS
  <2> QED BY <1>6, <2>1, <2>2
<1>8. JobsJustified' /\ ObservedAudited' /\ DoneMonthsAudited' /\ LoadedIsDone'
  BY <1>3, <1>7, InvEnded DEF Commit
<1>9. CommittedOnce'
  <2> SUFFICES ASSUME NEW a \in audit', NEW b \in audit',
                      a.key = b.key, a.revision = b.revision
               PROVE  a = b
    BY DEF CommittedOnce
  <2>1. CASE a \in audit /\ b \in audit
    BY <1>2, <2>1 DEF CommittedOnce
  <2>2. ASSUME NEW old \in audit, NEW k \in j.keys, old.key = k
        PROVE  old.revision # new(k).revision
    BY <1>2, <1>4, <1>5, <2>2 DEF TypeOK, Version
  <2> QED BY <1>3, <2>1, <2>2
<1>10. ServesNewestAudited'
  <2> SUFFICES ASSUME NEW k \in Key
               PROVE  IF table'[k] = {} THEN {a \in audit' : a.key = k} = {}
                      ELSE \E a \in {a2 \in audit' : a2.key = k} :
                        /\ table'[k] = Rows([revision |-> a.revision,
                                             checksum |-> a.checksum])
                        /\ \A b \in {a2 \in audit' : a2.key = k} :
                             b.revision <= a.revision
    BY DEF ServesNewestAudited, Rows
  <2>1. CASE k \in j.keys
    <3>1. table'[k] = Rows(new(k)) /\ Rows(new(k)) # {}
      BY <1>4, <2>1, RowsFacts DEF Commit
    <3>2. new(k) = [revision |-> row(k).revision, checksum |-> row(k).checksum]
      BY <1>4, <2>1 DEF Version
    <3>3. row(k) \in audit' /\ row(k).key = k
      BY <1>3, <2>1
    <3>4. ASSUME NEW b \in audit', b.key = k
          PROVE  b.revision <= row(k).revision
      <4>1. CASE b \in audit
        BY <1>2, <1>4, <1>5, <2>1, <3>4, <4>1 DEF TypeOK, Version
      <4>2. CASE b \in {row(i) : i \in j.keys}
        BY <1>4, <2>1, <3>4, <4>2 DEF Version
      <4> QED BY <1>3, <4>1, <4>2
    <3> QED BY <3>1, <3>2, <3>3, <3>4
  <2>2. CASE k \notin j.keys
    <3>1. table'[k] = table[k]
      BY <2>2 DEF Commit
    <3>2. {a \in audit' : a.key = k} = {a \in audit : a.key = k}
      BY <1>3, <2>2
    <3> QED BY <1>2, <3>1, <3>2 DEF ServesNewestAudited
  <2> QED BY <2>1, <2>2
<1> QED BY <1>1, <1>8, <1>9, <1>10 DEF LoaderInv, TypedTable

\* Every step keeps the invariant.
LEMMA InvStep == LoaderInv /\ [Next]_vars => LoaderInv'
<1> SUFFICES ASSUME LoaderInv, [Next]_vars PROVE LoaderInv'
  OBVIOUS
<1>1. CASE \E l \in Loaders : Start(l) \/ Proceed(l) \/ Crash(l)
  BY <1>1, InvStart, InvRead, InvSubmit, InvMove DEF Proceed
<1>2. ASSUME NEW j \in jobs, Execute(j)
      PROVE  LoaderInv'
  <2>1. CASE Commit(j)
    BY <2>1, InvCommit
  <2>2. CASE AssertionFails(j) \/ Abort(j)
    <3>1. Ended(j, "failed") /\ UNCHANGED <<table, audit, loaderVars>>
      BY <2>2 DEF AssertionFails, Abort
    <3>2. TypedTable'
      BY <1>2, InvTyped, TypedExecute
    <3> QED BY <3>1, <3>2, InvEnded, SameWarehouse DEF LoaderInv, TypedTable
  <2> QED BY <1>2, <2>1, <2>2 DEF Execute
<1>3. CASE UNCHANGED vars
  <2>1. TypedTable'
    BY <1>3, InvTyped, TypedStep
  <2>2. UNCHANGED <<table, audit, jobs, handoff, pc, todo, observed>>
    BY <1>3 DEF vars
  <2>3. ObservedAudited' /\ DoneMonthsAudited' /\ LoadedIsDone'
    BY <2>2 DEF LoaderInv, ObservedAudited, DoneMonthsAudited, LoadedIsDone, Audited, Handed
  <2> QED BY <2>1, <2>2, <2>3, SameWarehouse, SameJobs DEF LoaderInv, TypedTable
<1> QED BY <1>1, <1>2, <1>3 DEF Next

\* The whole inductive invariant holds in every reachable state.
THEOREM LoaderInvariant == Spec => []LoaderInv
BY InvInit, InvStep, PTL DEF Spec

\* No revision is committed, or audited, twice, however often stages are retried
\* and however late their scripts run.
THEOREM RevisionCommittedOnce == Spec => []CommittedOnce
<1>1. LoaderInv => CommittedOnce
  BY DEF LoaderInv
<1> QED BY <1>1, LoaderInvariant, PTL

\* What a partition serves is always the newest source audited for it.
THEOREM NewestIsServed == Spec => []ServesNewestAudited
<1>1. LoaderInv => ServesNewestAudited
  BY DEF LoaderInv
<1> QED BY <1>1, LoaderInvariant, PTL

\* Success of the load stage means the whole handoff was committed.
THEOREM SuccessIsCommitted == Spec => []LoadedMeansCommitted
<1>1. LoaderInv => LoadedMeansCommitted
  <2> SUFFICES ASSUME LoaderInv, NEW l \in Loaders, pc[l] = "loaded",
                      NEW k \in Handed(l)
               PROVE  /\ Audited(k, handoff[l][k])
                      /\ table[k] # {}
                      /\ \A r \in Revisions(k) : r >= handoff[l][k].revision
    BY DEF LoadedMeansCommitted
  <2>1. TypeOK /\ ServesNewestAudited /\ DoneMonthsAudited /\ LoadedIsDone
    BY DEF LoaderInv
  <2>2. k \in Key /\ handoff[l][k] \in Version
    BY <2>1, HandedVersion
  <2>3. Audited(k, handoff[l][k])
    BY <2>1 DEF DoneMonthsAudited, LoadedIsDone
  <2>4. table[k] # {}
    BY <2>1, <2>2, <2>3 DEF ServesNewestAudited, Audited
  <2>5. PICK a \in audit :
          /\ table[k] = Rows([revision |-> a.revision, checksum |-> a.checksum])
          /\ \A b \in audit : b.key = k => b.revision <= a.revision
    BY <2>1, <2>2, <2>4 DEF ServesNewestAudited
  <2>6. [revision |-> a.revision, checksum |-> a.checksum] \in Version
    BY <2>1 DEF TypeOK, Version
  <2>7. Revisions(k) = {a.revision}
    BY <2>2, <2>5, <2>6, VersionOfRows
  <2> QED BY <2>2, <2>3, <2>4, <2>5, <2>6, <2>7 DEF Audited, Version
<1> QED BY <1>1, LoaderInvariant, PTL

\* Partitions only ever move to a newer revision.
THEOREM RevisionsGrow == Spec => NeverRegress
<1>1. LoaderInv /\ [Next]_vars =>
        [\A k \in Key : table'[k] # table[k] =>
           /\ table'[k] # {}
           /\ \A new \in table'[k], old \in table[k] : new.revision > old.revision]_vars
  <2> SUFFICES ASSUME LoaderInv, Next, NEW k \in Key, table'[k] # table[k]
               PROVE  /\ table'[k] # {}
                      /\ \A new \in table'[k], old \in table[k] :
                           new.revision > old.revision
    OBVIOUS
  <2>1. PICK j \in jobs : Commit(j)
    BY DEF Next, Start, Proceed, ReadPartnerDetail, ReadWorldTotal, ReadKind, Reject,
           SkipMonth, Submit, JobSucceeded, JobFailed, Timeout, Finish, Crash,
           Execute, AssertionFails, Abort
  <2>2. TypeOK /\ JobsJustified
    BY DEF LoaderInv
  <2>3. k \in j.keys /\ table'[k] = Rows(handoff[j.owner][k])
    BY <2>1 DEF Commit
  <2>4. handoff[j.owner][k] \in Version
    BY <2>2, <2>3, HandedVersion DEF TypeOK, Job, JobsJustified
  <2>5. \A old \in table[k] : old.revision < handoff[j.owner][k].revision
    BY <2>1, <2>3, AssertedOlder DEF Commit
  <2>6. \A old \in table[k] : old.revision \in 1..MaxRevision
    BY <2>2 DEF TypeOK
  <2> QED BY <2>3, <2>4, <2>5, <2>6, RowsFacts DEF Version
<1> QED BY <1>1, LoaderInvariant, PTL DEF Spec, NeverRegress

-----------------------------------------------------------------------------
(* The loader implements RawTable *)

\* What a partition serves in the abstract table is the version of its rows.
LEMMA ServesVersion ==
  ASSUME NEW k \in Key, NEW v \in Version, table[k] = Rows(v)
  PROVE  Serves(k) = v
<1>1. table[k] # {} /\ Revisions(k) = {v.revision} /\ Checksums(k) = {v.checksum}
  BY VersionOfRows
<1>2. Serves(k) = [revision |-> v.revision, checksum |-> v.checksum]
  BY <1>1 DEF Serves
<1> QED BY <1>2 DEF Version

\* An installed partition serves the installed source.
LEMMA ServesVersionNext ==
  ASSUME NEW k \in Key, NEW v \in Version, table'[k] = Rows(v)
  PROVE  Serves(k)' = v
<1>1. \A r \in table'[k] : r.revision = v.revision /\ r.checksum = v.checksum
  BY RowsFacts
<1>2. table'[k] # {}
  BY RowsFacts
<1>3. {r.revision : r \in table'[k]} = {v.revision} /\ {r.checksum : r \in table'[k]} = {v.checksum}
  BY <1>1, <1>2
<1>4. Serves(k)' = [revision |-> v.revision, checksum |-> v.checksum]
  BY <1>2, <1>3 DEF Serves, Revisions, Checksums
<1> QED BY <1>4 DEF Version

Logged == {[key |-> a.key, revision |-> a.revision, checksum |-> a.checksum] : a \in audit}

\* A commit is one abstract replacement of the sources it installs.
LEMMA CommitIsReplace ==
  ASSUME LoaderInv, NEW j \in jobs, Commit(j)
  PROVE  Raw!Next
<1> DEFINE new == [k \in j.keys |-> handoff[j.owner][k]]
           row(k) == [key |-> k, revision |-> handoff[j.owner][k].revision,
                      checksum |-> handoff[j.owner][k].checksum,
                      owner |-> j.owner, attempt |-> j.attempt]
<1>1. TypeOK /\ SingleVersion /\ JobsJustified
  BY DEF LoaderInv
<1>2. j.keys \in SUBSET Key /\ j.keys # {}
  BY <1>1 DEF TypeOK, Job, JobsJustified
<1>3. new \in [j.keys -> Version]
  BY <1>1, <1>2, HandedVersion DEF TypeOK, Job, JobsJustified
<1>4. \A k \in j.keys : Raw!Newer(new[k], Serves(k))
  <2> SUFFICES ASSUME NEW k \in j.keys, Serves(k) # NoSource
               PROVE  new[k].revision > Serves(k).revision
    BY DEF Raw!Newer
  <2>1. PICK v \in Version : table[k] = Rows(v)
    BY <1>1, <1>2 DEF SingleVersion, Serves
  <2>2. PICK r \in table[k] : r.revision = v.revision
    BY <2>1, RowsFacts
  <2>3. r.revision < new[k].revision
    BY <2>2, AssertedOlder DEF Commit
  <2>4. Serves(k) = v
    BY <1>2, <2>1, ServesVersion
  <2> QED BY <1>3, <2>1, <2>2, <2>3, <2>4 DEF Version
<1>5. \A k \in Key : Serves(k)' = IF k \in j.keys THEN new[k] ELSE Serves(k)
  <2> TAKE k \in Key
  <2>1. CASE k \in j.keys
    BY <1>3, <2>1, ServesVersionNext DEF Commit
  <2>2. CASE k \notin j.keys
    BY <2>2 DEF Commit, Serves, Revisions, Checksums
  <2> QED BY <2>1, <2>2
<1>6. Logged' = Logged \cup {[key |-> k, revision |-> new[k].revision,
                             checksum |-> new[k].checksum] : k \in j.keys}
  <2>1. audit' = audit \cup {row(k) : k \in j.keys}
    BY DEF Commit
  <2>2. Logged' = {[key |-> a.key, revision |-> a.revision, checksum |-> a.checksum] :
                     a \in audit'}
    BY DEF Logged
  <2> DEFINE log(a) == [key |-> a.key, revision |-> a.revision, checksum |-> a.checksum]
  <2>3. \A k \in j.keys : log(row(k)) = [key |-> k, revision |-> new[k].revision,
                                        checksum |-> new[k].checksum]
    OBVIOUS
  <2>4. Logged' = {log(a) : a \in audit} \cup {log(row(k)) : k \in j.keys}
    BY <2>1, <2>2, Zenon
  <2>5. {log(row(k)) : k \in j.keys} = {[key |-> k, revision |-> new[k].revision,
                                        checksum |-> new[k].checksum] : k \in j.keys}
    BY <2>3, Zenon
  <2> QED BY <2>4, <2>5 DEF Logged
<1>7. \A k \in j.keys : new[k] # Serves(k)
  <2> SUFFICES ASSUME NEW k \in j.keys, new[k] = Serves(k) PROVE FALSE
    OBVIOUS
  <2>1. new[k] \in Version /\ new[k] # NoSource
    BY <1>3, LoaderAssumption
  <2>2. new[k].revision > new[k].revision
    BY <1>4, <2>1 DEF Raw!Newer
  <2>3. new[k].revision \in Nat
    BY <2>1 DEF Version
  <2> QED BY <2>2, <2>3
<1>8. Raw!Changed = j.keys
  BY <1>2, <1>5, <1>7 DEF Raw!Changed
<1>9. \A k \in j.keys : Serves(k)' \in Raw!Version /\ Raw!Newer(Serves(k)', Serves(k))
  BY <1>2, <1>3, <1>4, <1>5 DEF Raw!Version, Version
<1>10. \A k \in j.keys : [key |-> k, revision |-> new[k].revision, checksum |-> new[k].checksum]
                        = Raw!AuditRow(k, Serves(k)')
  BY <1>2, <1>5 DEF Raw!AuditRow
<1>11. Logged' = Logged \cup {Raw!AuditRow(k, Serves(k)') : k \in j.keys}
  BY <1>6, <1>10
<1> HIDE DEF new
<1> QED BY <1>2, <1>8, <1>9, <1>11 DEF Raw!Next, Raw!Replace, Logged

\* Every other step leaves the abstract table as it is.
LEMMA OtherStepsStutter ==
  ASSUME UNCHANGED <<table, audit>>
  PROVE  UNCHANGED Raw!vars
BY DEF Raw!vars, Serves, Revisions, Checksums

\* Load stages, retries, time-outs and late scripts together implement the
\* warehouse that RawTable promises to every reader.
THEOREM LoaderImplementsRawTable == Spec => ImplementsRawTable
<1>1. Init => Raw!Init
  BY DEF Init, Raw!Init, Serves
<1>2. LoaderInv /\ [Next]_vars => [Raw!Next]_Raw!vars
  <2> SUFFICES ASSUME LoaderInv, [Next]_vars PROVE [Raw!Next]_Raw!vars
    OBVIOUS
  <2>1. CASE \E j \in jobs : Commit(j)
    BY <2>1, CommitIsReplace
  <2>2. CASE ~ \E j \in jobs : Commit(j)
    <3>1. UNCHANGED <<table, audit>>
      BY <2>2 DEF Next, vars, Start, Proceed, ReadPartnerDetail, ReadWorldTotal,
         ReadKind, Reject, SkipMonth, Submit, JobSucceeded, JobFailed, Timeout,
         Finish, Crash, Execute, AssertionFails, Abort
    <3> QED BY <3>1, OtherStepsStutter
  <2> QED BY <2>1, <2>2
<1> QED BY <1>1, <1>2, LoaderInvariant, PTL DEF Spec, Raw!Spec, ImplementsRawTable

=============================================================================
