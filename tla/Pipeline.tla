------------------------------ MODULE Pipeline ------------------------------
(***************************************************************************)
(* The four durable stages of several runs on one warehouse:               *)
(*                                                                         *)
(*   extract -> extract.json -> load -> load.json -> transform ->          *)
(*   transform.json -> publish -> publish.json                             *)
(*                                                                         *)
(* Every stage may be repeated on any worker as long as the record before  *)
(* it exists, and nothing in the code keeps two stages apart, of one run   *)
(* or of several: that is left to the operating rule, Exclusive. What the  *)
(* runs share is the warehouse: the Raw tables with their audit, the fact  *)
(* table that dbt refreshes month by month, and the two mart views.        *)
(* Extract and Loader model the inside of the first two stages; here a     *)
(* month is loaded in one step, or late, by a script whose stage has given *)
(* up waiting.                                                             *)
(***************************************************************************)
EXTENDS Naturals, Sequences, FiniteSets

CONSTANTS Runs,         \* run ids
          Workers,      \* places where a stage can execute
          RunOf,        \* RunOf[w]: the run whose stages worker w executes
          Scope,        \* Scope[r]: the months run r extracts and loads
          End,          \* End[r]: the last month run r exports
          FullRefresh,  \* FullRefresh[r]: whether run r was given --full-refresh
          Nothing,      \* no record
          Exclusive,    \* whether at most one stage executes at a time
          MaxRevision,  \* bound on the revisions of a month
          MaxStarts     \* bound on the executions of load, transform and publish

Months == UNION {Scope[r] : r \in Runs}

Revision == 0..MaxRevision    \* 0: the month has no rows

ASSUME PipelineAssumption ==
  /\ RunOf \in [Workers -> Runs]
  /\ Scope \in [Runs -> SUBSET Nat]
  /\ End \in [Runs -> Nat]
  /\ FullRefresh \in [Runs -> BOOLEAN]
  /\ Exclusive \in BOOLEAN
  /\ MaxRevision \in Nat \ {0}
  /\ MaxStarts \in Nat
  /\ Nothing \notin [attempt : Nat, watermark : Nat]

VARIABLES sources,    \* sources[m]: the latest revision of month m in S3 Raw
          raw,        \* raw[m]: the revision of month m in the Raw tables
          history,    \* history[w + 1]: the Raw tables at watermark w (history)
          late,       \* load scripts whose stage stopped waiting for them
          exists,     \* whether the fact table exists
          facts,      \* facts[m]: the revision the facts of month m come from
          merging,    \* fact refreshes that have read Raw and not yet replaced months
          view,       \* the last month of the mart views
          build,      \* the last dbt build that reached its tests, and its outcome
          extracted,  \* extracted[r]: extract.json, the revision per month
          loaded,     \* loaded[r]: whether load.json exists
          attempt,    \* attempt[r]: transform-attempt.json
          transformed,\* transformed[r]: transform.json
          published,  \* published[r]: publish.json with the release it names
          pc,         \* pc[w]: what the stage on worker w does next
          todo,       \* todo[w]: months still to load
          evidence,   \* evidence[w]: the attempt and the watermark the stage goes by
          snapshot,   \* snapshot[w]: what the publishing stage read
          starts      \* executions of load, transform and publish

warehouse == <<raw, history, late, exists, facts, merging, view, build>>
handoffs == <<extracted, loaded, attempt, transformed, published>>
local == <<todo, evidence, snapshot>>
vars == <<sources, warehouse, handoffs, pc, local, starts>>

\* raw_watermark: the count (and the latest time) of the successful load audits.
\* Every committed load adds one, so the watermark counts commits.
Watermark == Len(history) - 1

\* The months that have a source, which load.json hands to dbt.
Loads(r) == {m \in Months : extracted[r][m] > 0}

-----------------------------------------------------------------------------
Init ==
  /\ sources = [m \in Months |-> 0]
  /\ raw = [m \in Months |-> 0]
  /\ history = <<raw>>
  /\ late = {}
  /\ exists = FALSE
  /\ facts = [m \in Months |-> 0]
  /\ merging = {}
  /\ view = 0
  /\ build = Nothing
  /\ extracted = [r \in Runs |-> Nothing]
  /\ loaded = [r \in Runs |-> FALSE]
  /\ attempt = [r \in Runs |-> 0]
  /\ transformed = [r \in Runs |-> Nothing]
  /\ published = [r \in Runs |-> Nothing]
  /\ pc = [w \in Workers |-> "idle"]
  /\ todo = [w \in Workers |-> {}]
  /\ evidence = [w \in Workers |-> Nothing]
  /\ snapshot = [w \in Workers |-> Nothing]
  /\ starts = 0

Goto(w, label) == pc' = [pc EXCEPT ![w] = label]

\* The stage ends, with its handoff written or with an error.
Stop(w) ==
  /\ Goto(w, "idle")
  /\ todo' = [todo EXCEPT ![w] = {}]
  /\ evidence' = [evidence EXCEPT ![w] = Nothing]
  /\ snapshot' = [snapshot EXCEPT ![w] = Nothing]

\* A stage starts: within the operating rule, only when no other stage of any run
\* executes and dbt has nothing left running in the warehouse.
Begin(w) ==
  /\ pc[w] = "idle"
  /\ Exclusive => merging = {} /\ \A v \in Workers : pc[v] = "idle"
  /\ starts < MaxStarts
  /\ starts' = starts + 1

-----------------------------------------------------------------------------
(* extract: see module Extract for what happens inside *)

Extract(r) ==
  /\ Exclusive => \A w \in Workers : pc[w] = "idle"
  /\ extracted[r] = Nothing
  /\ \E revised \in SUBSET Scope[r] :
       /\ \A m \in revised : sources[m] < MaxRevision
       /\ sources' = [m \in Months |-> IF m \in revised THEN sources[m] + 1 ELSE sources[m]]
  /\ \E m \in Scope[r] : sources'[m] > 0
  /\ extracted' = [extracted EXCEPT
       ![r] = [m \in Months |-> IF m \in Scope[r] THEN sources'[m] ELSE 0]]
  /\ UNCHANGED <<warehouse, loaded, attempt, transformed, published, pc, local, starts>>

-----------------------------------------------------------------------------
(* load: see module Loader for what happens inside a month *)

StartLoad(w) ==
  /\ Begin(w)
  /\ extracted[RunOf[w]] # Nothing
  /\ todo' = [todo EXCEPT ![w] = Loads(RunOf[w])]
  /\ Goto(w, "load")
  /\ UNCHANGED <<sources, warehouse, handoffs, evidence, snapshot>>

\* The revision of month m that the stage is to load.
Handed(w, m) == extracted[RunOf[w]][m]

IsNextMonth(w, m) == m \in todo[w] /\ \A n \in todo[w] : m <= n

Commit(m, revision) ==
  /\ raw' = [raw EXCEPT ![m] = revision]
  /\ history' = Append(history, raw')

LoadMonth(w) ==
  /\ pc[w] = "load"
  /\ \E m \in todo[w] :
       /\ IsNextMonth(w, m)
       /\ IF raw[m] > Handed(w, m)
          THEN Stop(w) /\ UNCHANGED <<raw, history>>          \* stale_revision
          ELSE /\ todo' = [todo EXCEPT ![w] = @ \ {m}]
               /\ IF raw[m] = Handed(w, m)
                  THEN UNCHANGED <<raw, history>>             \* already_success
                  ELSE Commit(m, Handed(w, m))
               /\ UNCHANGED <<pc, evidence, snapshot>>
  /\ UNCHANGED <<sources, late, exists, facts, merging, view, build, handoffs, starts>>

\* The stage gives up on a script it has submitted, which BigQuery goes on with.
LoadTimeout(w) ==
  /\ pc[w] = "load"
  /\ \E m \in todo[w] :
       /\ IsNextMonth(w, m)
       /\ raw[m] < Handed(w, m)
       /\ late' = late \cup {[month |-> m, revision |-> Handed(w, m), seen |-> raw[m]]}
  /\ Stop(w)
  /\ UNCHANGED <<sources, raw, history, exists, facts, merging, view, build, handoffs, starts>>

\* A late script commits, or asserts that the month has changed and does nothing.
LateScript ==
  /\ \E j \in late :
       /\ late' = late \ {j}
       /\ IF raw[j.month] = j.seen THEN Commit(j.month, j.revision)
          ELSE UNCHANGED <<raw, history>>
  /\ UNCHANGED <<sources, exists, facts, merging, view, build, handoffs, pc, local, starts>>

WriteLoad(w) ==
  /\ pc[w] = "load"
  /\ todo[w] = {}
  /\ loaded' = [loaded EXCEPT ![RunOf[w]] = TRUE]
  /\ Stop(w)
  /\ UNCHANGED <<sources, warehouse, extracted, attempt, transformed, published, starts>>

-----------------------------------------------------------------------------
(* transform *)

\* Mutant: the attempt is not recorded before the build.
StartTransformUnrecorded(w) ==
  /\ Begin(w)
  /\ loaded[RunOf[w]]
  /\ evidence' = [evidence EXCEPT ![w] = [attempt |-> attempt[RunOf[w]],
                                          watermark |-> Watermark]]
  /\ Goto(w, "build")
  /\ UNCHANGED <<sources, warehouse, handoffs, todo, snapshot>>

\* The attempt is recorded first; then the watermark is read.
StartTransform(w) ==
  /\ Begin(w)
  /\ loaded[RunOf[w]]
  /\ attempt' = [attempt EXCEPT ![RunOf[w]] = @ + 1]
  /\ evidence' = [evidence EXCEPT ![w] = [attempt |-> attempt'[RunOf[w]],
                                          watermark |-> Watermark]]
  /\ Goto(w, "build")
  /\ UNCHANGED <<sources, warehouse, extracted, loaded, transformed, published, todo, snapshot>>

\* The fact refresh of a build, with the rows it has read from Raw.
Refresh(w, rows) == [run |-> RunOf[w], attempt |-> evidence[w].attempt, rows |-> rows]

\* dbt reads the whole Raw table to replace the fact table, ...
RebuildFacts(w) ==
  /\ pc[w] = "build"
  /\ FullRefresh[RunOf[w]] \/ ~exists
  /\ merging' = merging \cup {Refresh(w, raw)}
  /\ Goto(w, "marts")
  /\ UNCHANGED <<sources, raw, history, late, exists, facts, view, build, handoffs, local, starts>>

\* Mutant: the facts are built from the sources the run has handed over.
SelectFactsHandedOver(w) ==
  /\ pc[w] = "build"
  /\ ~FullRefresh[RunOf[w]] /\ exists
  /\ merging' = merging \cup {Refresh(w, [m \in Loads(RunOf[w]) |-> Handed(w, m)])}
  /\ Goto(w, "marts")
  /\ UNCHANGED <<sources, raw, history, late, exists, facts, view, build, handoffs, local, starts>>

\* ... or the months of load.json, to replace those partitions.
SelectFacts(w) ==
  /\ pc[w] = "build"
  /\ ~FullRefresh[RunOf[w]] /\ exists
  /\ merging' = merging \cup {Refresh(w, [m \in Loads(RunOf[w]) |-> raw[m]])}
  /\ Goto(w, "marts")
  /\ UNCHANGED <<sources, raw, history, late, exists, facts, view, build, handoffs, local, starts>>

\* The statement replaces what it has read, though the worker may have died.
MergeFacts ==
  /\ \E j \in merging :
       /\ merging' = merging \ {j}
       /\ facts' = [m \in Months |-> IF m \in DOMAIN j.rows THEN j.rows[m] ELSE facts[m]]
  /\ exists' = TRUE
  /\ UNCHANGED <<sources, raw, history, late, view, build, handoffs, pc, local, starts>>

\* The views are replaced and the tests run.  A test of the facts that fails skips
\* the views, a test of the views comes too late for that.
BuildMarts(w) ==
  /\ pc[w] = "marts"
  /\ \A j \in merging : ~(j.run = RunOf[w] /\ j.attempt = evidence[w].attempt)
  /\ \E passed \in BOOLEAN :
       /\ build' = [run |-> RunOf[w], attempt |-> evidence[w].attempt, passed |-> passed]
       /\ view' \in {End[RunOf[w]]} \cup (IF passed THEN {} ELSE {view})
       /\ IF passed THEN Goto(w, "after") /\ UNCHANGED local ELSE Stop(w)
  /\ UNCHANGED <<sources, raw, history, late, exists, facts, merging, handoffs, starts>>

\* Mutant: the watermark is only read after the build.
WriteTransformAfter(w) ==
  /\ pc[w] = "after"
  /\ transformed' = [transformed EXCEPT
       ![RunOf[w]] = [attempt |-> evidence[w].attempt, watermark |-> Watermark]]
  /\ Stop(w)
  /\ UNCHANGED <<sources, warehouse, extracted, loaded, attempt, published, starts>>

WriteTransform(w) ==
  /\ pc[w] = "after"
  /\ transformed' = IF evidence[w].watermark = Watermark
                    THEN [transformed EXCEPT ![RunOf[w]] = evidence[w]]
                    ELSE transformed                          \* Raw changed during dbt build
  /\ Stop(w)
  /\ UNCHANGED <<sources, warehouse, extracted, loaded, attempt, published, starts>>

-----------------------------------------------------------------------------
(* publish *)

StartPublish(w) ==
  /\ Begin(w)
  /\ transformed[RunOf[w]] # Nothing
  /\ evidence' = [evidence EXCEPT ![w] = transformed[RunOf[w]]]
  /\ Goto(w, "evidence")
  /\ UNCHANGED <<sources, warehouse, handoffs, todo, snapshot>>

\* Mutant: the watermark of the evidence is not compared.
RawUncompared(w) == TRUE

\* Mutant: any successful attempt will do.
AnySucceeded(w) == evidence[w].attempt > 0

\* The watermark is the one of the successful build.
RawUnchanged(w) == Watermark = evidence[w].watermark

LatestSucceeded(w) == attempt[RunOf[w]] = evidence[w].attempt

\* Evidence older than 24 hours, or that dbt has not left whole, ends the stage too.
CheckEvidence(w) ==
  /\ pc[w] = "evidence"
  /\ IF LatestSucceeded(w) /\ RawUnchanged(w) THEN Goto(w, "read") /\ UNCHANGED local
     ELSE Stop(w)
  /\ UNCHANGED <<sources, warehouse, handoffs, starts>>

\* One statement reads both views; validate_v2 requires every month of the export.
ReadMarts(w) ==
  /\ pc[w] = "read"
  /\ IF view < End[RunOf[w]] THEN Stop(w)
     ELSE /\ snapshot' = [snapshot EXCEPT ![w] = [facts |-> facts, world |-> raw,
                                                        build |-> build]]
          /\ Goto(w, "check")
          /\ UNCHANGED <<todo, evidence>>
  /\ UNCHANGED <<sources, warehouse, handoffs, starts>>

\* Mutant: the watermark is not read again after the marts.
CheckPublishOnce(w) ==
  /\ pc[w] = "check"
  /\ Goto(w, "upload")
  /\ UNCHANGED local
  /\ UNCHANGED <<sources, warehouse, handoffs, starts>>

CheckPublish(w) ==
  /\ pc[w] = "check"
  /\ IF RawUnchanged(w) THEN Goto(w, "upload") /\ UNCHANGED local ELSE Stop(w)
  /\ UNCHANGED <<sources, warehouse, handoffs, starts>>

\* The release is uploaded under its own name; publish.json is written last.
WritePublish(w) ==
  /\ pc[w] = "upload"
  /\ published' = [published EXCEPT
       ![RunOf[w]] = [release |-> snapshot[w], watermark |-> evidence[w].watermark]]
  /\ Stop(w)
  /\ UNCHANGED <<sources, warehouse, extracted, loaded, attempt, transformed, starts>>

-----------------------------------------------------------------------------
\* The worker dies, or a request, dbt or the website build fails.
Crash(w) ==
  /\ pc[w] # "idle"
  /\ Stop(w)
  /\ UNCHANGED <<sources, warehouse, handoffs, starts>>

Next ==
  \/ \E r \in Runs : Extract(r)
  \/ \E w \in Workers :
       \/ StartLoad(w) \/ LoadMonth(w) \/ LoadTimeout(w) \/ WriteLoad(w)
       \/ StartTransform(w) \/ RebuildFacts(w) \/ SelectFacts(w)
       \/ BuildMarts(w) \/ WriteTransform(w)
       \/ StartPublish(w) \/ CheckEvidence(w) \/ ReadMarts(w)
       \/ CheckPublish(w) \/ WritePublish(w)
       \/ Crash(w)
  \/ LateScript
  \/ MergeFacts

Spec == Init /\ [][Next]_vars

-----------------------------------------------------------------------------
Rows == [Months -> Revision]

Attempt == Nat \ {0}

Build == [run : Runs, attempt : Attempt, passed : BOOLEAN]

Snapshot == [facts : Rows, world : Rows, build : Build \cup {Nothing}]

Evidence == [attempt : Attempt, watermark : Nat]

Release == [release : Snapshot, watermark : Nat]

Merge == [run : Runs, attempt : Attempt,
          rows : UNION {[S -> Revision] : S \in SUBSET Months}]

\* Every record, row and stage has the shape the code gives it.
TypeOK ==
  /\ sources \in Rows
  /\ raw \in Rows
  /\ history \in Seq(Rows)
  /\ late \subseteq [month : Months, revision : Revision, seen : Revision]
  /\ exists \in BOOLEAN
  /\ facts \in Rows
  /\ merging \subseteq Merge
  /\ view \in {0} \cup {End[r] : r \in Runs}
  /\ build \in Build \cup {Nothing}
  /\ extracted \in [Runs -> Rows \cup {Nothing}]
  /\ loaded \in [Runs -> BOOLEAN]
  /\ attempt \in [Runs -> Nat]
  /\ transformed \in [Runs -> Evidence \cup {Nothing}]
  /\ published \in [Runs -> Release \cup {Nothing}]
  /\ pc \in [Workers -> {"idle", "load", "build", "marts", "after",
                        "evidence", "read", "check", "upload"}]
  /\ todo \in [Workers -> SUBSET Months]
  /\ evidence \in [Workers -> Evidence \cup {Nothing}]
  /\ snapshot \in [Workers -> Snapshot \cup {Nothing}]
  /\ starts \in 0..MaxStarts

\* A release shows the Raw tables of one watermark, the one its evidence names:
\* nothing was loaded between the start of the build and the read of the marts,
\* whatever runs at the same time and whichever script commits late.
ReleasedAsOfWatermark ==
  \A r \in Runs : published[r] # Nothing =>
    /\ published[r].watermark < Len(history)
    /\ published[r].release.world = history[published[r].watermark + 1]

\* While stages execute one at a time, the months a run has loaded are released
\* with facts and world totals of the same revision, although dbt replaces only
\* these months and loads may commit late.
OwnMonthsConsistent ==
  \A r \in Runs : published[r] # Nothing =>
    \A m \in Loads(r) : published[r].release.facts[m] = published[r].release.world[m]

\* While stages execute one at a time, a run never releases what a failed build of
\* its own has left in the warehouse, though an earlier attempt has succeeded, its
\* transform.json is still there and Raw is as that attempt found it.
OwnFailedBuildNotReleased ==
  \A r \in Runs : published[r] # Nothing =>
    (published[r].release.build.run = r => published[r].release.build.passed)

\* No release is of an older watermark than one released before it, by any run.
ReleasesAdvance ==
  [][\A r, s \in Runs : published'[r] # published[r] /\ published[s] # Nothing =>
       published'[r].watermark >= published[s].watermark]_vars

\* The facts of a month never go back to an older revision, though each build
\* takes only its own months and an older run may be built after a newer one.
FactsNeverRegress == [][\A m \in Months : facts'[m] >= facts[m]]_vars

-----------------------------------------------------------------------------
(* What makes the above inductive *)

\* A stage only runs on the records of the stages before it.
HandoffChain ==
  /\ \A r \in Runs :
       /\ loaded[r] => extracted[r] # Nothing
       /\ transformed[r] # Nothing => loaded[r]
  /\ \A w \in Workers :
       /\ pc[w] = "load" => extracted[RunOf[w]] # Nothing
       /\ pc[w] \in {"build", "marts", "after", "evidence", "read", "check", "upload"} =>
            loaded[RunOf[w]] /\ evidence[w] # Nothing
       /\ pc[w] \in {"check", "upload"} => snapshot[w] \in Snapshot

\* The history ends with the tables as they are, and no evidence is ahead of it.
HistoryCurrent ==
  /\ history # <<>>
  /\ history[Len(history)] = raw
  /\ \A r \in Runs : transformed[r] # Nothing => transformed[r].watermark <= Watermark
  /\ \A w \in Workers : evidence[w] # Nothing => evidence[w].watermark <= Watermark

\* What was read between the two checks of the watermark shows one of the states
\* in between, and after the second check the only one there was.
SnapshotBracketed ==
  \A w \in Workers :
    /\ pc[w] = "check" =>
         \E h \in evidence[w].watermark..Watermark : snapshot[w].world = history[h + 1]
    /\ pc[w] = "upload" => snapshot[w].world = history[evidence[w].watermark + 1]

PublishInv == TypeOK /\ HandoffChain /\ HistoryCurrent /\ SnapshotBracketed
                     /\ ReleasedAsOfWatermark

\* One stage at a time: a fact refresh that is under way belongs to the executing
\* transform, or to one that died and after which nothing else has started.
OneStage ==
  /\ \A v, w \in Workers : pc[v] # "idle" /\ pc[w] # "idle" => v = w
  /\ \A j, k \in merging : j = k
  /\ \A j \in merging, w \in Workers : pc[w] # "idle" =>
       pc[w] = "marts" /\ j.run = RunOf[w] /\ j.attempt = evidence[w].attempt

\* Facts, refreshes under way and the Raw tables are in this order.
FactsBehindRaw ==
  /\ \A m \in Months : facts[m] <= raw[m]
  /\ \A j \in merging : \A m \in DOMAIN j.rows :
       facts[m] <= j.rows[m] /\ j.rows[m] <= raw[m]
  /\ \A j \in late : j.revision > j.seen

OrderInv == PublishInv /\ OneStage /\ FactsBehindRaw

\* As long as nothing has been loaded since the watermark of a build or of its
\* evidence, the months of that run have facts of the revision in the Raw tables.
FactsCurrent ==
  /\ \A w \in Workers :
       /\ pc[w] = "marts" /\ RawUnchanged(w) =>
            \A m \in Loads(RunOf[w]) :
              IF merging = {} THEN facts[m] = raw[m]
              ELSE \A j \in merging : m \in DOMAIN j.rows /\ j.rows[m] = raw[m]
       /\ pc[w] \in {"after", "evidence", "read"} /\ RawUnchanged(w) =>
            \A m \in Loads(RunOf[w]) : facts[m] = raw[m]
       /\ \/ pc[w] = "check" /\ RawUnchanged(w)
          \/ pc[w] = "upload"
          => \A m \in Loads(RunOf[w]) : snapshot[w].facts[m] = snapshot[w].world[m]
  /\ \A r \in Runs :
       /\ transformed[r] # Nothing /\ transformed[r].watermark = Watermark =>
            \A m \in Loads(r) :
              /\ facts[m] = raw[m]
              /\ \A j \in merging : m \in DOMAIN j.rows => j.rows[m] = raw[m]
       /\ published[r] # Nothing => loaded[r]

\* What is released is no newer than the release about to be written.
ReleasesBehind ==
  \A r \in Runs : published[r] # Nothing =>
    /\ published[r].watermark <= Watermark
    /\ \A w \in Workers : pc[w] = "upload" => published[r].watermark <= evidence[w].watermark

ReleaseInv == OrderInv /\ FactsCurrent /\ ReleasesBehind /\ OwnMonthsConsistent

\* Build b is there, and has passed if it is one of run r.
Sound(r, b) == b \in Build /\ (b.run = r => b.passed)

\* While the latest attempt of a run has its evidence, the last build is not one of
\* that run that failed.
BuildSound ==
  /\ \A r \in Runs : transformed[r] # Nothing =>
       /\ transformed[r].attempt <= attempt[r]
       /\ transformed[r].attempt = attempt[r] => Sound(r, build)
  /\ \A w \in Workers :
       /\ pc[w] \in {"build", "marts", "after"} =>
            /\ evidence[w].attempt = attempt[RunOf[w]]
            /\ transformed[RunOf[w]] # Nothing =>
                 transformed[RunOf[w]].attempt < attempt[RunOf[w]]
       /\ pc[w] = "after" => Sound(RunOf[w], build)
       /\ pc[w] = "evidence" => evidence[w] = transformed[RunOf[w]]
       /\ pc[w] = "read" => Sound(RunOf[w], build)
       /\ pc[w] \in {"check", "upload"} => Sound(RunOf[w], snapshot[w].build)

BuildInv == OrderInv /\ BuildSound /\ OwnFailedBuildNotReleased

-----------------------------------------------------------------------------
\* Expected to fail: a release shows, for every month of its export, facts as
\* recent as the Raw tables (docs: only the latest warehouse data is accepted).
ReleasesLatestFacts ==
  \A r \in Runs : published[r] # Nothing =>
    \A m \in Months : m <= End[r] =>
      published[r].release.facts[m] = published[r].release.world[m]

\* Expected to fail: what is released was built by a dbt build that passed (README:
\* a failed dbt build is not exported).
FailedBuildNotReleased ==
  \A r \in Runs : published[r] # Nothing => published[r].release.build.passed

=============================================================================
