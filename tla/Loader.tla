------------------------------- MODULE Loader -------------------------------
(***************************************************************************)
(* The load stage: RawLoader.load_month run by load_bigquery for every     *)
(* month of an extract handoff.                                            *)
(*                                                                         *)
(* Several load stages may run against the same Raw dataset: the stage     *)
(* entry point takes no lock, a task is retried, and a script that was     *)
(* submitted keeps running in BigQuery after its client timed out or died. *)
(* A loader reads the partition metadata with one query per kind, decides  *)
(* from that snapshot, and submits one script whose assertions re-read the *)
(* partitions inside the transaction that replaces them.                   *)
(***************************************************************************)
EXTENDS Naturals, FiniteSets

CONSTANTS Loaders,     \* load stage invocations, one per pipeline run
          Months,      \* months, numbered so that they sort like YYYYMM
          Places,      \* (reporter, product) pairs
          Checksum,    \* identities of source contents
          Content,     \* Content[c]: the partners whose rows the content has
          Handoffs,    \* the extract handoffs a loader may be given
          NoSource,    \* a handoff has no source for this key
          MaxRevision, \* bound on source revisions
          MaxAttempts  \* bound on the executions of each load stage

Kinds == {"partner_detail", "world_total"}

Key == Months \X Kinds \X Places

MonthOf(k) == k[1]
KindOf(k) == k[2]

\* An accepted source is known by its revision and the checksum of its rows.
Version == [revision: 1..MaxRevision, checksum: Checksum]

ASSUME LoaderAssumption ==
  /\ Months \subseteq Nat
  /\ MaxRevision \in Nat
  /\ MaxAttempts \in [Loaders -> Nat]
  /\ NoSource \notin Version
  /\ \A c \in Checksum : IsFiniteSet(Content[c]) /\ Content[c] # {}
  /\ Handoffs \subseteq [Key -> Version \cup {NoSource}]

VARIABLES table,    \* table[k]: the rows partition k of the two Raw tables holds
          audit,    \* the rows of audit_ingestion_runs
          jobs,     \* the scripts submitted to BigQuery
          handoff,  \* handoff[l]: the accepted sources loader l must load
          pc,       \* pc[l]: what loader l does next
          attempt,  \* attempt[l]: which execution of the stage this is
          todo,     \* todo[l]: the months loader l has not finished
          observed  \* observed[l]: the partition metadata load_month has read

loaderVars == <<handoff, pc, attempt, todo, observed>>
vars == <<table, audit, jobs, handoff, pc, attempt, todo, observed>>

-----------------------------------------------------------------------------
(* Rows and what the metadata query sees of them *)

\* Mutant: the rows are projected without their checksum.
RowsWithoutChecksum(v) ==
  {[revision |-> v.revision, checksum |-> NoSource, partner |-> p] :
     p \in Content[v.checksum]}

\* expected_rows: every row of a source carries its revision and checksum.
Rows(v) == {[revision |-> v.revision, checksum |-> v.checksum, partner |-> p] :
              p \in Content[v.checksum]}

Revisions(k) == {r.revision : r \in table[k]}
Checksums(k) == {r.checksum : r \in table[k]}

\* What load_month remembers of a partition with no row in the metadata.
Absent == [count |-> 0, revision |-> 0, checksum |-> NoSource]

Observation == [count: Nat, revision: 0..MaxRevision,
                checksum: Checksum \cup {NoSource}]

Mixed(k) == Cardinality(Revisions(k)) > 1 \/ Cardinality(Checksums(k)) > 1

Metadata(k) ==
  IF table[k] = {}
  THEN Absent
  ELSE [count    |-> Cardinality(table[k]),
        revision |-> CHOOSE r \in Revisions(k) : TRUE,
        checksum |-> CHOOSE c \in Checksums(k) : TRUE]

\* Mutant: any source that differs from the one present is loaded.
DecisionOnChecksum(old, new) ==
  IF old # Absent /\ new.checksum = old.checksum THEN "already_loaded" ELSE "load"

\* decision(existing, revision, checksum)
Decision(old, new) ==
  IF old = Absent \/ new.revision > old.revision THEN "load"
  ELSE IF new.revision < old.revision THEN "stale_revision"
  ELSE IF new.checksum = old.checksum THEN "already_loaded"
  ELSE "conflict"

-----------------------------------------------------------------------------
(* The loader's view of its own batch *)

Handed(l) == {k \in Key : handoff[l][k] # NoSource}

\* load_bigquery takes the months of the handoff in ascending order.
IsNextMonth(l, m) == m \in todo[l] /\ \A n \in todo[l] : m <= n

Batch(l, m) == {k \in Handed(l) : MonthOf(k) = m}

Verdict(l, k) ==
  LET action == Decision(observed[l][k], handoff[l][k])
  IN  IF action = "already_loaded"
           /\ observed[l][k].count # Cardinality(Rows(handoff[l][k]))
      THEN "row_count_differs"
      ELSE action

ToLoad(l, m) == {k \in Batch(l, m) : Verdict(l, k) = "load"}

Acceptable(l, m) ==
  \A k \in Batch(l, m) : Verdict(l, k) \in {"load", "already_loaded"}

\* A submitted script: the sources it installs and what was observed before.
Job == [owner: Loaders, attempt: Nat, month: Months,
        keys: SUBSET Key, observed: [Key -> Observation],
        status: {"running", "success", "failed"}]

Mine(l, j) ==
  j.owner = l /\ j.attempt = attempt[l] /\ IsNextMonth(l, j.month)

-----------------------------------------------------------------------------
Init ==
  /\ table = [k \in Key |-> {}]
  /\ audit = {}
  /\ jobs = {}
  /\ handoff \in [Loaders -> Handoffs]
  /\ pc = [l \in Loaders |-> "idle"]
  /\ attempt = [l \in Loaders |-> 0]
  /\ todo = [l \in Loaders |-> {}]
  /\ observed = [l \in Loaders |-> [k \in Key |-> Absent]]

Goto(l, label) == pc' = [pc EXCEPT ![l] = label]

(***************************************************************************)
(* load / load_bigquery: the handoff is read, every source is verified     *)
(* against S3 (accepted sources are immutable there) and grouped by month. *)
(* A stage that failed, or one that is run again, starts from here.        *)
(***************************************************************************)
Start(l) ==
  /\ pc[l] \in {"idle", "failed", "loaded"}
  /\ attempt[l] < MaxAttempts[l]
  /\ attempt' = [attempt EXCEPT ![l] = @ + 1]
  /\ todo' = [todo EXCEPT ![l] = {MonthOf(k) : k \in Handed(l)}]
  /\ observed' = [observed EXCEPT ![l] = [k \in Key |-> Absent]]
  /\ Goto(l, "partner_detail")
  /\ UNCHANGED <<table, audit, jobs, handoff>>

(***************************************************************************)
(* load_month, first loop: the metadata of the partner_detail table and    *)
(* then that of the world_total table, in two separate queries.  A         *)
(* partition that mixes versions stops the stage.                          *)
(***************************************************************************)
ReadKind(l, kind, next) ==
  /\ pc[l] = kind
  /\ \E m \in todo[l] :
       LET read == {k \in Key : MonthOf(k) = m /\ KindOf(k) = kind} IN
       /\ IsNextMonth(l, m)
       /\ observed' = [observed EXCEPT ![l] =
                         [k \in Key |-> IF k \in read THEN Metadata(k) ELSE @[k]]]
       /\ Goto(l, IF \E k \in read : Mixed(k) THEN "failed" ELSE next)
  /\ UNCHANGED <<table, audit, jobs, handoff, attempt, todo>>

ReadPartnerDetail(l) == ReadKind(l, "partner_detail", "world_total")
ReadWorldTotal(l) == ReadKind(l, "world_total", "decide")

\* A stale or conflicting source, or a row count that differs, stops the stage.
Reject(l) ==
  /\ pc[l] = "decide"
  /\ \E m \in todo[l] : IsNextMonth(l, m) /\ ~Acceptable(l, m)
  /\ Goto(l, "failed")
  /\ UNCHANGED <<table, audit, jobs, handoff, attempt, todo, observed>>

\* load_month has returned for month m: the next month starts afresh.
FinishMonth(l, m) ==
  /\ todo' = [todo EXCEPT ![l] = @ \ {m}]
  /\ observed' = [observed EXCEPT ![l] = [k \in Key |-> Absent]]
  /\ Goto(l, "partner_detail")

\* Every source of the month is already there: nothing is written.
SkipMonth(l) ==
  /\ pc[l] = "decide"
  /\ \E m \in todo[l] :
       /\ IsNextMonth(l, m)
       /\ Acceptable(l, m)
       /\ ToLoad(l, m) = {}
       /\ FinishMonth(l, m)
  /\ UNCHANGED <<table, audit, jobs, handoff, attempt>>

\* The script with the rows to install and the metadata observed is submitted.
Submit(l) ==
  /\ pc[l] = "decide"
  /\ \E m \in todo[l] :
       /\ IsNextMonth(l, m)
       /\ Acceptable(l, m)
       /\ ToLoad(l, m) # {}
       /\ jobs' = jobs \cup {[owner |-> l, attempt |-> attempt[l], month |-> m,
                              keys |-> ToLoad(l, m), observed |-> observed[l],
                              status |-> "running"]}
  /\ Goto(l, "wait")
  /\ UNCHANGED <<table, audit, handoff, attempt, todo, observed>>

\* job.result() returns: the month is done.
JobSucceeded(l) ==
  /\ pc[l] = "wait"
  /\ \E j \in jobs : /\ Mine(l, j)
                     /\ j.status = "success"
                     /\ FinishMonth(l, j.month)
  /\ UNCHANGED <<table, audit, jobs, handoff, attempt>>

\* job.result() raises the job's error.
JobFailed(l) ==
  /\ pc[l] = "wait"
  /\ \E j \in jobs : Mine(l, j) /\ j.status = "failed"
  /\ Goto(l, "failed")
  /\ UNCHANGED <<table, audit, jobs, handoff, attempt, todo, observed>>

\* Mutant: the time-out is swallowed and the month taken for done.
TimeoutSwallowed(l) ==
  /\ pc[l] = "wait"
  /\ \E j \in jobs : Mine(l, j) /\ j.status = "running" /\ FinishMonth(l, j.month)
  /\ UNCHANGED <<table, audit, jobs, handoff, attempt>>

\* Mutant: job.result() without a time-out.
TimeoutNever(l) == FALSE

\* job.result(timeout=180) gives up; the outcome of the script is unknown.
Timeout(l) ==
  /\ pc[l] = "wait"
  /\ \E j \in jobs : Mine(l, j) /\ j.status = "running"
  /\ Goto(l, "failed")
  /\ UNCHANGED <<table, audit, jobs, handoff, attempt, todo, observed>>

\* The worker dies, or a metadata query fails, before the stage has finished.
Crash(l) ==
  /\ pc[l] \in {"partner_detail", "world_total", "decide", "wait"}
  /\ Goto(l, "failed")
  /\ UNCHANGED <<table, audit, jobs, handoff, attempt, todo, observed>>

\* load.json is written once every month has returned.
Finish(l) ==
  /\ pc[l] = "partner_detail"
  /\ todo[l] = {}
  /\ Goto(l, "loaded")
  /\ UNCHANGED <<table, audit, jobs, handoff, attempt, todo, observed>>

-----------------------------------------------------------------------------
(* The script, executed by BigQuery as one transaction *)

\* Mutant: only partitions that had a source are asserted to be unchanged.
AsObservedIfPresent(k, old) ==
  old.revision > 0 =>
    /\ Cardinality(table[k]) = old.count
    /\ Revisions(k) = {old.revision}
    /\ Checksums(k) = {old.checksum}

\* Mutant: nothing is asserted.
AsObservedAlways(k, old) == TRUE

\* ASSERT ... AS 'source changed during load', for one partition.
AsObserved(k, old) ==
  /\ Cardinality(table[k]) = old.count
  /\ Revisions(k) = IF old.revision = 0 THEN {} ELSE {old.revision}
  /\ Checksums(k) = IF old.revision = 0 THEN {} ELSE {old.checksum}

Ended(j, status) == jobs' = (jobs \ {j}) \cup {[j EXCEPT !.status = status]}

\* Mutant: only the detail sources of the script are audited.
CommitAuditsDetail(j) ==
  /\ j.status = "running"
  /\ \A k \in j.keys : AsObserved(k, j.observed[k])
  /\ table' = [k \in Key |-> IF k \in j.keys THEN Rows(handoff[j.owner][k])
                                             ELSE table[k]]
  /\ audit' = audit \cup
       {[key |-> k, revision |-> handoff[j.owner][k].revision,
         checksum |-> handoff[j.owner][k].checksum,
         owner |-> j.owner, attempt |-> j.attempt] :
           k \in {d \in j.keys : KindOf(d) = "partner_detail"}}
  /\ Ended(j, "success")
  /\ UNCHANGED loaderVars

(***************************************************************************)
(* The assertions hold: for each source the partition is deleted, its rows *)
(* are inserted and an audit row is appended, in one COMMIT.               *)
(***************************************************************************)
Commit(j) ==
  /\ j.status = "running"
  /\ \A k \in j.keys : AsObserved(k, j.observed[k])
  /\ table' = [k \in Key |-> IF k \in j.keys THEN Rows(handoff[j.owner][k])
                                             ELSE table[k]]
  /\ audit' = audit \cup
       {[key |-> k, revision |-> handoff[j.owner][k].revision,
         checksum |-> handoff[j.owner][k].checksum,
         owner |-> j.owner, attempt |-> j.attempt] : k \in j.keys}
  /\ Ended(j, "success")
  /\ UNCHANGED loaderVars

\* An assertion fails, and so does the transaction.
AssertionFails(j) ==
  /\ j.status = "running"
  /\ \E k \in j.keys : ~AsObserved(k, j.observed[k])
  /\ Ended(j, "failed")
  /\ UNCHANGED <<table, audit, loaderVars>>

\* BigQuery aborts the transaction: a concurrent update, a quota, an outage.
Abort(j) ==
  /\ j.status = "running"
  /\ Ended(j, "failed")
  /\ UNCHANGED <<table, audit, loaderVars>>

-----------------------------------------------------------------------------
Proceed(l) ==
  \/ ReadPartnerDetail(l) \/ ReadWorldTotal(l)
  \/ Reject(l) \/ SkipMonth(l) \/ Submit(l)
  \/ JobSucceeded(l) \/ JobFailed(l) \/ Timeout(l) \/ Finish(l)

Execute(j) == Commit(j) \/ AssertionFails(j) \/ Abort(j)

Next ==
  \/ \E l \in Loaders : Start(l) \/ Proceed(l) \/ Crash(l)
  \/ \E j \in jobs : Execute(j)

Spec == Init /\ [][Next]_vars

(***************************************************************************)
(* A running stage keeps running its own code; job.result returns, raises  *)
(* or times out.  Nothing obliges BigQuery to finish a script or anyone to *)
(* start a failed stage again.                                             *)
(***************************************************************************)
FairSpec == Spec /\ \A l \in Loaders : WF_vars(Proceed(l))

-----------------------------------------------------------------------------
\* Every object, record, row and stage has the shape the code gives it.
TypeOK ==
  /\ table \in [Key -> SUBSET [revision: 1..MaxRevision, checksum: Checksum,
                               partner: UNION {Content[c] : c \in Checksum}]]
  /\ audit \subseteq [key: Key, revision: 1..MaxRevision, checksum: Checksum,
                      owner: Loaders, attempt: Nat]
  /\ jobs \subseteq Job
  /\ handoff \in [Loaders -> Handoffs]
  /\ pc \in [Loaders -> {"idle", "partner_detail", "world_total", "decide",
                         "wait", "loaded", "failed"}]
  /\ attempt \in [Loaders -> Nat]
  /\ todo \in [Loaders -> SUBSET Months]
  /\ observed \in [Loaders -> [Key -> Observation]]

\* A partition never mixes sources: it is empty or holds exactly the rows of
\* one accepted source, whatever loaders, retries and late scripts interleave
\* (DELETE then INSERT in loader.py load_month).
SingleVersion ==
  \A k \in Key : table[k] = {} \/ \E v \in Version : table[k] = Rows(v)

\* A revision of a source is committed at most once: a retry after an unknown
\* outcome, or a late script, never installs and audits it a second time.
CommittedOnce ==
  \A a, b \in audit : a.key = b.key /\ a.revision = b.revision => a = b

\* The audit log explains the warehouse: what a partition serves is the newest
\* source audited for it, and a partition without rows was never audited.
ServesNewestAudited ==
  \A k \in Key :
    LET mine == {a \in audit : a.key = k} IN
    IF table[k] = {} THEN mine = {}
    ELSE \E a \in mine :
           /\ table[k] = Rows([revision |-> a.revision, checksum |-> a.checksum])
           /\ \A b \in mine : b.revision <= a.revision

\* The source v of partition k has been committed, now or earlier.
Audited(k, v) ==
  \E a \in audit : a.key = k /\ a.revision = v.revision /\ a.checksum = v.checksum

\* A load stage that reports success has had every source of its handoff
\* committed, by itself, by an earlier attempt or by another loader, and no
\* partition it was handed serves an older revision.
LoadedMeansCommitted ==
  \A l \in Loaders : pc[l] = "loaded" =>
    \A k \in Handed(l) :
      /\ Audited(k, handoff[l][k])
      /\ table[k] # {}
      /\ \A r \in Revisions(k) : r >= handoff[l][k].revision

\* No step replaces a partition by the same or an older revision, or empties it
\* (decision, and the 'source changed during load' assertion).
NeverRegress ==
  [][\A k \in Key : table'[k] # table[k] =>
        /\ table'[k] # {}
        /\ \A new \in table'[k], old \in table[k] : new.revision > old.revision]_vars

\* A load stage that was started finishes or fails: it never waits for ever for
\* a script whose outcome it cannot learn (job.result(timeout=180)).
StageSettles ==
  \A l \in Loaders : pc[l] = "partner_detail" ~> pc[l] \in {"loaded", "failed"}

-----------------------------------------------------------------------------
(* What the loaders and their scripts know, which makes the above inductive *)

\* A script was submitted for a reason that does not expire: it installs sources
\* newer than those it will assert, whatever it leaves out of its month was
\* committed already, and if it succeeded its own sources are committed.
JobsJustified ==
  \A j \in jobs :
    /\ j.keys # {} /\ j.keys \subseteq Handed(j.owner)
    /\ \A k \in j.keys :
         /\ handoff[j.owner][k].revision > j.observed[k].revision
         /\ j.status = "success" => Audited(k, handoff[j.owner][k])
    /\ \A k \in Batch(j.owner, j.month) \ j.keys : Audited(k, handoff[j.owner][k])

\* Metadata read at any earlier time names a source that was committed.
ObservedAudited ==
  \A l \in Loaders, k \in Key :
    observed[l][k].revision > 0 => Audited(k, observed[l][k])

\* The months a running or successful stage is done with are committed.
DoneMonthsAudited ==
  \A l \in Loaders : pc[l] \notin {"idle", "failed"} =>
    \A k \in Handed(l) : MonthOf(k) \notin todo[l] => Audited(k, handoff[l][k])

LoadedIsDone == \A l \in Loaders : pc[l] = "loaded" => todo[l] = {}

\* The inductive invariant: table, audit log, scripts and loaders agree, so that
\* an assertion that passes can only let a newer whole source in.
LoaderInv ==
  /\ TypeOK
  /\ SingleVersion
  /\ ServesNewestAudited
  /\ CommittedOnce
  /\ JobsJustified
  /\ ObservedAudited
  /\ DoneMonthsAudited
  /\ LoadedIsDone

-----------------------------------------------------------------------------
(* The loader implements RawTable *)

Serves(k) ==
  IF table[k] = {} THEN NoSource
  ELSE [revision |-> CHOOSE r \in Revisions(k) : TRUE,
        checksum |-> CHOOSE c \in Checksums(k) : TRUE]

Raw == INSTANCE RawTable WITH
         NoVersion <- NoSource,
         current <- [k \in Key |-> Serves(k)],
         log <- {[key |-> a.key, revision |-> a.revision, checksum |-> a.checksum] :
                   a \in audit}

\* Every step of loaders, retries and scripts is, for a reader of the Raw tables
\* and the audit log, one whole batch of newer sources or nothing.
ImplementsRawTable == Raw!Spec

=============================================================================
