------------------------------ MODULE Extract ------------------------------
(***************************************************************************)
(* The extract stage: API -> S3 Raw -> extract.json.                       *)
(*                                                                         *)
(* The Raw store keeps, for every identity (month and product, reporter,   *)
(* query type), a chain of revisions.  A revision is two S3 objects under  *)
(* a path that names the HS edition and the revision; the manifest is      *)
(* written after the data and commits it.  A stage rebuilds its view of    *)
(* the store from the manifests, asks the API for what is missing (or for  *)
(* everything, with --refresh), persists each accepted response and notes  *)
(* it in extract-progress.json, from which a later execution of the same   *)
(* run resumes.  extract.json, the handoff, is written last.               *)
(***************************************************************************)
EXTENDS Naturals, FiniteSets

CONSTANTS Runs,          \* run ids
          Refresh,       \* Refresh[r]: whether run r was given --refresh
          Jobs,          \* (month, product) pairs, numbered in the planned order
          Reporters,     \* the markets
          QueryTypes,    \* partner_detail and world_total
          Content,       \* identities of what the API can return for an identity
          Edition,       \* Edition[c]: the HS edition content c is reported in
          Nothing,       \* no object, no source, no record, no row
          Exclusive,     \* whether at most one extract stage executes at a time
          MaxRevision,   \* bound on revisions
          MaxChanges,    \* bound on the changes of what the API returns
          MaxExecutions  \* bound on the executions of one run's extract stage

Identity == Jobs \X Reporters \X QueryTypes

Editions == {Edition[c] : c \in Content}

\* A source of an identity, as a validated manifest describes it.
Source == [revision: 1..MaxRevision, content: Content]

\* The S3 path of a source: hs_version and revision are part of it.
Path == [identity: Identity, edition: Editions, revision: 1..MaxRevision]

PathOf(i, s) == [identity |-> i, edition |-> Edition[s.content], revision |-> s.revision]

ASSUME ExtractAssumption ==
  /\ Jobs \subseteq Nat
  /\ MaxRevision \in Nat \ {0}
  /\ MaxChanges \in Nat
  /\ MaxExecutions \in Nat \ {0}
  /\ Refresh \in [Runs -> BOOLEAN]
  /\ Exclusive \in BOOLEAN
  /\ Nothing \notin Content
  /\ Nothing \notin [revision : Nat, content : Content]

VARIABLES api,        \* api[i]: what UN Comtrade returns for identity i
          changes,    \* how often it has changed
          data,       \* data[p]: the content of the data.ndjson at path p
          manifest,   \* manifest[p]: the content the manifest.json at p attests
          progress,   \* progress[r]: extract-progress.json of run r
          handoff,    \* handoff[r]: extract.json of run r
          pc,         \* pc[r]: what the executing stage does next
          executions, \* executions[r]: executions of the stage so far
          existing,   \* existing[r]: the stage's view of the latest sources
          group,      \* group[r]: the identities of the accepted response
          queue,      \* queue[r]: those of them still to persist
          target,     \* target[r]: the identity being written to S3
          answered    \* answered[r]: contents the API has returned to run r (history)

store == <<data, manifest>>
records == <<progress, handoff>>
local == <<existing, group, queue, target>>
vars == <<api, changes, data, manifest, progress, handoff, pc, executions,
          existing, group, queue, target, answered>>

\* "absent" and "present": the stage has read the data object, not yet the manifest.
Active == {"sync", "fetch", "persist", "absent", "present", "data", "manifest"}

-----------------------------------------------------------------------------
(* The Raw store, as a stage reads it *)

\* The committed sources of an identity: those with a manifest.
Committed(i) ==
  {[revision |-> p.revision, content |-> manifest[p]] :
     p \in {q \in Path : q.identity = i /\ manifest[q] # Nothing}}

\* scan_sources: two manifests of one identity carry the same revision.
Ambiguous ==
  \E i \in Identity : \E s, t \in Committed(i) : s # t /\ s.revision = t.revision

\* scan_sources: the latest revision per identity.
Latest(i) ==
  IF Committed(i) = {} THEN Nothing
  ELSE CHOOSE s \in Committed(i) : \A t \in Committed(i) : t.revision <= s.revision

-----------------------------------------------------------------------------
(* What a stage plans and what it makes of a response *)

\* plan_jobs, less the reporters whose identities this run has completed.
Planned(r, j) ==
  {p \in Reporters :
     /\ Refresh[r] \/ \E k \in QueryTypes : existing[r][<<j, p, k>>] = Nothing
     /\ \E k \in QueryTypes : <<j, p, k>> \notin progress[r].completed}

IsNextJob(r, j) ==
  /\ Planned(r, j) # {}
  /\ \A i \in Jobs : i < j => Planned(r, i) = {}

\* save_source, for an identity the response may answer.
Omitted(r, i) == Refresh[r] /\ existing[r][i] # Nothing /\ api[i] = Nothing

\* Mutant: revisions are numbered from 0.
SavedFromZero(r, i) ==
  LET previous == existing[r][i] IN
  IF previous # Nothing /\ ~Refresh[r] THEN previous
  ELSE IF api[i] = Nothing THEN Nothing
  ELSE IF previous = Nothing THEN [revision |-> 0, content |-> api[i]]
  ELSE IF previous.content = api[i] THEN previous
  ELSE [revision |-> previous.revision + 1, content |-> api[i]]

\* Mutant: a refresh makes a revision without comparing checksums.
SavedUncompared(r, i) ==
  LET previous == existing[r][i] IN
  IF previous # Nothing /\ ~Refresh[r] THEN previous
  ELSE IF api[i] = Nothing THEN Nothing
  ELSE IF previous = Nothing THEN [revision |-> 1, content |-> api[i]]
  ELSE [revision |-> previous.revision + 1, content |-> api[i]]

\* Mutant: revisions are counted per path, so afresh in every HS edition.
SavedPerEdition(r, i) ==
  LET previous == existing[r][i] IN
  IF previous # Nothing /\ ~Refresh[r] THEN previous
  ELSE IF api[i] = Nothing THEN Nothing
  ELSE IF previous = Nothing \/ Edition[previous.content] # Edition[api[i]]
       THEN [revision |-> 1, content |-> api[i]]
  ELSE IF previous.content = api[i] THEN previous
  ELSE [revision |-> previous.revision + 1, content |-> api[i]]

Saved(r, i) ==
  LET previous == existing[r][i] IN
  IF previous # Nothing /\ ~Refresh[r] THEN previous
  ELSE IF api[i] = Nothing THEN Nothing
  ELSE IF previous = Nothing THEN [revision |-> 1, content |-> api[i]]
  ELSE IF previous.content = api[i] THEN previous
  ELSE [revision |-> previous.revision + 1, content |-> api[i]]

\* persist: the progress record, once the identities ids are in S3 as far as they exist.
Noted(r, ids) ==
  LET present == {i \in ids : existing[r][i] # Nothing} IN
  [sources |-> [i \in Identity |-> IF i \in present THEN existing[r][i]
                                   ELSE progress[r].sources[i]],
   completed |-> progress[r].completed \cup ids,
   unavailable |-> progress[r].unavailable \cup (ids \ present)]

-----------------------------------------------------------------------------
NoProgress == [sources |-> [i \in Identity |-> Nothing], completed |-> {},
               unavailable |-> {}]

Init ==
  /\ api \in [Identity -> Content \cup {Nothing}]
  /\ changes = 0
  /\ data = [p \in Path |-> Nothing]
  /\ manifest = [p \in Path |-> Nothing]
  /\ progress = [r \in Runs |-> NoProgress]
  /\ handoff = [r \in Runs |-> Nothing]
  /\ pc = [r \in Runs |-> "idle"]
  /\ executions = [r \in Runs |-> 0]
  /\ existing = [r \in Runs |-> [i \in Identity |-> Nothing]]
  /\ group = [r \in Runs |-> {}]
  /\ queue = [r \in Runs |-> {}]
  /\ target = [r \in Runs |-> Nothing]
  /\ answered = [r \in Runs |-> [i \in Identity |-> {}]]

Goto(r, label) == pc' = [pc EXCEPT ![r] = label]

\* The stage ends, and its temporary root with it.
Stop(r, label) ==
  /\ Goto(r, label)
  /\ existing' = [existing EXCEPT ![r] = [i \in Identity |-> Nothing]]
  /\ group' = [group EXCEPT ![r] = {}]
  /\ queue' = [queue EXCEPT ![r] = {}]
  /\ target' = [target EXCEPT ![r] = Nothing]

\* UN Comtrade publishes, revises or withdraws a dataset.
Revise(i) ==
  /\ changes < MaxChanges
  /\ changes' = changes + 1
  /\ \E c \in (Content \cup {Nothing}) \ {api[i]} : api' = [api EXCEPT ![i] = c]
  /\ UNCHANGED <<store, records, pc, executions, local, answered>>

\* Mutant: a refreshing run adopts what the store already holds.
StartSyncs(r) ==
  /\ pc[r] \in {"idle", "failed", "conflict", "incomplete"}
  /\ executions[r] < MaxExecutions
  /\ Exclusive => \A s \in Runs : pc[s] \notin Active
  /\ executions' = [executions EXCEPT ![r] = @ + 1]
  /\ IF Ambiguous
     THEN Goto(r, "conflict") /\ existing' = existing
     ELSE /\ Goto(r, "sync")
          /\ existing' = [existing EXCEPT ![r] = [i \in Identity |-> Latest(i)]]
  /\ UNCHANGED <<api, changes, store, records, group, queue, target, answered>>

(***************************************************************************)
(* extract, from its first line to the scan of the rebuilt local root.     *)
(* A run that has its extract.json returns it at once and changes nothing. *)
(***************************************************************************)
Start(r) ==
  /\ pc[r] \in {"idle", "failed", "conflict", "incomplete"}
  /\ executions[r] < MaxExecutions
  /\ Exclusive => \A s \in Runs : pc[s] \notin Active
  /\ executions' = [executions EXCEPT ![r] = @ + 1]
  /\ IF Ambiguous
     THEN Goto(r, "conflict") /\ existing' = existing
     ELSE /\ Goto(r, IF Refresh[r] THEN "fetch" ELSE "sync")
          /\ existing' = [existing EXCEPT ![r] = [i \in Identity |-> Latest(i)]]
  /\ UNCHANGED <<api, changes, store, records, group, queue, target, answered>>

(***************************************************************************)
(* run_batch, without --refresh: every existing source is passed to        *)
(* persist first.  S3Storage.write finds both objects as they were read    *)
(* and writes nothing; the progress record gains the sources.              *)
(***************************************************************************)
SyncExisting(r) ==
  /\ pc[r] = "sync"
  /\ progress' = [progress EXCEPT
                    ![r] = Noted(r, {i \in Identity : existing[r][i] # Nothing})]
  /\ Goto(r, "fetch")
  /\ UNCHANGED <<api, changes, store, handoff, executions, local, answered>>

(***************************************************************************)
(* fetch_complete yields one complete response for some of the job's       *)
(* reporters (all of them, or the part of a truncated group), and          *)
(* save_extracts stores it in the stage's temporary root.  MaxRevision     *)
(* bounds what may be answered.                                            *)
(***************************************************************************)
Fetch(r) ==
  /\ pc[r] = "fetch"
  /\ \E j \in Jobs : \E part \in SUBSET Planned(r, j) :
       LET ids == {j} \X part \X QueryTypes IN
       /\ IsNextJob(r, j)
       /\ part # {}
       /\ \A i \in ids : Saved(r, i) # Nothing => Saved(r, i).revision <= MaxRevision
       /\ answered' = [answered EXCEPT
            ![r] = [i \in Identity |-> IF i \in ids /\ api[i] # Nothing
                                       THEN @[i] \cup {api[i]} ELSE @[i]]]
       /\ IF \E i \in ids : Omitted(r, i)
          THEN Stop(r, "failed")
          ELSE /\ existing' = [existing EXCEPT
                    ![r] = [i \in Identity |-> IF i \in ids THEN Saved(r, i) ELSE @[i]]]
               /\ group' = [group EXCEPT ![r] = ids]
               /\ queue' = [queue EXCEPT ![r] = {i \in ids : Saved(r, i) # Nothing}]
               /\ target' = target
               /\ Goto(r, "persist")
  /\ UNCHANGED <<api, changes, store, records, executions>>

\* Mutant: an exhausted budget ends the batch as if it were complete.
ExhaustCompletes(r) ==
  /\ pc[r] = "fetch"
  /\ \E j \in Jobs : Planned(r, j) # {}
  /\ Stop(r, "done")
  /\ handoff' = [handoff EXCEPT ![r] = progress[r]]
  /\ UNCHANGED <<api, changes, store, progress, executions, answered>>

\* RequestBudget.consume raises BudgetExhausted: exit code 2, to be resumed.
Exhaust(r) ==
  /\ pc[r] = "fetch"
  /\ \E j \in Jobs : Planned(r, j) # {}
  /\ Stop(r, "incomplete")
  /\ UNCHANGED <<api, changes, store, records, executions, answered>>

(***************************************************************************)
(* S3Storage.write reads the data object, then the manifest, and decides   *)
(* by what the two requests returned: another worker may write in between. *)
(* An object that differs from the source to write is a                    *)
(* StorageConflictError; for the data that is so whatever the manifest is. *)
(***************************************************************************)
\* Mutant: data that is there is taken for the source's, without its checksum.
ReadDataUncompared(r) ==
  /\ pc[r] = "persist"
  /\ \E i \in queue[r] :
       /\ queue' = [queue EXCEPT ![r] = @ \ {i}]
       /\ target' = [target EXCEPT ![r] = i]
       /\ Goto(r, IF data[PathOf(i, existing[r][i])] = Nothing THEN "absent" ELSE "present")
       /\ UNCHANGED <<existing, group>>
  /\ UNCHANGED <<api, changes, store, records, executions, answered>>

ReadData(r) ==
  /\ pc[r] = "persist"
  /\ \E i \in queue[r] :
       LET s == existing[r][i]
           found == data[PathOf(i, s)]
       IN  IF found \notin {Nothing, s.content} THEN Stop(r, "conflict")
           ELSE /\ queue' = [queue EXCEPT ![r] = @ \ {i}]
                /\ target' = [target EXCEPT ![r] = i]
                /\ Goto(r, IF found = Nothing THEN "absent" ELSE "present")
                /\ UNCHANGED <<existing, group>>
  /\ UNCHANGED <<api, changes, store, records, executions, answered>>

\* A manifest found after its data was absent is a conflict too: a worker that commits
\* the very same source between the two reads makes this one stop.
ReadManifest(r) ==
  /\ pc[r] \in {"absent", "present"}
  /\ LET s == existing[r][target[r]]
         found == manifest[PathOf(target[r], s)]
         done == pc[r] = "present" /\ found = s.content
     IN  IF found # Nothing /\ ~done THEN Stop(r, "conflict")
         ELSE /\ target' = [target EXCEPT ![r] = IF done THEN Nothing ELSE @]
              /\ Goto(r, IF done THEN "persist"
                         ELSE IF pc[r] = "absent" THEN "data" ELSE "manifest")
              /\ UNCHANGED <<existing, group, queue>>
  /\ UNCHANGED <<api, changes, store, records, executions, answered>>

\* put_object with IfNoneMatch="*": an object that appeared meanwhile is kept and
\* the stage fails with PreconditionFailed, which Airflow retries.
\* Mutant: without IfNoneMatch the put replaces what is there.
PutDataReplaces(r) ==
  /\ pc[r] = "data"
  /\ LET s == existing[r][target[r]] IN
     data' = [data EXCEPT ![PathOf(target[r], s)] = s.content]
  /\ Goto(r, "manifest")
  /\ UNCHANGED <<api, changes, manifest, records, executions, answered, local>>

PutData(r) ==
  /\ pc[r] = "data"
  /\ LET s == existing[r][target[r]]
         p == PathOf(target[r], s)
     IN  IF data[p] = Nothing
         THEN /\ data' = [data EXCEPT ![p] = s.content]
              /\ Goto(r, "manifest")
              /\ UNCHANGED local
         ELSE data' = data /\ Stop(r, "failed")
  /\ UNCHANGED <<api, changes, manifest, records, executions, answered>>

PutManifest(r) ==
  /\ pc[r] = "manifest"
  /\ LET s == existing[r][target[r]]
         p == PathOf(target[r], s)
     IN  IF manifest[p] = Nothing
         THEN /\ manifest' = [manifest EXCEPT ![p] = s.content]
              /\ Goto(r, "persist")
              /\ target' = [target EXCEPT ![r] = Nothing]
              /\ UNCHANGED <<existing, group, queue>>
         ELSE manifest' = manifest /\ Stop(r, "failed")
  /\ UNCHANGED <<api, changes, data, records, executions, answered>>

\* Mutant: the progress is written before all of the group is in S3.
WriteProgressFirst(r) ==
  /\ pc[r] = "persist"
  /\ progress' = [progress EXCEPT ![r] = Noted(r, group[r])]
  /\ UNCHANGED <<api, changes, store, handoff, executions, answered, pc, local>>

\* persist has written the group: extract-progress.json is replaced.
WriteProgress(r) ==
  /\ pc[r] = "persist"
  /\ queue[r] = {}
  /\ progress' = [progress EXCEPT ![r] = Noted(r, group[r])]
  /\ group' = [group EXCEPT ![r] = {}]
  /\ Goto(r, "fetch")
  /\ UNCHANGED <<api, changes, store, handoff, executions, existing, queue, target,
                 answered>>

\* The batch is complete: extract.json is written, unless nothing was accepted.
Complete(r) ==
  /\ pc[r] = "fetch"
  /\ \A j \in Jobs : Planned(r, j) = {}
  /\ IF \E i \in Identity : progress[r].sources[i] # Nothing
     THEN handoff' = [handoff EXCEPT ![r] = progress[r]] /\ Stop(r, "done")
     ELSE handoff' = handoff /\ Stop(r, "failed")
  /\ UNCHANGED <<api, changes, store, progress, executions, answered>>

\* The worker dies, or a request fails for good; its temporary root is lost.
Crash(r) ==
  /\ pc[r] \in Active
  /\ Stop(r, "failed")
  /\ UNCHANGED <<api, changes, store, records, executions, answered>>

Execute(r) ==
  \/ SyncExisting(r) \/ Fetch(r) \/ Exhaust(r)
  \/ ReadData(r) \/ ReadManifest(r) \/ PutData(r) \/ PutManifest(r)
  \/ WriteProgress(r) \/ Complete(r)

Next ==
  \/ \E i \in Identity : Revise(i)
  \/ \E r \in Runs : Start(r) \/ Execute(r) \/ Crash(r)

Spec == Init /\ [][Next]_vars

-----------------------------------------------------------------------------
Record == [sources: [Identity -> Source \cup {Nothing}],
           completed: SUBSET Identity, unavailable: SUBSET Identity]

\* Every object, record, row and stage has the shape the code gives it.
TypeOK ==
  /\ api \in [Identity -> Content \cup {Nothing}]
  /\ changes \in 0..MaxChanges
  /\ data \in [Path -> Content \cup {Nothing}]
  /\ manifest \in [Path -> Content \cup {Nothing}]
  /\ progress \in [Runs -> Record]
  /\ handoff \in [Runs -> Record \cup {Nothing}]
  /\ pc \in [Runs -> Active \cup {"idle", "done", "incomplete", "failed", "conflict"}]
  /\ executions \in [Runs -> 0..MaxExecutions]
  /\ existing \in [Runs -> [Identity -> Source \cup {Nothing}]]
  /\ group \in [Runs -> SUBSET Identity]
  /\ queue \in [Runs -> SUBSET Identity]
  /\ target \in [Runs -> Identity \cup {Nothing}]
  /\ answered \in [Runs -> [Identity -> SUBSET Content]]

\* A manifest never attests data that is missing or different, whichever worker
\* wrote which of the two objects and however often they were interrupted.
ManifestAttestsData ==
  \A p \in Path : manifest[p] # Nothing => data[p] = manifest[p]

\* A committed source is never rewritten or removed.
CommittedForEver ==
  [][\A p \in Path : manifest[p] # Nothing =>
        manifest'[p] = manifest[p] /\ data'[p] = data[p]]_vars

Store == INSTANCE RevisionStore WITH sources <- [i \in Identity |-> Committed(i)]

\* While stages execute one at a time, their steps are, for a reader of S3 Raw, the
\* addition of one source: the first of its identity or a change to the latest.
ImplementsStore == Store!Spec

\* Revisions of an identity count its changes: every committed revision above 1
\* follows a committed one with another content.
RevisionsAreChanges ==
  \A i \in Identity : \A s \in Committed(i) :
    s.revision > 1 => \E t \in Committed(i) :
                        t.revision = s.revision - 1 /\ t.content # s.content

\* While stages execute one at a time (the operating rule), crashes and resumed runs
\* never commit one revision twice, so every later scan can tell the latest source.
Unambiguous == ~Ambiguous

\* What a run has noted as its source, and so may hand off, is committed in S3.
SourcesCommitted ==
  \A r \in Runs, i \in Identity :
    progress[r].sources[i] # Nothing => progress[r].sources[i] \in Committed(i)

\* A handoff covers the whole requested scope: each identity has its source or
\* was reported unavailable, across budget stops, crashes and resumptions.
HandoffComplete ==
  \A r \in Runs : handoff[r] # Nothing =>
    \A i \in Identity : \/ handoff[r].sources[i] # Nothing
                        \/ i \in handoff[r].unavailable

\* A --refresh run hands off only what the API has returned to that very run.
RefreshIsFresh ==
  \A r \in Runs : Refresh[r] /\ handoff[r] # Nothing =>
    \A i \in Identity :
      handoff[r].sources[i] # Nothing => handoff[r].sources[i].content \in answered[r][i]

\* A run that failed can be resumed with its run id: it never ends in a conflict
\* with what an interrupted execution has left behind.
ResumeNeverConflicts == \A r \in Runs : pc[r] # "conflict"

=============================================================================
