------------------------------ MODULE LocalRaw ------------------------------
(***************************************************************************)
(* The local Raw root: --extract-only executions fill it with sources, and *)
(* --sync-only runs hand its latest sources over to S3 and to load.        *)
(*                                                                         *)
(* An execution scans the root, asks the API for the reporters that lack a *)
(* source (for all of them with --refresh) and saves what it is given      *)
(* identity by identity: a source is written into a hidden directory next  *)
(* to its path, which is then renamed.  Executions take no lock: several   *)
(* may work on one root, and each may die anywhere.  A sync run puts the   *)
(* scanned sources to S3, where other writers put theirs, before it writes *)
(* extract-progress.json and extract.json.                                 *)
(*                                                                         *)
(* One month and product is modelled: the others have paths of their own.  *)
(* Fetch has the requests of an execution, Extract those of a put to S3.   *)
(***************************************************************************)
EXTENDS Sources, Sequences

CONSTANTS Order,       \* the identities of the scope, in the order of saving
          Answers,     \* what the API may have: sets of rows
          Extractors,  \* the --extract-only processes
          Refreshing,  \* those of them that are given --refresh
          Runs,        \* the run ids of --sync-only runs
          Elsewhere,   \* another writer of S3
          MaxRevision, \* bound on revisions
          MaxStarts    \* MaxStarts[x]: bound on the executions or commits of x

Path == [identity: Identity, edition: Editions, revision: 1..MaxRevision]

ASSUME LocalRawAssumption ==
  /\ Order \in Seq(Identity)
  /\ \A i \in Identity : \E n \in 1..Len(Order) : Order[n] = i
  /\ \A a \in Answers : IsFiniteSet(a) /\ \A r \in a : IsRow(r)
  /\ Refreshing \subseteq Extractors
  /\ MaxRevision \in Nat
  /\ MaxStarts \in [Extractors \cup Runs \cup {Elsewhere} -> Nat]
  /\ Missing \notin Path
  /\ \A a \in Answers : \A rows \in (SUBSET a) \ {{}} :
       /\ rows # Missing
       /\ \A i \in Identity, n \in 1..MaxRevision :
            Source(i, n, rows) # Missing /\ ManifestOf(i, n, rows) # Missing

VARIABLES root,        \* root[p]: the directory at path p of the local root
          bucket,      \* bucket[p]: the committed source at path p in S3
          starts,      \* starts[x]: the executions or commits of x so far (bound)
          pc,          \* pc[e]: what the execution of e does next
          existing,    \* existing[e][i]: the latest source that e knows of
          response,    \* response[e]: the rows e was given
          todo,        \* todo[e]: the identities e has not saved yet
          target,      \* target[e]: the path e is writing to
          stage,       \* stage[e]: the hidden directory that e has written
          unavailable, \* unavailable[e]: the identities without rows
          phase,       \* phase[u]: what the execution of run u does next
          found,       \* found[u][i]: the path of the latest source u has scanned
          uploaded,    \* uploaded[u]: the identities whose source is in S3
          progress,    \* progress[u]: the sources of extract-progress.json
          handoff      \* handoff[u]: the sources of extract.json

extraction == <<pc, existing, response, todo, target, stage, unavailable>>
sync == <<phase, found, uploaded, progress, handoff>>
vars == <<root, bucket, starts, pc, existing, response, todo, target, stage,
          unavailable, phase, found, uploaded, progress, handoff>>

-----------------------------------------------------------------------------
(* scan_sources *)

Committed(i) == {p \in Path : p.identity = i /\ root[p] # Missing}

\* Every directory is a readable source, and no revision has two of them.
Scannable ==
  /\ \A p \in Path : root[p] # Missing => Readable(p, root[p])
  /\ \A i \in Identity : \A p, q \in Committed(i) : p.revision = q.revision => p = q

Latest(i) ==
  IF Committed(i) = {} THEN Missing
  ELSE CHOOSE p \in Committed(i) : \A q \in Committed(i) : q.revision <= p.revision

\* What an execution remembers of the source at a path.
Known(p) == [revision |-> p.revision, checksum |-> root[p].manifest.checksum]

Nothing == [i \in Identity |-> Missing]

-----------------------------------------------------------------------------
Init ==
  /\ root = [p \in Path |-> Missing]
  /\ bucket = [p \in Path |-> Missing]
  /\ starts = [x \in Extractors \cup Runs \cup {Elsewhere} |-> 0]
  /\ pc = [e \in Extractors |-> "idle"]
  /\ existing = [e \in Extractors |-> Nothing]
  /\ response = [e \in Extractors |-> {}]
  /\ todo = [e \in Extractors |-> {}]
  /\ target = [e \in Extractors |-> Missing]
  /\ stage = [e \in Extractors |-> Missing]
  /\ unavailable = [e \in Extractors |-> {}]
  /\ phase = [u \in Runs |-> "idle"]
  /\ found = [u \in Runs |-> Nothing]
  /\ uploaded = [u \in Runs |-> {}]
  /\ progress = [u \in Runs |-> Nothing]
  /\ handoff = [u \in Runs |-> Missing]

-----------------------------------------------------------------------------
(* An --extract-only execution: run_batch *)

Ended == {"idle", "incomplete", "complete", "failed"}

Goto(e, label) == pc' = [pc EXCEPT ![e] = label]

Begins(x) ==
  /\ starts[x] < MaxStarts[x]
  /\ starts' = [starts EXCEPT ![x] = @ + 1]

\* Mutant: a directory that could not be renamed is not removed.
EndLitters(e, label) ==
  /\ Goto(e, label)
  /\ existing' = [existing EXCEPT ![e] = Nothing]
  /\ response' = [response EXCEPT ![e] = {}]
  /\ todo' = [todo EXCEPT ![e] = {}]
  /\ target' = [target EXCEPT ![e] = Missing]
  /\ unavailable' = [unavailable EXCEPT ![e] = {}]
  /\ UNCHANGED <<root, bucket, starts, stage, sync>>

\* What a process that ends without completing leaves: what it has renamed.
End(e, label) ==
  /\ Goto(e, label)
  /\ existing' = [existing EXCEPT ![e] = Nothing]
  /\ response' = [response EXCEPT ![e] = {}]
  /\ todo' = [todo EXCEPT ![e] = {}]
  /\ target' = [target EXCEPT ![e] = Missing]
  /\ stage' = [stage EXCEPT ![e] = Missing]
  /\ unavailable' = [unavailable EXCEPT ![e] = {}]
  /\ UNCHANGED <<root, bucket, starts, sync>>

\* The root is scanned and remembered; an execution starts with nothing else.
Scan(e) ==
  /\ pc[e] \in Ended
  /\ Begins(e)
  /\ existing' = [existing EXCEPT ![e] =
       [i \in Identity |-> IF Scannable /\ Latest(i) # Missing THEN Known(Latest(i))
                                                              ELSE Missing]]
  /\ response' = [response EXCEPT ![e] = {}]
  /\ unavailable' = [unavailable EXCEPT ![e] = {}]
  /\ Goto(e, IF Scannable THEN "ask" ELSE "failed")
  /\ UNCHANGED <<root, bucket, todo, target, stage, sync>>

\* plan_jobs: the reporters to ask for.
Group(e) ==
  {r \in Reporters : e \in Refreshing \/ \E k \in Kinds : existing[e][<<r, k>>] = Missing}

NothingToAsk(e) ==
  /\ pc[e] = "ask"
  /\ Group(e) = {}
  /\ Goto(e, "complete")
  /\ UNCHANGED <<root, bucket, starts, existing, response, todo, target,
                 stage, unavailable, sync>>

\* The request budget is exhausted.
Exhaust(e) ==
  /\ pc[e] = "ask"
  /\ Group(e) # {}
  /\ End(e, "incomplete")

\* The API has revised its answer as it likes, and keeps to the group it is asked for
\* or does not.  A row of any other reporter, a market or not, breaks the contract.
Respond(e) ==
  /\ pc[e] = "ask"
  /\ Group(e) # {}
  /\ \E a \in Answers : \E rows \in {a, {r \in a : r.reporter \in Group(e)}} :
       /\ response' = [response EXCEPT ![e] = rows]
       /\ todo' = [todo EXCEPT ![e] = {i \in Identity : i[1] \in Group(e)}]
       /\ Goto(e, IF \A r \in rows : r.reporter \in Group(e) THEN "save" ELSE "failed")
  /\ UNCHANGED <<root, bucket, starts, existing, target, stage, unavailable, sync>>

\* save_source, for the next identity i.
Saving(e, i) ==
  /\ pc[e] = "save"
  /\ i \in todo[e]
  /\ \E n \in 1..Len(Order) :
       Order[n] = i /\ \A m \in 1..(n - 1) : Order[m] \notin todo[e]

Given(e, i) == Selected(response[e], i)

Wanted(e, i) == existing[e][i] = Missing \/ e \in Refreshing

\* Neither refreshed nor changed: the source that is there is kept.
Keep(e, i) ==
  /\ Saving(e, i)
  /\ existing[e][i] # Missing
  /\ \/ e \notin Refreshing
     \/ /\ Given(e, i) # {}
        /\ Accepted(i, Given(e, i))
        /\ Given(e, i) = existing[e][i].checksum
  /\ todo' = [todo EXCEPT ![e] = @ \ {i}]
  /\ UNCHANGED <<root, bucket, starts, pc, existing, response, target, stage,
                 unavailable, sync>>

\* The response has no row for an identity that has no source.
Skip(e, i) ==
  /\ Saving(e, i)
  /\ existing[e][i] = Missing
  /\ Given(e, i) = {}
  /\ unavailable' = [unavailable EXCEPT ![e] = @ \cup {i}]
  /\ todo' = [todo EXCEPT ![e] = @ \ {i}]
  /\ UNCHANGED <<root, bucket, starts, pc, existing, response, target, stage, sync>>

Fail(e) == End(e, "failed")

\* A refresh omits what an earlier one had, or the rows break the contract.
Refuse(e, i) ==
  /\ Saving(e, i)
  /\ Wanted(e, i)
  /\ IF Given(e, i) = {} THEN existing[e][i] # Missing ELSE ~Accepted(i, Given(e, i))
  /\ Fail(e)

Revision(e, i) == IF existing[e][i] = Missing THEN 1 ELSE existing[e][i].revision + 1

Changed(e, i) ==
  /\ Saving(e, i)
  /\ Wanted(e, i)
  /\ Given(e, i) # {}
  /\ Accepted(i, Given(e, i))
  /\ existing[e][i] # Missing => Given(e, i) # existing[e][i].checksum
  /\ Revision(e, i) <= MaxRevision

New(e, i) == Source(i, Revision(e, i), Given(e, i))

\* LocalStorage.write finds a directory: the same source, or a conflict.
Exists(e, i) ==
  /\ Changed(e, i)
  /\ LET p == PathOf(New(e, i).manifest) IN
       /\ root[p] # Missing
       /\ IF root[p] = New(e, i)
          THEN /\ Goto(e, "read")
               /\ target' = [target EXCEPT ![e] = p]
               /\ UNCHANGED <<root, bucket, starts, existing, response, todo, stage,
                              unavailable, sync>>
          ELSE Fail(e)

\* Mutant: the data is written in place.
StageInPlace(e, i) ==
  /\ Changed(e, i)
  /\ LET p == PathOf(New(e, i).manifest) IN
       /\ root[p] = Missing
       /\ target' = [target EXCEPT ![e] = p]
       /\ stage' = [stage EXCEPT ![e] = New(e, i)]
       /\ root' = [root EXCEPT ![p] = [data |-> New(e, i).data, manifest |-> Missing]]
  /\ Goto(e, "rename")
  /\ UNCHANGED <<bucket, starts, existing, response, todo, unavailable, sync>>

\* LocalStorage.write finds none: both files are written to a hidden directory.
Stage(e, i) ==
  /\ Changed(e, i)
  /\ LET p == PathOf(New(e, i).manifest) IN
       /\ root[p] = Missing
       /\ target' = [target EXCEPT ![e] = p]
       /\ stage' = [stage EXCEPT ![e] = New(e, i)]
  /\ Goto(e, "rename")
  /\ UNCHANGED <<root, bucket, starts, existing, response, todo, unavailable, sync>>

\* The hidden directory is renamed to its path, unless another execution has put
\* one there in the meantime: a directory with files cannot be replaced.
Rename(e) ==
  /\ pc[e] = "rename"
  /\ IF root[target[e]] = Missing
     THEN /\ root' = [root EXCEPT ![target[e]] = stage[e]]
          /\ stage' = [stage EXCEPT ![e] = Missing]
          /\ Goto(e, "read")
          /\ UNCHANGED <<bucket, starts, existing, response, todo, target,
                         unavailable, sync>>
     ELSE Fail(e)

\* Mutant: what has been written is not read back.
ReadBackUnverified(e) ==
  /\ pc[e] = "read"
  /\ existing' = [existing EXCEPT ![e][target[e].identity] = Known(target[e])]
  /\ todo' = [todo EXCEPT ![e] = @ \ {target[e].identity}]
  /\ target' = [target EXCEPT ![e] = Missing]
  /\ Goto(e, "save")
  /\ UNCHANGED <<root, bucket, starts, response, stage, unavailable, sync>>

\* read_source: what is committed is verified before it is remembered.
ReadBack(e) ==
  /\ pc[e] = "read"
  /\ IF Readable(target[e], root[target[e]])
     THEN /\ existing' = [existing EXCEPT ![e][target[e].identity] = Known(target[e])]
          /\ todo' = [todo EXCEPT ![e] = @ \ {target[e].identity}]
          /\ target' = [target EXCEPT ![e] = Missing]
          /\ Goto(e, "save")
          /\ UNCHANGED <<root, bucket, starts, response, stage, unavailable, sync>>
     ELSE Fail(e)

Complete(e) ==
  /\ pc[e] = "save"
  /\ todo[e] = {}
  /\ existing' = [existing EXCEPT ![e] = Nothing]
  /\ Goto(e, "complete")
  /\ UNCHANGED <<root, bucket, starts, response, todo, target, stage,
                 unavailable, sync>>

\* The process is killed.  A directory it leaves behind is hidden from every scan.
Crash(e) == pc[e] \notin Ended /\ Fail(e)

Extraction(e) ==
  \/ Scan(e) \/ NothingToAsk(e) \/ Exhaust(e) \/ Respond(e)
  \/ \E i \in Identity : Keep(e, i) \/ Skip(e, i) \/ Refuse(e, i) \/ Exists(e, i) \/ Stage(e, i)
  \/ Rename(e) \/ ReadBack(e) \/ Complete(e) \/ Crash(e)

-----------------------------------------------------------------------------
(* A --sync-only run: extract, with the sources of the local root *)

Stop(u) ==
  /\ phase' = [phase EXCEPT ![u] = "idle"]
  /\ found' = [found EXCEPT ![u] = Nothing]
  /\ uploaded' = [uploaded EXCEPT ![u] = {}]
  /\ UNCHANGED <<root, bucket, starts, extraction, progress, handoff>>

\* A run that has written its extract.json does nothing more.  The code first copies
\* what S3 holds to a root of its own, which a sync run does not use: a request that
\* fails there leaves what a crash right after this step leaves.  The scan is one
\* step: a source that appears while it goes on may be found or not, and what is then
\* handed over is judged identity by identity.
SyncScan(u) ==
  /\ phase[u] = "idle"
  /\ handoff[u] = Missing
  /\ Begins(u)
  /\ IF Scannable
     THEN /\ found' = [found EXCEPT ![u] = [i \in Identity |-> Latest(i)]]
          /\ phase' = [phase EXCEPT ![u] = "upload"]
     ELSE UNCHANGED <<found, phase>>
  /\ UNCHANGED <<root, bucket, extraction, uploaded, progress, handoff>>

ToUpload(u) == {i \in Identity \ uploaded[u] : found[u][i] # Missing}

\* Mutant: an object that is there is not compared.
UploadUncompared(u, i) ==
  /\ phase[u] = "upload"
  /\ i \in ToUpload(u)
  /\ LET p == found[u][i] IN
       /\ bucket' = IF bucket[p] = Missing THEN [bucket EXCEPT ![p] = root[p]] ELSE bucket
       /\ uploaded' = [uploaded EXCEPT ![u] = @ \cup {i}]
  /\ UNCHANGED <<root, starts, extraction, phase, found, progress, handoff>>

\* S3Storage.write: the source is read again and put, or is there already.  One that
\* differs is a conflict, and the run stops.
Upload(u, i) ==
  /\ phase[u] = "upload"
  /\ i \in ToUpload(u)
  /\ LET p == found[u][i] IN
       IF Readable(p, root[p]) /\ bucket[p] \in {Missing, root[p]}
       THEN /\ bucket' = [bucket EXCEPT ![p] = root[p]]
            /\ uploaded' = [uploaded EXCEPT ![u] = @ \cup {i}]
            /\ UNCHANGED <<root, starts, extraction, phase, found, progress, handoff>>
       ELSE Stop(u)

\* persist ends: the sources of this execution replace those noted before.
Record(u) ==
  /\ phase[u] = "upload"
  /\ ToUpload(u) = {}
  /\ progress' = [progress EXCEPT ![u] =
       [i \in Identity |-> IF found[u][i] # Missing THEN found[u][i] ELSE @[i]]]
  /\ phase' = [phase EXCEPT ![u] = "hand over"]
  /\ found' = [found EXCEPT ![u] = Nothing]
  /\ uploaded' = [uploaded EXCEPT ![u] = {}]
  /\ UNCHANGED <<root, bucket, starts, extraction, handoff>>

\* extract.json is written, unless there is nothing to hand over.
HandOver(u) ==
  /\ phase[u] = "hand over"
  /\ phase' = [phase EXCEPT ![u] = "idle"]
  /\ handoff' = [handoff EXCEPT ![u] =
       IF \A i \in Identity : progress[u][i] = Missing THEN Missing ELSE progress[u]]
  /\ UNCHANGED <<root, bucket, starts, extraction, found, uploaded, progress>>

SyncCrash(u) == phase[u] # "idle" /\ Stop(u)

Sync(u) ==
  SyncScan(u) \/ (\E i \in Identity : Upload(u, i)) \/ Record(u) \/ HandOver(u) \/ SyncCrash(u)

\* Another run, or another host's root, commits a source of its own to S3.
CommitElsewhere(i) ==
  /\ Begins(Elsewhere)
  /\ \E a \in Answers, n \in 1..MaxRevision :
       LET rows == Selected(a, i)
           s == Source(i, n, rows)
           versions == {p \in Path : p.identity = i /\ bucket[p] # Missing} IN
         /\ rows # {} /\ Accepted(i, rows) /\ Readable(PathOf(s.manifest), s)
         /\ \A p \in versions : p.revision < n
         /\ n > 1 => \E p \in versions : p.revision = n - 1 /\ bucket[p].data # rows
         /\ bucket' = [bucket EXCEPT ![PathOf(s.manifest)] = s]
  /\ UNCHANGED <<root, extraction, sync>>

-----------------------------------------------------------------------------
Next ==
  \/ \E e \in Extractors : Extraction(e)
  \/ \E u \in Runs : Sync(u)
  \/ \E i \in Identity : CommitElsewhere(i)

Spec == Init /\ [][Next]_vars

-----------------------------------------------------------------------------
Version == [revision: 1..MaxRevision, checksum: SUBSET UNION Answers]

IsSource(d) ==
  /\ DOMAIN d = {"data", "manifest"}
  /\ d.data \in SUBSET UNION Answers
  /\ d = Source(d.manifest.identity, d.manifest.revision, d.data)

\* Every directory, object and record has the shape the code gives it, and a hidden
\* directory is there only for a rename to come.
TypeOK ==
  /\ \A p \in Path : root[p] = Missing \/ IsSource(root[p])
  /\ \A p \in Path : bucket[p] = Missing \/ IsSource(bucket[p])
  /\ starts \in [Extractors \cup Runs \cup {Elsewhere} -> Nat]
  /\ pc \in [Extractors -> Ended \cup {"ask", "save", "rename", "read"}]
  /\ existing \in [Extractors -> [Identity -> Version \cup {Missing}]]
  /\ response \in [Extractors -> SUBSET UNION Answers]
  /\ todo \in [Extractors -> SUBSET Identity]
  /\ target \in [Extractors -> Path \cup {Missing}]
  /\ \A e \in Extractors :
       IF pc[e] = "rename" THEN IsSource(stage[e]) ELSE stage[e] = Missing
  /\ unavailable \in [Extractors -> SUBSET Identity]
  /\ phase \in [Runs -> {"idle", "upload", "hand over"}]
  /\ found \in [Runs -> [Identity -> Path \cup {Missing}]]
  /\ uploaded \in [Runs -> SUBSET Identity]
  /\ progress \in [Runs -> [Identity -> Path \cup {Missing}]]
  /\ handoff \in [Runs -> [Identity -> Path \cup {Missing}] \cup {Missing}]

\* A directory of the root appears whole, with data and the manifest that attests
\* them at its own path, and never changes: whichever executions write at once and
\* wherever they die (the hidden directory and the rename in LocalStorage.write).
InstalledWhole ==
  [][\A p \in Path : root'[p] # root[p] =>
       /\ root[p] = Missing
       /\ root'[p].manifest # Missing
       /\ root'[p].manifest.checksum = root'[p].data
       /\ PathOf(root'[p].manifest) = p]_vars

\* What passes validate_dataset on its way to disk passes verify on the way back,
\* in this root and in every later reader, unless Raw cannot represent it.
AcceptedIsReadable ==
  \A p \in Path : root[p] # Missing =>
    Readable(p, root[p]) \/ ~Representable(root[p].data)

\* An execution that reports completion has a readable source for every identity
\* of its scope that it does not report as unavailable, and with --refresh the
\* very rows it was given, whatever was there, failed or ran beside it.
CompleteCovers ==
  \A e \in Extractors : pc[e] = "complete" =>
    \A i \in Identity \ unavailable[e] :
      \E p \in Committed(i) :
        /\ Readable(p, root[p])
        /\ e \in Refreshing => root[p].data = Given(e, i)

\* What a sync run hands over is, for every identity, one source that the root and
\* S3 hold alike and that load will be able to verify, however often the run was
\* interrupted and whatever others have put to S3.
HandoffInBoth ==
  \A u \in Runs : handoff[u] # Missing =>
    \A i \in Identity : handoff[u][i] # Missing =>
      /\ handoff[u][i].identity = i
      /\ bucket[handoff[u][i]] = root[handoff[u][i]]
      /\ Readable(handoff[u][i], bucket[handoff[u][i]])

=============================================================================
