--------------------------- MODULE ExtractProofs ----------------------------
(***************************************************************************)
(* Theorems about Extract, for any runs, identities, contents, editions    *)
(* and bounds: what an S3 source is worth, what revisions mean and what a  *)
(* handoff covers.                                                         *)
(***************************************************************************)
EXTENDS Extract, WellFoundedInduction, TLAPS

-----------------------------------------------------------------------------
(* The sources that a set of manifests commits *)

\* Committed, for any manifests m.
CommittedIn(m, i) ==
  {[revision |-> p.revision, content |-> m[p]] :
     p \in {q \in Path : q.identity = i /\ m[q] # Nothing}}

Manifests == [Path -> Content \cup {Nothing}]

LEMMA NothingFacts ==
  /\ MaxRevision \in Nat \ {0} /\ MaxChanges \in Nat /\ MaxExecutions \in Nat \ {0}
  /\ Nothing \notin Content /\ Nothing \notin Source
  /\ \A n \in Nat, c \in Content : [revision |-> n, content |-> c] # Nothing
<1>1. /\ MaxRevision \in Nat \ {0} /\ MaxChanges \in Nat /\ MaxExecutions \in Nat \ {0}
      /\ Nothing \notin Content /\ Nothing \notin [revision : Nat, content : Content]
  BY ExtractAssumption
<1>2. Source \subseteq [revision : Nat, content : Content]
  BY <1>1 DEF Source
<1> QED BY <1>1, <1>2

LEMMA PathFacts ==
  ASSUME NEW i \in Identity, NEW s \in Source
  PROVE  /\ PathOf(i, s) \in Path
         /\ PathOf(i, s).identity = i
         /\ PathOf(i, s).revision = s.revision
<1>1. Edition[s.content] \in Editions
  BY DEF Source, Editions
<1>2. s.revision \in 1..MaxRevision
  BY DEF Source
<1>3. PathOf(i, s) = [identity |-> i, edition |-> Edition[s.content],
                      revision |-> s.revision]
  BY DEF PathOf
<1> QED BY <1>1, <1>2, <1>3 DEF Path

LEMMA SourceFacts ==
  ASSUME NEW s \in Source
  PROVE  /\ s.revision \in 1..MaxRevision /\ s.revision \in Nat /\ s.content \in Content
         /\ s.content # Nothing
         /\ s # Nothing
         /\ s = [revision |-> s.revision, content |-> s.content]
<1>1. MaxRevision \in Nat \ {0} /\ Nothing \notin Content /\ Nothing \notin Source
  BY NothingFacts
<1>2. s.revision \in 1..MaxRevision /\ s.content \in Content
  BY DEF Source
<1>3. s = [revision |-> s.revision, content |-> s.content]
  BY DEF Source
<1> QED BY <1>1, <1>2, <1>3

LEMMA CommittedType ==
  ASSUME NEW m \in Manifests, NEW i
  PROVE  CommittedIn(m, i) \subseteq Source
<1>1. ASSUME NEW q \in Path, m[q] # Nothing
      PROVE  [revision |-> q.revision, content |-> m[q]] \in Source
  <2>1. q.revision \in 1..MaxRevision
    BY DEF Path
  <2>2. m[q] \in Content
    BY <1>1 DEF Manifests
  <2> QED BY <2>1, <2>2 DEF Source
<1> QED BY <1>1 DEF CommittedIn

\* A manifest at the path of a source commits it.
LEMMA CommittedAt ==
  ASSUME NEW m \in Manifests, NEW i \in Identity, NEW s \in Source,
         m[PathOf(i, s)] = s.content
  PROVE  s \in CommittedIn(m, i)
<1>1. PathOf(i, s) \in Path /\ PathOf(i, s).identity = i /\ PathOf(i, s).revision = s.revision
  BY PathFacts
<1>2. m[PathOf(i, s)] # Nothing /\ s = [revision |-> s.revision, content |-> s.content]
  BY SourceFacts
<1> QED BY <1>1, <1>2 DEF CommittedIn

\* A new manifest adds one source, to one identity.
LEMMA CommitAdds ==
  ASSUME NEW m \in Manifests, NEW i \in Identity, NEW s \in Source,
         m[PathOf(i, s)] = Nothing,
         NEW n \in Manifests, n[PathOf(i, s)] = s.content,
         \A q \in Path : q # PathOf(i, s) => n[q] = m[q]
  PROVE  /\ CommittedIn(n, i) = CommittedIn(m, i) \cup {s}
         /\ \A j \in Identity \ {i} : CommittedIn(n, j) = CommittedIn(m, j)
<1> DEFINE p == PathOf(i, s)
<1>1. p \in Path /\ p.identity = i /\ p.revision = s.revision
  BY PathFacts
<1>2. s.content # Nothing /\ s = [revision |-> s.revision, content |-> s.content]
  BY SourceFacts
<1> HIDE DEF p
<1>3. m[p] = Nothing
  BY DEF p
<1>4. n[p] = s.content /\ \A q \in Path : q # p => n[q] = m[q]
  BY DEF p
<1>5. ASSUME NEW t \in CommittedIn(n, i) PROVE t \in CommittedIn(m, i) \cup {s}
  <2>1. PICK q \in Path : /\ q.identity = i /\ n[q] # Nothing
                          /\ t = [revision |-> q.revision, content |-> n[q]]
    BY <1>5 DEF CommittedIn
  <2>2. CASE q = p
    BY <2>1, <2>2, <1>1, <1>2, <1>4
  <2>3. CASE q # p
    BY <2>1, <2>3, <1>4 DEF CommittedIn
  <2> QED BY <2>2, <2>3
<1>6. ASSUME NEW t \in CommittedIn(m, i) PROVE t \in CommittedIn(n, i)
  <2>1. PICK q \in Path : /\ q.identity = i /\ m[q] # Nothing
                          /\ t = [revision |-> q.revision, content |-> m[q]]
    BY <1>6 DEF CommittedIn
  <2>2. q # p
    BY <2>1, <1>3
  <2> QED BY <2>1, <2>2, <1>4 DEF CommittedIn
<1>7. s \in CommittedIn(n, i)
  BY <1>1, <1>2, <1>4 DEF CommittedIn
<1>8. ASSUME NEW j \in Identity \ {i} PROVE CommittedIn(n, j) = CommittedIn(m, j)
  <2>1. \A q \in Path : q.identity = j => n[q] = m[q]
    BY <1>1, <1>4
  <2> QED BY <2>1 DEF CommittedIn
<1> QED BY <1>5, <1>6, <1>7, <1>8

\* A set of sources has a latest one.
LEMMA LatestExists ==
  ASSUME NEW c \in SUBSET Source, c # {}
  PROVE  \E s \in c : \A t \in c : t.revision <= s.revision
<1>1. \A s \in c : s.revision \in 1..MaxRevision
  BY DEF Source
<1> DEFINE Left == {MaxRevision - s.revision : s \in c}
<1>2. Left \subseteq Nat /\ Left # {}
  BY <1>1, ExtractAssumption
<1>3. PICK x \in Left : \A y \in Left : ~ (<<y, x>> \in OpToRel(<, Nat))
  <2> HIDE DEF Left
  <2> QED BY <1>2, NatLessThanWellFounded, WFMin
<1>4. \A y \in Left : ~ (y < x)
  BY <1>2, <1>3 DEF OpToRel
<1>5. PICK s \in c : x = MaxRevision - s.revision
  BY <1>3
<1>6. ASSUME NEW t \in c PROVE t.revision <= s.revision
  <2>1. ~ (MaxRevision - t.revision < MaxRevision - s.revision)
    BY <1>4, <1>5
  <2> QED BY <1>1, <2>1, ExtractAssumption
<1> QED BY <1>6

LEMMA LatestFacts ==
  ASSUME manifest \in Manifests, NEW i \in Identity
  PROVE  \/ Latest(i) = Nothing /\ CommittedIn(manifest, i) = {}
         \/ /\ Latest(i) \in CommittedIn(manifest, i)
            /\ \A t \in CommittedIn(manifest, i) : t.revision <= Latest(i).revision
<1>1. Committed(i) = CommittedIn(manifest, i)
  BY DEF Committed, CommittedIn
<1>2. CommittedIn(manifest, i) # {} =>
        \E s \in CommittedIn(manifest, i) :
          \A t \in CommittedIn(manifest, i) : t.revision <= s.revision
  BY CommittedType, LatestExists
<1> QED BY <1>1, <1>2 DEF Latest

-----------------------------------------------------------------------------
(* The store and the records: the inductive invariant of any interleaving *)

\* S3Storage.write has taken up the source of target.
InWrite == {"absent", "present", "data", "manifest"}

Writing == {"persist"} \cup InWrite

\* The stage of r has yet to commit its source of i.
Pending(r, i) ==
  \/ i \in queue[r]
  \/ pc[r] \in InWrite /\ i = target[r]

\* A stage that writes no group has none.
GroupTidy(r) == pc[r] \notin Writing => group[r] = {} /\ queue[r] = {}

\* What a stage is about to write, it has a source of.
QueueKnown(r) ==
  /\ \A i \in queue[r] : existing[r][i] # Nothing
  /\ pc[r] \in InWrite =>
       target[r] \in Identity /\ existing[r][target[r]] # Nothing

\* Data read as present is there when its manifest is read or put.
DataFirst(r) ==
  pc[r] \in {"present", "manifest"} =>
    data[PathOf(target[r], existing[r][target[r]])] = existing[r][target[r]].content

\* The sources of a stage's view are committed, or about to be.
ViewCommitted(r) ==
  \A i \in Identity : existing[r][i] # Nothing /\ ~Pending(r, i) =>
    existing[r][i] \in CommittedIn(manifest, i)

RecordCommitted(r) ==
  \A i \in Identity : progress[r].sources[i] # Nothing =>
    progress[r].sources[i] \in CommittedIn(manifest, i)

StageInv(r) ==
  /\ GroupTidy(r)
  /\ QueueKnown(r)
  /\ DataFirst(r)
  /\ ViewCommitted(r)
  /\ RecordCommitted(r)

StoreInv ==
  /\ TypeOK
  /\ ManifestAttestsData
  /\ \A r \in Runs : StageInv(r)

-----------------------------------------------------------------------------
(* Types *)

LEMMA StopTypes ==
  ASSUME TypeOK, NEW r \in Runs, NEW label \in {"done", "incomplete", "failed", "conflict"},
         Stop(r, label)
  PROVE  /\ pc' \in [Runs -> Active \cup {"idle", "done", "incomplete", "failed", "conflict"}]
         /\ existing' \in [Runs -> [Identity -> Source \cup {Nothing}]]
         /\ group' \in [Runs -> SUBSET Identity]
         /\ queue' \in [Runs -> SUBSET Identity]
         /\ target' \in [Runs -> Identity \cup {Nothing}]
BY DEF Stop, Goto, TypeOK

\* What is saved is nothing, what was there, or a revision of the answer.
LEMMA SavedFacts ==
  ASSUME TypeOK, NEW r \in Runs, NEW i \in Identity,
         Saved(r, i) # Nothing => Saved(r, i).revision <= MaxRevision
  PROVE  /\ Saved(r, i) \in Source \cup {Nothing}
         /\ \/ Saved(r, i) = existing[r][i]
            \/ existing[r][i] # Nothing /\ Omitted(r, i)
            \/ /\ existing[r][i] = Nothing /\ Saved(r, i) # Nothing
               /\ Saved(r, i).revision = 1 /\ Saved(r, i).content = api[i]
            \/ /\ existing[r][i] # Nothing /\ Saved(r, i) # Nothing
               /\ Saved(r, i).revision = existing[r][i].revision + 1
               /\ Saved(r, i).content = api[i]
               /\ existing[r][i].content # api[i]
         /\ Refresh[r] /\ Saved(r, i) # Nothing => Saved(r, i).content = api[i]
<1>1. existing[r][i] \in Source \cup {Nothing} /\ api[i] \in Content \cup {Nothing}
  BY DEF TypeOK
<1>2. Nothing \notin Source /\ MaxRevision \in Nat \ {0} /\ Nothing \notin Content
  BY NothingFacts
<1>3. ASSUME NEW n \in Nat, n >= 1, NEW c \in Content, n <= MaxRevision
      PROVE  /\ [revision |-> n, content |-> c] \in Source
             /\ [revision |-> n, content |-> c].revision = n
             /\ [revision |-> n, content |-> c].content = c
  BY <1>2, <1>3 DEF Source
<1>4. CASE existing[r][i] # Nothing /\ ~Refresh[r]
  BY <1>1, <1>4 DEF Saved
<1>5. CASE ~(existing[r][i] # Nothing /\ ~Refresh[r]) /\ api[i] = Nothing
  BY <1>1, <1>5 DEF Saved, Omitted
<1>6. CASE api[i] # Nothing /\ existing[r][i] = Nothing
  <2>1. Saved(r, i) = [revision |-> 1, content |-> api[i]]
    BY <1>6 DEF Saved
  <2> QED BY <2>1, <1>1, <1>2, <1>3, <1>6, NothingFacts
<1>7. CASE api[i] # Nothing /\ existing[r][i] # Nothing /\ Refresh[r]
  <2>1. existing[r][i].revision \in Nat /\ existing[r][i].revision >= 1
    BY <1>1, <1>7 DEF Source
  <2>2. CASE existing[r][i].content = api[i]
    BY <1>1, <1>7, <2>2 DEF Saved
  <2>3. CASE existing[r][i].content # api[i]
    <3>1. Saved(r, i) = [revision |-> existing[r][i].revision + 1, content |-> api[i]]
      BY <1>7, <2>3 DEF Saved
    <3>2. Saved(r, i).revision = existing[r][i].revision + 1 /\ Saved(r, i).content = api[i]
      BY <3>1
    <3>3. Saved(r, i) # Nothing
      <4>1. [revision |-> existing[r][i].revision + 1, content |-> api[i]] # Nothing
        BY <1>1, <1>7, <2>1, NothingFacts
      <4> QED BY <3>1, <4>1
    <3> QED BY <3>1, <3>2, <3>3, <1>1, <1>2, <1>3, <1>7, <2>1, <2>3
  <2> QED BY <2>2, <2>3
<1> QED BY <1>4, <1>5, <1>6, <1>7

LEMMA InitTypes == Init => TypeOK
<1> SUFFICES ASSUME Init PROVE TypeOK
  OBVIOUS
<1>1. NoProgress \in Record
  BY DEF NoProgress, Record
<1>2. 0 \in 0..MaxChanges /\ 0 \in 0..MaxExecutions
  BY NothingFacts
<1> QED BY <1>1, <1>2 DEF Init, TypeOK

LEMMA ReviseTypes ==
  ASSUME TypeOK, NEW i \in Identity, Revise(i)
  PROVE  TypeOK'
<1>1. PICK c \in (Content \cup {Nothing}) \ {api[i]} : api' = [api EXCEPT ![i] = c]
  BY DEF Revise
<1>2. api' \in [Identity -> Content \cup {Nothing}]
  BY <1>1 DEF TypeOK
<1>3. changes' \in 0..MaxChanges
  BY NothingFacts DEF Revise, TypeOK
<1>4. UNCHANGED <<data, manifest, progress, handoff, pc, executions, existing, group, queue,
                  target, answered>>
  BY DEF Revise, store, records, local
<1> QED BY <1>2, <1>3, <1>4 DEF TypeOK

LEMMA LatestType ==
  ASSUME TypeOK, NEW i \in Identity
  PROVE  Latest(i) \in Source \cup {Nothing}
<1>1. manifest \in Manifests
  BY DEF TypeOK, Manifests
<1> QED BY <1>1, LatestFacts, CommittedType

LEMMA StartTypes ==
  ASSUME TypeOK, NEW r \in Runs, Start(r)
  PROVE  TypeOK'
<1>1. executions' \in [Runs -> 0..MaxExecutions]
  BY NothingFacts DEF Start, TypeOK
<1>2. pc' \in [Runs -> Active \cup {"idle", "done", "incomplete", "failed", "conflict"}]
  BY DEF Start, TypeOK, Goto, Active
<1>3. existing' \in [Runs -> [Identity -> Source \cup {Nothing}]]
  <2>1. [i \in Identity |-> Latest(i)] \in [Identity -> Source \cup {Nothing}]
    BY LatestType
  <2> QED BY <2>1 DEF Start, TypeOK
<1>4. UNCHANGED <<api, changes, data, manifest, progress, handoff, group, queue, target,
                  answered>>
  BY DEF Start, store, records
<1> QED BY <1>1, <1>2, <1>3, <1>4 DEF TypeOK

LEMMA NotedFacts ==
  ASSUME TypeOK, NEW r \in Runs, NEW ids \in SUBSET Identity
  PROVE  /\ Noted(r, ids) \in Record
         /\ Noted(r, ids).completed = progress[r].completed \cup ids
         /\ Noted(r, ids).unavailable =
              progress[r].unavailable \cup {i \in ids : existing[r][i] = Nothing}
         /\ \A i \in Identity :
              Noted(r, ids).sources[i] =
                IF i \in ids /\ existing[r][i] # Nothing THEN existing[r][i]
                ELSE progress[r].sources[i]
<1>1. /\ progress[r] \in Record
      /\ existing[r] \in [Identity -> Source \cup {Nothing}]
  BY DEF TypeOK
<1>2. /\ progress[r].sources \in [Identity -> Source \cup {Nothing}]
      /\ progress[r].completed \in SUBSET Identity
      /\ progress[r].unavailable \in SUBSET Identity
  BY <1>1 DEF Record
<1> DEFINE present == {i \in ids : existing[r][i] # Nothing}
           noted == [i \in Identity |-> IF i \in present THEN existing[r][i]
                                        ELSE progress[r].sources[i]]
<1>3. noted \in [Identity -> Source \cup {Nothing}]
  BY <1>1, <1>2
<1>4. Noted(r, ids) = [sources |-> noted, completed |-> progress[r].completed \cup ids,
                       unavailable |-> progress[r].unavailable \cup (ids \ present)]
  BY DEF Noted
<1>5. \A i \in Identity : noted[i] = IF i \in ids /\ existing[r][i] # Nothing
                                     THEN existing[r][i] ELSE progress[r].sources[i]
  OBVIOUS
<1>6. ids \ present = {i \in ids : existing[r][i] = Nothing}
  OBVIOUS
<1>7. /\ progress[r].completed \cup ids \in SUBSET Identity
      /\ progress[r].unavailable \cup (ids \ present) \in SUBSET Identity
  BY <1>2
<1> HIDE DEF present, noted
<1> QED BY <1>3, <1>4, <1>5, <1>6, <1>7 DEF Record

LEMMA SyncTypes ==
  ASSUME TypeOK, NEW r \in Runs, SyncExisting(r)
  PROVE  TypeOK'
<1>1. progress' \in [Runs -> Record]
  BY NotedFacts DEF SyncExisting, TypeOK
<1>2. pc' \in [Runs -> Active \cup {"idle", "done", "incomplete", "failed", "conflict"}]
  BY DEF SyncExisting, TypeOK, Goto, Active
<1>3. UNCHANGED <<api, changes, data, manifest, handoff, executions, existing, group, queue,
                  target, answered>>
  BY DEF SyncExisting, store, local
<1> QED BY <1>1, <1>2, <1>3 DEF TypeOK

\* What Fetch does with a response for the identities ids.
Response(r, ids) ==
  /\ \A i \in ids : Saved(r, i) # Nothing => Saved(r, i).revision <= MaxRevision
  /\ answered' = [answered EXCEPT
       ![r] = [i \in Identity |-> IF i \in ids /\ api[i] # Nothing
                                  THEN @[i] \cup {api[i]} ELSE @[i]]]
  /\ IF \E i \in ids : Omitted(r, i)
     THEN Stop(r, "failed")
     ELSE /\ existing' = [existing EXCEPT
               ![r] = [i \in Identity |-> IF i \in ids THEN Saved(r, i) ELSE @[i]]]
          /\ group' = [group EXCEPT ![r] = ids]
          /\ queue' = [queue EXCEPT ![r] = {i \in ids : Saved(r, i) # Nothing}]
          /\ target' = target
          /\ Goto(r, "persist")

LEMMA FetchFacts ==
  ASSUME NEW r \in Runs, Fetch(r)
  PROVE  /\ pc[r] = "fetch"
         /\ \E ids \in SUBSET Identity : Response(r, ids)
         /\ UNCHANGED <<api, changes, data, manifest, progress, handoff, executions>>
<1>1. PICK j \in Jobs : \E part \in SUBSET Planned(r, j) :
        Response(r, {j} \X part \X QueryTypes)
  BY DEF Fetch, Response
<1>2. PICK part \in SUBSET Planned(r, j) : Response(r, {j} \X part \X QueryTypes)
  BY <1>1
<1>3. {j} \X part \X QueryTypes \in SUBSET Identity
  BY DEF Planned, Identity
<1>4. pc[r] = "fetch"
      /\ UNCHANGED <<api, changes, data, manifest, progress, handoff, executions>>
  BY DEF Fetch, store, records
<1> QED BY <1>2, <1>3, <1>4

\* The view after a response that does not fail the stage.
LEMMA ResponseFacts ==
  ASSUME TypeOK, NEW r \in Runs, NEW ids \in SUBSET Identity, Response(r, ids),
         \A i \in ids : ~Omitted(r, i)
  PROVE  /\ existing' \in [Runs -> [Identity -> Source \cup {Nothing}]]
         /\ \A q \in Runs \ {r} : existing'[q] = existing[q]
         /\ \A i \in Identity :
              existing'[r][i] = IF i \in ids THEN Saved(r, i) ELSE existing[r][i]
         /\ \A i \in ids : Saved(r, i) \in Source \cup {Nothing}
<1>1. existing' = [existing EXCEPT
        ![r] = [i \in Identity |-> IF i \in ids THEN Saved(r, i) ELSE @[i]]]
  BY DEF Response
<1>2. \A i \in ids : Saved(r, i) \in Source \cup {Nothing}
  BY SavedFacts DEF Response
<1>3. existing \in [Runs -> [Identity -> Source \cup {Nothing}]]
  BY DEF TypeOK
<1> QED BY <1>1, <1>2, <1>3

\* The history of answers grows, for the run that has asked.
LEMMA AnsweredFacts ==
  ASSUME TypeOK, NEW r \in Runs, NEW ids \in SUBSET Identity, Response(r, ids)
  PROVE  /\ answered' \in [Runs -> [Identity -> SUBSET Content]]
         /\ \A q \in Runs, i \in Identity : answered[q][i] \subseteq answered'[q][i]
         /\ \A i \in ids : api[i] # Nothing => api[i] \in answered'[r][i]
<1>1. answered' = [answered EXCEPT
        ![r] = [i \in Identity |-> IF i \in ids /\ api[i] # Nothing
                                   THEN answered[r][i] \cup {api[i]} ELSE answered[r][i]]]
  BY DEF Response
<1>2. /\ answered \in [Runs -> [Identity -> SUBSET Content]]
      /\ api \in [Identity -> Content \cup {Nothing}]
  BY DEF TypeOK
<1> DEFINE new == [i \in Identity |-> IF i \in ids /\ api[i] # Nothing
                                      THEN answered[r][i] \cup {api[i]} ELSE answered[r][i]]
<1>3. /\ new \in [Identity -> SUBSET Content]
      /\ \A i \in Identity : answered[r][i] \subseteq new[i]
      /\ \A i \in ids : api[i] # Nothing => api[i] \in new[i]
  BY <1>2
<1>4. answered' = [answered EXCEPT ![r] = new]
  BY <1>1
<1> HIDE DEF new
<1> QED BY <1>2, <1>3, <1>4

LEMMA FetchTypes ==
  ASSUME TypeOK, NEW r \in Runs, Fetch(r)
  PROVE  TypeOK'
<1>1. PICK ids \in SUBSET Identity : Response(r, ids)
  BY FetchFacts
<1>2. UNCHANGED <<api, changes, data, manifest, progress, handoff, executions>>
  BY FetchFacts
<1>3. answered' \in [Runs -> [Identity -> SUBSET Content]]
  BY <1>1, AnsweredFacts
<1>4. CASE \E i \in ids : Omitted(r, i)
  <2>1. Stop(r, "failed")
    BY <1>1, <1>4 DEF Response
  <2> QED BY <1>2, <1>3, <2>1, StopTypes DEF TypeOK
<1>5. CASE \A i \in ids : ~Omitted(r, i)
  <2>1. existing' \in [Runs -> [Identity -> Source \cup {Nothing}]]
    BY <1>1, <1>5, ResponseFacts
  <2>2. /\ group' \in [Runs -> SUBSET Identity]
        /\ queue' \in [Runs -> SUBSET Identity]
        /\ target' \in [Runs -> Identity \cup {Nothing}]
    <3>1. PICK todo \in SUBSET Identity : queue' = [queue EXCEPT ![r] = todo]
      BY <1>1, <1>5 DEF Response
    <3>2. group' = [group EXCEPT ![r] = ids] /\ target' = target
      BY <1>1, <1>5 DEF Response
    <3> QED BY <3>1, <3>2 DEF TypeOK
  <2>3. pc' \in [Runs -> Active \cup {"idle", "done", "incomplete", "failed", "conflict"}]
    BY <1>1, <1>5 DEF Response, TypeOK, Goto, Active
  <2> QED BY <1>2, <1>3, <2>1, <2>2, <2>3 DEF TypeOK
<1> QED BY <1>4, <1>5

LEMMA StopStepTypes ==
  ASSUME TypeOK, NEW r \in Runs, Exhaust(r) \/ Crash(r)
  PROVE  TypeOK'
<1>1. PICK label \in {"done", "incomplete", "failed", "conflict"} : Stop(r, label)
  BY DEF Exhaust, Crash
<1>2. UNCHANGED <<api, changes, data, manifest, progress, handoff, executions, answered>>
  BY DEF Exhaust, Crash, store, records
<1> QED BY <1>1, <1>2, StopTypes DEF TypeOK

\* A request for an object: what it leaves alone, and the labels it leads to.
LEMMA ReadFacts ==
  ASSUME TypeOK, NEW r \in Runs, ReadData(r) \/ ReadManifest(r)
  PROVE  /\ UNCHANGED <<api, changes, data, manifest, progress, handoff, executions, answered>>
         /\ pc[r] \in {"persist", "absent", "present"}
         /\ \/ Stop(r, "conflict")
            \/ \E l \in Writing, t \in Identity \cup {Nothing}, d \in SUBSET Identity :
                 /\ pc' = [pc EXCEPT ![r] = l]
                 /\ target' = [target EXCEPT ![r] = t]
                 /\ queue' = [queue EXCEPT ![r] = @ \ d]
                 /\ UNCHANGED <<existing, group>>
<1>1. /\ UNCHANGED <<api, changes, data, manifest, progress, handoff, executions, answered>>
      /\ pc[r] \in {"persist", "absent", "present"}
  BY DEF ReadData, ReadManifest, store, records
<1>2. CASE ReadData(r) /\ ~Stop(r, "conflict")
  <2>1. PICK i \in queue[r], l \in {"absent", "present"} :
          /\ queue' = [queue EXCEPT ![r] = @ \ {i}]
          /\ target' = [target EXCEPT ![r] = i]
          /\ pc' = [pc EXCEPT ![r] = l]
          /\ UNCHANGED <<existing, group>>
    BY <1>2 DEF ReadData, Goto
  <2>2. i \in Identity /\ {i} \in SUBSET Identity
    BY DEF TypeOK
  <2> QED BY <1>1, <2>1, <2>2 DEF Writing, InWrite
<1>3. CASE ReadManifest(r) /\ ~Stop(r, "conflict")
  <2>1. PICK l \in {"persist", "data", "manifest"}, t \in {target[r], Nothing} :
          /\ pc' = [pc EXCEPT ![r] = l]
          /\ target' = [target EXCEPT ![r] = t]
          /\ UNCHANGED <<existing, group, queue>>
    BY <1>3 DEF ReadManifest, Goto
  <2>2. t \in Identity \cup {Nothing} /\ {} \in SUBSET Identity
    BY DEF TypeOK
  <2>3. queue' = [queue EXCEPT ![r] = @ \ {}]
    BY <2>1 DEF TypeOK
  <2> QED BY <1>1, <2>1, <2>2, <2>3 DEF Writing, InWrite
<1> QED BY <1>1, <1>2, <1>3

LEMMA ReadTypes ==
  ASSUME TypeOK, NEW r \in Runs, ReadData(r) \/ ReadManifest(r)
  PROVE  TypeOK'
<1>1. UNCHANGED <<api, changes, data, manifest, progress, handoff, executions, answered>>
  BY ReadFacts
<1>2. CASE Stop(r, "conflict")
  BY <1>1, <1>2, StopTypes DEF TypeOK
<1>3. CASE ~Stop(r, "conflict")
  <2>1. PICK l \in Writing, t \in Identity \cup {Nothing}, d \in SUBSET Identity :
          /\ pc' = [pc EXCEPT ![r] = l]
          /\ target' = [target EXCEPT ![r] = t]
          /\ queue' = [queue EXCEPT ![r] = @ \ d]
          /\ UNCHANGED <<existing, group>>
    BY <1>3, ReadFacts
  <2> QED BY <1>1, <2>1 DEF TypeOK, Active, Writing, InWrite
<1> QED BY <1>2, <1>3

LEMMA PutTypes ==
  ASSUME TypeOK, NEW r \in Runs, QueueKnown(r), PutData(r) \/ PutManifest(r)
  PROVE  TypeOK'
<1> DEFINE i == target[r]
           s == existing[r][i]
           p == PathOf(i, s)
<1>1. i \in Identity /\ s \in Source
  BY DEF PutData, PutManifest, QueueKnown, TypeOK, InWrite
<1>2. p \in Path /\ s.content \in Content
  BY <1>1, PathFacts, SourceFacts
<1>3. UNCHANGED <<api, changes, progress, handoff, executions, answered>>
  BY DEF PutData, PutManifest, records
<1>4. /\ data' \in [Path -> Content \cup {Nothing}]
      /\ manifest' \in [Path -> Content \cup {Nothing}]
  BY <1>2 DEF PutData, PutManifest, TypeOK
<1>5. CASE Stop(r, "failed")
  BY <1>3, <1>4, <1>5, StopTypes DEF TypeOK
<1>6. CASE ~Stop(r, "failed")
  BY <1>3, <1>4, <1>6 DEF PutData, PutManifest, TypeOK, Goto, local, Active
<1> QED BY <1>5, <1>6

LEMMA WriteTypes ==
  ASSUME TypeOK, NEW r \in Runs, WriteProgress(r)
  PROVE  TypeOK'
<1>1. progress' \in [Runs -> Record]
  <2>1. group[r] \in SUBSET Identity
    BY DEF TypeOK
  <2> QED BY <2>1, NotedFacts DEF WriteProgress, TypeOK
<1>2. pc' \in [Runs -> Active \cup {"idle", "done", "incomplete", "failed", "conflict"}]
  BY DEF WriteProgress, TypeOK, Goto, Active
<1>3. group' \in [Runs -> SUBSET Identity]
  BY DEF WriteProgress, TypeOK
<1>4. UNCHANGED <<api, changes, data, manifest, handoff, executions, existing, queue,
                  target, answered>>
  BY DEF WriteProgress, store
<1> QED BY <1>1, <1>2, <1>3, <1>4 DEF TypeOK

LEMMA CompleteTypes ==
  ASSUME TypeOK, NEW r \in Runs, Complete(r)
  PROVE  TypeOK'
<1>1. PICK label \in {"done", "incomplete", "failed", "conflict"} : Stop(r, label)
  BY DEF Complete
<1>2. handoff' \in [Runs -> Record \cup {Nothing}]
  BY DEF Complete, TypeOK
<1>3. UNCHANGED <<api, changes, data, manifest, progress, executions, answered>>
  BY DEF Complete, store
<1> QED BY <1>1, <1>2, <1>3, StopTypes DEF TypeOK

LEMMA ExecuteTypes ==
  ASSUME TypeOK, NEW r \in Runs, QueueKnown(r), Start(r) \/ Execute(r) \/ Crash(r)
  PROVE  TypeOK'
BY StartTypes, SyncTypes, FetchTypes, StopStepTypes, ReadTypes, PutTypes, WriteTypes,
   CompleteTypes DEF Execute

\* A stage's step touches no other run.
Others(r) ==
  \A q \in Runs \ {r} :
    /\ pc'[q] = pc[q] /\ existing'[q] = existing[q] /\ group'[q] = group[q]
    /\ queue'[q] = queue[q] /\ target'[q] = target[q]
    /\ progress'[q] = progress[q] /\ handoff'[q] = handoff[q]
    /\ answered'[q] = answered[q]

LEMMA StopOthers ==
  ASSUME TypeOK, NEW r \in Runs, NEW label, Stop(r, label)
  PROVE  /\ \A q \in Runs \ {r} :
              /\ pc'[q] = pc[q] /\ existing'[q] = existing[q] /\ group'[q] = group[q]
              /\ queue'[q] = queue[q] /\ target'[q] = target[q]
         /\ pc'[r] = label
         /\ \A i \in Identity : existing'[r][i] = Nothing
         /\ group'[r] = {} /\ queue'[r] = {}
BY DEF Stop, Goto, TypeOK

LEMMA OthersUntouched ==
  ASSUME TypeOK, NEW r \in Runs, Start(r) \/ Execute(r) \/ Crash(r)
  PROVE  Others(r)
<1>1. CASE Start(r)
  BY <1>1 DEF Start, Goto, TypeOK, Others, records
<1>2. CASE SyncExisting(r)
  BY <1>2 DEF SyncExisting, Goto, TypeOK, Others, local
<1>3. CASE Fetch(r)
  <2>1. PICK ids \in SUBSET Identity : Response(r, ids)
    BY <1>3, FetchFacts
  <2>2. progress' = progress /\ handoff' = handoff
    BY <1>3, FetchFacts
  <2>3. \A q \in Runs \ {r} : answered'[q] = answered[q]
    BY <2>1 DEF Response, TypeOK
  <2>4. CASE \E i \in ids : Omitted(r, i)
    BY <2>1, <2>2, <2>3, <2>4, StopOthers DEF Response, Others
  <2>5. CASE \A i \in ids : ~Omitted(r, i)
    <3>1. \A q \in Runs \ {r} : existing'[q] = existing[q]
      BY <2>1, <2>5, ResponseFacts
    <3>2. \A q \in Runs \ {r} : /\ pc'[q] = pc[q] /\ group'[q] = group[q]
                                /\ queue'[q] = queue[q] /\ target'[q] = target[q]
      BY <2>1, <2>5 DEF Response, Goto, TypeOK
    <3> QED BY <2>2, <2>3, <3>1, <3>2 DEF Others
  <2> QED BY <2>4, <2>5
<1>4. CASE Exhaust(r) \/ Crash(r)
  BY <1>4, StopOthers DEF Exhaust, Crash, Others, records
<1>5. CASE ReadData(r) \/ ReadManifest(r)
  <2>1. UNCHANGED <<progress, handoff, answered>>
    BY <1>5, ReadFacts
  <2>2. CASE Stop(r, "conflict")
    BY <2>1, <2>2, StopOthers DEF Others
  <2>3. CASE ~Stop(r, "conflict")
    <3>1. PICK l \in Writing, t \in Identity \cup {Nothing}, d \in SUBSET Identity :
            /\ pc' = [pc EXCEPT ![r] = l]
            /\ target' = [target EXCEPT ![r] = t]
            /\ queue' = [queue EXCEPT ![r] = @ \ d]
            /\ UNCHANGED <<existing, group>>
      BY <1>5, <2>3, ReadFacts
    <3> QED BY <2>1, <3>1 DEF Others, TypeOK
  <2> QED BY <2>2, <2>3
<1>6. CASE PutData(r) \/ PutManifest(r)
  <2>1. UNCHANGED <<progress, handoff, answered>>
    BY <1>6 DEF PutData, PutManifest, records
  <2>2. CASE Stop(r, "failed")
    BY <2>1, <2>2, StopOthers DEF Others
  <2>3. CASE ~Stop(r, "failed")
    BY <1>6, <2>1, <2>3 DEF PutData, PutManifest, Goto, local, Others, TypeOK
  <2> QED BY <2>2, <2>3
<1>7. CASE WriteProgress(r)
  BY <1>7 DEF WriteProgress, Goto, TypeOK, Others
<1>8. CASE Complete(r)
  <2>1. PICK label : Stop(r, label)
    BY <1>8 DEF Complete
  <2>2. UNCHANGED <<progress, answered>> /\ \A q \in Runs \ {r} : handoff'[q] = handoff[q]
    BY <1>8 DEF Complete, TypeOK
  <2> QED BY <2>1, <2>2, StopOthers DEF Others
<1> QED BY <1>1, <1>2, <1>3, <1>4, <1>5, <1>6, <1>7, <1>8 DEF Execute

-----------------------------------------------------------------------------
(* Every step keeps the invariant of the store *)

\* Objects stay, and with them the sources they commit.
Grows ==
  /\ \A p \in Path : data[p] # Nothing => data'[p] = data[p]
  /\ \A i \in Identity : CommittedIn(manifest, i) \subseteq CommittedIn(manifest', i)

LEMMA StageStep ==
  ASSUME StoreInv, TypeOK', NEW r \in Runs, Others(r), Grows,
         ManifestAttestsData', StageInv(r)'
  PROVE  StoreInv'
<1>1. ASSUME NEW q \in Runs, q # r PROVE StageInv(q)'
  <2>1. StageInv(q) /\ TypeOK
    BY DEF StoreInv
  <2>2. /\ pc'[q] = pc[q] /\ existing'[q] = existing[q] /\ group'[q] = group[q]
        /\ queue'[q] = queue[q] /\ target'[q] = target[q] /\ progress'[q] = progress[q]
    BY <1>1 DEF Others
  <2>3. GroupTidy(q)' /\ QueueKnown(q)'
    BY <2>1, <2>2 DEF StageInv, GroupTidy, QueueKnown
  <2>4. DataFirst(q)'
    <3>1. SUFFICES ASSUME pc[q] \in {"present", "manifest"} PROVE DataFirst(q)'
      BY <2>2 DEF DataFirst
    <3> DEFINE s == existing[q][target[q]]
               p == PathOf(target[q], s)
    <3>2. target[q] \in Identity /\ s \in Source
      BY <2>1, <3>1 DEF StageInv, QueueKnown, TypeOK, InWrite
    <3>3. p \in Path /\ s.content # Nothing
      BY <3>2, PathFacts, SourceFacts
    <3>4. data[p] = s.content
      BY <2>1, <3>1 DEF StageInv, DataFirst
    <3>5. data'[p] = s.content
      BY <3>3, <3>4 DEF Grows
    <3> QED BY <2>2, <3>5 DEF DataFirst
  <2>5. ViewCommitted(q)'
    BY <2>1, <2>2 DEF StageInv, ViewCommitted, Pending, InWrite, Grows
  <2>6. RecordCommitted(q)'
    BY <2>1, <2>2 DEF StageInv, RecordCommitted, Grows
  <2> QED BY <2>3, <2>4, <2>5, <2>6 DEF StageInv
<1> QED BY <1>1 DEF StoreInv

LEMMA StoreUnchangedGrows ==
  ASSUME UNCHANGED <<data, manifest>>
  PROVE  Grows /\ (ManifestAttestsData => ManifestAttestsData')
BY DEF Grows, ManifestAttestsData

\* A stage that stops leaves nothing of its own behind.
LEMMA StopStep ==
  ASSUME StoreInv, TypeOK', NEW r \in Runs, Others(r),
         NEW label \in {"done", "incomplete", "failed", "conflict"}, Stop(r, label),
         UNCHANGED <<data, manifest, progress>>
  PROVE  StoreInv'
<1>1. /\ pc'[r] = label /\ group'[r] = {} /\ queue'[r] = {}
      /\ \A i \in Identity : existing'[r][i] = Nothing
  BY StopOthers DEF StoreInv
<1>2. RecordCommitted(r)'
  BY DEF StoreInv, StageInv, RecordCommitted
<1>3. StageInv(r)'
  BY <1>1, <1>2 DEF StageInv, GroupTidy, QueueKnown, DataFirst, ViewCommitted, Writing, InWrite
<1>4. Grows /\ ManifestAttestsData'
  BY StoreUnchangedGrows DEF StoreInv
<1> QED BY <1>3, <1>4, StageStep

LEMMA StartStep ==
  ASSUME StoreInv, TypeOK', NEW r \in Runs, Others(r), Start(r)
  PROVE  StoreInv'
<1>1. UNCHANGED <<data, manifest, progress, group, queue, target>>
  BY DEF Start, store, records
<1>2. TypeOK /\ StageInv(r) /\ manifest \in Manifests
  BY DEF StoreInv, TypeOK, Manifests
<1>3. pc[r] \notin Writing /\ pc'[r] \notin Writing
  BY <1>2 DEF Start, Goto, Writing, InWrite, TypeOK
<1>4. group'[r] = {} /\ queue'[r] = {}
  BY <1>1, <1>2, <1>3 DEF StageInv, GroupTidy
<1>5. ViewCommitted(r)'
  <2>1. CASE existing' = existing
    BY <1>1, <1>2, <1>3, <2>1 DEF StageInv, ViewCommitted, Pending, Writing, InWrite
  <2>2. CASE existing' = [existing EXCEPT ![r] = [i \in Identity |-> Latest(i)]]
    <3>1. \A i \in Identity : existing'[r][i] = Latest(i)
      BY <1>2, <2>2 DEF TypeOK
    <3> QED BY <1>1, <1>2, <3>1, LatestFacts DEF ViewCommitted
  <2> QED BY <2>1, <2>2 DEF Start
<1>6. RecordCommitted(r)'
  BY <1>1, <1>2 DEF StageInv, RecordCommitted
<1>7. StageInv(r)'
  BY <1>3, <1>4, <1>5, <1>6 DEF StageInv, GroupTidy, QueueKnown, DataFirst, Writing, InWrite
<1>8. Grows /\ ManifestAttestsData'
  BY <1>1, StoreUnchangedGrows DEF StoreInv
<1> QED BY <1>7, <1>8, StageStep

LEMMA SyncStep ==
  ASSUME StoreInv, TypeOK', NEW r \in Runs, Others(r), SyncExisting(r)
  PROVE  StoreInv'
<1> DEFINE present == {i \in Identity : existing[r][i] # Nothing}
<1>1. UNCHANGED <<data, manifest, existing, group, queue, target>>
  BY DEF SyncExisting, store, local
<1>2. TypeOK /\ StageInv(r) /\ pc[r] = "sync"
  BY DEF StoreInv, SyncExisting
<1>3. pc'[r] = "fetch" /\ progress'[r] = Noted(r, present)
  BY <1>2 DEF SyncExisting, Goto, TypeOK
<1>4. group[r] = {} /\ queue[r] = {}
  BY <1>2 DEF StageInv, GroupTidy, Writing, InWrite
<1>5. \A i \in Identity : existing[r][i] # Nothing =>
        existing[r][i] \in CommittedIn(manifest, i)
  BY <1>2, <1>4 DEF StageInv, ViewCommitted, Pending, InWrite
<1>6. RecordCommitted(r)'
  <2>1. present \in SUBSET Identity
    OBVIOUS
  <2>2. \A i \in Identity : progress'[r].sources[i] \in {existing[r][i], progress[r].sources[i]}
    BY <1>2, <1>3, <2>1, NotedFacts
  <2> QED BY <1>1, <1>2, <1>5, <2>2 DEF StageInv, RecordCommitted
<1>7. ViewCommitted(r)'
  BY <1>1, <1>5 DEF ViewCommitted
<1>8. StageInv(r)'
  BY <1>1, <1>3, <1>4, <1>6, <1>7 DEF StageInv, GroupTidy, QueueKnown, DataFirst, InWrite
<1>9. Grows /\ ManifestAttestsData'
  BY <1>1, StoreUnchangedGrows DEF StoreInv
<1> QED BY <1>8, <1>9, StageStep

LEMMA FetchStep ==
  ASSUME StoreInv, TypeOK', NEW r \in Runs, Others(r), Fetch(r)
  PROVE  StoreInv'
<1>1. UNCHANGED <<data, manifest, progress>> /\ pc[r] = "fetch"
  BY FetchFacts
<1>2. TypeOK /\ StageInv(r)
  BY DEF StoreInv
<1>3. PICK ids \in SUBSET Identity : Response(r, ids)
  BY FetchFacts
<1>4. CASE \E i \in ids : Omitted(r, i)
  <2>1. Stop(r, "failed")
    BY <1>3, <1>4 DEF Response
  <2> QED BY <1>1, <2>1, StopStep
<1>5. CASE \A i \in ids : ~Omitted(r, i)
  <2>1. pc'[r] = "persist" /\ queue'[r] = {i \in ids : Saved(r, i) # Nothing}
    BY <1>2, <1>3, <1>5 DEF Response, Goto, TypeOK
  <2>2. \A i \in Identity :
          existing'[r][i] = IF i \in ids THEN Saved(r, i) ELSE existing[r][i]
    BY <1>2, <1>3, <1>5, ResponseFacts
  <2>3. \A i \in queue'[r] : existing'[r][i] # Nothing
    BY <2>1, <2>2
  <2>4. ViewCommitted(r)'
    <3>1. \A i \in Identity : ~Pending(r, i)
      BY <1>1, <1>2 DEF StageInv, GroupTidy, Pending, Writing, InWrite
    <3>2. SUFFICES ASSUME NEW i \in Identity, existing'[r][i] # Nothing, i \notin queue'[r]
                   PROVE  existing'[r][i] \in CommittedIn(manifest, i)
      BY <1>1 DEF ViewCommitted, Pending, InWrite
    <3>3. i \notin ids
      BY <2>1, <2>2, <3>2
    <3> QED BY <1>2, <2>2, <3>1, <3>2, <3>3 DEF StageInv, ViewCommitted
  <2>5. RecordCommitted(r)'
    BY <1>1, <1>2 DEF StageInv, RecordCommitted
  <2>6. StageInv(r)'
    BY <2>1, <2>3, <2>4, <2>5 DEF StageInv, GroupTidy, QueueKnown, DataFirst, Writing, InWrite
  <2>7. Grows /\ ManifestAttestsData'
    BY <1>1, StoreUnchangedGrows DEF StoreInv
  <2> QED BY <2>6, <2>7, StageStep
<1> QED BY <1>4, <1>5

\* What the answer to the read of the data tells.
LEMMA DataRead ==
  ASSUME TypeOK, NEW r \in Runs, ReadData(r), ~Stop(r, "conflict")
  PROVE  \E i \in queue[r] :
           /\ queue'[r] = queue[r] \ {i} /\ target'[r] = i
           /\ \/ pc'[r] = "absent"
              \/ /\ pc'[r] = "present"
                 /\ data[PathOf(i, existing[r][i])] = existing[r][i].content
           /\ UNCHANGED <<existing, group>>
<1>1. PICK i \in queue[r] :
        LET s == existing[r][i]
            found == data[PathOf(i, s)]
        IN  /\ found \in {Nothing, s.content}
            /\ queue' = [queue EXCEPT ![r] = @ \ {i}]
            /\ target' = [target EXCEPT ![r] = i]
            /\ Goto(r, IF found = Nothing THEN "absent" ELSE "present")
            /\ UNCHANGED <<existing, group>>
  BY DEF ReadData
<1> QED BY <1>1 DEF Goto, TypeOK

\* What the answer to the read of the manifest tells.
LEMMA ManifestRead ==
  ASSUME TypeOK, NEW r \in Runs, ReadManifest(r), ~Stop(r, "conflict")
  PROVE  /\ pc[r] \in {"absent", "present"}
         /\ \/ /\ pc'[r] = "persist"
               /\ manifest[PathOf(target[r], existing[r][target[r]])] =
                    existing[r][target[r]].content
            \/ pc'[r] = "data" /\ target' = target
            \/ pc[r] = "present" /\ pc'[r] = "manifest" /\ target' = target
         /\ UNCHANGED <<existing, group, queue>>
<1> DEFINE s == existing[r][target[r]]
           found == manifest[PathOf(target[r], s)]
           done == pc[r] = "present" /\ found = s.content
<1>1. /\ pc[r] \in {"absent", "present"}
      /\ target' = [target EXCEPT ![r] = IF done THEN Nothing ELSE @]
      /\ Goto(r, IF done THEN "persist" ELSE IF pc[r] = "absent" THEN "data" ELSE "manifest")
      /\ UNCHANGED <<existing, group, queue>>
  BY DEF ReadManifest
<1>2. pc'[r] = IF done THEN "persist" ELSE IF pc[r] = "absent" THEN "data" ELSE "manifest"
  BY <1>1 DEF Goto, TypeOK
<1>3. CASE done
  BY <1>1, <1>2, <1>3
<1>4. CASE ~done
  <2>1. target' = target
    BY <1>1, <1>4 DEF TypeOK
  <2> QED BY <1>1, <1>2, <1>4, <2>1
<1> QED BY <1>3, <1>4

LEMMA ReadDataStep ==
  ASSUME StoreInv, TypeOK', NEW r \in Runs, Others(r), ReadData(r)
  PROVE  StoreInv'
<1>1. UNCHANGED <<data, manifest, progress>> /\ pc[r] = "persist"
  BY DEF ReadData, store, records
<1>2. TypeOK /\ StageInv(r)
  BY DEF StoreInv
<1>3. CASE Stop(r, "conflict")
  BY <1>1, <1>3, StopStep
<1>4. CASE ~Stop(r, "conflict")
  <2>1. PICK i \in queue[r] :
          /\ queue'[r] = queue[r] \ {i} /\ target'[r] = i
          /\ \/ pc'[r] = "absent"
             \/ /\ pc'[r] = "present"
                /\ data[PathOf(i, existing[r][i])] = existing[r][i].content
          /\ UNCHANGED <<existing, group>>
    BY <1>2, <1>4, DataRead
  <2>2. i \in Identity
    BY <1>2 DEF TypeOK
  <2>3. QueueKnown(r)' /\ GroupTidy(r)'
    BY <1>2, <2>1, <2>2 DEF StageInv, QueueKnown, GroupTidy, Writing, InWrite
  <2>4. DataFirst(r)'
    BY <1>1, <2>1 DEF DataFirst
  <2>5. ViewCommitted(r)'
    <3>1. \A j \in Identity : Pending(r, j) => Pending(r, j)'
      BY <1>1, <2>1 DEF Pending, InWrite
    <3> QED BY <1>1, <1>2, <2>1, <3>1 DEF StageInv, ViewCommitted
  <2>6. RecordCommitted(r)'
    BY <1>1, <1>2 DEF StageInv, RecordCommitted
  <2>7. StageInv(r)'
    BY <2>3, <2>4, <2>5, <2>6 DEF StageInv
  <2>8. Grows /\ ManifestAttestsData'
    BY <1>1, StoreUnchangedGrows DEF StoreInv
  <2> QED BY <2>7, <2>8, StageStep
<1> QED BY <1>3, <1>4

LEMMA ReadManifestStep ==
  ASSUME StoreInv, TypeOK', NEW r \in Runs, Others(r), ReadManifest(r)
  PROVE  StoreInv'
<1> DEFINE i == target[r]
           s == existing[r][i]
<1>1. UNCHANGED <<data, manifest, progress>> /\ pc[r] \in {"absent", "present"}
  BY DEF ReadManifest, store, records
<1>2. TypeOK /\ StageInv(r) /\ manifest \in Manifests
  BY DEF StoreInv, TypeOK, Manifests
<1>3. CASE Stop(r, "conflict")
  BY <1>1, <1>3, StopStep
<1>4. CASE ~Stop(r, "conflict")
  <2>1. /\ \/ pc'[r] = "persist" /\ manifest[PathOf(i, s)] = s.content
           \/ pc'[r] = "data" /\ target' = target
           \/ pc[r] = "present" /\ pc'[r] = "manifest" /\ target' = target
        /\ UNCHANGED <<existing, group, queue>>
    BY <1>2, <1>4, ManifestRead
  <2>2. i \in Identity /\ s \in Source
    BY <1>1, <1>2 DEF StageInv, QueueKnown, TypeOK, InWrite
  <2>3. QueueKnown(r)' /\ GroupTidy(r)'
    BY <1>1, <1>2, <2>1 DEF StageInv, QueueKnown, GroupTidy, Writing, InWrite
  <2>4. DataFirst(r)'
    BY <1>1, <1>2, <2>1 DEF StageInv, DataFirst
  <2>5. ViewCommitted(r)'
    <3>1. pc'[r] = "persist" => s \in CommittedIn(manifest, i)
      BY <1>2, <2>1, <2>2, CommittedAt
    <3>2. \A j \in Identity : Pending(r, j) => Pending(r, j)' \/ (j = i /\ pc'[r] = "persist")
      BY <1>1, <2>1 DEF Pending, InWrite
    <3> QED BY <1>1, <1>2, <2>1, <3>1, <3>2 DEF StageInv, ViewCommitted
  <2>6. RecordCommitted(r)'
    BY <1>1, <1>2 DEF StageInv, RecordCommitted
  <2>7. StageInv(r)'
    BY <2>3, <2>4, <2>5, <2>6 DEF StageInv
  <2>8. Grows /\ ManifestAttestsData'
    BY <1>1, StoreUnchangedGrows DEF StoreInv
  <2> QED BY <2>7, <2>8, StageStep
<1> QED BY <1>3, <1>4

LEMMA PutDataStep ==
  ASSUME StoreInv, TypeOK', NEW r \in Runs, Others(r), PutData(r)
  PROVE  StoreInv'
<1> DEFINE i == target[r]
           s == existing[r][i]
           p == PathOf(i, s)
<1>1. UNCHANGED <<manifest, progress>> /\ pc[r] = "data"
  BY DEF PutData, records
<1>2. TypeOK /\ StageInv(r)
  BY DEF StoreInv
<1>3. i \in Identity /\ s \in Source /\ s # Nothing
  BY <1>1, <1>2 DEF StageInv, QueueKnown, InWrite, TypeOK
<1>4. p \in Path /\ s.content # Nothing
  BY <1>3, PathFacts, SourceFacts
<1>5. CASE data[p] # Nothing
  <2>1. data' = data /\ Stop(r, "failed")
    BY <1>5 DEF PutData
  <2> QED BY <1>1, <2>1, StopStep
<1>6. CASE data[p] = Nothing
  <2>1. /\ data' = [data EXCEPT ![p] = s.content]
        /\ Goto(r, "manifest")
        /\ UNCHANGED <<existing, group, queue, target>>
    BY <1>6 DEF PutData, local
  <2>2. data'[p] = s.content /\ \A q \in Path : q # p => data'[q] = data[q]
    BY <1>2, <1>4, <2>1 DEF TypeOK
  <2>3. Grows
    BY <1>1, <1>6, <2>2 DEF Grows
  <2>4. ManifestAttestsData'
    BY <1>1, <1>6, <2>2 DEF StoreInv, ManifestAttestsData
  <2>5. pc'[r] = "manifest"
    BY <1>2, <2>1 DEF Goto, TypeOK
  <2>6. StageInv(r)'
    <3>1. GroupTidy(r)' /\ QueueKnown(r)'
      BY <1>1, <1>2, <2>1, <2>5 DEF StageInv, GroupTidy, QueueKnown, Writing, InWrite
    <3>2. DataFirst(r)'
      BY <2>1, <2>2 DEF DataFirst
    <3>3. ViewCommitted(r)'
      <4>1. \A j \in Identity : ~Pending(r, j)' => ~Pending(r, j)
        BY <1>1, <2>1, <2>5 DEF Pending, InWrite
      <4> QED BY <1>1, <1>2, <2>1, <4>1 DEF StageInv, ViewCommitted
    <3>4. RecordCommitted(r)'
      BY <1>1, <1>2 DEF StageInv, RecordCommitted
    <3> QED BY <3>1, <3>2, <3>3, <3>4 DEF StageInv
  <2> QED BY <2>3, <2>4, <2>6, StageStep
<1> QED BY <1>5, <1>6

LEMMA PutManifestStep ==
  ASSUME StoreInv, TypeOK', NEW r \in Runs, Others(r), PutManifest(r)
  PROVE  StoreInv'
<1> DEFINE i == target[r]
           s == existing[r][i]
           p == PathOf(i, s)
<1>1. UNCHANGED <<data, progress>> /\ pc[r] = "manifest"
  BY DEF PutManifest, records
<1>2. TypeOK /\ StageInv(r) /\ manifest \in Manifests
  BY DEF StoreInv, TypeOK, Manifests
<1>3. i \in Identity /\ s \in Source /\ s # Nothing /\ data[p] = s.content
  BY <1>1, <1>2 DEF StageInv, QueueKnown, InWrite, DataFirst, TypeOK
<1>4. p \in Path /\ s.content # Nothing
  BY <1>3, PathFacts, SourceFacts
<1>5. CASE manifest[p] # Nothing
  <2>1. manifest' = manifest /\ Stop(r, "failed")
    BY <1>5 DEF PutManifest
  <2> QED BY <1>1, <2>1, StopStep
<1>6. CASE manifest[p] = Nothing
  <2>1. /\ manifest' = [manifest EXCEPT ![p] = s.content]
        /\ Goto(r, "persist")
        /\ UNCHANGED <<existing, group, queue>>
    BY <1>6 DEF PutManifest
  <2>2. manifest'[p] = s.content /\ \A q \in Path : q # p => manifest'[q] = manifest[q]
    BY <1>2, <1>4, <2>1 DEF TypeOK
  <2>3. /\ CommittedIn(manifest', i) = CommittedIn(manifest, i) \cup {s}
        /\ \A j \in Identity \ {i} : CommittedIn(manifest', j) = CommittedIn(manifest, j)
    <3>1. /\ manifest[PathOf(i, s)] = Nothing
          /\ manifest'[PathOf(i, s)] = s.content
          /\ \A q \in Path : q # PathOf(i, s) => manifest'[q] = manifest[q]
      BY <1>6, <2>2
    <3>2. manifest' \in Manifests
      BY DEF TypeOK, Manifests
    <3> HIDE DEF i, s, p
    <3> QED BY <1>2, <1>3, <3>1, <3>2, CommitAdds
  <2>4. Grows
    BY <1>1, <1>3, <2>3 DEF Grows
  <2>5. ManifestAttestsData'
    BY <1>1, <1>3, <2>2 DEF StoreInv, ManifestAttestsData
  <2>6. pc'[r] = "persist"
    BY <1>2, <2>1 DEF Goto, TypeOK
  <2>7. StageInv(r)'
    <3>1. GroupTidy(r)' /\ QueueKnown(r)' /\ DataFirst(r)'
      BY <1>2, <2>1, <2>6 DEF StageInv, GroupTidy, QueueKnown, DataFirst, Writing, InWrite
    <3>2. ViewCommitted(r)'
      <4>1. \A j \in Identity : ~Pending(r, j)' => ~Pending(r, j) \/ j = i
        BY <2>1, <2>6 DEF Pending, InWrite
      <4> QED BY <1>2, <1>3, <2>1, <2>3, <2>4, <4>1 DEF StageInv, ViewCommitted, Grows
    <3>3. RecordCommitted(r)'
      BY <1>1, <1>2, <2>4 DEF StageInv, RecordCommitted, Grows
    <3> QED BY <3>1, <3>2, <3>3 DEF StageInv
  <2> QED BY <2>4, <2>5, <2>7, StageStep
<1> QED BY <1>5, <1>6

LEMMA WriteStep ==
  ASSUME StoreInv, TypeOK', NEW r \in Runs, Others(r), WriteProgress(r)
  PROVE  StoreInv'
<1>1. /\ UNCHANGED <<data, manifest, existing, queue, target>>
      /\ pc[r] = "persist" /\ queue[r] = {}
  BY DEF WriteProgress, store
<1>2. TypeOK /\ StageInv(r)
  BY DEF StoreInv
<1>3. pc'[r] = "fetch" /\ group'[r] = {} /\ progress'[r] = Noted(r, group[r])
  BY <1>2 DEF WriteProgress, Goto, TypeOK
<1>4. \A i \in Identity : existing[r][i] # Nothing =>
        existing[r][i] \in CommittedIn(manifest, i)
  BY <1>1, <1>2 DEF StageInv, ViewCommitted, Pending, InWrite
<1>5. RecordCommitted(r)'
  <2>1. group[r] \in SUBSET Identity
    BY <1>2 DEF TypeOK
  <2>2. \A i \in Identity : progress'[r].sources[i] =
          IF i \in group[r] /\ existing[r][i] # Nothing THEN existing[r][i]
          ELSE progress[r].sources[i]
    BY <1>2, <1>3, <2>1, NotedFacts
  <2> QED BY <1>1, <1>2, <1>4, <2>2 DEF StageInv, RecordCommitted
<1>6. StageInv(r)'
  BY <1>1, <1>3, <1>4, <1>5
     DEF StageInv, GroupTidy, QueueKnown, DataFirst, ViewCommitted, InWrite
<1>7. Grows /\ ManifestAttestsData'
  BY <1>1, StoreUnchangedGrows DEF StoreInv
<1> QED BY <1>6, <1>7, StageStep

\* Steps that leave the store, the records and all stages alone.
LEMMA ReviseStep ==
  ASSUME StoreInv, TypeOK',
         UNCHANGED <<data, manifest, progress, pc, existing, group, queue, target>>
  PROVE  StoreInv'
BY DEF StoreInv, StageInv, GroupTidy, QueueKnown, DataFirst, ViewCommitted, RecordCommitted,
       Pending, InWrite, ManifestAttestsData

LEMMA ExecuteStep ==
  ASSUME StoreInv, NEW r \in Runs, Start(r) \/ Execute(r) \/ Crash(r)
  PROVE  StoreInv'
<1>1. TypeOK'
  BY ExecuteTypes DEF StoreInv, StageInv
<1>2. Others(r)
  BY OthersUntouched DEF StoreInv
<1>3. CASE Exhaust(r) \/ Crash(r)
  BY <1>1, <1>2, <1>3, StopStep DEF Exhaust, Crash, store, records
<1>4. CASE Complete(r)
  <2>1. UNCHANGED <<data, manifest, progress>>
    BY <1>4 DEF Complete, store
  <2>2. Stop(r, "done") \/ Stop(r, "failed")
    BY <1>4 DEF Complete
  <2> QED BY <1>1, <1>2, <2>1, <2>2, StopStep
<1> QED BY <1>1, <1>2, <1>3, <1>4, StartStep, SyncStep, FetchStep, ReadDataStep,
           ReadManifestStep, PutDataStep,
           PutManifestStep, WriteStep DEF Execute

LEMMA InitStore == Init => StoreInv
<1> SUFFICES ASSUME Init PROVE StoreInv
  OBVIOUS
<1>1. TypeOK
  BY InitTypes
<1>2. ManifestAttestsData
  BY DEF Init, ManifestAttestsData
<1>3. ASSUME NEW r \in Runs PROVE StageInv(r)
  BY DEF Init, StageInv, GroupTidy, QueueKnown, DataFirst, ViewCommitted, RecordCommitted,
         NoProgress, InWrite
<1> QED BY <1>1, <1>2, <1>3 DEF StoreInv

LEMMA NextStore == StoreInv /\ [Next]_vars => StoreInv'
<1> SUFFICES ASSUME StoreInv, [Next]_vars PROVE StoreInv'
  OBVIOUS
<1>1. CASE \E i \in Identity : Revise(i)
  <2>1. TypeOK'
    BY <1>1, ReviseTypes DEF StoreInv
  <2> QED BY <1>1, <2>1, ReviseStep DEF Revise, store, records, local
<1>2. CASE \E r \in Runs : Start(r) \/ Execute(r) \/ Crash(r)
  BY <1>2, ExecuteStep
<1>3. CASE UNCHANGED vars
  <2>1. UNCHANGED <<api, changes, data, manifest, progress, handoff, pc, executions,
                    existing, group, queue, target, answered>>
    BY <1>3 DEF vars
  <2>2. TypeOK'
    BY <2>1 DEF StoreInv, TypeOK
  <2> QED BY <2>1, <2>2, ReviseStep
<1> QED BY <1>1, <1>2, <1>3 DEF Next

LEMMA StoreInvariant == Spec => []StoreInv
BY InitStore, NextStore, PTL DEF Spec

\* Objects that are there stay as they are, whatever steps are taken.
LEMMA ObjectsStay ==
  ASSUME StoreInv, [Next]_vars
  PROVE  \A p \in Path : /\ data[p] # Nothing => data'[p] = data[p]
                         /\ manifest[p] # Nothing => manifest'[p] = manifest[p]
<1>1. ASSUME NEW r \in Runs, PutData(r) \/ PutManifest(r)
      PROVE  \A p \in Path : /\ data[p] # Nothing => data'[p] = data[p]
                             /\ manifest[p] # Nothing => manifest'[p] = manifest[p]
  BY <1>1 DEF PutData, PutManifest, StoreInv, TypeOK
<1>2. ASSUME NEW r \in Runs, Start(r) \/ Execute(r) \/ Crash(r),
             ~PutData(r), ~PutManifest(r)
      PROVE  UNCHANGED <<data, manifest>>
  BY <1>2, FetchFacts DEF Execute, Start, SyncExisting, Exhaust, ReadData, ReadManifest,
         WriteProgress, Complete, Crash, store
<1>3. ASSUME NEW i \in Identity, Revise(i)
      PROVE  UNCHANGED <<data, manifest>>
  BY <1>3 DEF Revise, store
<1>4. UNCHANGED vars => UNCHANGED <<data, manifest>>
  BY DEF vars
<1> QED BY <1>1, <1>2, <1>3, <1>4 DEF Next

\* The types of Extract's state, for any constants.
THEOREM TypesHold == Spec => []TypeOK
<1>1. StoreInv => TypeOK
  BY DEF StoreInv
<1> QED BY <1>1, StoreInvariant, PTL

\* A manifest never attests data that is missing or different, whatever runs do at once.
THEOREM ManifestsAttest == Spec => []ManifestAttestsData
<1>1. StoreInv => ManifestAttestsData
  BY DEF StoreInv
<1> QED BY <1>1, StoreInvariant, PTL

\* What a run has noted as its source is committed in S3, whatever runs do at once.
THEOREM RecordsAreCommitted == Spec => []SourcesCommitted
<1>1. StoreInv => SourcesCommitted
  <2>1. \A i \in Identity : Committed(i) = CommittedIn(manifest, i)
    BY DEF Committed, CommittedIn
  <2> QED BY <2>1 DEF StoreInv, StageInv, RecordCommitted, SourcesCommitted
<1> QED BY <1>1, StoreInvariant, PTL

\* A committed source is never rewritten or removed, whatever runs do at once.
THEOREM CommittedStays == Spec => CommittedForEver
<1>1. StoreInv /\ [Next]_vars =>
        [\A p \in Path : manifest[p] # Nothing =>
           manifest'[p] = manifest[p] /\ data'[p] = data[p]]_vars
  <2> SUFFICES ASSUME StoreInv, [Next]_vars, NEW p \in Path, manifest[p] # Nothing
               PROVE  manifest'[p] = manifest[p] /\ data'[p] = data[p]
    OBVIOUS
  <2>1. data[p] # Nothing
    BY DEF StoreInv, ManifestAttestsData
  <2> QED BY <2>1, ObjectsStay
<1> QED BY <1>1, StoreInvariant, PTL DEF Spec, CommittedForEver

-----------------------------------------------------------------------------
(* The record and the handoff *)

\* A refreshing run adopts nothing: it never syncs.
RefreshNeverSyncs(r) == Refresh[r] => pc[r] # "sync"

\* Completed identities have a source or are reported.
RecordCovers(r) ==
  \A i \in progress[r].completed :
    progress[r].sources[i] # Nothing \/ i \in progress[r].unavailable

\* Of the sources in a stage's view, none is missing in the record of a run that syncs,
\* but those of the group being written.
ViewNoted(r) ==
  ~Refresh[r] /\ pc[r] \in Writing \cup {"fetch"} =>
    \A i \in Identity : existing[r][i] # Nothing =>
      progress[r].sources[i] # Nothing \/ i \in group[r]

HandoffCovers(r) ==
  handoff[r] # Nothing =>
    \A i \in Identity : handoff[r].sources[i] # Nothing \/ i \in handoff[r].unavailable

\* A refreshing run writes, notes and hands off what the API has returned to it.
GroupFresh(r) ==
  \A i \in group[r] :
    Refresh[r] /\ existing[r][i] # Nothing => existing[r][i].content \in answered[r][i]

RecordFresh(r) ==
  \A i \in Identity : Refresh[r] /\ progress[r].sources[i] # Nothing =>
    progress[r].sources[i].content \in answered[r][i]

HandoffFresh(r) ==
  Refresh[r] /\ handoff[r] # Nothing =>
    \A i \in Identity : handoff[r].sources[i] # Nothing =>
      handoff[r].sources[i].content \in answered[r][i]

RecordInv(r) ==
  /\ RefreshNeverSyncs(r) /\ RecordCovers(r) /\ ViewNoted(r) /\ HandoffCovers(r)
  /\ GroupFresh(r) /\ RecordFresh(r) /\ HandoffFresh(r)

LEMMA RecordSame ==
  ASSUME NEW q \in Runs, RecordInv(q),
         /\ pc'[q] = pc[q] /\ existing'[q] = existing[q] /\ group'[q] = group[q]
         /\ progress'[q] = progress[q] /\ handoff'[q] = handoff[q]
         /\ answered'[q] = answered[q]
  PROVE  RecordInv(q)'
BY DEF RecordInv, RefreshNeverSyncs, RecordCovers, ViewNoted, HandoffCovers, GroupFresh,
       RecordFresh, HandoffFresh

LEMMA RecordOthers ==
  ASSUME \A q \in Runs : RecordInv(q), NEW r \in Runs, Others(r), RecordInv(r)'
  PROVE  \A q \in Runs : RecordInv(q)'
BY RecordSame DEF Others

\* A stage that stops without a handoff keeps its record.
LEMMA RecordStop ==
  ASSUME TypeOK, NEW r \in Runs, RecordInv(r), progress' = progress, handoff' = handoff,
         \A i \in Identity : answered[r][i] \subseteq answered'[r][i],
         NEW label \in {"done", "incomplete", "failed", "conflict"}, Stop(r, label)
  PROVE  RecordInv(r)'
<1>1. pc'[r] = label /\ group'[r] = {}
  BY StopOthers
<1>2. RefreshNeverSyncs(r)' /\ ViewNoted(r)' /\ GroupFresh(r)'
  BY <1>1 DEF RefreshNeverSyncs, ViewNoted, GroupFresh, Writing, InWrite
<1>3. RecordCovers(r)' /\ RecordFresh(r)'
  BY DEF RecordInv, RecordCovers, RecordFresh
<1>4. HandoffCovers(r)' /\ HandoffFresh(r)'
  BY DEF RecordInv, HandoffCovers, HandoffFresh
<1> QED BY <1>2, <1>3, <1>4 DEF RecordInv

LEMMA RecordQuietStop ==
  ASSUME TypeOK, NEW r \in Runs, RecordInv(r), UNCHANGED <<progress, handoff, answered>>,
         \E label \in {"done", "incomplete", "failed", "conflict"} : Stop(r, label)
  PROVE  RecordInv(r)'
<1>1. \A i \in Identity : answered[r][i] \subseteq answered'[r][i]
  OBVIOUS
<1>2. PICK label \in {"done", "incomplete", "failed", "conflict"} : Stop(r, label)
  OBVIOUS
<1>3. progress' = progress /\ handoff' = handoff
  OBVIOUS
<1> QED BY <1>1, <1>2, <1>3, RecordStop

LEMMA RecordStart ==
  ASSUME StoreInv, NEW r \in Runs, RecordInv(r), Start(r)
  PROVE  RecordInv(r)'
<1>1. UNCHANGED <<progress, handoff, group, answered>>
  BY DEF Start, records
<1>2. TypeOK /\ GroupTidy(r)
  BY DEF StoreInv, StageInv
<1>3. pc[r] \notin Writing /\ (pc'[r] \in Writing \cup {"fetch"} => Refresh[r])
      /\ (Refresh[r] => pc'[r] # "sync")
  BY <1>2 DEF Start, Goto, TypeOK, Writing, InWrite
<1>4. group[r] = {}
  BY <1>2, <1>3 DEF GroupTidy
<1> QED BY <1>1, <1>3, <1>4 DEF RecordInv, RefreshNeverSyncs, RecordCovers, ViewNoted,
           HandoffCovers, GroupFresh, RecordFresh, HandoffFresh

LEMMA RecordSync ==
  ASSUME StoreInv, NEW r \in Runs, RecordInv(r), SyncExisting(r)
  PROVE  RecordInv(r)'
<1> DEFINE present == {i \in Identity : existing[r][i] # Nothing}
<1>1. UNCHANGED <<existing, handoff, group, answered>> /\ pc[r] = "sync"
  BY DEF SyncExisting, local
<1>2. TypeOK
  BY DEF StoreInv
<1>3. ~Refresh[r]
  BY <1>1 DEF RecordInv, RefreshNeverSyncs
<1>4. pc'[r] = "fetch" /\ progress'[r] = Noted(r, present)
  BY <1>2 DEF SyncExisting, Goto, TypeOK
<1>5. present \in SUBSET Identity
  OBVIOUS
<1>6. /\ progress'[r].completed = progress[r].completed \cup present
      /\ progress[r].unavailable \subseteq progress'[r].unavailable
      /\ \A i \in Identity : progress'[r].sources[i] =
           IF existing[r][i] # Nothing THEN existing[r][i] ELSE progress[r].sources[i]
  BY <1>2, <1>4, <1>5, NotedFacts
<1>7. progress[r].completed \subseteq Identity
  BY <1>2 DEF TypeOK, Record
<1>8. RecordCovers(r)'
  BY <1>6, <1>7 DEF RecordInv, RecordCovers
<1>9. ViewNoted(r)'
  BY <1>1, <1>6 DEF ViewNoted
<1> QED BY <1>1, <1>3, <1>4, <1>8, <1>9 DEF RecordInv, RefreshNeverSyncs, HandoffCovers,
           GroupFresh, RecordFresh, HandoffFresh

LEMMA RecordFetch ==
  ASSUME StoreInv, NEW r \in Runs, RecordInv(r), Fetch(r)
  PROVE  RecordInv(r)'
<1>1. UNCHANGED <<progress, handoff>> /\ pc[r] = "fetch"
  BY FetchFacts
<1>2. TypeOK
  BY DEF StoreInv
<1>3. PICK ids \in SUBSET Identity : Response(r, ids)
  BY FetchFacts
<1>4. /\ \A i \in Identity : answered[r][i] \subseteq answered'[r][i]
      /\ \A i \in ids : api[i] # Nothing => api[i] \in answered'[r][i]
  BY <1>2, <1>3, AnsweredFacts
<1>5. CASE \E i \in ids : Omitted(r, i)
  <2>1. \E label \in {"failed"} : Stop(r, label)
    BY <1>3, <1>5 DEF Response
  <2>2. PICK label \in {"done", "incomplete", "failed", "conflict"} : Stop(r, label)
    BY <2>1
  <2>3. progress' = progress /\ handoff' = handoff
    BY <1>1
  <2> QED BY <1>2, <1>4, <2>2, <2>3, RecordStop
<1>6. CASE \A i \in ids : ~Omitted(r, i)
  <2>1. pc'[r] = "persist" /\ group'[r] = ids
    BY <1>2, <1>3, <1>6 DEF Response, Goto, TypeOK
  <2>2. \A i \in Identity :
          existing'[r][i] = IF i \in ids THEN Saved(r, i) ELSE existing[r][i]
    BY <1>2, <1>3, <1>6, ResponseFacts
  <2>3. ASSUME NEW i \in ids, Refresh[r], Saved(r, i) # Nothing
        PROVE  Saved(r, i).content \in answered'[r][i]
    <3>1. Saved(r, i).content = api[i]
      BY <1>2, <1>3, <2>3, SavedFacts DEF Response
    <3>2. Saved(r, i).content \in Content
      BY <1>2, <1>3, <2>3, SavedFacts, SourceFacts DEF Response
    <3> QED BY <1>4, <3>1, <3>2, NothingFacts
  <2>4. GroupFresh(r)'
    BY <2>1, <2>2, <2>3 DEF GroupFresh
  <2>5. ViewNoted(r)'
    <3>1. group[r] = {}
      BY <1>1 DEF StoreInv, StageInv, GroupTidy, Writing, InWrite
    <3> QED BY <1>1, <2>1, <2>2, <3>1 DEF RecordInv, ViewNoted
  <2>6. RefreshNeverSyncs(r)' /\ RecordCovers(r)' /\ HandoffCovers(r)'
    BY <1>1, <2>1 DEF RecordInv, RefreshNeverSyncs, RecordCovers, HandoffCovers
  <2>7. RecordFresh(r)' /\ HandoffFresh(r)'
    BY <1>1, <1>4 DEF RecordInv, RecordFresh, HandoffFresh
  <2> QED BY <2>4, <2>5, <2>6, <2>7 DEF RecordInv
<1> QED BY <1>5, <1>6

\* Reading and putting objects: the view and the group stay, or the stage stops.
LEMMA RecordPut ==
  ASSUME StoreInv, NEW r \in Runs, RecordInv(r),
         ReadData(r) \/ ReadManifest(r) \/ PutData(r) \/ PutManifest(r)
  PROVE  RecordInv(r)'
<1>1. UNCHANGED <<progress, handoff, answered>> /\ pc[r] \in Writing
  BY DEF ReadData, ReadManifest, PutData, PutManifest, records, Writing, InWrite
<1>2. TypeOK
  BY DEF StoreInv
<1>3. CASE Stop(r, "conflict") \/ Stop(r, "failed")
  BY <1>1, <1>2, <1>3, RecordQuietStop
<1>4. CASE ~Stop(r, "conflict") /\ ~Stop(r, "failed")
  <2>1. UNCHANGED <<existing, group>> /\ pc'[r] \in Writing
    <3>1. CASE ReadData(r) \/ ReadManifest(r)
      <4>1. PICK l \in Writing :
              pc' = [pc EXCEPT ![r] = l] /\ UNCHANGED <<existing, group>>
        BY <1>2, <1>4, <3>1, ReadFacts
      <4> QED BY <1>2, <4>1 DEF TypeOK
    <3>2. CASE PutData(r) \/ PutManifest(r)
      BY <1>2, <1>4, <3>2 DEF PutData, PutManifest, Goto, local, TypeOK, Writing,
         InWrite
    <3> QED BY <3>1, <3>2
  <2> QED BY <1>1, <2>1 DEF RecordInv, RefreshNeverSyncs, RecordCovers, ViewNoted,
             HandoffCovers, GroupFresh, RecordFresh, HandoffFresh, Writing, InWrite
<1> QED BY <1>3, <1>4

LEMMA RecordWrite ==
  ASSUME StoreInv, NEW r \in Runs, RecordInv(r), WriteProgress(r)
  PROVE  RecordInv(r)'
<1>1. UNCHANGED <<existing, handoff, answered>> /\ pc[r] = "persist"
  BY DEF WriteProgress
<1>2. TypeOK
  BY DEF StoreInv
<1>3. pc'[r] = "fetch" /\ group'[r] = {} /\ progress'[r] = Noted(r, group[r])
  BY <1>2 DEF WriteProgress, Goto, TypeOK
<1>4. group[r] \in SUBSET Identity
  BY <1>2 DEF TypeOK
<1>5. /\ progress'[r].completed = progress[r].completed \cup group[r]
      /\ progress'[r].unavailable =
           progress[r].unavailable \cup {i \in group[r] : existing[r][i] = Nothing}
      /\ \A i \in Identity : progress'[r].sources[i] =
           IF i \in group[r] /\ existing[r][i] # Nothing THEN existing[r][i]
           ELSE progress[r].sources[i]
  BY <1>2, <1>3, <1>4, NotedFacts
<1>6. progress[r].completed \subseteq Identity
  BY <1>2 DEF TypeOK, Record
<1>7. RecordCovers(r)'
  BY <1>4, <1>5, <1>6 DEF RecordInv, RecordCovers
<1>8. ViewNoted(r)'
  BY <1>1, <1>5 DEF RecordInv, ViewNoted, Writing, InWrite
<1>9. RecordFresh(r)'
  BY <1>1, <1>4, <1>5 DEF RecordInv, RecordFresh, GroupFresh
<1>10. RefreshNeverSyncs(r)' /\ HandoffCovers(r)' /\ GroupFresh(r)' /\ HandoffFresh(r)'
  BY <1>1, <1>3 DEF RecordInv, RefreshNeverSyncs, HandoffCovers, GroupFresh, HandoffFresh
<1> QED BY <1>7, <1>8, <1>9, <1>10 DEF RecordInv

\* With nothing left to plan, the record covers the scope.
LEMMA RecordComplete ==
  ASSUME StoreInv, NEW r \in Runs, RecordInv(r), Complete(r)
  PROVE  RecordInv(r)'
<1>1. /\ UNCHANGED <<progress, answered>> /\ pc[r] = "fetch"
      /\ \A j \in Jobs : Planned(r, j) = {}
  BY DEF Complete
<1>2. TypeOK /\ GroupTidy(r)
  BY DEF StoreInv, StageInv
<1>3. CASE handoff' = handoff
  <2>1. Stop(r, "failed") \/ Stop(r, "done")
    BY DEF Complete
  <2> QED BY <1>1, <1>2, <1>3, <2>1, RecordQuietStop
<1>4. CASE handoff' # handoff
  <2>1. handoff'[r] = progress[r] /\ Stop(r, "done")
    BY <1>2, <1>4 DEF Complete, TypeOK
  <2>2. ASSUME NEW i \in Identity
        PROVE  progress[r].sources[i] # Nothing \/ i \in progress[r].unavailable
    <3>1. PICK j \in Jobs, p \in Reporters, k \in QueryTypes : i = <<j, p, k>>
      BY DEF Identity
    <3>2. CASE i \in progress[r].completed
      BY <3>2 DEF RecordInv, RecordCovers
    <3>3. CASE i \notin progress[r].completed
      <4>1. p \notin Planned(r, j)
        BY <1>1
      <4>2. ~Refresh[r] /\ existing[r][i] # Nothing
        BY <3>1, <3>3, <4>1 DEF Planned
      <4>3. group[r] = {}
        BY <1>1, <1>2 DEF GroupTidy, Writing, InWrite
      <4> QED BY <1>1, <4>2, <4>3 DEF RecordInv, ViewNoted
    <3> QED BY <3>2, <3>3
  <2>3. HandoffCovers(r)'
    BY <2>1, <2>2 DEF HandoffCovers
  <2>4. HandoffFresh(r)'
    BY <1>1, <2>1 DEF RecordInv, RecordFresh, HandoffFresh
  <2>5. pc'[r] = "done" /\ group'[r] = {}
    BY <1>2, <2>1, StopOthers
  <2>6. RefreshNeverSyncs(r)' /\ ViewNoted(r)' /\ GroupFresh(r)'
    BY <2>5 DEF RefreshNeverSyncs, ViewNoted, GroupFresh, Writing, InWrite
  <2>7. RecordCovers(r)' /\ RecordFresh(r)'
    BY <1>1 DEF RecordInv, RecordCovers, RecordFresh
  <2> QED BY <2>3, <2>4, <2>6, <2>7 DEF RecordInv
<1> QED BY <1>3, <1>4

LEMMA InitRecords == Init => \A r \in Runs : RecordInv(r)
BY DEF Init, NoProgress, RecordInv, RefreshNeverSyncs, RecordCovers, ViewNoted,
       HandoffCovers, GroupFresh, RecordFresh, HandoffFresh

LEMMA NextRecords ==
  StoreInv /\ (\A r \in Runs : RecordInv(r)) /\ [Next]_vars => \A r \in Runs : RecordInv(r)'
<1> SUFFICES ASSUME StoreInv, \A r \in Runs : RecordInv(r), [Next]_vars
             PROVE  \A r \in Runs : RecordInv(r)'
  OBVIOUS
<1>1. ASSUME NEW r \in Runs, Start(r) \/ Execute(r) \/ Crash(r)
      PROVE  RecordInv(r)'
  <2>1. TypeOK
    BY DEF StoreInv
  <2>2. CASE Exhaust(r) \/ Crash(r)
    BY <2>1, <2>2, RecordQuietStop DEF Exhaust, Crash, records
  <2> QED BY <1>1, <2>2, RecordStart, RecordSync, RecordFetch, RecordPut, RecordWrite,
             RecordComplete DEF Execute
<1>2. ASSUME NEW r \in Runs, Start(r) \/ Execute(r) \/ Crash(r)
      PROVE  \A q \in Runs : RecordInv(q)'
  <2>1. Others(r)
    BY <1>2, OthersUntouched DEF StoreInv
  <2> QED BY <1>1, <1>2, <2>1, RecordOthers
<1>3. ASSUME (\E i \in Identity : Revise(i)) \/ UNCHANGED vars
      PROVE  \A q \in Runs : RecordInv(q)'
  <2>1. UNCHANGED <<pc, existing, group, progress, handoff, answered>>
    BY <1>3 DEF Revise, records, local, vars
  <2> QED BY <2>1, RecordSame
<1> QED BY <1>2, <1>3 DEF Next

LEMMA RecordInvariant == Spec => [](\A r \in Runs : RecordInv(r))
<1> DEFINE RecordsInv == \A r \in Runs : RecordInv(r)
<1>1. Init => RecordsInv
  BY InitRecords
<1>2. StoreInv /\ RecordsInv /\ [Next]_vars => RecordsInv'
  BY NextRecords
<1> HIDE DEF RecordsInv
<1>3. Spec => []RecordsInv
  BY <1>1, <1>2, StoreInvariant, PTL DEF Spec
<1> QED BY <1>3 DEF RecordsInv

\* A handoff covers the whole scope, for any runs, interruptions and interleavings.
THEOREM HandoffsComplete == Spec => []HandoffComplete
<1>1. (\A r \in Runs : RecordInv(r)) => HandoffComplete
  BY DEF RecordInv, HandoffCovers, HandoffComplete
<1> QED BY <1>1, RecordInvariant, PTL

\* A refreshing run hands off only what the API has returned to it.
THEOREM RefreshesAreFresh == Spec => []RefreshIsFresh
<1>1. (\A r \in Runs : RecordInv(r)) => RefreshIsFresh
  BY DEF RecordInv, HandoffFresh, RefreshIsFresh
<1> QED BY <1>1, RecordInvariant, PTL

-----------------------------------------------------------------------------
(* Revisions, while stages execute one at a time *)

\* Source s is the latest that the manifests m commit of identity i.
LatestIn(m, i, s) ==
  /\ s \in CommittedIn(m, i)
  /\ \A t \in CommittedIn(m, i) : t.revision <= s.revision

\* Source s is the next revision of identity i, and a change.
NextIn(m, i, s) ==
  /\ \A t \in CommittedIn(m, i) : t.revision < s.revision
  /\ s.revision > 1 => \E t \in CommittedIn(m, i) :
                         t.revision = s.revision - 1 /\ t.content # s.content

\* Revisions count changes, and none is committed twice.
ChangesIn(m) ==
  \A i \in Identity : \A s \in CommittedIn(m, i) :
    s.revision > 1 => \E t \in CommittedIn(m, i) :
                        t.revision = s.revision - 1 /\ t.content # s.content

OnceIn(m) ==
  \A i \in Identity : \A s, t \in CommittedIn(m, i) : s.revision = t.revision => s = t

OneStage == \A r, q \in Runs : pc[r] \in Active /\ pc[q] \in Active => r = q

\* The view of the executing stage is the store, but for what it has yet to commit.
ViewCurrent(r) ==
  pc[r] \in Active =>
    \A i \in Identity :
      \/ existing[r][i] = Nothing /\ CommittedIn(manifest, i) = {}
      \/ existing[r][i] # Nothing /\ LatestIn(manifest, i, existing[r][i])
      \/ /\ existing[r][i] # Nothing /\ Pending(r, i)
         /\ NextIn(manifest, i, existing[r][i])

RevisionInv ==
  /\ OneStage
  /\ \A r \in Runs : ViewCurrent(r)
  /\ ChangesIn(manifest)
  /\ OnceIn(manifest)

\* Committing the next revision, or the latest again, keeps the revisions in order.
LEMMA AppendKeepsOrder ==
  ASSUME NEW m \in Manifests, NEW n \in Manifests, NEW i \in Identity, NEW s \in Source,
         ChangesIn(m), OnceIn(m), LatestIn(m, i, s) \/ NextIn(m, i, s),
         CommittedIn(n, i) = CommittedIn(m, i) \cup {s},
         \A j \in Identity \ {i} : CommittedIn(n, j) = CommittedIn(m, j)
  PROVE  ChangesIn(n) /\ OnceIn(n) /\ LatestIn(n, i, s)
<1>1. s.revision \in Nat /\ \A t \in CommittedIn(m, i) : t.revision \in Nat
  BY CommittedType, SourceFacts
<1>2. \A t \in CommittedIn(m, i) : t.revision = s.revision => t = s
  BY <1>1 DEF OnceIn, LatestIn, NextIn
<1>3. s.revision > 1 => \E t \in CommittedIn(m, i) :
                          t.revision = s.revision - 1 /\ t.content # s.content
  BY DEF ChangesIn, LatestIn, NextIn
<1>4. ChangesIn(n)
  BY <1>3 DEF ChangesIn
<1>5. OnceIn(n)
  BY <1>2 DEF OnceIn
<1>6. LatestIn(n, i, s)
  BY <1>1 DEF LatestIn, NextIn
<1> QED BY <1>4, <1>5, <1>6

\* Only a start makes a stage active, and only when there is none.
LEMMA ActiveFacts ==
  ASSUME Exclusive, TypeOK, OneStage, NEW r \in Runs, Start(r) \/ Execute(r) \/ Crash(r)
  PROVE  /\ \A q \in Runs \ {r} : pc[q] \notin Active /\ pc'[q] \notin Active
         /\ OneStage'
<1>1. \A q \in Runs \ {r} : pc[q] \notin Active
  <2>1. CASE Start(r)
    BY <2>1 DEF Start
  <2>2. CASE Execute(r) \/ Crash(r)
    <3>1. pc[r] \in Active
      BY <2>2, FetchFacts DEF Execute, SyncExisting, Exhaust, ReadData, ReadManifest,
             PutData, PutManifest, WriteProgress, Complete, Crash, Active
    <3> QED BY <3>1 DEF OneStage
  <2> QED BY <2>1, <2>2
<1>2. \A q \in Runs \ {r} : pc'[q] = pc[q]
  BY OthersUntouched DEF Others
<1> QED BY <1>1, <1>2 DEF OneStage

\* With the manifests as they were, a stage need only look after its own view.
LEMMA RevisionStep ==
  ASSUME Exclusive, TypeOK, RevisionInv, NEW r \in Runs, Start(r) \/ Execute(r) \/ Crash(r),
         ViewCurrent(r)', ChangesIn(manifest'), OnceIn(manifest')
  PROVE  RevisionInv'
<1>1. OneStage'
  BY ActiveFacts DEF RevisionInv
<1>2. ASSUME NEW q \in Runs \ {r} PROVE ViewCurrent(q)'
  <2>1. pc'[q] \notin Active
    BY ActiveFacts DEF RevisionInv
  <2> QED BY <2>1 DEF ViewCurrent
<1> QED BY <1>1, <1>2 DEF RevisionInv

LEMMA StopIsInactive ==
  ASSUME TypeOK, NEW r \in Runs,
         \E label \in {"done", "incomplete", "failed", "conflict"} : Stop(r, label)
  PROVE  ViewCurrent(r)'
<1>1. pc'[r] \notin Active
  BY StopOthers DEF Active
<1> QED BY <1>1 DEF ViewCurrent

LEMMA StartSeesStore ==
  ASSUME TypeOK, NEW r \in Runs, Start(r)
  PROVE  ViewCurrent(r)'
<1>1. manifest' = manifest /\ manifest \in Manifests
  BY DEF Start, store, TypeOK, Manifests
<1>2. CASE Goto(r, "conflict")
  BY <1>2 DEF Goto, ViewCurrent, Active, TypeOK
<1>3. CASE existing' = [existing EXCEPT ![r] = [i \in Identity |-> Latest(i)]]
  <2>1. \A i \in Identity : existing'[r][i] = Latest(i)
    BY <1>3 DEF TypeOK
  <2>2. \A s \in Source : s # Nothing
    BY SourceFacts
  <2> QED BY <1>1, <2>1, <2>2, LatestFacts, CommittedType DEF ViewCurrent, LatestIn
<1> QED BY <1>2, <1>3 DEF Start

LEMMA FetchKeepsView ==
  ASSUME StoreInv, NEW r \in Runs, ViewCurrent(r), Fetch(r)
  PROVE  ViewCurrent(r)'
<1>1. manifest' = manifest /\ pc[r] = "fetch"
  BY FetchFacts
<1>2. TypeOK /\ manifest \in Manifests
  BY DEF StoreInv, TypeOK, Manifests
<1>3. PICK ids \in SUBSET Identity : Response(r, ids)
  BY FetchFacts
<1>4. CASE \E i \in ids : Omitted(r, i)
  <2>1. Stop(r, "failed")
    BY <1>3, <1>4 DEF Response
  <2> QED BY <1>2, <2>1, StopIsInactive
<1>5. CASE \A i \in ids : ~Omitted(r, i)
  <2>1. pc'[r] = "persist" /\ queue'[r] = {i \in ids : Saved(r, i) # Nothing}
    BY <1>2, <1>3, <1>5 DEF Response, Goto, TypeOK
  <2>2. \A i \in Identity :
          existing'[r][i] = IF i \in ids THEN Saved(r, i) ELSE existing[r][i]
    BY <1>2, <1>3, <1>5, ResponseFacts
  <2>3. \A i \in Identity : ~Pending(r, i)
    BY <1>1 DEF StoreInv, StageInv, GroupTidy, Pending, Writing, InWrite
  <2>4. ASSUME NEW i \in Identity
        PROVE  \/ existing[r][i] = Nothing /\ CommittedIn(manifest, i) = {}
               \/ existing[r][i] # Nothing /\ LatestIn(manifest, i, existing[r][i])
    BY <1>1, <2>3 DEF ViewCurrent, Active
  <2>5. ASSUME NEW i \in ids, Saved(r, i) # existing[r][i]
        PROVE  Saved(r, i) # Nothing /\ NextIn(manifest, i, Saved(r, i))
    <3>1. Saved(r, i) # Nothing => Saved(r, i).revision <= MaxRevision
      BY <1>3 DEF Response
    <3>2. \/ /\ existing[r][i] = Nothing /\ Saved(r, i) # Nothing
             /\ Saved(r, i).revision = 1 /\ Saved(r, i).content = api[i]
          \/ /\ existing[r][i] # Nothing /\ Saved(r, i) # Nothing
             /\ Saved(r, i).revision = existing[r][i].revision + 1
             /\ Saved(r, i).content = api[i]
             /\ existing[r][i].content # api[i]
      BY <1>2, <1>5, <2>5, <3>1, SavedFacts
    <3>3. CASE existing[r][i] = Nothing
      BY <2>4, <3>2, <3>3 DEF NextIn
    <3>4. CASE existing[r][i] # Nothing
      <4>1. LatestIn(manifest, i, existing[r][i])
        BY <2>4, <3>4
      <4>2. \A t \in CommittedIn(manifest, i) : t.revision \in Nat
        BY <1>2, CommittedType, SourceFacts
      <4>3. existing[r][i].revision \in Nat
        BY <4>1, <4>2 DEF LatestIn
      <4> QED BY <3>2, <3>4, <4>1, <4>2, <4>3 DEF NextIn, LatestIn
    <3> QED BY <3>2, <3>3, <3>4
  <2>6. ASSUME NEW i \in Identity
        PROVE  \/ existing'[r][i] = Nothing /\ CommittedIn(manifest, i) = {}
               \/ existing'[r][i] # Nothing /\ LatestIn(manifest, i, existing'[r][i])
               \/ /\ existing'[r][i] # Nothing /\ i \in queue'[r]
                  /\ NextIn(manifest, i, existing'[r][i])
    BY <2>1, <2>2, <2>4, <2>5
  <2> QED BY <1>1, <2>6 DEF ViewCurrent, Pending, InWrite
<1> QED BY <1>4, <1>5

LEMMA ReadKeepsView ==
  ASSUME StoreInv, NEW r \in Runs, ViewCurrent(r), ReadData(r) \/ ReadManifest(r)
  PROVE  ViewCurrent(r)'
<1>1. UNCHANGED <<data, manifest>> /\ pc[r] \in {"persist", "absent", "present"}
  BY ReadFacts DEF StoreInv
<1>2. TypeOK /\ StageInv(r) /\ manifest \in Manifests
  BY DEF StoreInv, TypeOK, Manifests
<1>3. CASE Stop(r, "conflict")
  BY <1>2, <1>3, StopIsInactive
<1>4. CASE ReadData(r) /\ ~Stop(r, "conflict")
  <2>1. PICK i \in queue[r] :
          /\ queue'[r] = queue[r] \ {i} /\ target'[r] = i
          /\ pc'[r] \in {"absent", "present"}
          /\ UNCHANGED existing
    BY <1>2, <1>4, DataRead
  <2>2. pc[r] = "persist"
    BY <1>4 DEF ReadData
  <2>3. \A j \in Identity : Pending(r, j) => Pending(r, j)'
    BY <2>1, <2>2 DEF Pending, InWrite
  <2> QED BY <1>1, <2>1, <2>3 DEF ViewCurrent, Active
<1>5. CASE ReadManifest(r) /\ ~Stop(r, "conflict")
  <2> DEFINE i == target[r]
             s == existing[r][i]
  <2>1. /\ \/ pc'[r] = "persist" /\ manifest[PathOf(i, s)] = s.content
           \/ pc'[r] \in {"data", "manifest"} /\ target' = target
        /\ UNCHANGED <<existing, group, queue>>
        /\ pc[r] \in {"absent", "present"}
    BY <1>2, <1>5, ManifestRead
  <2>2. i \in Identity /\ s \in Source
    BY <1>2, <2>1 DEF StageInv, QueueKnown, TypeOK, InWrite
  <2>3. pc'[r] = "persist" => s \in CommittedIn(manifest, i)
    BY <1>2, <2>1, <2>2, CommittedAt
  <2>4. s \in CommittedIn(manifest, i) => ~NextIn(manifest, i, s)
    BY <2>2, SourceFacts DEF NextIn
  <2>5. \A j \in Identity : Pending(r, j) => Pending(r, j)' \/ (j = i /\ pc'[r] = "persist")
    BY <2>1 DEF Pending, InWrite
  <2> QED BY <1>1, <2>1, <2>3, <2>4, <2>5 DEF ViewCurrent, Active
<1> QED BY <1>3, <1>4, <1>5

LEMMA PutManifestKeepsOrder ==
  ASSUME StoreInv, TypeOK', NEW r \in Runs, ViewCurrent(r), PutManifest(r),
         ChangesIn(manifest), OnceIn(manifest)
  PROVE  ViewCurrent(r)' /\ ChangesIn(manifest') /\ OnceIn(manifest')
<1> DEFINE i == target[r]
           s == existing[r][i]
           p == PathOf(i, s)
<1>1. pc[r] = "manifest"
  BY DEF PutManifest
<1>2. TypeOK /\ StageInv(r) /\ manifest \in Manifests /\ manifest' \in Manifests
  BY DEF StoreInv, TypeOK, Manifests
<1>3. i \in Identity /\ s \in Source /\ s # Nothing
  BY <1>1, <1>2 DEF StageInv, QueueKnown, InWrite, TypeOK
<1>4. p \in Path
  BY <1>3, PathFacts
<1>5. CASE manifest[p] # Nothing
  <2>1. manifest' = manifest /\ Stop(r, "failed")
    BY <1>5 DEF PutManifest
  <2> QED BY <1>2, <2>1, StopIsInactive
<1>6. CASE manifest[p] = Nothing
  <2>1. /\ manifest' = [manifest EXCEPT ![p] = s.content]
        /\ Goto(r, "persist")
        /\ UNCHANGED <<existing, group, queue>>
    BY <1>6 DEF PutManifest
  <2>2. manifest'[p] = s.content /\ \A q \in Path : q # p => manifest'[q] = manifest[q]
    BY <1>2, <1>4, <2>1 DEF TypeOK
  <2>3. /\ CommittedIn(manifest', i) = CommittedIn(manifest, i) \cup {s}
        /\ \A j \in Identity \ {i} : CommittedIn(manifest', j) = CommittedIn(manifest, j)
    <3>1. /\ manifest[PathOf(i, s)] = Nothing
          /\ manifest'[PathOf(i, s)] = s.content
          /\ \A q \in Path : q # PathOf(i, s) => manifest'[q] = manifest[q]
      BY <1>6, <2>2
    <3> HIDE DEF i, s, p
    <3> QED BY <1>2, <1>3, <3>1, CommitAdds
  <2>4. LatestIn(manifest, i, s) \/ NextIn(manifest, i, s)
    BY <1>1, <1>3 DEF ViewCurrent, Active
  <2>5. ChangesIn(manifest') /\ OnceIn(manifest') /\ LatestIn(manifest', i, s)
    <3> HIDE DEF i, s
    <3> QED BY <1>2, <1>3, <2>3, <2>4, AppendKeepsOrder
  <2>6. \A j \in Identity \ {i} :
          /\ LatestIn(manifest, j, existing[r][j]) => LatestIn(manifest', j, existing[r][j])
          /\ NextIn(manifest, j, existing[r][j]) => NextIn(manifest', j, existing[r][j])
    BY <2>3 DEF LatestIn, NextIn
  <2>7. pc'[r] = "persist"
    BY <1>2, <2>1 DEF Goto, TypeOK
  <2>8. \A j \in Identity \ {i} : Pending(r, j) => Pending(r, j)'
    BY <2>1 DEF Pending, InWrite
  <2>9. ViewCurrent(r)'
    BY <1>1, <1>3, <2>1, <2>3, <2>5, <2>6, <2>8 DEF ViewCurrent, Active
  <2> QED BY <2>5, <2>9
<1> QED BY <1>5, <1>6

LEMMA ExecuteKeepsOrder ==
  ASSUME Exclusive, StoreInv, TypeOK', RevisionInv, NEW r \in Runs,
         Start(r) \/ Execute(r) \/ Crash(r)
  PROVE  RevisionInv'
<1>1. TypeOK /\ StageInv(r) /\ ViewCurrent(r) /\ ChangesIn(manifest) /\ OnceIn(manifest)
  BY DEF StoreInv, RevisionInv
<1>2. CASE PutManifest(r)
  <2>1. ViewCurrent(r)' /\ ChangesIn(manifest') /\ OnceIn(manifest')
    BY <1>1, <1>2, PutManifestKeepsOrder
  <2> QED BY <1>1, <2>1, RevisionStep
<1>3. CASE ~PutManifest(r)
  <2>1. manifest' = manifest
    BY <1>3, FetchFacts DEF Execute, Start, SyncExisting, Exhaust, ReadData, ReadManifest,
           PutData, WriteProgress, Complete, Crash, store
  <2>2. ViewCurrent(r)'
    <3>1. CASE Exhaust(r) \/ Complete(r) \/ Crash(r)
      BY <1>1, <3>1, StopIsInactive DEF Exhaust, Complete, Crash
    <3>2. CASE SyncExisting(r)
      <4>1. /\ UNCHANGED <<existing, queue, target>> /\ pc[r] = "sync"
            /\ \A i \in Identity : ~Pending(r, i)
        BY <1>1, <3>2 DEF SyncExisting, local, StageInv, GroupTidy, Pending, Writing, InWrite
      <4> QED BY <1>1, <2>1, <4>1 DEF ViewCurrent, Active
    <3>3. CASE PutData(r)
      <4>1. CASE Stop(r, "failed")
        BY <1>1, <4>1, StopIsInactive
      <4>2. CASE ~Stop(r, "failed")
        <5>1. UNCHANGED <<existing, queue, target>> /\ pc[r] = "data" /\ pc'[r] = "manifest"
          BY <1>1, <3>3, <4>2 DEF PutData, Goto, local, TypeOK
        <5>2. \A i \in Identity : Pending(r, i) => Pending(r, i)'
          BY <5>1 DEF Pending, InWrite
        <5> QED BY <1>1, <2>1, <5>1, <5>2 DEF ViewCurrent, Active
      <4> QED BY <4>1, <4>2
    <3>4. CASE WriteProgress(r)
      <4>1. /\ UNCHANGED <<existing, queue, target>> /\ pc[r] = "persist"
        BY <3>4 DEF WriteProgress
      <4>2. \A i \in Identity : Pending(r, i) => Pending(r, i)'
        BY <4>1 DEF Pending, InWrite
      <4> QED BY <1>1, <2>1, <4>1, <4>2 DEF ViewCurrent, Active
    <3> QED BY <1>1, <1>3, <3>1, <3>2, <3>3, <3>4, StartSeesStore, FetchKeepsView,
               ReadKeepsView DEF Execute
  <2> QED BY <1>1, <2>1, <2>2, RevisionStep
<1> QED BY <1>2, <1>3

LEMMA InitRevisions == Init => RevisionInv
<1> SUFFICES ASSUME Init PROVE RevisionInv
  OBVIOUS
<1>1. \A i \in Identity : CommittedIn(manifest, i) = {}
  BY DEF Init, CommittedIn
<1> QED BY <1>1 DEF Init, RevisionInv, OneStage, ViewCurrent, ChangesIn, OnceIn, Active

LEMMA NextRevisions ==
  ASSUME Exclusive
  PROVE  StoreInv /\ RevisionInv /\ [Next]_vars => RevisionInv'
<1> SUFFICES ASSUME StoreInv, RevisionInv, [Next]_vars PROVE RevisionInv'
  OBVIOUS
<1>1. TypeOK'
  BY NextStore DEF StoreInv
<1>2. CASE \E r \in Runs : Start(r) \/ Execute(r) \/ Crash(r)
  BY <1>1, <1>2, ExecuteKeepsOrder
<1>3. CASE (\E i \in Identity : Revise(i)) \/ UNCHANGED vars
  <2>1. UNCHANGED <<manifest, pc, existing, queue, target>>
    BY <1>3 DEF Revise, store, local, vars
  <2> QED BY <2>1 DEF RevisionInv, OneStage, ViewCurrent, Pending, InWrite, ChangesIn, OnceIn,
             LatestIn, NextIn, CommittedIn
<1> QED BY <1>2, <1>3 DEF Next

LEMMA RevisionInvariant ==
  ASSUME Exclusive
  PROVE  Spec => []RevisionInv
<1>1. StoreInv /\ RevisionInv /\ [Next]_vars => RevisionInv'
  BY NextRevisions
<1> QED BY <1>1, InitRevisions, StoreInvariant, PTL DEF Spec

LEMMA CommittedSame == \A i \in Identity : Committed(i) = CommittedIn(manifest, i)
BY DEF Committed, CommittedIn

\* While stages execute one at a time, every revision above 1 follows one with another
\* content: revisions count changes, across crashes and resumed runs.
THEOREM RevisionsCountChanges ==
  ASSUME Exclusive
  PROVE  Spec => []RevisionsAreChanges
<1>1. RevisionInv => RevisionsAreChanges
  BY CommittedSame DEF RevisionInv, ChangesIn, RevisionsAreChanges
<1> QED BY <1>1, RevisionInvariant, PTL

\* While stages execute one at a time, no revision of an identity is committed twice.
THEOREM NeverAmbiguous ==
  ASSUME Exclusive
  PROVE  Spec => []Unambiguous
<1>1. RevisionInv => Unambiguous
  BY CommittedSame DEF RevisionInv, OnceIn, Unambiguous, Ambiguous
<1> QED BY <1>1, RevisionInvariant, PTL

\* While stages execute one at a time, S3 Raw is the abstract store: per identity, a
\* growing list of sources in which every source is a change to the one before it.
THEOREM ExtractImplementsStore ==
  ASSUME Exclusive
  PROVE  Spec => ImplementsStore
<1>1. Init => Store!Init
  BY DEF Init, Store!Init, Committed
<1>2. StoreInv /\ StoreInv' /\ RevisionInv /\ [Next]_vars =>
        [Store!Next]_[i \in Identity |-> Committed(i)]
  <2> SUFFICES ASSUME StoreInv, StoreInv', RevisionInv, [Next]_vars
               PROVE  \/ Store!Next
                      \/ UNCHANGED [i \in Identity |-> Committed(i)]
    OBVIOUS
  <2>1. CASE manifest' = manifest
    BY <2>1 DEF Committed
  <2>2. CASE manifest' # manifest
    <3>1. PICK r \in Runs : PutManifest(r)
      BY <2>2, FetchFacts DEF Next, Execute, Start, SyncExisting, Exhaust, ReadData, ReadManifest,
             PutData, WriteProgress, Complete, Crash, Revise, store, vars
    <3> DEFINE i == target[r]
               s == existing[r][i]
    <3>2. /\ TypeOK /\ StageInv(r) /\ ViewCurrent(r) /\ pc[r] = "manifest"
          /\ manifest \in Manifests /\ manifest' \in Manifests
      BY <3>1 DEF StoreInv, RevisionInv, TypeOK, Manifests, PutManifest
    <3>3. i \in Identity /\ s \in Source /\ s # Nothing
      BY <3>2 DEF StageInv, QueueKnown, InWrite, TypeOK
    <3>4. /\ manifest[PathOf(i, s)] = Nothing
          /\ manifest' = [manifest EXCEPT ![PathOf(i, s)] = s.content]
      BY <2>2, <3>1 DEF PutManifest
    <3>5. LatestIn(manifest, i, s) \/ NextIn(manifest, i, s)
      BY <3>2, <3>3 DEF ViewCurrent, Active
    <3> HIDE DEF i, s
    <3>6. PathOf(i, s) \in Path
      BY <3>3, PathFacts
    <3>7. /\ manifest'[PathOf(i, s)] = s.content
          /\ \A q \in Path : q # PathOf(i, s) => manifest'[q] = manifest[q]
      BY <3>2, <3>4, <3>6 DEF Manifests
    <3>8. /\ CommittedIn(manifest', i) = CommittedIn(manifest, i) \cup {s}
          /\ \A j \in Identity \ {i} : CommittedIn(manifest', j) = CommittedIn(manifest, j)
      <4>1. manifest[PathOf(i, s)] = Nothing /\ manifest \in Manifests /\ manifest' \in Manifests
        BY <3>2, <3>4
      <4> QED BY <3>3, <3>7, <4>1, CommitAdds
    <3>9. \A j \in Identity : Committed(j) = CommittedIn(manifest, j)
                              /\ Committed(j)' = CommittedIn(manifest', j)
      BY DEF Committed, CommittedIn
    <3>10. CASE LatestIn(manifest, i, s)
      <4>1. \A j \in Identity : Committed(j)' = Committed(j)
        BY <3>8, <3>9, <3>10 DEF LatestIn
      <4>2. [j \in Identity |-> Committed(j)'] = [j \in Identity |-> Committed(j)]
        BY <4>1
      <4> QED BY <4>2
    <3>11. CASE NextIn(manifest, i, s)
      <4> DEFINE before == [j \in Identity |-> Committed(j)]
                 after == [j \in Identity |-> Committed(j)']
      <4>1. after = [before EXCEPT ![i] = @ \cup {s}]
        BY <3>3, <3>8, <3>9
      <4>2. Store!Follows(i, s)
        BY <3>3, <3>9, <3>11 DEF Store!Follows, NextIn
      <4>3. s \in Store!Source
        BY <3>3 DEF Store!Source, Source
      <4> QED BY <3>3, <4>1, <4>2, <4>3 DEF Store!Next, Store!Add
    <3> QED BY <3>5, <3>10, <3>11
  <2> QED BY <2>1, <2>2
<1> QED BY <1>1, <1>2, StoreInvariant, RevisionInvariant, PTL
       DEF Spec, Store!Spec, ImplementsStore
=============================================================================
