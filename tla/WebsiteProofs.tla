--------------------------- MODULE WebsiteProofs ----------------------------
(***************************************************************************)
(* Theorems about Website, for any number of releases, stagers, builds and *)
(* data files: what is released, staged and built is whole, and what was   *)
(* in place is not lost.                                                   *)
(***************************************************************************)
EXTENDS Website, TLAPS

-----------------------------------------------------------------------------
(* The inductive invariant *)

\* Only stagers verify and copy versions, only builds read the data directory.
KindOK(p) ==
  /\ p \in Stagers => pc[p] \notin {"check", "list", "public"}
  /\ p \in Builders => pc[p] \notin {"pointer", "verify", "copy"}

\* The whole directory of snapshot i.
All(i) == [f \in Files |-> i]

\* A stager copies the version it has verified.
StagerOK(p) ==
  /\ pc[p] \in {"verify", "copy"} => chosen[p] \in Releases
  /\ pc[p] = "copy" => /\ versions[chosen[p]] = Files
                       /\ staging[p] \in Dir
                       /\ \A f \in Files : staging[p][f] \in {None, chosen[p]}
  /\ pc[p] \in {"aside", "install"} => chosen[p] \in Releases /\ staging[p] = All(chosen[p])

\* A build that is not disturbed has the data directory it has read the manifest of,
\* checked, and copied.
BuilderOK(b) ==
  /\ pc[b] = "check" => \/ disturbed[b]
                        \/ /\ place["data"] # None
                           /\ place["data"]["manifest"] = chosen[b]
                           /\ chosen[b] \in Releases
  /\ pc[b] \in {"list", "public"} =>
       disturbed[b] \/ (chosen[b] \in Releases /\ place["data"] = All(chosen[b]))
  /\ pc[b] = "public" => /\ staging[b] \in Dir
                         /\ \/ disturbed[b]
                            \/ \A f \in Files : staging[b][f] \in {None, chosen[b]}
  /\ pc[b] \in {"aside", "install"} => staging[b] \in Dir /\ (disturbed[b] \/ Whole(staging[b]))

\* A program that has not moved anything aside has no backup.
SpareOK(p) == pc[p] \in Busied \cup {"idle"} => backup[p] = None

\* Every file of the data directory, and of what stagers have moved aside, is of a release.
DataComplete ==
  /\ place["data"] # None => place["data"] \in [Files -> Releases]
  /\ \A p \in Stagers : backup[p] # None => backup[p] \in [Files -> Releases]

\* When a program that has installed is about to remove its backup and its directory is
\* gone again, another has moved it aside.
CleanSafe ==
  \A t \in {"data", "dist"} :
    place[t] = None /\ (\E p \in Programs : Target(p) = t /\ pc[p] = "clean") =>
      \E q \in Programs : Target(q) = t /\ backup[q] # None /\ pc[q] # "clean"

WebInv ==
  /\ TypeOK
  /\ ReleasedWhole
  /\ \A p \in Programs : KindOK(p) /\ SpareOK(p)
  /\ \A p \in Stagers : StagerOK(p)
  /\ \A b \in Builders : BuilderOK(b)
  /\ DataComplete
  /\ CleanSafe

-----------------------------------------------------------------------------
(* Types *)

Labels == Active \cup {"idle", "done", "failed", "dead"}

LEMMA NoneFacts ==
  /\ \A p \in Programs : p # None
  /\ \A i \in Releases : i # None
  /\ \A d \in Dir : d # None
  /\ Stagers \cap Builders = {} /\ MaxEdits \in Nat
  /\ "manifest" \in Files /\ Files \subseteq Uploads
BY WebsiteAssumption DEF Files, Uploads

LEMMA TargetFacts ==
  ASSUME NEW p \in Programs
  PROVE  /\ Target(p) \in {"data", "dist"}
         /\ p \in Stagers <=> Target(p) = "data"
         /\ p \in Builders <=> Target(p) = "dist"
BY NoneFacts DEF Target, Programs

LEMMA EmptyFacts == Empty \in Dir /\ \A f \in Files : Empty[f] = None
BY DEF Empty, Dir

LEMMA AllFacts ==
  ASSUME NEW i \in Releases
  PROVE  All(i) \in Dir /\ All(i) \in [Files -> Releases] /\ Whole(All(i))
BY DEF All, Dir, Whole

LEMMA InitTypes == Init => TypeOK
<1> SUFFICES ASSUME Init PROVE TypeOK
  OBVIOUS
<1>1. \A p \in Stagers : p \in Programs /\ p # None /\ pc[p] \notin Active
  BY NoneFacts DEF Init, Programs, Active, Busied
<1>2. 0 \in 0..MaxEdits
  BY NoneFacts
<1> QED BY <1>1, <1>2 DEF Init, TypeOK

LEMMA PublishTypes ==
  ASSUME TypeOK, NEW i \in Releases, Publish(i) \/ Operate(i)
  PROVE  TypeOK'
<1>1. release' \in [Releases -> SUBSET Uploads]
  BY DEF Publish, Operate, Export, Upload, Record, CrashPublish, Download, DownloadPointer,
         TypeOK, remote
<1>2. /\ publisher' \in [Releases -> {"idle", "upload", "done", "dead"}]
      /\ released' \subseteq Releases
  BY DEF Publish, Operate, Export, Upload, Record, CrashPublish, Download, DownloadPointer,
         TypeOK, remote
<1>3. /\ versions' \in [Releases -> SUBSET Files]
      /\ current' \in Releases \cup {None}
  BY DEF Publish, Operate, Export, Upload, Record, CrashPublish, Download, DownloadPointer,
         TypeOK, root
<1>4. UNCHANGED <<place, lock, pc, chosen, staging, backup, disturbed, edits>>
  BY DEF Publish, Operate, Export, Upload, Record, CrashPublish, Download, DownloadPointer,
         work
<1> QED BY <1>1, <1>2, <1>3, <1>4 DEF TypeOK

LEMMA DisturbTypes ==
  ASSUME TypeOK, Disturb
  PROVE  /\ disturbed' \in [Builders -> BOOLEAN]
         /\ \A b \in Builders : disturbed'[b] = (disturbed[b] \/ place'["data"] # place["data"])
BY DEF Disturb, TypeOK

LEMMA EditTypes ==
  ASSUME TypeOK, Edit
  PROVE  /\ TypeOK'
         /\ place["data"] # None
         /\ place'["data"] # None
         /\ place'["dist"] = place["dist"]
         /\ place["data"] \in [Files -> Releases] => place'["data"] \in [Files -> Releases]
<1>1. PICK f \in Files, i \in released : place' = [place EXCEPT !["data"][f] = i]
  BY DEF Edit
<1>2. place["data"] \in Dir /\ i \in Releases /\ place["data"] # None
  BY DEF Edit, TypeOK
<1> DEFINE new == [place["data"] EXCEPT ![f] = i]
<1>3. new \in Dir
  BY <1>2 DEF Dir
<1>4. place["data"] \in [Files -> Releases] => new \in [Files -> Releases]
  BY <1>2
<1>5. place' = [place EXCEPT !["data"] = new]
  BY <1>1
<1> HIDE DEF new
<1>6. place'["data"] = new /\ place'["dist"] = place["dist"]
      /\ place' \in [{"data", "dist"} -> Dir \cup {None}]
  BY <1>3, <1>5 DEF TypeOK
<1>7. disturbed' \in [Builders -> BOOLEAN]
  BY DisturbTypes DEF Edit
<1>8. edits' \in 0..MaxEdits
  BY NoneFacts DEF Edit, TypeOK
<1>9. UNCHANGED <<release, publisher, released, current, versions, lock, pc, chosen,
                  staging, backup>>
  BY DEF Edit, remote, root, work
<1>10. TypeOK'
  BY <1>6, <1>7, <1>8, <1>9 DEF TypeOK
<1> QED BY <1>2, <1>3, <1>4, <1>6, <1>10, NoneFacts

\* The lock is of the stager at work.
LockOK ==
  /\ lock \in Stagers \cup {None}
  /\ \A p \in Stagers : lock = p <=> pc[p] \in Active

\* What a program's step does to the lock: it takes it, keeps it or frees it.
LEMMA LockStep ==
  ASSUME TypeOK, NEW p \in Programs, NEW label \in Labels, Goto(p, label),
         \/ /\ p \in Stagers /\ lock = None /\ lock' = p /\ label \in Active
         \/ /\ lock' = lock /\ (pc[p] \in Active <=> label \in Active)
         \/ /\ p \in Builders /\ lock' = lock
         \/ /\ pc[p] \in Active /\ label \notin Active
            /\ lock' = IF lock = p THEN None ELSE lock
  PROVE  /\ LockOK'
         /\ pc' \in [Programs -> Labels]
         /\ pc'[p] = label
         /\ \A q \in Programs \ {p} : pc'[q] = pc[q]
<1>1. /\ pc' \in [Programs -> Labels] /\ pc'[p] = label
      /\ \A q \in Programs \ {p} : pc'[q] = pc[q]
  BY DEF Goto, TypeOK, Labels
<1>2. /\ \A q \in Stagers : lock = q <=> pc[q] \in Active
      /\ lock \in Stagers \cup {None}
  BY DEF TypeOK
<1>3. \A q \in Stagers : q \in Programs /\ q # None /\ q \notin Builders
  BY NoneFacts DEF Programs
<1>4. LockOK'
  <2>1. CASE p \in Stagers /\ lock = None /\ lock' = p /\ label \in Active
    BY <1>1, <1>2, <1>3, <2>1 DEF LockOK
  <2>2. CASE lock' = lock /\ (pc[p] \in Active <=> label \in Active)
    BY <1>1, <1>2, <1>3, <2>2 DEF LockOK
  <2>3. CASE p \in Builders /\ lock' = lock
    BY <1>1, <1>2, <1>3, <2>3 DEF LockOK
  <2>4. CASE /\ pc[p] \in Active /\ label \notin Active
             /\ lock' = IF lock = p THEN None ELSE lock
    BY <1>1, <1>2, <1>3, <2>4 DEF LockOK
  <2> QED BY <2>1, <2>2, <2>3, <2>4
<1> QED BY <1>1, <1>4

\* The step of a program: who else has moved, and where it is now.
LEMMA LabelFacts ==
  ASSUME TypeOK, NEW p \in Programs, KindOK(p), Stage(p) \/ Build(p) \/ Swap(p)
  PROVE  /\ LockOK'
         /\ pc' \in [Programs -> Labels]
         /\ \A q \in Programs \ {p} : pc'[q] = pc[q]
<1>1. CASE Stage(p)
  <2>1. CASE Lock(p)
    BY <2>1, LockStep DEF Lock, Labels, Active, Busied
  <2>2. CASE Busy(p)
    BY <2>2, LockStep DEF Busy, Labels, Active, Busied
  <2>3. CASE ReadPointer(p) \/ Verify(p) \/ Copied(p)
    BY <2>3, LockStep DEF ReadPointer, Verify, Copied, Labels, Active, Busied
  <2>4. CASE Copy(p)
    BY <2>4 DEF Copy, TypeOK, LockOK, Labels
  <2> QED BY <1>1, <2>1, <2>2, <2>3, <2>4 DEF Stage
<1>2. CASE Build(p)
  <2>1. p \in Builders
    BY <1>2 DEF Build, ReadManifest, Check, ListPublic, CopyPublic, KindOK, Programs
  <2>2. lock' = lock /\ \E label \in Labels : Goto(p, label)
    BY <1>2 DEF Build, ReadManifest, Check, ListPublic, CopyPublic, Labels, Active, Busied
  <2> QED BY <2>1, <2>2, LockStep
<1>3. CASE Swap(p)
  <2>1. CASE MoveAside(p)
    BY <2>1, LockStep DEF MoveAside, Labels, Active, Busied
  <2>2. CASE Install(p) \/ InstallFails(p)
    BY <2>2, LockStep DEF Install, InstallFails, Labels, Active, Busied
  <2>3. CASE Restore(p) \/ NotRestored(p)
    BY <2>3, LockStep DEF Restore, NotRestored, Labels, Active, Busied
  <2>4. CASE Clean(p)
    BY <2>4, LockStep DEF Clean, End, Labels, Active, Busied
  <2>5. CASE Fail(p)
    BY <2>5, LockStep DEF Fail, End, Labels, Active, Busied
  <2>6. CASE Crash(p)
    BY <2>6, LockStep DEF Crash, Labels, Active, Busied
  <2> QED BY <1>3, <2>1, <2>2, <2>3, <2>4, <2>5, <2>6 DEF Swap
<1> QED BY <1>1, <1>2, <1>3

\* What copying one file makes of a temporary directory.
LEMMA CopyFacts ==
  ASSUME TypeOK, NEW p \in Programs, staging[p] \in Dir, NEW f \in Files,
         NEW v \in Releases \cup {None}, staging' = [staging EXCEPT ![p][f] = v]
  PROVE  /\ staging' \in [Programs -> Dir \cup {None}]
         /\ staging'[p] \in Dir
         /\ staging'[p][f] = v
         /\ \A g \in Files \ {f} : staging'[p][g] = staging[p][g]
         /\ \A q \in Programs \ {p} : staging'[q] = staging[q]
<1> DEFINE new == [staging[p] EXCEPT ![f] = v]
<1>1. new \in Dir /\ new[f] = v /\ \A g \in Files \ {f} : new[g] = staging[p][g]
  BY DEF Dir
<1>2. staging' = [staging EXCEPT ![p] = new]
  OBVIOUS
<1> HIDE DEF new
<1> QED BY <1>1, <1>2 DEF TypeOK

\* What the steps of a program do to the data of others: nothing, but for the directory.
Untouched(p) ==
  /\ UNCHANGED <<release, publisher, released, current, versions, edits>>
  /\ \A q \in Programs \ {p} : /\ chosen'[q] = chosen[q] /\ staging'[q] = staging[q]
                               /\ backup'[q] = backup[q]
  /\ \A b \in Builders \ {p} :
       disturbed'[b] \/ (~disturbed[b] /\ place'["data"] = place["data"])

DataTypes ==
  /\ place' \in [{"data", "dist"} -> Dir \cup {None}]
  /\ chosen' \in [Programs -> Releases \cup {None}]
  /\ staging' \in [Programs -> Dir \cup {None}]
  /\ backup' \in [Programs -> Dir \cup {None}]
  /\ disturbed' \in [Builders -> BOOLEAN]

LEMMA StageTypes ==
  ASSUME TypeOK, NEW p \in Programs, KindOK(p), p \in Stagers => StagerOK(p), Stage(p)
  PROVE  Untouched(p) /\ DataTypes /\ UNCHANGED <<place, backup, disturbed>>
<1>1. UNCHANGED <<release, publisher, released, current, versions, edits, place, backup,
                  disturbed>>
  BY DEF Stage, Lock, Busy, ReadPointer, Verify, Copy, Copied, remote, root, work
<1>2. CASE Lock(p) \/ Busy(p) \/ Copied(p)
  BY <1>1, <1>2 DEF Lock, Busy, Copied, work, Untouched, DataTypes, TypeOK
<1>3. CASE ReadPointer(p)
  BY <1>1, <1>3 DEF ReadPointer, Untouched, DataTypes, TypeOK
<1>4. CASE Verify(p)
  BY <1>1, <1>4, EmptyFacts DEF Verify, Untouched, DataTypes, TypeOK
<1>5. CASE Copy(p)
  <2>1. p \in Stagers
    BY <1>5 DEF Copy, KindOK, Programs
  <2>2. staging[p] \in Dir /\ chosen[p] \in Releases
    BY <1>5, <2>1 DEF Copy, StagerOK
  <2>3. PICK f \in versions[chosen[p]] : staging' = [staging EXCEPT ![p][f] = chosen[p]]
    BY <1>5 DEF Copy
  <2>4. f \in Files
    BY <2>2, <2>3 DEF TypeOK
  <2>5. /\ staging' \in [Programs -> Dir \cup {None}]
        /\ \A q \in Programs \ {p} : staging'[q] = staging[q]
    BY <2>2, <2>3, <2>4, CopyFacts
  <2>6. chosen' = chosen
    BY <1>5 DEF Copy
  <2> QED BY <1>1, <2>5, <2>6 DEF Untouched, DataTypes, TypeOK
<1> QED BY <1>1, <1>2, <1>3, <1>4, <1>5 DEF Stage

LEMMA BuildTypes ==
  ASSUME TypeOK, NEW p \in Programs, KindOK(p), p \in Builders => BuilderOK(p), Build(p)
  PROVE  /\ p \in Builders
         /\ Untouched(p) /\ DataTypes
         /\ UNCHANGED <<place, backup, lock>>
<1>1. UNCHANGED <<release, publisher, released, current, versions, edits, place, backup,
                  lock>>
  BY DEF Build, ReadManifest, Check, ListPublic, CopyPublic, remote, root, work
<1>2. p \in Builders
  BY DEF Build, ReadManifest, Check, ListPublic, CopyPublic, KindOK, Programs
<1>3. CASE ReadManifest(p)
  <2>1. place["data"]["manifest"] \in Releases \cup {None}
    BY <1>3, NoneFacts DEF ReadManifest, TypeOK, Dir
  <2>2. /\ chosen' \in [Programs -> Releases \cup {None}]
        /\ \A q \in Programs \ {p} : chosen'[q] = chosen[q]
        /\ disturbed' \in [Builders -> BOOLEAN]
        /\ \A b \in Builders \ {p} : disturbed'[b] = disturbed[b]
        /\ UNCHANGED <<staging, backup>>
    BY <1>3, <2>1 DEF ReadManifest, TypeOK
  <2> QED BY <1>1, <1>2, <2>2 DEF Untouched, DataTypes, TypeOK
<1>4. CASE Check(p)
  BY <1>1, <1>2, <1>4 DEF Check, work, Untouched, DataTypes, TypeOK
<1>5. CASE ListPublic(p)
  BY <1>1, <1>2, <1>5, EmptyFacts DEF ListPublic, Untouched, DataTypes, TypeOK
<1>6. CASE CopyPublic(p)
  <2>1. staging[p] \in Dir
    BY <1>2, <1>6 DEF CopyPublic, BuilderOK
  <2>2. PICK f \in Files : staging' = [staging EXCEPT ![p][f] = place["data"][f]]
    BY <1>6 DEF CopyPublic
  <2>3. place["data"][f] \in Releases \cup {None}
    BY <1>6 DEF CopyPublic, TypeOK, Dir
  <2>4. /\ staging' \in [Programs -> Dir \cup {None}]
        /\ \A q \in Programs \ {p} : staging'[q] = staging[q]
    BY <2>1, <2>2, <2>3, CopyFacts
  <2>5. UNCHANGED <<chosen, disturbed>>
    BY <1>6 DEF CopyPublic
  <2> QED BY <1>1, <1>2, <2>4, <2>5 DEF Untouched, DataTypes, TypeOK
<1> QED BY <1>3, <1>4, <1>5, <1>6 DEF Build

LEMMA SwapTypes ==
  ASSUME TypeOK, NEW p \in Programs, Swap(p)
  PROVE  /\ Untouched(p) /\ DataTypes
         /\ chosen' = chosen
         /\ \A b \in Builders :
              disturbed'[b] \/ (~disturbed[b] /\ place'["data"] = place["data"])
<1>1. UNCHANGED <<release, publisher, released, current, versions, edits, chosen>>
  BY DEF Swap, MoveAside, Install, InstallFails, Restore, NotRestored, Clean, Fail, Crash,
         remote, root, work
<1>2. Target(p) \in {"data", "dist"}
  BY TargetFacts
<1>3. /\ place' \in [{"data", "dist"} -> Dir \cup {None}]
      /\ staging' \in [Programs -> Dir \cup {None}]
      /\ backup' \in [Programs -> Dir \cup {None}]
  <2>1. CASE MoveAside(p) \/ Install(p) \/ Restore(p)
    BY <1>2, <2>1 DEF MoveAside, Install, Restore, TypeOK
  <2>2. CASE InstallFails(p) \/ NotRestored(p) \/ Clean(p) \/ Fail(p) \/ Crash(p)
    BY <2>2 DEF InstallFails, NotRestored, Clean, Fail, Crash, End, work, TypeOK
  <2> QED BY <2>1, <2>2 DEF Swap
<1>4. \A q \in Programs \ {p} : staging'[q] = staging[q] /\ backup'[q] = backup[q]
  BY DEF Swap, MoveAside, Install, InstallFails, Restore, NotRestored, Clean, Fail, Crash,
         End, work, TypeOK
<1>5. /\ disturbed' \in [Builders -> BOOLEAN]
      /\ \A b \in Builders :
           disturbed'[b] \/ (~disturbed[b] /\ place'["data"] = place["data"])
  <2>1. CASE Disturb
    BY <2>1, DisturbTypes
  <2>2. CASE UNCHANGED <<disturbed, place>>
    BY <2>2 DEF TypeOK
  <2> QED BY <2>1, <2>2 DEF Swap, MoveAside, Install, InstallFails, Restore, NotRestored,
             Clean, Fail, Crash
<1> QED BY <1>1, <1>3, <1>4, <1>5 DEF Untouched, DataTypes, TypeOK

LEMMA ProgramTypes ==
  ASSUME WebInv, NEW p \in Programs, Stage(p) \/ Build(p) \/ Swap(p)
  PROVE  /\ TypeOK'
         /\ Untouched(p)
         /\ \A q \in Programs \ {p} : pc'[q] = pc[q]
<1>1. /\ TypeOK /\ KindOK(p)
      /\ p \in Stagers => StagerOK(p)
      /\ p \in Builders => BuilderOK(p)
  BY DEF WebInv
<1>2. /\ LockOK' /\ pc' \in [Programs -> Labels]
      /\ \A q \in Programs \ {p} : pc'[q] = pc[q]
  BY <1>1, LabelFacts
<1>3. Untouched(p) /\ DataTypes
  BY <1>1, StageTypes, BuildTypes, SwapTypes
<1> QED BY <1>1, <1>2, <1>3 DEF TypeOK, Untouched, DataTypes, LockOK, Labels

-----------------------------------------------------------------------------
(* What each program has read, copied and moved aside *)

ProgramOK(p) ==
  /\ KindOK(p) /\ SpareOK(p)
  /\ p \in Stagers => StagerOK(p)
  /\ p \in Builders => BuilderOK(p)

LEMMA OthersKeep ==
  ASSUME NEW p \in Programs, NEW q \in Programs \ {p}, ProgramOK(q), Untouched(p),
         pc'[q] = pc[q]
  PROVE  ProgramOK(q)'
<1>1. /\ chosen'[q] = chosen[q] /\ staging'[q] = staging[q] /\ backup'[q] = backup[q]
      /\ versions' = versions
  BY DEF Untouched
<1>2. KindOK(q)' /\ SpareOK(q)'
  BY <1>1 DEF ProgramOK, KindOK, SpareOK
<1>3. q \in Stagers => StagerOK(q)'
  BY <1>1 DEF ProgramOK, StagerOK
<1>4. ASSUME q \in Builders
      PROVE  BuilderOK(q)'
  <2>1. disturbed'[q] \/ (~disturbed[q] /\ place'["data"] = place["data"])
    BY <1>4 DEF Untouched
  <2>2. BuilderOK(q)
    BY <1>4 DEF ProgramOK
  <2> QED BY <1>1, <2>1, <2>2 DEF BuilderOK
<1> QED BY <1>2, <1>3, <1>4 DEF ProgramOK

LEMMA StageKeeps ==
  ASSUME TypeOK, NEW p \in Programs, ProgramOK(p), Stage(p)
  PROVE  ProgramOK(p)' /\ pc'[p] # "clean"
<1>1. p \in Stagers /\ p \notin Builders
  BY NoneFacts DEF Stage, Lock, Busy, ReadPointer, Verify, Copy, Copied, ProgramOK, KindOK,
                   Programs
<1>2. pc \in [Programs -> Labels]
  BY DEF TypeOK, Labels
<1>3. StagerOK(p) /\ SpareOK(p)
  BY <1>1 DEF ProgramOK
<1>4. UNCHANGED <<backup, versions>>
  BY DEF Stage, Lock, Busy, ReadPointer, Verify, Copy, Copied, root, work
<1>5. CASE Lock(p) \/ Busy(p) \/ ReadPointer(p)
  BY <1>1, <1>2, <1>3, <1>4, <1>5
     DEF Lock, Busy, ReadPointer, Goto, TypeOK, ProgramOK, KindOK, SpareOK, StagerOK, Busied
<1>6. CASE Verify(p)
  <2>1. /\ pc[p] = "verify" /\ pc'[p] = "copy" /\ chosen' = chosen
        /\ staging'[p] = Empty /\ versions[chosen[p]] = Files
    BY <1>2, <1>6 DEF Verify, Goto, TypeOK
  <2> QED BY <1>1, <1>3, <1>4, <2>1, EmptyFacts
          DEF ProgramOK, KindOK, SpareOK, StagerOK, Busied
<1>7. CASE Copy(p)
  <2>1. /\ pc[p] = "copy" /\ pc' = pc /\ chosen' = chosen
        /\ staging[p] \in Dir /\ versions[chosen[p]] = Files /\ chosen[p] \in Releases
        /\ \A f \in Files : staging[p][f] \in {None, chosen[p]}
    BY <1>3, <1>7 DEF Copy, StagerOK
  <2>2. PICK f \in Files : staging' = [staging EXCEPT ![p][f] = chosen[p]]
    BY <1>7, <2>1 DEF Copy
  <2>3. /\ staging'[p] \in Dir /\ staging'[p][f] = chosen[p]
        /\ \A g \in Files \ {f} : staging'[p][g] = staging[p][g]
    <3>1. staging[p] \in Dir /\ chosen[p] \in Releases \cup {None}
      BY <2>1
    <3>2. staging'[p] = [staging[p] EXCEPT ![f] = chosen[p]]
      BY <2>2 DEF TypeOK
    <3> QED BY <3>1, <3>2 DEF Dir
  <2>4. \A g \in Files : staging'[p][g] \in {None, chosen[p]}
    BY <2>1, <2>3
  <2>5. StagerOK(p)'
    BY <1>4, <2>1, <2>3, <2>4 DEF StagerOK
  <2>6. SpareOK(p)' /\ KindOK(p)' /\ pc'[p] # "clean"
    BY <1>1, <1>3, <1>4, <2>1 DEF KindOK, SpareOK, Busied
  <2> QED BY <1>1, <2>5, <2>6 DEF ProgramOK
<1>8. CASE Copied(p)
  <2>1. /\ pc[p] = "copy" /\ pc'[p] = "aside" /\ UNCHANGED <<chosen, staging>>
        /\ \A f \in versions[chosen[p]] : staging[p][f] # None
    BY <1>2, <1>8 DEF Copied, Goto, work
  <2>2. /\ chosen[p] \in Releases /\ staging[p] \in Dir
        /\ \A f \in Files : staging[p][f] = chosen[p]
    BY <1>3, <2>1 DEF StagerOK
  <2>3. staging[p] = All(chosen[p])
    BY <2>2 DEF Dir, All
  <2>4. SpareOK(p)' /\ KindOK(p)'
    BY <1>1, <1>3, <1>4, <2>1 DEF KindOK, SpareOK, Busied
  <2>5. StagerOK(p)'
    BY <2>1, <2>2, <2>3 DEF StagerOK
  <2> QED BY <1>1, <2>1, <2>4, <2>5 DEF ProgramOK
<1> QED BY <1>5, <1>6, <1>7, <1>8 DEF Stage


LEMMA BuildKeeps ==
  ASSUME TypeOK, DataComplete, NEW p \in Programs, ProgramOK(p), Build(p)
  PROVE  ProgramOK(p)' /\ pc'[p] # "clean"
<1>1. p \in Builders /\ p \notin Stagers
  BY NoneFacts DEF Build, ReadManifest, Check, ListPublic, CopyPublic, ProgramOK, KindOK,
                   Programs
<1>2. pc \in [Programs -> Labels]
  BY DEF TypeOK, Labels
<1>3. BuilderOK(p) /\ SpareOK(p)
  BY <1>1 DEF ProgramOK
<1>4. UNCHANGED <<backup, place>>
  BY DEF Build, ReadManifest, Check, ListPublic, CopyPublic, work
<1> SUFFICES BuilderOK(p)' /\ pc[p] \in Busied \cup {"idle"}
             /\ pc'[p] \in {"check", "list", "public", "aside"}
  BY <1>1, <1>3, <1>4 DEF ProgramOK, KindOK, SpareOK
<1>5. CASE ReadManifest(p)
  <2>1. /\ pc[p] = "idle" /\ pc'[p] = "check" /\ ~disturbed'[p] /\ place["data"] # None
        /\ chosen'[p] = place["data"]["manifest"]
    BY <1>1, <1>2, <1>5 DEF ReadManifest, Goto, TypeOK
  <2>2. place["data"]["manifest"] \in Releases
    BY <2>1, NoneFacts DEF DataComplete
  <2> QED BY <1>4, <2>1, <2>2 DEF BuilderOK
<1>6. CASE Check(p)
  <2>1. /\ pc[p] = "check" /\ pc'[p] = "list" /\ UNCHANGED <<disturbed, chosen>>
        /\ \A f \in DataFiles : place["data"][f] = chosen[p]
        /\ place["data"] # None
    BY <1>2, <1>6 DEF Check, Goto, work
  <2>2. ASSUME ~disturbed[p]
        PROVE  chosen[p] \in Releases /\ place["data"] = All(chosen[p])
    <3>1. chosen[p] \in Releases /\ place["data"]["manifest"] = chosen[p]
      BY <1>3, <2>1, <2>2 DEF BuilderOK
    <3>2. place["data"] \in Dir
      BY <2>1 DEF TypeOK
    <3>3. \A f \in Files : place["data"][f] = chosen[p]
      BY <2>1, <3>1 DEF Files
    <3> QED BY <3>1, <3>2, <3>3 DEF Dir, All
  <2> QED BY <1>4, <2>1, <2>2 DEF BuilderOK, Busied
<1>7. CASE ListPublic(p)
  <2>1. /\ pc[p] = "list" /\ UNCHANGED <<disturbed, chosen>> /\ staging'[p] = Empty
        /\ pc'[p] = IF place["data"] = None THEN "aside" ELSE "public"
    BY <1>2, <1>7 DEF ListPublic, Goto, TypeOK
  <2>2. disturbed[p] \/ (chosen[p] \in Releases /\ place["data"] = All(chosen[p]))
    BY <1>3, <2>1 DEF BuilderOK
  <2>3. CASE place["data"] = None
    <3>1. ~(chosen[p] \in Releases /\ place["data"] = All(chosen[p]))
      BY <2>3, AllFacts, NoneFacts
    <3>2. disturbed[p]
      BY <2>2, <3>1
    <3> QED BY <2>1, <2>3, <3>2, EmptyFacts DEF BuilderOK, Busied
  <2>4. CASE place["data"] # None
    BY <1>4, <2>1, <2>2, <2>4, EmptyFacts DEF BuilderOK, Busied
  <2> QED BY <2>3, <2>4
<1>8. CASE CopyPublic(p)
  <2>1. /\ pc[p] = "public" /\ UNCHANGED <<disturbed, chosen>> /\ place["data"] # None
    BY <1>8 DEF CopyPublic
  <2>2. PICK f \in Files :
          /\ staging[p][f] = None
          /\ staging' = [staging EXCEPT ![p][f] = place["data"][f]]
          /\ Goto(p, IF \A g \in Files \ {f} : staging[p][g] # None THEN "aside" ELSE "public")
    BY <1>8 DEF CopyPublic
  <2>3. pc'[p] = IF \A g \in Files \ {f} : staging[p][g] # None THEN "aside" ELSE "public"
    BY <1>2, <2>2 DEF Goto
  <2>4. /\ staging[p] \in Dir
        /\ disturbed[p] \/ \A g \in Files : staging[p][g] \in {None, chosen[p]}
        /\ disturbed[p] \/ (chosen[p] \in Releases /\ place["data"] = All(chosen[p]))
    BY <1>3, <2>1 DEF BuilderOK
  <2>5. place["data"][f] \in Releases \cup {None}
    BY <2>1 DEF TypeOK, Dir
  <2>6. /\ staging'[p] \in Dir /\ staging'[p][f] = place["data"][f]
        /\ \A g \in Files \ {f} : staging'[p][g] = staging[p][g]
    <3>1. staging[p] \in Dir
      BY <2>4
    <3>2. staging'[p] = [staging[p] EXCEPT ![f] = place["data"][f]]
      BY <2>2 DEF TypeOK
    <3> QED BY <2>5, <3>1, <3>2 DEF Dir
  <2>7. ASSUME ~disturbed[p]
        PROVE  \A g \in Files : staging'[p][g] \in {None, chosen[p]}
    <3>1. staging'[p][f] = chosen[p]
      BY <2>4, <2>6, <2>7 DEF All
    <3> QED BY <2>4, <2>6, <2>7, <3>1
  <2>8. CASE pc'[p] = "public"
    BY <1>4, <2>1, <2>4, <2>6, <2>7, <2>8 DEF BuilderOK, Busied
  <2>9. CASE pc'[p] = "aside"
    <3>1. \A g \in Files \ {f} : staging[p][g] # None
      BY <2>3, <2>9
    <3>2. ASSUME ~disturbed[p]
          PROVE  Whole(staging'[p])
      <4>1. chosen[p] \in Releases /\ staging'[p][f] = chosen[p]
        BY <2>4, <2>6, <3>2 DEF All
      <4>2. \A g \in Files : staging'[p][g] = chosen[p]
        BY <2>6, <2>7, <3>1, <3>2, <4>1
      <4>3. staging'[p] = All(chosen[p])
        BY <2>6, <4>2 DEF Dir, All
      <4> QED BY <4>1, <4>3, AllFacts
    <3> QED BY <2>1, <2>6, <2>9, <3>2 DEF BuilderOK, Busied
  <2> QED BY <2>3, <2>8, <2>9
<1> QED BY <1>5, <1>6, <1>7, <1>8 DEF Build


LEMMA SwapKeeps ==
  ASSUME TypeOK, NEW p \in Programs, ProgramOK(p), Swap(p)
  PROVE  ProgramOK(p)'
<1>1. pc \in [Programs -> Labels]
  BY DEF TypeOK, Labels
<1>2. CASE MoveAside(p)
  <2>1. /\ pc[p] = "aside" /\ pc'[p] = "install" /\ UNCHANGED <<chosen, staging>>
    BY <1>1, <1>2 DEF MoveAside, Goto
  <2>2. \A b \in Builders : disturbed'[b] \/ ~disturbed[b]
    BY SwapTypes
  <2>3. KindOK(p)' /\ SpareOK(p)'
    BY <2>1 DEF KindOK, SpareOK, Busied
  <2>4. p \in Stagers => StagerOK(p)'
    BY <2>1 DEF ProgramOK, StagerOK
  <2>5. p \in Builders => BuilderOK(p)'
    BY <2>1, <2>2 DEF ProgramOK, BuilderOK
  <2> QED BY <2>3, <2>4, <2>5 DEF ProgramOK
<1>3. CASE ~MoveAside(p)
  <2>1. pc'[p] \in {"clean", "restore", "abort", "done", "failed", "dead"}
    BY <1>1, <1>3 DEF Swap, Install, InstallFails, Restore, NotRestored, Clean, Fail, Crash,
                      End, Goto
  <2> QED BY <2>1 DEF ProgramOK, KindOK, SpareOK, StagerOK, BuilderOK, Busied
<1> QED BY <1>2, <1>3

-----------------------------------------------------------------------------
(* The directories and what was moved aside *)

\* What p does to its directory t: nothing, or it moves it aside, puts one there, or
\* removes what it has moved aside.
Idles(p) ==
  /\ UNCHANGED <<place, backup>>
  /\ pc'[p] # "clean"

Empties(p, t) ==
  /\ backup[p] = None /\ backup'[p] = place[t]
  /\ place'[t] = None
  /\ pc'[p] = "install"

Fills(p, t) ==
  /\ place'[t] \in Dir
  /\ \/ backup'[p] = backup[p] /\ (p \in Stagers => place'[t] \in [Files -> Releases])
     \/ backup'[p] = None /\ place'[t] = backup[p]

Discards(p, t) ==
  /\ place'[t] = place[t]
  /\ backup'[p] = None
  /\ pc'[p] # "clean"
  /\ \/ p \in Stagers /\ place[t] # None
     \/ pc[p] = "clean"

LEMMA SwapCases ==
  ASSUME TypeOK, NEW p \in Programs, ProgramOK(p), Swap(p)
  PROVE  /\ \A t \in {"data", "dist"} \ {Target(p)} : place'[t] = place[t]
         /\ \/ Idles(p) \/ Empties(p, Target(p)) \/ Fills(p, Target(p))
            \/ Discards(p, Target(p))
<1>1. /\ pc \in [Programs -> Labels]
      /\ place \in [{"data", "dist"} -> Dir \cup {None}]
      /\ backup \in [Programs -> Dir \cup {None}]
      /\ Target(p) \in {"data", "dist"}
  BY TargetFacts DEF TypeOK, Labels
<1>2. CASE MoveAside(p)
  <2>1. backup[p] = None
    BY <1>2 DEF MoveAside, ProgramOK, SpareOK, Busied
  <2> QED BY <1>1, <1>2, <2>1 DEF MoveAside, Goto, Empties
<1>3. CASE Install(p)
  <2>1. /\ pc[p] = "install" /\ backup' = backup /\ place'[Target(p)] = staging[p]
        /\ \A t \in {"data", "dist"} \ {Target(p)} : place'[t] = place[t]
    BY <1>1, <1>3 DEF Install
  <2>2. p \in Stagers => staging[p] \in Dir /\ staging[p] \in [Files -> Releases]
    BY <2>1, AllFacts DEF ProgramOK, StagerOK
  <2>3. p \in Builders => staging[p] \in Dir
    BY <2>1 DEF ProgramOK, BuilderOK
  <2> QED BY <2>1, <2>2, <2>3 DEF Fills, Programs
<1>4. CASE Restore(p)
  <2>1. /\ backup[p] \in Dir /\ backup'[p] = None /\ place'[Target(p)] = backup[p]
        /\ \A t \in {"data", "dist"} \ {Target(p)} : place'[t] = place[t]
    BY <1>1, <1>4 DEF Restore
  <2> QED BY <2>1 DEF Fills
<1>5. CASE Clean(p)
  <2>1. place' = place /\ pc'[p] # "clean"
    BY <1>1, <1>5 DEF Clean, End, Goto
  <2>2. CASE backup' = backup
    BY <2>1, <2>2 DEF Idles
  <2>3. CASE backup' # backup
    <3>1. /\ backup' = [backup EXCEPT ![p] = None]
          /\ IF p \in Builders THEN pc[p] = "clean" ELSE place["data"] # None
      BY <1>5, <2>3 DEF Clean
    <3>2. \/ p \in Stagers /\ place[Target(p)] # None
          \/ pc[p] = "clean"
      BY <3>1, TargetFacts DEF Programs
    <3> QED BY <1>1, <2>1, <3>1, <3>2 DEF Discards
  <2> QED BY <2>2, <2>3
<1>6. CASE InstallFails(p) \/ NotRestored(p) \/ Fail(p) \/ Crash(p)
  BY <1>1, <1>6 DEF InstallFails, NotRestored, Fail, Crash, End, Goto, work, Idles
<1> QED BY <1>2, <1>3, <1>4, <1>5, <1>6 DEF Swap


LEMMA DirectoryStep ==
  ASSUME TypeOK, DataComplete, CleanSafe, NEW p \in Programs,
         \A q \in Programs \ {p} : pc'[q] = pc[q] /\ backup'[q] = backup[q],
         \A t \in {"data", "dist"} \ {Target(p)} : place'[t] = place[t],
         \/ Idles(p) \/ Empties(p, Target(p)) \/ Fills(p, Target(p)) \/ Discards(p, Target(p))
  PROVE  /\ DataComplete' /\ CleanSafe'
         /\ \A t \in {"data", "dist"} : Kept(t) => Kept(t)'
<1>1. /\ Target(p) \in {"data", "dist"}
      /\ p \in Stagers <=> Target(p) = "data"
      /\ \A q \in Stagers : q \in Programs
  BY TargetFacts DEF Programs
<1>2. /\ place \in [{"data", "dist"} -> Dir \cup {None}]
      /\ \A d \in Dir : d # None
  BY NoneFacts DEF TypeOK
<1>3. DataComplete'
  <2>1. CASE Idles(p)
    BY <2>1 DEF Idles, DataComplete
  <2>2. CASE Empties(p, Target(p))
    BY <1>1, <2>2 DEF Empties, DataComplete
  <2>3. CASE Fills(p, Target(p))
    BY <1>1, <1>2, <2>3 DEF Fills, DataComplete
  <2>4. CASE Discards(p, Target(p))
    BY <1>1, <2>4 DEF Discards, DataComplete
  <2> QED BY <2>1, <2>2, <2>3, <2>4
<1>4. ASSUME NEW t \in {"data", "dist"}, Kept(t)
      PROVE  Kept(t)'
  <2>1. CASE place'[t] # None
    BY <2>1 DEF Kept, Target
  <2>2. CASE place'[t] = None /\ place[t] # None
    <3>1. t = Target(p) /\ Empties(p, t)
      BY <1>2, <2>2 DEF Idles, Fills, Discards
    <3>2. backup'[p] # None
      BY <2>2, <3>1 DEF Empties
    <3> QED BY <3>1, <3>2 DEF Kept, Target
  <2>3. CASE place'[t] = None /\ place[t] = None
    <3>1. PICK q \in Programs : Target(q) = t /\ backup[q] # None
      BY <1>4, <2>3 DEF Kept
    <3>2. CASE q # p \/ backup'[p] = backup[p]
      BY <3>1, <3>2 DEF Kept, Target
    <3>3. CASE q = p /\ backup'[p] # backup[p]
      <4>1. t = Target(p) /\ Discards(p, t)
        BY <1>2, <2>3, <3>1, <3>3 DEF Idles, Empties, Fills
      <4>2. pc[p] = "clean"
        BY <2>3, <4>1 DEF Discards
      <4>3. PICK r \in Programs : Target(r) = t /\ backup[r] # None /\ pc[r] # "clean"
        BY <2>3, <4>1, <4>2 DEF CleanSafe
      <4>4. r # p /\ backup'[r] # None
        BY <4>2, <4>3
      <4> QED BY <4>3, <4>4 DEF Kept, Target
    <3> QED BY <3>2, <3>3
  <2> QED BY <2>1, <2>2, <2>3
<1>5. ASSUME NEW t \in {"data", "dist"}, place'[t] = None,
             NEW c \in Programs, Target(c) = t, pc'[c] = "clean"
      PROVE  \E q \in Programs : Target(q) = t /\ backup'[q] # None /\ pc'[q] # "clean"
  <2>1. CASE t = Target(p) /\ Empties(p, t) /\ place[t] # None
    BY <2>1 DEF Empties
  <2>2. CASE ~(t = Target(p) /\ Empties(p, t) /\ place[t] # None)
    <3>1. place[t] = None
      BY <1>2, <1>5, <2>2 DEF Idles, Fills, Discards
    <3>2. c # p
      <4>1. ASSUME c = p
            PROVE  FALSE
        BY <1>2, <1>5, <4>1 DEF Idles, Empties, Fills, Discards
      <4> QED BY <4>1
    <3>3. pc[c] = "clean"
      BY <1>5, <3>2
    <3>4. PICK q \in Programs : Target(q) = t /\ backup[q] # None /\ pc[q] # "clean"
      BY <1>5, <3>1, <3>3 DEF CleanSafe
    <3>5. CASE q # p
      BY <3>4, <3>5
    <3>6. CASE q = p
      <4>1. Idles(p)
        BY <1>2, <1>5, <3>1, <3>4, <3>6 DEF Empties, Fills, Discards
      <4> QED BY <3>4, <3>6, <4>1 DEF Idles
    <3> QED BY <3>5, <3>6
  <2> QED BY <2>1, <2>2
<1>6. CleanSafe'
  BY <1>5 DEF CleanSafe, Target
<1> QED BY <1>3, <1>4, <1>6

LEMMA ProgramStep ==
  ASSUME WebInv, NEW p \in Programs, Stage(p) \/ Build(p) \/ Swap(p)
  PROVE  /\ WebInv'
         /\ \A t \in {"data", "dist"} : Kept(t) => Kept(t)'
<1>1. /\ TypeOK /\ DataComplete /\ CleanSafe
      /\ \A q \in Programs : ProgramOK(q)
  BY DEF WebInv, ProgramOK
<1>2. /\ TypeOK' /\ Untouched(p)
      /\ \A q \in Programs \ {p} : pc'[q] = pc[q]
  BY ProgramTypes
<1>3. /\ ProgramOK(p)'
      /\ \A t \in {"data", "dist"} \ {Target(p)} : place'[t] = place[t]
      /\ \/ Idles(p) \/ Empties(p, Target(p)) \/ Fills(p, Target(p))
         \/ Discards(p, Target(p))
  <2>1. CASE Stage(p)
    <3>1. UNCHANGED <<place, backup>>
      BY <1>1, <2>1, StageTypes DEF ProgramOK
    <3> QED BY <1>1, <2>1, <3>1, StageKeeps DEF Idles
  <2>2. CASE Build(p)
    <3>1. UNCHANGED <<place, backup>>
      BY <1>1, <2>2, BuildTypes DEF ProgramOK
    <3> QED BY <1>1, <2>2, <3>1, BuildKeeps DEF Idles
  <2>3. CASE Swap(p)
    BY <1>1, <2>3, SwapKeeps, SwapCases
  <2> QED BY <2>1, <2>2, <2>3
<1>4. \A q \in Programs : ProgramOK(q)'
  BY <1>1, <1>2, <1>3, OthersKeep
<1>5. \A q \in Programs \ {p} : pc'[q] = pc[q] /\ backup'[q] = backup[q]
  BY <1>2 DEF Untouched
<1>6. /\ DataComplete' /\ CleanSafe'
      /\ \A t \in {"data", "dist"} : Kept(t) => Kept(t)'
  BY <1>1, <1>3, <1>5, DirectoryStep
<1>7. ReleasedWhole'
  BY <1>2 DEF WebInv, ReleasedWhole, Untouched
<1>8. \A q \in Stagers \cup Builders : q \in Programs
  BY DEF Programs
<1> QED BY <1>2, <1>4, <1>6, <1>7, <1>8 DEF WebInv, ProgramOK

LEMMA PublishStep ==
  ASSUME WebInv, NEW i \in Releases, Publish(i) \/ Operate(i)
  PROVE  /\ WebInv'
         /\ \A t \in {"data", "dist"} : Kept(t) => Kept(t)'
<1>1. TypeOK /\ TypeOK' /\ ReleasedWhole
  BY PublishTypes DEF WebInv
<1>2. UNCHANGED <<place, pc, chosen, staging, backup, disturbed>>
  BY DEF Publish, Operate, Export, Upload, Record, CrashPublish, Download, DownloadPointer,
         work
<1>3. \A j \in Releases : versions[j] \subseteq versions'[j]
  <2>1. CASE Download(i)
    BY <1>1, <2>1 DEF Download, TypeOK
  <2>2. CASE ~Download(i)
    BY <2>2 DEF Publish, Operate, Export, Upload, Record, CrashPublish, DownloadPointer, root
  <2> QED BY <2>1, <2>2
<1>4. \A j \in Releases : versions[j] = Files => versions'[j] = Files
  <2>1. \A j \in Releases : versions'[j] \subseteq Files
    BY <1>1 DEF TypeOK
  <2> QED BY <1>3, <2>1
<1>5. ReleasedWhole'
  <2>1. CASE Upload(i)
    <3>1. \A j \in Releases : release[j] = Uploads => release'[j] = Uploads
      BY <1>1, <2>1 DEF Upload, TypeOK
    <3> QED BY <1>1, <2>1, <3>1 DEF Upload, ReleasedWhole, TypeOK
  <2>2. CASE Record(i)
    BY <1>1, <2>2 DEF Record, ReleasedWhole
  <2>3. CASE ~Upload(i) /\ ~Record(i)
    BY <1>1, <2>3 DEF Publish, Operate, Export, CrashPublish, Download, DownloadPointer,
                      remote, ReleasedWhole
  <2> QED BY <2>1, <2>2, <2>3
<1>6. \A p \in Programs : KindOK(p)' /\ SpareOK(p)'
  BY <1>2 DEF WebInv, KindOK, SpareOK
<1>7. \A p \in Stagers : StagerOK(p)'
  BY <1>2, <1>4 DEF WebInv, StagerOK
<1>8. \A b \in Builders : BuilderOK(b)'
  BY <1>2 DEF WebInv, BuilderOK
<1>9. DataComplete' /\ CleanSafe' /\ \A t \in {"data", "dist"} : Kept(t) => Kept(t)'
  BY <1>2 DEF WebInv, DataComplete, CleanSafe, Kept
<1> QED BY <1>1, <1>5, <1>6, <1>7, <1>8, <1>9 DEF WebInv

LEMMA EditStep ==
  ASSUME WebInv, Edit
  PROVE  /\ WebInv'
         /\ \A t \in {"data", "dist"} : Kept(t) => Kept(t)'
<1>1. /\ TypeOK' /\ place["data"] # None /\ place'["data"] # None
      /\ place'["dist"] = place["dist"]
      /\ place["data"] \in [Files -> Releases] => place'["data"] \in [Files -> Releases]
  BY EditTypes DEF WebInv
<1>2. UNCHANGED <<release, released, versions, pc, chosen, staging, backup>>
  BY DEF Edit, remote, root, work
<1>3. \A b \in Builders : disturbed'[b] \/ (~disturbed[b] /\ place'["data"] = place["data"])
  BY DisturbTypes DEF Edit, WebInv
<1>4. ReleasedWhole' /\ \A p \in Programs : KindOK(p)' /\ SpareOK(p)'
  BY <1>2 DEF WebInv, ReleasedWhole, KindOK, SpareOK
<1>5. \A p \in Stagers : StagerOK(p)'
  BY <1>2 DEF WebInv, StagerOK
<1>6. ASSUME NEW b \in Builders
      PROVE  BuilderOK(b)'
  <2>1. BuilderOK(b)
    BY DEF WebInv
  <2>2. disturbed'[b] \/ (~disturbed[b] /\ place'["data"] = place["data"])
    BY <1>3
  <2> QED BY <1>2, <2>1, <2>2 DEF BuilderOK
<1>7. DataComplete'
  BY <1>1, <1>2 DEF WebInv, DataComplete
<1>8. CleanSafe'
  BY <1>1, <1>2 DEF WebInv, CleanSafe
<1>9. \A t \in {"data", "dist"} : Kept(t) => Kept(t)'
  BY <1>1, <1>2 DEF Kept
<1> QED BY <1>1, <1>4, <1>5, <1>6, <1>7, <1>8, <1>9 DEF WebInv

-----------------------------------------------------------------------------
(* Theorems *)

LEMMA InitWeb == Init => WebInv
<1> SUFFICES ASSUME Init PROVE WebInv
  OBVIOUS
<1>1. TypeOK
  BY InitTypes
<1>2. \A p \in Programs : pc[p] = "idle" /\ backup[p] = None
  BY DEF Init
<1>3. \A p \in Stagers \cup Builders : p \in Programs
  BY DEF Programs
<1>4. \A p \in Programs : KindOK(p) /\ SpareOK(p)
  BY <1>2 DEF KindOK, SpareOK
<1>5. \A p \in Programs : StagerOK(p) /\ BuilderOK(p)
  BY <1>2 DEF StagerOK, BuilderOK
<1>6. DataComplete /\ CleanSafe /\ ReleasedWhole
  BY <1>2, <1>3 DEF Init, DataComplete, CleanSafe, ReleasedWhole
<1> QED BY <1>1, <1>3, <1>4, <1>5, <1>6 DEF WebInv

LEMMA NextWeb ==
  ASSUME WebInv, [Next]_vars
  PROVE  /\ WebInv'
         /\ \A t \in {"data", "dist"} : Kept(t) => Kept(t)'
<1>1. CASE UNCHANGED vars
  <2>1. UNCHANGED <<release, publisher, released, current, versions, place, lock, pc, chosen,
                    staging, backup, disturbed, edits>>
    BY <1>1 DEF vars, remote, root, work
  <2>2. TypeOK' /\ ReleasedWhole'
    BY <2>1 DEF WebInv, TypeOK, ReleasedWhole
  <2>3. \A p \in Programs : KindOK(p)' /\ SpareOK(p)'
    BY <2>1 DEF WebInv, KindOK, SpareOK
  <2>4. (\A p \in Stagers : StagerOK(p)') /\ (\A b \in Builders : BuilderOK(b)')
    BY <2>1 DEF WebInv, StagerOK, BuilderOK
  <2>5. DataComplete' /\ CleanSafe' /\ \A t \in {"data", "dist"} : Kept(t) => Kept(t)'
    BY <2>1 DEF WebInv, DataComplete, CleanSafe, Kept
  <2> QED BY <2>2, <2>3, <2>4, <2>5 DEF WebInv
<1>2. CASE Next
  BY <1>2, PublishStep, EditStep, ProgramStep DEF Next
<1> QED BY <1>1, <1>2

\* Everything the proofs of the theorems below need, at every moment.
THEOREM WebInvariant == Spec => []WebInv
<1>1. WebInv /\ [Next]_vars => WebInv'
  BY NextWeb
<1> QED BY InitWeb, <1>1, PTL DEF Spec

\* Whatever programs run side by side, fail or are killed, files, directories and
\* programs keep their shape, and publish.lock is of the one trade-export at work.
THEOREM TypesHold == Spec => []TypeOK
<1>1. WebInv => TypeOK
  BY DEF WebInv
<1> QED BY WebInvariant, <1>1, PTL

\* Of a release that a publish.json names, nothing is missing: a publish stage uploads
\* the website last and records the release after it.
THEOREM ReleasesAreWhole == Spec => []ReleasedWhole
<1>1. WebInv => ReleasedWhole
  BY DEF WebInv
<1> QED BY WebInvariant, <1>1, PTL

\* trade-export swaps in one whole snapshot, the one its pointer named, whatever has been
\* downloaded of which release and whatever arrives while it copies.
THEOREM StagedIsWhole == Spec => []StagedWhole
<1>1. WebInv => StagedWhole
  BY DEF WebInv, StagerOK, StagedWhole, All
<1> QED BY WebInvariant, <1>1, PTL

\* A build whose data directory stays as it is puts out one whole snapshot.
THEOREM BuiltIsWhole == Spec => []BuiltWhole
<1>1. WebInv => BuiltWhole
  BY DEF WebInv, BuilderOK, BuiltWhole
<1> QED BY WebInvariant, <1>1, PTL

\* No step of any program, failed rename or kill loses the directory that was in place:
\* it is there or next to it, whoever moved it aside.
THEOREM NothingIsLost == Spec => NothingLost
<1>1. WebInv /\ [Next]_vars => [\A t \in {"data", "dist"} : Kept(t) => Kept(t)']_vars
  BY NextWeb
<1> QED BY WebInvariant, <1>1, PTL DEF Spec, NothingLost

=============================================================================
