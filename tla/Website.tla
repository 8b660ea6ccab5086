------------------------------ MODULE Website -------------------------------
(***************************************************************************)
(* From a publish stage to the website.                                    *)
(*                                                                         *)
(* A publish stage exports a snapshot in a workspace of its own, uploads   *)
(* its files one by one under a fresh release and records it last.  The    *)
(* operator downloads a recorded release, file by file, to a snapshot root *)
(* of their host; trade-export verifies the root's current snapshot and    *)
(* swaps it into the website's data directory; build.mjs verifies the data *)
(* directory and swaps a copy of it into dist.  Downloads and programs are *)
(* interrupted anywhere, run side by side, and meet what others have left. *)
(***************************************************************************)
EXTENDS Naturals, FiniteSets

CONSTANTS Releases,  \* executions of publish, and the snapshot each one exports
          Stagers,   \* executions of trade-export --stage-data
          Builders,  \* executions of build.mjs
          DataFiles, \* the data files of a snapshot, next to its manifest
          None,      \* no file, no directory, no pointer, no process
          MaxEdits   \* bound on the changes by hand to the data directory

Files == DataFiles \cup {"manifest"}

\* What a release consists of: the snapshot, the pointer to it and the website.
Uploads == Files \cup {"current", "website"}

Programs == Stagers \cup Builders

\* A directory: which snapshot each file is of, if it is there.
Dir == [Files -> Releases \cup {None}]

ASSUME WebsiteAssumption ==
  /\ Stagers \cap Builders = {}
  /\ None \notin Programs \cup Releases \cup Dir
  /\ {"manifest", "current", "website"} \cap DataFiles = {}
  /\ MaxEdits \in Nat

VARIABLES release,   \* release[i]: the files of release i in S3
          publisher, \* publisher[i]: what publish execution i is doing
          released,  \* the releases that a publish.json has named
          current,   \* current.json of the snapshot root
          versions,  \* versions[i]: the files of snapshot i in the snapshot root
          place,     \* the directories "data" and "dist": which snapshot each file is of
          lock,      \* publish.lock: the stager that holds it
          pc,        \* pc[p]: what program p does next
          chosen,    \* chosen[p]: the snapshot p has read the pointer or manifest of
          staging,   \* staging[p]: the temporary directory of p
          backup,    \* backup[p]: what p has moved aside
          disturbed, \* whether the data directory changed during a build (history)
          edits      \* changes by hand so far (bound)

remote == <<release, publisher, released>>
root == <<current, versions>>
work == <<chosen, staging, backup>>
vars == <<remote, root, place, lock, pc, work, disturbed, edits>>

Target(p) == IF p \in Builders THEN "dist" ELSE "data"

Empty == [f \in Files |-> None]

\* A directory that holds all files of one snapshot.
Whole(d) == \E i \in Releases : d = [f \in Files |-> i]

Goto(p, label) == pc' = [pc EXCEPT ![p] = label]

Init ==
  /\ release = [i \in Releases |-> {}]
  /\ publisher = [i \in Releases |-> "idle"]
  /\ released = {}
  /\ current = None
  /\ versions = [i \in Releases |-> {}]
  /\ place = [t \in {"data", "dist"} |-> None]
  /\ lock = None
  /\ pc = [p \in Programs |-> "idle"]
  /\ chosen = [p \in Programs |-> None]
  /\ staging = [p \in Programs |-> None]
  /\ backup = [p \in Programs |-> None]
  /\ disturbed = [b \in Builders |-> FALSE]
  /\ edits = 0

-----------------------------------------------------------------------------
(* publish *)

\* The snapshot is written, staged and built in a temporary directory.
Export(i) ==
  /\ publisher[i] = "idle"
  /\ publisher' = [publisher EXCEPT ![i] = "upload"]
  /\ UNCHANGED <<release, released, root, place, lock, pc, work, disturbed, edits>>

Upload(i) ==
  /\ publisher[i] = "upload"
  /\ \E f \in Uploads \ release[i] :
       /\ f = "website" => Uploads \ release[i] = {"website"}
       /\ release' = [release EXCEPT ![i] = @ \cup {f}]
  /\ UNCHANGED <<publisher, released, root, place, lock, pc, work, disturbed, edits>>

\* Mutant: the release is recorded before its website is uploaded.
RecordSnapshot(i) ==
  /\ publisher[i] = "upload"
  /\ Files \cup {"current"} \subseteq release[i]
  /\ publisher' = [publisher EXCEPT ![i] = "done"]
  /\ released' = released \cup {i}
  /\ UNCHANGED <<release, root, place, lock, pc, work, disturbed, edits>>

\* publish.json is written.
Record(i) ==
  /\ publisher[i] = "upload"
  /\ release[i] = Uploads
  /\ publisher' = [publisher EXCEPT ![i] = "done"]
  /\ released' = released \cup {i}
  /\ UNCHANGED <<release, root, place, lock, pc, work, disturbed, edits>>

CrashPublish(i) ==
  /\ publisher[i] = "upload"
  /\ publisher' = [publisher EXCEPT ![i] = "dead"]
  /\ UNCHANGED <<release, released, root, place, lock, pc, work, disturbed, edits>>

-----------------------------------------------------------------------------
(* The operator *)

\* aws s3 cp --recursive: the files of a recorded release arrive in any order, and
\* perhaps not all of them.
Download(i) ==
  /\ i \in released
  /\ \E f \in (release[i] \cap Files) \ versions[i] :
       versions' = [versions EXCEPT ![i] = @ \cup {f}]
  /\ UNCHANGED <<remote, current, place, lock, pc, work, disturbed, edits>>

DownloadPointer(i) ==
  /\ i \in released
  /\ "current" \in release[i]
  /\ current' = i
  /\ UNCHANGED <<remote, versions, place, lock, pc, work, disturbed, edits>>

\* A build is disturbed by what changes its data directory.
Disturb ==
  disturbed' = [b \in Builders |-> disturbed[b] \/ place'["data"] # place["data"]]

\* A file of another snapshot is copied over by hand.
Edit ==
  /\ place["data"] # None
  /\ edits < MaxEdits
  /\ edits' = edits + 1
  /\ \E f \in Files, i \in released : place' = [place EXCEPT !["data"][f] = i]
  /\ Disturb
  /\ UNCHANGED <<remote, root, lock, pc, work>>

-----------------------------------------------------------------------------
(* trade-export: writer_lock, verify_v2, stage_snapshot *)

Lock(p) ==
  /\ p \in Stagers
  /\ pc[p] = "idle"
  /\ lock = None
  /\ lock' = p
  /\ Goto(p, "pointer")
  /\ UNCHANGED <<remote, root, place, work, disturbed, edits>>

Busy(p) ==
  /\ p \in Stagers
  /\ pc[p] = "idle"
  /\ lock # None
  /\ Goto(p, "failed")
  /\ UNCHANGED <<remote, root, place, lock, work, disturbed, edits>>

ReadPointer(p) ==
  /\ pc[p] = "pointer"
  /\ current # None
  /\ chosen' = [chosen EXCEPT ![p] = current]
  /\ Goto(p, "verify")
  /\ UNCHANGED <<remote, root, place, lock, staging, backup, disturbed, edits>>

\* Mutant: only the manifest is verified; a missing file is left out of the copy.
VerifyManifest(p) ==
  /\ pc[p] = "verify"
  /\ "manifest" \in versions[chosen[p]]
  /\ staging' = [staging EXCEPT ![p] = Empty]
  /\ Goto(p, "copy")
  /\ UNCHANGED <<remote, root, place, lock, chosen, backup, disturbed, edits>>

\* Every file is there and is the one the manifest describes.
Verify(p) ==
  /\ pc[p] = "verify"
  /\ versions[chosen[p]] = Files
  /\ staging' = [staging EXCEPT ![p] = Empty]
  /\ Goto(p, "copy")
  /\ UNCHANGED <<remote, root, place, lock, chosen, backup, disturbed, edits>>

Copy(p) ==
  /\ pc[p] = "copy"
  /\ \E f \in versions[chosen[p]] :
       /\ staging[p][f] = None
       /\ staging' = [staging EXCEPT ![p][f] = chosen[p]]
  /\ UNCHANGED <<remote, root, place, lock, pc, chosen, backup, disturbed, edits>>

Copied(p) ==
  /\ pc[p] = "copy"
  /\ \A f \in versions[chosen[p]] : staging[p][f] # None
  /\ Goto(p, "aside")
  /\ UNCHANGED <<remote, root, place, lock, work, disturbed, edits>>

-----------------------------------------------------------------------------
(* build.mjs: reads the data directory to verify it, and again to copy it *)

ReadManifest(b) ==
  /\ b \in Builders
  /\ pc[b] = "idle"
  /\ place["data"] # None
  /\ chosen' = [chosen EXCEPT ![b] = place["data"]["manifest"]]
  /\ disturbed' = [disturbed EXCEPT ![b] = FALSE]
  /\ Goto(b, "check")
  /\ UNCHANGED <<remote, root, place, lock, staging, backup, edits>>

\* Mutant: the files are read without comparing their snapshot with the manifest's.
CheckPresent(b) ==
  /\ pc[b] = "check"
  /\ place["data"] # None
  /\ \A f \in DataFiles : place["data"][f] # None
  /\ Goto(b, "list")
  /\ UNCHANGED <<remote, root, place, lock, work, disturbed, edits>>

Check(b) ==
  /\ pc[b] = "check"
  /\ place["data"] # None
  /\ \A f \in DataFiles : place["data"][f] = chosen[b]
  /\ Goto(b, "list")
  /\ UNCHANGED <<remote, root, place, lock, work, disturbed, edits>>

\* cp copies what public/ lists: no data directory is no error.
ListPublic(b) ==
  /\ pc[b] = "list"
  /\ staging' = [staging EXCEPT ![b] = Empty]
  /\ Goto(b, IF place["data"] = None THEN "aside" ELSE "public")
  /\ UNCHANGED <<remote, root, place, lock, chosen, backup, disturbed, edits>>

CopyPublic(b) ==
  /\ pc[b] = "public"
  /\ place["data"] # None
  /\ \E f \in Files :
       /\ staging[b][f] = None
       /\ staging' = [staging EXCEPT ![b][f] = place["data"][f]]
       /\ Goto(b, IF \A g \in Files \ {f} : staging[b][g] # None THEN "aside" ELSE "public")
  /\ UNCHANGED <<remote, root, place, lock, chosen, backup, disturbed, edits>>

-----------------------------------------------------------------------------
(* The swap, of stage_snapshot and of build.mjs *)

MoveAside(p) ==
  /\ pc[p] = "aside"
  /\ backup' = [backup EXCEPT ![p] = place[Target(p)]]
  /\ place' = [place EXCEPT ![Target(p)] = None]
  /\ Goto(p, "install")
  /\ Disturb
  /\ UNCHANGED <<remote, root, lock, chosen, staging, edits>>

Install(p) ==
  /\ pc[p] = "install"
  /\ place[Target(p)] = None
  /\ place' = [place EXCEPT ![Target(p)] = staging[p]]
  /\ staging' = [staging EXCEPT ![p] = None]
  /\ Goto(p, "clean")
  /\ Disturb
  /\ UNCHANGED <<remote, root, lock, chosen, backup, edits>>

InstallFails(p) ==
  /\ pc[p] = "install"
  /\ Goto(p, "restore")
  /\ UNCHANGED <<remote, root, place, lock, work, disturbed, edits>>

Restore(p) ==
  /\ pc[p] = "restore"
  /\ backup[p] # None
  /\ place[Target(p)] = None
  /\ place' = [place EXCEPT ![Target(p)] = backup[p]]
  /\ backup' = [backup EXCEPT ![p] = None]
  /\ Goto(p, "abort")
  /\ Disturb
  /\ UNCHANGED <<remote, root, lock, chosen, staging, edits>>

\* There is nothing to restore, or restoring fails as well.
NotRestored(p) ==
  /\ pc[p] = "restore"
  /\ Goto(p, "abort")
  /\ UNCHANGED <<remote, root, place, lock, work, disturbed, edits>>

\* The process ends: its temporary directory is removed and its lock is free.
End(p, label) ==
  /\ staging' = [staging EXCEPT ![p] = None]
  /\ lock' = IF lock = p THEN None ELSE lock
  /\ Goto(p, label)

\* Mutant: the backup is removed whatever happened.
CleanAll(p) ==
  /\ pc[p] \in {"clean", "abort"}
  /\ backup' = [backup EXCEPT ![p] = None]
  /\ End(p, IF pc[p] = "clean" THEN "done" ELSE "failed")
  /\ UNCHANGED <<remote, root, place, chosen, disturbed, edits>>

\* stage_snapshot keeps the backup while there is no destination, build.mjs removes it
\* only after it has installed.
Clean(p) ==
  /\ pc[p] \in {"clean", "abort"}
  /\ LET spare == IF p \in Builders THEN pc[p] = "clean" ELSE place["data"] # None IN
     backup' = IF spare THEN [backup EXCEPT ![p] = None] ELSE backup
  /\ End(p, IF pc[p] = "clean" THEN "done" ELSE "failed")
  /\ UNCHANGED <<remote, root, place, chosen, disturbed, edits>>

Busied == {"pointer", "verify", "copy", "check", "list", "public", "aside"}

\* Mutant: the lock outlives the program.
FailLocked(p) ==
  /\ pc[p] \in Busied
  /\ staging' = [staging EXCEPT ![p] = None]
  /\ Goto(p, "failed")
  /\ UNCHANGED <<remote, root, place, lock, chosen, backup, disturbed, edits>>

\* Verification, a copy or the first rename fails.
Fail(p) ==
  /\ pc[p] \in Busied
  /\ End(p, "failed")
  /\ UNCHANGED <<remote, root, place, chosen, backup, disturbed, edits>>

Active == Busied \cup {"install", "restore", "clean", "abort"}

\* The process is killed: directories stay as they are, the kernel frees the lock.
Crash(p) ==
  /\ pc[p] \in Active
  /\ lock' = IF lock = p THEN None ELSE lock
  /\ Goto(p, "dead")
  /\ UNCHANGED <<remote, root, place, work, disturbed, edits>>

-----------------------------------------------------------------------------
Publish(i) == Export(i) \/ Upload(i) \/ Record(i) \/ CrashPublish(i)

Operate(i) == Download(i) \/ DownloadPointer(i)

Stage(p) == Lock(p) \/ Busy(p) \/ ReadPointer(p) \/ Verify(p) \/ Copy(p) \/ Copied(p)

Build(b) == ReadManifest(b) \/ Check(b) \/ ListPublic(b) \/ CopyPublic(b)

Swap(p) ==
  \/ MoveAside(p) \/ Install(p) \/ InstallFails(p) \/ Restore(p) \/ NotRestored(p)
  \/ Clean(p) \/ Fail(p) \/ Crash(p)

Next ==
  \/ \E i \in Releases : Publish(i) \/ Operate(i)
  \/ Edit
  \/ \E p \in Programs : Stage(p) \/ Build(p) \/ Swap(p)

Spec == Init /\ [][Next]_vars

-----------------------------------------------------------------------------
\* Files, directories and programs have the shape the code gives them, and the lock
\* belongs to the one stager at work.
TypeOK ==
  /\ release \in [Releases -> SUBSET Uploads]
  /\ publisher \in [Releases -> {"idle", "upload", "done", "dead"}]
  /\ released \subseteq Releases
  /\ current \in Releases \cup {None}
  /\ versions \in [Releases -> SUBSET Files]
  /\ place \in [{"data", "dist"} -> Dir \cup {None}]
  /\ pc \in [Programs -> Active \cup {"idle", "done", "failed", "dead"}]
  /\ \A p \in Stagers : lock = p <=> pc[p] \in Active
  /\ lock \in Stagers \cup {None}
  /\ chosen \in [Programs -> Releases \cup {None}]
  /\ staging \in [Programs -> Dir \cup {None}]
  /\ backup \in [Programs -> Dir \cup {None}]
  /\ disturbed \in [Builders -> BOOLEAN]
  /\ edits \in 0..MaxEdits

\* A publish.json never names a release of which a file is missing, wherever publish
\* was interrupted.
ReleasedWhole == \A i \in released : release[i] = Uploads

\* Whatever part of which releases has been downloaded when it runs, trade-export
\* swaps in all files of one snapshot, the one the pointer named.
StagedWhole ==
  \A p \in Stagers : pc[p] \in {"aside", "install"} =>
    staging[p] = [f \in Files |-> chosen[p]]

\* A build whose data directory stays as it is puts out one whole snapshot, even if
\* files of several had been mixed by hand before.  It reads the files twice: a
\* directory swapped in between is what "disturbed" excludes.
BuiltWhole ==
  \A b \in Builders : pc[b] \in {"aside", "install"} =>
    disturbed[b] \/ Whole(staging[b])

\* A directory t is in place or next to it, as a backup.
Kept(t) == place[t] # None \/ \E p \in Programs : Target(p) = t /\ backup[p] # None

\* Failing renames and crashes at any step of stage_snapshot or of build.mjs never
\* lose the directory that was there, however many programs swap it.
NothingLost == [][\A t \in {"data", "dist"} : Kept(t) => Kept(t)']_vars

=============================================================================
