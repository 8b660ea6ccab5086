------------------------------ MODULE RawTable ------------------------------
(***************************************************************************)
(* What the Raw warehouse promises to the rest of the pipeline, without    *)
(* saying how the loader achieves it.  A source partition (one month, one  *)
(* query type, one reporter and product) serves one whole accepted source  *)
(* at a time, a batch replaces partitions only by newer revisions, and the *)
(* audit log gains exactly the sources that the same transaction installs. *)
(***************************************************************************)
EXTENDS Naturals

CONSTANTS Key,         \* the source partitions
          Checksum,    \* identities of source contents
          MaxRevision, \* bound on the revisions considered
          NoVersion    \* what an empty partition serves

VARIABLES current, \* current[k]: the source version partition k serves
          log      \* the audit rows [key, revision, checksum]

vars == <<current, log>>

Version == [revision: 1..MaxRevision, checksum: Checksum]

AuditRow(k, v) == [key |-> k, revision |-> v.revision, checksum |-> v.checksum]

Newer(v, old) == old = NoVersion \/ v.revision > old.revision

Init ==
  /\ current = [k \in Key |-> NoVersion]
  /\ log = {}

\* The partitions that a step gives another source.
Changed == {k \in Key : current'[k] # current[k]}

(***************************************************************************)
(* One committed load transaction: every partition it changes is replaced  *)
(* by a newer source and leaves one audit row; nothing else changes.       *)
(***************************************************************************)
Replace ==
  /\ Changed # {}
  /\ current' = [k \in Key |-> current'[k]]
  /\ \A k \in Changed : current'[k] \in Version /\ Newer(current'[k], current[k])
  /\ log' = log \cup {AuditRow(k, current'[k]) : k \in Changed}

Next == Replace

Spec == Init /\ [][Next]_vars

=============================================================================
