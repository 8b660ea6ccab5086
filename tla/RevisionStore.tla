--------------------------- MODULE RevisionStore ----------------------------
(***************************************************************************)
(* What the Raw store promises to whoever reads it, without saying how the *)
(* extract stages achieve it: for every identity a growing list of         *)
(* sources, numbered from 1, each with another content than the one before *)
(* it.  Nothing in the list is ever replaced or removed.                   *)
(***************************************************************************)
EXTENDS Naturals

CONSTANTS Identity,    \* what a source is of
          Content,     \* identities of source contents
          MaxRevision  \* bound on revisions

VARIABLE sources \* sources[i]: the sources of identity i

Source == [revision: 1..MaxRevision, content: Content]

\* Source s is the next one of identity i: the first, or a change to the latest.
Follows(i, s) ==
  /\ \A t \in sources[i] : t.revision < s.revision
  /\ s.revision > 1 => \E t \in sources[i] :
                         t.revision = s.revision - 1 /\ t.content # s.content

Init == sources = [i \in Identity |-> {}]

Add(i) ==
  \E s \in Source : /\ Follows(i, s)
                    /\ sources' = [sources EXCEPT ![i] = @ \cup {s}]

Next == \E i \in Identity : Add(i)

Spec == Init /\ [][Next]_sources

=============================================================================
