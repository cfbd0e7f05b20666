--------------------------- MODULE DurableMemory ---------------------------
(***************************************************************************)
(* What the memory files promise together with the ledger, whatever steps  *)
(* it takes to write them: a memory is accepted entirely or not at all, a  *)
(* reset takes all memories away at once, and what was taken away never    *)
(* comes back.  `kept` are the memories that the authority on record       *)
(* accepts for the world they speak of, `last` is the newest memory that   *)
(* was ever up for acceptance.                                             *)
(***************************************************************************)
EXTENDS Naturals

VARIABLES kept, last

Init == kept = {} /\ last = 0

\* A new memory is accepted.  A full ledger drops an older one for it, an
\* unreadable one all of them.
Commit ==
    /\ last' > last
    /\ \E m \in kept' : m.id = last' /\ kept' \ {m} \subseteq kept

\* A memory is given up before it is accepted.
Skip ==
    /\ last' > last
    /\ kept' \subseteq kept

\* The authority is renounced: nothing that it accepted is accepted again.
Renounce == kept' = {} /\ UNCHANGED last

\* Without a key there is no authority to renounce, files go one by one.
Remove(m) == kept' = kept \ {m} /\ UNCHANGED last

Next ==
    \/ Commit
    \/ Skip
    \/ Renounce
    \/ \E m \in kept : Remove(m)

Spec == Init /\ [][Next]_<<kept, last>>

=============================================================================
