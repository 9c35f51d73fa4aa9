------------------------------ MODULE RidIssuer ------------------------------
(* What the allocation of relative identifiers promises, whoever asks and       *)
(* however it is implemented: every grant is of RIDs of its store that were     *)
(* never granted before.  RidPool implements it with blocks reserved from a     *)
(* durable counter and spent from memory.                                       *)
EXTENDS Naturals

VARIABLE given     \* how often each grant was given

Init == given = [g \in {} |-> 0]

\* A grant of fresh RIDs; no other grant changes.
Issue ==
  \E g \in DOMAIN given' \ DOMAIN given :
    /\ \A h \in DOMAIN given : h.store = g.store => h.hi <= g.lo \/ g.hi <= h.lo
    /\ given' = [h \in DOMAIN given \cup {g} |-> IF h = g THEN 1 ELSE given[h]]

Spec == Init /\ [][Issue]_given
=============================================================================
