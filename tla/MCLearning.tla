------------------------------ MODULE MCLearning ------------------------------
(* Small instances of Learning for TLC. *)
EXTENDS Learning, TLC

CONSTANTS c1, c2

Bound(l, s, r, t, f) == [learnings |-> l, saves |-> s, runs |-> r, time |-> t, faults |-> f]

(* Many edits; labels that are learned and rated; a fault, or two; many runs beside edits. *)
Histories == {Bound(2, 2, 0, 0, 0), Bound(2, 0, 1, 1, 0), Bound(2, 1, 0, 0, 1), Bound(1, 0, 0, 0, 2),
              Bound(1, 1, 2, 0, 0)}

Tabs == Permutations(Clients)
=============================================================================
