---------------------------- MODULE MCStateStore ----------------------------
(* Instances of StateStore for TLC. *)
EXTENDS StateStore, TLC

CONSTANTS r1, r2, v1, v2, p1, p2, s1, s2

OneSecond == [p \in Procs |-> s1]
OwnSecond == [p \in Procs |-> IF p = p1 THEN s1 ELSE s2]

Symmetry == Permutations(Repos) \cup Permutations(Values)

==============================================================================
