---------------------------- MODULE MCLifecycle ----------------------------
EXTENDS LifecycleProperties, TLC
CONSTANTS c1, c2, p1, p2, f1, f2, x1, x2, d1, d2, plain, elevated

OwnFiles == [p \in Projects |-> {IF p = p1 THEN f1 ELSE f2}]
SharedFiles == [p \in Projects |-> Files]
OwnDirs == [p \in Projects |-> IF p = p1 THEN d1 ELSE d2]
OneDir == [p \in Projects |-> d1]
(* An elevated process reads every command line of the account. *)
Elevation == [r \in Rights |-> IF r = elevated THEN Rights ELSE {r}]
Symmetry == Permutations(Coordinators) \cup Permutations(Pids)
=============================================================================
