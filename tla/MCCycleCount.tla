---------------------------- MODULE MCCycleCount ----------------------------
(* Values for CycleCount small enough for TLC. *)
EXTENDS CycleCount, TLC

Symmetry == Permutations(Requests) \cup Permutations(Lines)

SmallVariances == {-1, 0, 2}

\* One line is short and the other is right; a recorded count finds any of them
\* short, right or in surplus.
SmallSheets == { s \in [Lines -> {-1, 0}] : \E k \in Lines :
                   \A l \in Lines : s[l] = 0 <=> l # k }

=============================================================================
