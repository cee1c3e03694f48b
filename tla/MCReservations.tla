--------------------------- MODULE MCReservations ---------------------------
(* Values for Reservations small enough for TLC. *)
EXTENDS Reservations, TLC

CONSTANTS
  a, b, c,   \* three lines, of one unit each:
  here,      \* a and b reserve of this pair, whose stock comes and goes,
  there      \* c of this one

MCPairs == {here, there}
MCLines == {a, b, c}
MCAt == (a :> here) @@ (b :> here) @@ (c :> there)
MCQuantity == [l \in MCLines |-> 1]
MCStock == (here :> {0, 1}) @@ (there :> {1})
SteadyStock == [x \in MCPairs |-> {1}]

\* a and b reserve as much of the same pair.
Symmetry ==
  Permutations(Requests) \cup Permutations(Reservations) \cup Permutations({a, b})

=============================================================================
