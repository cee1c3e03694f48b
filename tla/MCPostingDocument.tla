------------------------- MODULE MCPostingDocument -------------------------
(* Values for PostingDocument small enough for TLC. *)
EXTENDS PostingDocument, TLC

CONSTANTS a, b, zero   \* two lines that post, one that does not

Symmetry == Permutations(Requests) \cup Permutations({a, b})

=============================================================================
