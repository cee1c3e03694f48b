---------------------------- MODULE MCMailQueue ----------------------------
(* MailQueue with the values of the configurations. *)
EXTENDS MailQueue, TLC

Symmetry == Permutations(Messages) \cup Permutations(Calls)

=============================================================================
