------------------------------ MODULE MCHookQueue ------------------------------
(* Small instances of HookQueue for TLC. *)
EXTENDS HookQueue, TLC

Symmetry == Permutations(Jobs) \cup Permutations(Sessions)

\* A run with many kinds of trouble takes any two of them (CONSTRAINT).
AtMostTwo == deaths + stops + errors <= 2
=============================================================================
