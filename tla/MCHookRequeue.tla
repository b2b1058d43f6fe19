----------------------------- MODULE MCHookRequeue -----------------------------
(* Small instances of HookRequeue for TLC. *)
EXTENDS HookRequeue, TLC

Symmetry == Permutations(Jobs) \cup Permutations(Sessions)
=============================================================================
