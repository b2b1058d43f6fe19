--------------------------- MODULE MCCaptureLedger ---------------------------
(* Small instances of CaptureLedger for TLC. *)
EXTENDS CaptureLedger, TLC

Symmetry == Permutations(Hooks) \cup Permutations(Workers)
              \cup Permutations(Ids) \cup Permutations(Paths)
=============================================================================
