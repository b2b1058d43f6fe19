--------------------------- MODULE MCCaptureRelease ---------------------------
(* Small instances of CaptureRelease for TLC. *)
EXTENDS CaptureRelease, TLC

Symmetry == Permutations(Hooks) \cup Permutations(Workers) \cup Permutations(Ids)

\* Every process was started with the same hold setting: the run explores
\* only such states (CONSTRAINT).
SameHold == \E b \in BOOLEAN : \A q \in Hooks : hold[q] = b

\* The steps that keep it so (ACTION_CONSTRAINT): drain and an unforced release-held have it too.
\* With the hold off nothing fails: one death there opens the gap release_gap shows.
KeepsHold ==
  \A q \in Hooks :
    /\ \A w \in Workers : pc[w] = "off" /\ pc'[w] # "off" => hold'[w] = hold[q]
    /\ op.pc = "idle" /\ op'.pc = "snapshot" /\ hold[q] => op'.force
    /\ faults' # faults => hold[q]
=============================================================================
