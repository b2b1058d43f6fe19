---------------------------- MODULE CaptureService ----------------------------
(***************************************************************************)
(* What the capture queue promises, without hooks, workers, locks or       *)
(* files: once the end of a session is acknowledged the service keeps a    *)
(* pledge for its transcript, and gives the pledge up only when it has     *)
(* captured the transcript as far as it was acknowledged.                  *)
(***************************************************************************)
EXTENDS Naturals

CONSTANT Paths

VARIABLES
  owed,     \* length of each transcript when its session last ended
  captured, \* how much of it is in the memory store
  pledged   \* transcripts the service still holds an event for

serviceVars == <<owed, captured, pledged>>

ServiceInit ==
  /\ owed = [p \in Paths |-> 0] /\ captured = [p \in Paths |-> 0]
  /\ pledged = {}

End(p) ==
  /\ owed' = [owed EXCEPT ![p] = owed'[p]] /\ owed'[p] >= owed[p]
  /\ pledged' = pledged \cup {p}
  /\ UNCHANGED captured

\* A capture only goes forward.
Capture(p) ==
  /\ captured' = [captured EXCEPT ![p] = captured'[p]]
  /\ captured'[p] > captured[p]
  /\ p \in pledged
  /\ UNCHANGED <<owed, pledged>>

\* An event already dealt with may come back: a duplicate costs nothing.
Renew(p) ==
  /\ pledged' = pledged \cup {p}
  /\ UNCHANGED <<owed, captured>>

Settle(p) ==
  /\ captured[p] >= owed[p]
  /\ pledged' = pledged \ {p}
  /\ UNCHANGED <<owed, captured>>

ServiceNext == \E p \in Paths : End(p) \/ Capture(p) \/ Renew(p) \/ Settle(p)

ServiceSpec == ServiceInit /\ [][ServiceNext]_serviceVars
=============================================================================
