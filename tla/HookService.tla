----------------------------- MODULE HookService -----------------------------
(***************************************************************************)
(* What the hook write queue promises, without directories, consumers or   *)
(* retries: a job it has accepted is held until it is in the store, and a  *)
(* job may be held, and stored, again.                                     *)
(***************************************************************************)
CONSTANT Jobs

VARIABLES
  accepted, \* jobs published by a hook, or spilled
  held,     \* jobs of which there is a file
  stored    \* jobs whose phase was written to the store

serviceVars == <<accepted, held, stored>>

ServiceInit ==
  /\ accepted \in SUBSET Jobs
  /\ held = accepted /\ stored = {}

\* Accepting a job and holding it are one step.
Accept(j) ==
  /\ accepted' = accepted \cup {j} /\ held' = held \cup {j}
  /\ UNCHANGED stored

\* Only a held job is stored.
Store(j) ==
  /\ j \in held /\ stored' = stored \cup {j}
  /\ UNCHANGED <<accepted, held>>

Forget(j) ==
  /\ j \in stored /\ held' = held \ {j}
  /\ UNCHANGED <<accepted, stored>>

ServiceNext == \E j \in Jobs : Accept(j) \/ Store(j) \/ Forget(j)

ServiceSpec == ServiceInit /\ [][ServiceNext]_serviceVars
=============================================================================
