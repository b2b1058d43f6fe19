----------------------------- MODULE MCHookVariants -----------------------------
(* Three settings of the hook queue in one run, told apart by the jobs that  *)
(* take part, the others staying unpublished: two jobs beside the operator's *)
(* requeue-hooks (r1, r2: the constants of the .cfg); one job, requeued, and *)
(* a stop (r1); three jobs of two sessions on two threads (j1..j3).          *)
EXTENDS HookRequeue, TLC

CONSTANTS j1, j2, j3, r1, r2, s1, s2

VARIABLE active \* the jobs that take part

allVars == <<requeueVars, active>>

Stopped == INSTANCE HookRequeue WITH MaxStops <- 1
Order == INSTANCE HookQueue WITH
  Sessions <- {s1, s2}, Spillable <- {}, Parallel <- 2, QueueMax <- 3

VariantsInit ==
  /\ \/ active \in {{r1, r2}, {r1}} /\ RequeueInit
     \/ /\ active = {j1, j2, j3}
        /\ Order!Init /\ opPc = "idle" /\ op = NoJob /\ opFree = 0 /\ requeues = 0
  /\ \A j \in Jobs \ active : hook[j] = "new" /\ session[j] = s1

VariantsNext ==
  /\ \/ active = {r1, r2} /\ RequeueNext
     \/ active = {r1} /\ Stopped!RequeueNext
     \/ active = {j1, j2, j3} /\ Order!Next /\ UNCHANGED opVars
  /\ \A j \in Jobs \ active : hook'[j] = "new"
  /\ UNCHANGED active

VariantsSpec == VariantsInit /\ [][VariantsNext]_allVars

Symmetry == Permutations({j1, j2, j3})

\* HookQueue's SessionOrder with a second session and a second thread to
\* overtake on.  A requeued record goes to the end with its old stamp.
ThreadsInOrder == [][active = {j1, j2, j3} => StartsInOrder]_allVars
=================================================================================
