----------------------------- MODULE HookRequeue -----------------------------
(***************************************************************************)
(* requeue_dead_hooks beside a running consumer: an operator moves a dead  *)
(* job back to queue/ with a fresh attempt count.  The command takes no    *)
(* lock; it looks, writes the queue copy and unlinks the dead record, and  *)
(* may be interrupted between any two of these.                            *)
(***************************************************************************)
EXTENDS HookQueue

CONSTANT MaxRequeues \* bound: records the operator tries to requeue

VARIABLES
  opPc,    \* "idle", "look", "look running", "write" or "unlink"
  op,      \* the job it handles
  opFree,  \* free retries in the record it read; a requeue keeps them
  requeues

opVars == <<opPc, op, opFree, requeues>>
requeueVars == <<vars, opVars>>

RequeueInit ==
  /\ Init
  /\ opPc = "idle" /\ op = NoJob /\ opFree = 0 /\ requeues = 0

NotFiles == UNCHANGED <<hookVars, spill, payload, running, marker, threadVars,
                        exec, stopVars, storeVars, faultVars>>

\* The record is readable and its payload is there.
OpRead(j) ==
  /\ opPc = "idle" /\ requeues < MaxRequeues
  /\ dead[j] # NoFile /\ j \in payload
  /\ opPc' = "look" /\ op' = j /\ opFree' = dead[j].free
  /\ requeues' = requeues + 1
  /\ UNCHANGED vars

MLooked(next) == op
Looked(next)  == IF next = "idle" THEN NoJob ELSE op

\* A name already in queue/ or in running/ is skipped; the two are looked at
\* one after the other.
OpLook ==
  /\ \/ /\ opPc = "look"
        /\ opPc' = IF queue[op] # NoFile THEN "idle" ELSE "look running"
     \/ /\ opPc = "look running"
        /\ opPc' = IF running[op] # NoFile THEN "idle" ELSE "write"
  /\ op' = Looked(opPc')
  /\ UNCHANGED <<vars, opFree, requeues>>

MRequeued == [attempts |-> MaxAttempts, free |-> opFree]
Requeued  == [attempts |-> 0, free |-> opFree]

OpWrite ==
  /\ opPc = "write" /\ opPc' = "unlink"
  /\ queue' = [queue EXCEPT ![op] = Requeued]
  /\ UNCHANGED dead /\ NotFiles
  /\ UNCHANGED <<op, opFree, requeues>>

OpUnlink ==
  /\ opPc = "unlink" /\ opPc' = "idle" /\ op' = NoJob
  /\ dead' = [dead EXCEPT ![op] = NoFile]
  /\ UNCHANGED queue /\ NotFiles
  /\ UNCHANGED <<opFree, requeues>>

\* The command is interrupted, or a file operation of it fails.
OpDies ==
  /\ opPc # "idle" /\ opPc' = "idle" /\ op' = NoJob
  /\ UNCHANGED <<vars, opFree, requeues>>

OpStep ==
  (\E j \in Jobs : OpRead(j)) \/ OpLook \/ OpWrite \/ OpUnlink \/ OpDies

RequeueNext == (Next /\ UNCHANGED opVars) \/ OpStep

RequeueSpec == RequeueInit /\ [][RequeueNext]_requeueVars

-----------------------------------------------------------------------------
(* Properties: those of HookQueue, and *)

\* Every variable of the command has its type.
OpTypeOK ==
  /\ opPc \in {"idle", "look", "look running", "write", "unlink"}
  /\ op \in IF opPc = "idle" THEN {NoJob} ELSE Jobs
  /\ opFree \in Nat /\ requeues \in Nat

\* With jobs requeued by hand, any number of times, beside the consumer: no job
\* is written twice, unless a stop cut it short (HookQueue's WrittenOnce), and
\* none waits in queue/ without attempts left.
RequeuedSafely == WrittenOnce /\ AttemptsLeft /\ OpTypeOK
=============================================================================
