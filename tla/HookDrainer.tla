----------------------------- MODULE HookDrainer -----------------------------
(***************************************************************************)
(* The remote drainer of the hook queue: `drain-hooks` is started by the   *)
(* hooks and leaves when the queue has been empty for a while.             *)
(*                                                                         *)
(* A hook publishes its record, then reads worker.pid and starts a drainer *)
(* when it names no live consumer.  The drainer that holds worker.lock     *)
(* removes worker.pid before it looks at the queue for the last time.      *)
(* What it does with a job is the subject of HookQueue; here a job is run  *)
(* and gone.                                                               *)
(***************************************************************************)
EXTENDS Naturals, FiniteSets

CONSTANTS
  Hooks,    \* hook processes; each publishes one record
  Drainers, \* process slots of drain-hooks
  Nobody,   \* no pid in worker.pid, or a lock that is free
  MaxDeaths \* bound: hooks and drainers that die

ASSUME DrainerAssumption ==
  /\ Nobody \notin Drainers /\ Hooks \cap Drainers = {}
  /\ MaxDeaths \in Nat

VARIABLES
  queue,  \* records in queue/, named by their hook
  pidFile, \* worker.pid: the drainer it names
  lock,   \* holder of worker.lock
  pc,     \* where a hook or a drainer is
  orphans, \* records a death left to the next hook
  deaths

vars == <<queue, pidFile, lock, pc, orphans, deaths>>

HookPCs == {"new", "published", "spawn", "gone"}
\* A drainer in one of these holds worker.lock.
HeldPCs == {"recover", "drain", "clear", "rescan", "rewrite", "finish", "unlock"}
DrainerPCs == {"off", "start", "blocked", "wait", "exit"} \cup HeldPCs

Alive    == {d \in Drainers : pc[d] # "off"}
PidAlive == pidFile \in Alive
Goto(q, l) == pc' = [pc EXCEPT ![q] = l]

Init ==
  /\ queue = {} /\ pidFile = Nobody /\ lock = Nobody
  /\ orphans = {} /\ deaths = 0
  /\ pc = [q \in Hooks \cup Drainers |-> IF q \in Hooks THEN "new" ELSE "off"]

-----------------------------------------------------------------------------
(* A hook *)

Publish(h) ==
  /\ pc[h] = "new"
  /\ queue' = queue \cup {h} /\ Goto(h, "published")
  /\ UNCHANGED <<pidFile, lock, orphans, deaths>>

NeedsDrainer == ~PidAlive

MAfterRead == IF NeedsDrainer THEN "start" ELSE "gone"
AfterRead  == IF NeedsDrainer THEN "spawn" ELSE "gone"

\* worker.pid is read again after the publish, never before.
ReadPid(h) ==
  /\ pc[h] = "published"
  /\ Goto(h, AfterRead)
  /\ UNCHANGED <<queue, pidFile, lock, orphans, deaths>>

\* A pid is not used again while worker.pid still names it.
SpawnDrainer(h) ==
  /\ pc[h] = "spawn"
  /\ \E d \in Drainers :
       /\ pc[d] = "off" /\ d # pidFile
       /\ pc' = [pc EXCEPT ![h] = "gone", ![d] = "start"]
  /\ UNCHANGED <<queue, pidFile, lock, orphans, deaths>>

-----------------------------------------------------------------------------
(* A drainer: consume(idle_exit) *)

MLockFree == TRUE
LockFree  == lock = Nobody

\* worker.lock with timeout 0.
TryLock(d) ==
  /\ pc[d] = "start"
  /\ IF LockFree THEN lock' = d /\ Goto(d, "recover")
                 ELSE Goto(d, "blocked") /\ UNCHANGED lock
  /\ UNCHANGED <<queue, pidFile, orphans, deaths>>

\* The lock is taken: leave if its holder is alive, else wait until it lets go.
MLeave == TRUE
Leave  == PidAlive

CheckHolder(d) ==
  /\ pc[d] = "blocked"
  /\ Goto(d, IF Leave THEN "exit" ELSE "wait")
  /\ UNCHANGED <<queue, pidFile, lock, orphans, deaths>>

WaitLock(d) ==
  /\ pc[d] = "wait" /\ LockFree
  /\ lock' = d /\ Goto(d, "recover")
  /\ UNCHANGED <<queue, pidFile, orphans, deaths>>

\* recover_running, then worker.pid; a write that fails is logged.
WritePid(d) ==
  /\ pc[d] \in {"recover", "rewrite"}
  /\ pidFile' \in {d, pidFile} /\ Goto(d, "drain")
  /\ UNCHANGED <<queue, lock, orphans, deaths>>

RunJob(d) ==
  /\ pc[d] = "drain"
  /\ \E h \in queue : queue' = queue \ {h}
  /\ UNCHANGED <<pidFile, lock, pc, orphans, deaths>>

\* Idle long enough.
IdleOver(d) ==
  /\ pc[d] = "drain" /\ queue = {}
  /\ Goto(d, "clear")
  /\ UNCHANGED <<queue, pidFile, lock, orphans, deaths>>

\* _clear_pid removes only its own pid.
ClearOwn(d) == pidFile' = IF pidFile = d THEN Nobody ELSE pidFile

ClearPid(d) ==
  /\ pc[d] \in {"clear", "finish"}
  /\ ClearOwn(d)
  /\ Goto(d, IF pc[d] = "clear" THEN "rescan" ELSE "unlock")
  /\ UNCHANGED <<queue, lock, orphans, deaths>>

MoreJobs  == queue # {}

\* With worker.pid gone, look at the queue once more.
Rescan(d) ==
  /\ pc[d] = "rescan"
  /\ Goto(d, IF MoreJobs THEN "rewrite" ELSE "finish")
  /\ UNCHANGED <<queue, pidFile, lock, orphans, deaths>>

MUnlock(d) ==
  /\ pc[d] = "unlock" /\ Goto(d, "exit")
  /\ UNCHANGED <<queue, pidFile, lock, orphans, deaths>>
Unlock(d) ==
  /\ pc[d] = "unlock"
  /\ lock' = Nobody /\ Goto(d, "exit")
  /\ UNCHANGED <<queue, pidFile, orphans, deaths>>

Exit(d) ==
  /\ pc[d] = "exit" /\ Goto(d, "off")
  /\ UNCHANGED <<queue, pidFile, lock, orphans, deaths>>

\* The operating system releases its lock; worker.pid names a dead process.
Die(d) ==
  /\ pc[d] # "off" /\ deaths < MaxDeaths /\ deaths' = deaths + 1
  /\ Goto(d, "off")
  /\ lock' = IF lock = d THEN Nobody ELSE lock
  /\ orphans' = orphans \cup {h \in queue : pc[h] = "gone"}
  /\ UNCHANGED <<queue, pidFile>>

HookDies(h) ==
  /\ pc[h] \in {"published", "spawn"} /\ deaths < MaxDeaths /\ deaths' = deaths + 1
  /\ Goto(h, "gone")
  /\ orphans' = orphans \cup {h}
  /\ UNCHANGED <<queue, pidFile, lock>>

HookStep(h) == Publish(h) \/ ReadPid(h) \/ SpawnDrainer(h)

DrainerStep(d) ==
  \/ TryLock(d) \/ CheckHolder(d) \/ WaitLock(d) \/ WritePid(d) \/ RunJob(d)
  \/ IdleOver(d) \/ ClearPid(d) \/ Rescan(d) \/ Unlock(d) \/ Exit(d)

Next ==
  \/ \E h \in Hooks : HookStep(h) \/ HookDies(h)
  \/ \E d \in Drainers : DrainerStep(d) \/ Die(d)

Spec == Init /\ [][Next]_vars

\* A hook that published goes on, a drainer that lives is scheduled; nobody has
\* to publish or to die.
Fairness ==
  /\ \A h \in Hooks : WF_vars(ReadPid(h) \/ SpawnDrainer(h))
  /\ \A d \in Drainers : WF_vars(DrainerStep(d))

FairSpec == Spec /\ Fairness

-----------------------------------------------------------------------------
(* Properties *)

\* Every variable has its type.
TypeOK ==
  /\ queue \subseteq Hooks /\ orphans \subseteq Hooks
  /\ pidFile \in Drainers \cup {Nobody} /\ lock \in Drainers \cup {Nobody}
  /\ pc \in [Hooks \cup Drainers -> HookPCs \cup DrainerPCs]
  /\ \A h \in Hooks : pc[h] \in HookPCs
  /\ \A d \in Drainers : pc[d] \in DrainerPCs
  /\ deaths \in Nat

\* "a record published meanwhile is never stranded": while a record waits that
\* no death orphaned, its own hook has yet to look for a drainer, or some
\* drainer has yet to look at the queue.
WillLook == {"start", "blocked", "wait", "recover", "drain", "clear", "rescan",
             "rewrite"}
NeverStranded ==
  \A h \in queue \ orphans :
    pc[h] \in {"published", "spawn"} \/ \E d \in Drainers : pc[d] \in WillLook

\* "One consumer per queue (worker.lock)": two drainers never run jobs at once.
OneConsumer ==
  \A d, e \in Drainers : pc[d] \in HeldPCs /\ pc[e] \in HeldPCs => d = e

\* Without a death every published record is run.
EveryRecordRuns ==
  \A h \in Hooks : h \in queue /\ deaths = 0 ~> h \notin queue \/ deaths > 0

\* The drainers all leave again: none waits for the lock, or for jobs, forever.
DrainersLeave == []<>(Alive = {})
=============================================================================
