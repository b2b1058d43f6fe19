----------------------------- MODULE DaemonProofs -----------------------------
(***************************************************************************)
(* Proofs about components of a running daemon, for every value of their   *)
(* constants: the drainers of the hook queue (HookDrainer), the session    *)
(* state file (TurnState), the legacy queue (LegacyRetirement), the calls  *)
(* of the phases (PhaseCalls), start and stop (DaemonControl) and the      *)
(* memory count of /health (HealthProbe).                                  *)
(***************************************************************************)
EXTENDS HookDrainer, TurnState, LegacyRetirement, PhaseCalls, DaemonControl, HealthProbe, TLAPS

-----------------------------------------------------------------------------
(* HookDrainer: no record is stranded, one consumer at a time. *)

\* A drainer has a place that holds worker.lock exactly while it is the holder.
LockInv == \A d \in Drainers : pc[d] \in HeldPCs <=> lock = d

\* A live drainer that worker.pid names has yet to look at the queue.
PidInv == \A d \in Drainers :
            pidFile = d /\ pc[d] # "off" => pc[d] \in {"drain", "clear"}

\* A queued record was published.
QueueInv == \A h \in queue : pc[h] # "new"

DrainerInv == TypeOK /\ LockInv /\ PidInv /\ QueueInv /\ NeverStranded

\* Nothing is queued and nobody runs at the start.
LEMMA DrainerStart == Init => DrainerInv
BY DrainerAssumption
DEF Init, DrainerInv, TypeOK, LockInv, PidInv, QueueInv, NeverStranded, HookPCs, DrainerPCs, HeldPCs

\* Every variable keeps its type.
LEMMA DrainerType == TypeOK /\ [Next]_vars => TypeOK'
<1> SUFFICES ASSUME TypeOK, [Next]_vars PROVE TypeOK'
  OBVIOUS
<1> USE DrainerAssumption DEF TypeOK, HookPCs, DrainerPCs, HeldPCs, Goto
<1>1. ASSUME NEW h \in Hooks, HookStep(h) \/ HookDies(h) PROVE TypeOK'
  BY <1>1 DEF HookStep, HookDies, Publish, ReadPid, AfterRead, SpawnDrainer
<1>2. ASSUME NEW d \in Drainers, DrainerStep(d) PROVE TypeOK'
  <2>1. CASE TryLock(d) \/ CheckHolder(d) \/ WaitLock(d)
    BY <1>2, <2>1 DEF TryLock, CheckHolder, WaitLock
  <2>2. CASE WritePid(d) \/ RunJob(d) \/ IdleOver(d)
    BY <1>2, <2>2 DEF WritePid, RunJob, IdleOver
  <2>3. CASE ClearPid(d) \/ Rescan(d) \/ Unlock(d) \/ Exit(d)
    BY <1>2, <2>3 DEF ClearPid, ClearOwn, Rescan, Unlock, Exit
  <2> QED
    BY <1>2, <2>1, <2>2, <2>3 DEF DrainerStep
<1>3. ASSUME NEW d \in Drainers, Die(d) PROVE TypeOK'
  BY <1>3 DEF Die
<1>4. CASE UNCHANGED vars
  BY <1>4 DEF vars
<1> QED
  BY <1>1, <1>2, <1>3, <1>4 DEF Next

\* Only a drainer that sees worker.lock free takes it, and its holder frees it.
LEMMA DrainerLock == TypeOK /\ LockInv /\ [Next]_vars => LockInv'
<1> SUFFICES ASSUME TypeOK, LockInv, [Next]_vars PROVE LockInv'
  OBVIOUS
<1> USE DrainerAssumption DEF TypeOK, LockInv, HeldPCs, Goto
<1>1. ASSUME NEW h \in Hooks, HookStep(h) \/ HookDies(h) PROVE LockInv'
  BY <1>1 DEF HookStep, HookDies, Publish, ReadPid, SpawnDrainer
<1>2. ASSUME NEW d \in Drainers, DrainerStep(d) PROVE LockInv'
  <2>1. CASE TryLock(d) \/ CheckHolder(d) \/ WaitLock(d)
    BY <1>2, <2>1 DEF TryLock, CheckHolder, WaitLock, LockFree
  <2>2. CASE WritePid(d) \/ RunJob(d) \/ IdleOver(d)
    BY <1>2, <2>2 DEF WritePid, RunJob, IdleOver
  <2>3. CASE ClearPid(d) \/ Rescan(d) \/ Unlock(d) \/ Exit(d)
    BY <1>2, <2>3 DEF ClearPid, Rescan, Unlock, Exit
  <2> QED
    BY <1>2, <2>1, <2>2, <2>3 DEF DrainerStep
<1>3. ASSUME NEW d \in Drainers, Die(d) PROVE LockInv'
  BY <1>3 DEF Die
<1>4. CASE UNCHANGED vars
  BY <1>4 DEF vars
<1> QED
  BY <1>1, <1>2, <1>3, <1>4 DEF Next

\* worker.pid is written on the way into the drain and removed on the way out.
LEMMA DrainerPid == TypeOK /\ PidInv /\ [Next]_vars => PidInv'
<1> SUFFICES ASSUME TypeOK, PidInv, [Next]_vars PROVE PidInv'
  OBVIOUS
<1> USE DrainerAssumption DEF TypeOK, PidInv, Goto
<1>1. ASSUME NEW h \in Hooks, HookStep(h) \/ HookDies(h) PROVE PidInv'
  BY <1>1 DEF HookStep, HookDies, Publish, ReadPid, SpawnDrainer
<1>2. ASSUME NEW d \in Drainers, DrainerStep(d) PROVE PidInv'
  <2>1. CASE TryLock(d) \/ CheckHolder(d) \/ WaitLock(d)
    BY <1>2, <2>1 DEF TryLock, CheckHolder, WaitLock
  <2>2. CASE WritePid(d) \/ RunJob(d) \/ IdleOver(d)
    BY <1>2, <2>2 DEF WritePid, RunJob, IdleOver
  <2>3. CASE ClearPid(d) \/ Rescan(d) \/ Unlock(d) \/ Exit(d)
    BY <1>2, <2>3 DEF ClearPid, ClearOwn, Rescan, Unlock, Exit
  <2> QED
    BY <1>2, <2>1, <2>2, <2>3 DEF DrainerStep
<1>3. ASSUME NEW d \in Drainers, Die(d) PROVE PidInv'
  BY <1>3 DEF Die
<1>4. CASE UNCHANGED vars
  BY <1>4 DEF vars
<1> QED
  BY <1>1, <1>2, <1>3, <1>4 DEF Next

\* Nothing is queued before it is published.
LEMMA DrainerQueue == TypeOK /\ QueueInv /\ [Next]_vars => QueueInv'
<1> SUFFICES ASSUME TypeOK, QueueInv, [Next]_vars PROVE QueueInv'
  OBVIOUS
<1> USE DrainerAssumption DEF TypeOK, QueueInv, Goto
<1>1. ASSUME NEW h \in Hooks, HookStep(h) \/ HookDies(h) PROVE QueueInv'
  BY <1>1 DEF HookStep, HookDies, Publish, ReadPid, AfterRead, SpawnDrainer
<1>2. ASSUME NEW d \in Drainers, DrainerStep(d) \/ Die(d) PROVE QueueInv'
  <2>1. queue' \subseteq queue /\ \A h \in Hooks : pc'[h] = pc[h]
    BY <1>2 DEF DrainerStep, Die, TryLock, CheckHolder, WaitLock, WritePid, RunJob,
                IdleOver, ClearPid, Rescan, Unlock, Exit
  <2> QED
    BY <2>1
<1>3. CASE UNCHANGED vars
  BY <1>3 DEF vars
<1> QED
  BY <1>1, <1>2, <1>3 DEF Next

\* No step strands a record: whoever decides not to look has seen somebody who
\* will, or an empty queue.
LEMMA DrainerStranded == DrainerInv /\ [Next]_vars => NeverStranded'
<1> SUFFICES ASSUME DrainerInv, [Next]_vars PROVE NeverStranded'
  OBVIOUS
<1> USE DrainerAssumption DEF DrainerInv, TypeOK, NeverStranded, WillLook, Goto
<1>1. ASSUME NEW h \in Hooks, Publish(h) \/ SpawnDrainer(h) \/ HookDies(h)
      PROVE  NeverStranded'
  BY <1>1 DEF Publish, SpawnDrainer, HookDies
<1>2. PidAlive => \E d \in Drainers : pc[d] \in {"drain", "clear"}
  BY DEF PidAlive, Alive, PidInv
<1>3. ASSUME NEW h \in Hooks, ReadPid(h) PROVE NeverStranded'
  BY <1>2, <1>3 DEF ReadPid, AfterRead, NeedsDrainer
<1>4. ASSUME NEW d \in Drainers, CheckHolder(d) PROVE NeverStranded'
  BY <1>2, <1>4 DEF CheckHolder, Leave
<1>5. ASSUME NEW d \in Drainers, TryLock(d) \/ WaitLock(d) \/ WritePid(d) \/ RunJob(d)
      PROVE  NeverStranded'
  BY <1>5 DEF TryLock, WaitLock, WritePid, RunJob
<1>6. ASSUME NEW d \in Drainers, IdleOver(d) \/ ClearPid(d) \/ Unlock(d) \/ Exit(d)
      PROVE  NeverStranded'
  BY <1>6 DEF IdleOver, ClearPid, Unlock, Exit
<1>7. ASSUME NEW d \in Drainers, Rescan(d) PROVE NeverStranded'
  BY <1>7 DEF Rescan, MoreJobs
<1>8. ASSUME NEW d \in Drainers, Die(d) PROVE NeverStranded'
  BY <1>8 DEF Die, QueueInv, HookPCs
<1>9. CASE UNCHANGED vars
  BY <1>9 DEF vars
<1> QED
  BY <1>1, <1>3, <1>4, <1>5, <1>6, <1>7, <1>8, <1>9 DEF Next, HookStep, DrainerStep

\* DrainerInv is an invariant of the drainer.
LEMMA DrainerInvariance == Spec => []DrainerInv
<1>1. DrainerInv /\ [Next]_vars => DrainerInv'
  BY DrainerType, DrainerLock, DrainerPid, DrainerQueue, DrainerStranded DEF DrainerInv
<1> QED
  BY DrainerStart, <1>1, PTL DEF Spec

\* Every reachable state of the drainers is well typed.
THEOREM DrainerTypeCorrect == Spec => []TypeOK
BY DrainerInvariance, PTL DEF DrainerInv

\* However many hooks and drainers race, a record that no death left behind is
\* seen by its own hook or by a drainer that has yet to look at the queue.
THEOREM NeverStrandedAlways == Spec => []NeverStranded
BY DrainerInvariance, PTL DEF DrainerInv

\* worker.lock admits one consumer at a time.
THEOREM OneConsumerAlways == Spec => []OneConsumer
<1>1. DrainerInv => OneConsumer
  BY DEF DrainerInv, LockInv, OneConsumer
<1> QED
  BY DrainerInvariance, <1>1, PTL

-----------------------------------------------------------------------------
(* TurnState: a response is paired with its prompt. *)

InTurn == {"starting", "loading", "captured", "asked", "engine", "answering"}
Slot   == [at : {"off", "loaded"}, copy : States]
Queued == {jobs[i] : i \in DOMAIN jobs}

TurnTypeInv ==
  /\ file \in States /\ turn \in Prompts
  /\ hook \in {"none", "over"} \cup InTurn
  /\ hook \in InTurn => turn \in 1..Turns
  /\ work \in [Holders -> Slot]
  /\ jobs \in Seq(Jobs)
  /\ captured \subseteq 1..turn

\* While the agent answers the jobs are observes of this turn; a queued distill has the
\* prompt of its turn pinned, and its turn is the last one.
JobsInv ==
  /\ hook \in InTurn \ {"answering"} => jobs = <<>>
  /\ \A job \in Queued : job.phase = "distill" =>
       /\ hook \notin InTurn /\ job.turn = turn
       /\ turn \in captured => job.pin = turn
  /\ Holding(Consumer) => jobs # <<>>

\* Nobody else holds the file until the prompt is captured; then only the readers and
\* the jobs of this turn do.
HoldersInv ==
  /\ hook \in {"starting", "loading"} =>
       turn \notin captured /\ \A h \in Holders \ {Hook} : ~Holding(h)
  /\ hook \in InTurn => ~Holding(Orient)
  /\ \A k \in 1..Turns : Holding(Reader(k)) => k = turn

\* The hook has its copy from its load until the phase is over, and captures on the way.
CopyInv ==
  /\ hook \in {"loading", "captured", "asked", "engine"} =>
       Holding(Hook) /\ work[Hook].copy.there
  /\ hook \in {"captured", "asked", "engine"} => turn \in captured

\* From the capture to the pin the file and every loaded copy of it have the prompt.
PromptInv ==
  turn \in captured /\ hook \in InTurn =>
    /\ file.there /\ file.prompt = turn
    /\ \A h \in Holders : Holding(h) => work[h].copy.there /\ work[h].copy.prompt = turn

\* What was ingested is of an earlier turn while a prompt is answered.
PairsInv ==
  \A pair \in pairs :
    /\ pair[2] \in 0..turn
    /\ hook \in InTurn => pair[2] # turn
    /\ pair[2] \in captured => pair[1] = pair[2]

TurnInv == TurnTypeInv /\ JobsInv /\ HoldersInv /\ CopyInv /\ PromptInv /\ PairsInv

\* The holders of a loaded state are told apart.
LEMMA HoldersAre ==
  /\ Hook \in Holders /\ Orient \in Holders /\ Consumer \in Holders
  /\ Hook # Orient /\ Hook # Consumer /\ Orient # Consumer
  /\ \A k \in 1..Turns : Reader(k) \in Holders \ {Hook, Orient, Consumer}
  /\ \A j, k \in 1..Turns : Reader(j) = Reader(k) => j = k
  BY DEF Holders, Hook, Orient, Consumer, Reader

\* A file that is not there reads as a fresh state.
LEMMA FreshIs == NoFile \in States /\ Fresh \in States /\ Fresh.there
<1>1. NoPrompt \in Prompts
  BY TurnAssumption DEF NoPrompt, Prompts
<1>2. NoFile \in States
  BY <1>1 DEF NoFile, States
<1>3. Fresh \in States /\ Fresh.there
  BY <1>2 DEF Fresh, States
<1> QED
  BY <1>2, <1>3

\* A load changes one holder, which has the file then.
LEMMA LoadEffect ==
  ASSUME work \in [Holders -> Slot], file \in States, NEW h \in Holders, Load(h)
  PROVE  /\ work' \in [Holders -> Slot] /\ Holding(h)'
         /\ work'[h].copy.there /\ (file.there => work'[h].copy = file)
         /\ \A g \in Holders \ {h} : work'[g] = work[g]
<1>1. Loaded \in States /\ Loaded.there /\ (file.there => Loaded = file)
  BY FreshIs DEF Loaded
<1>2. [at |-> "loaded", copy |-> Loaded] \in Slot
  BY <1>1 DEF Slot
<1>3. work'[h] = [at |-> "loaded", copy |-> Loaded]
  BY DEF Load
<1>4. work' \in [Holders -> Slot] /\ \A g \in Holders \ {h} : work'[g] = work[g]
  BY <1>2 DEF Load
<1> QED
  BY <1>1, <1>3, <1>4 DEF Holding

\* A save or an exit lets go of one copy.
LEMMA DropEffect ==
  ASSUME work \in [Holders -> Slot], NEW h \in Holders, Drop(h)
  PROVE  /\ work' \in [Holders -> Slot] /\ ~Holding(h)'
         /\ \A g \in Holders \ {h} : work'[g] = work[g]
<1>1. Idle \in Slot /\ Idle.at = "off"
  BY FreshIs DEF Idle, Slot
<1>2. work'[h] = Idle
  BY DEF Drop
<1>3. work' \in [Holders -> Slot] /\ \A g \in Holders \ {h} : work'[g] = work[g]
  BY <1>1 DEF Drop
<1> QED
  BY <1>1, <1>2, <1>3 DEF Holding

\* A recall leaves the prompt of its turn in its copy.
LEMMA RecallEffect ==
  ASSUME NEW copy \in States, NEW k \in Prompts, NEW s \in AfterRecall(copy, k)
  PROVE  s \in States /\ s.prompt = k /\ s.there = copy.there
<1>1. PICK r \in {copy.recalled, k} : s = [copy EXCEPT !.prompt = k, !.recalled = r]
  BY DEF AfterRecall
<1>2. copy.recalled \in Prompts /\ copy \in [prompt : Prompts, recalled : Prompts, there : BOOLEAN]
  BY DEF States
<1> QED
  BY <1>1, <1>2 DEF States

\* A job that is done leaves the others in the queue.
LEMMA TailEffect ==
  ASSUME jobs \in Seq(Jobs), jobs # <<>>, jobs' = Tail(jobs)
  PROVE  /\ jobs' \in Seq(Jobs) /\ Queued' \subseteq Queued
         /\ Head(jobs) \in Queued /\ Head(jobs) \in Jobs
<1>1. \A i \in DOMAIN jobs' : i + 1 \in DOMAIN jobs /\ jobs'[i] = jobs[i + 1]
  OBVIOUS
<1>2. Head(jobs) = jobs[1] /\ 1 \in DOMAIN jobs
  OBVIOUS
<1>3. jobs' \in Seq(Jobs) /\ Head(jobs) \in Jobs
  OBVIOUS
<1> QED
  BY <1>1, <1>2, <1>3 DEF Queued

\* A new job joins the others.
LEMMA AppendEffect ==
  ASSUME jobs \in Seq(Jobs), NEW job \in Jobs, jobs' = Append(jobs, job)
  PROVE  jobs' \in Seq(Jobs) /\ jobs' # <<>> /\ Queued' \subseteq Queued \cup {job}
<1>1. \A i \in DOMAIN jobs' : jobs'[i] = job \/ (i \in DOMAIN jobs /\ jobs'[i] = jobs[i])
  OBVIOUS
<1>2. jobs' \in Seq(Jobs) /\ jobs' # <<>>
  OBVIOUS
<1> QED
  BY <1>1, <1>2 DEF Queued

\* Every variable keeps its type.
LEMMA TurnTypeStep == TurnTypeInv /\ JobsInv /\ [TurnNext]_turnVars => TurnTypeInv'
<1> SUFFICES ASSUME TurnTypeInv, JobsInv, [TurnNext]_turnVars PROVE TurnTypeInv'
  OBVIOUS
<1> USE HoldersAre
<1>0. Turns \in Nat /\ Prompts = 0..Turns
  BY TurnAssumption DEF Prompts
<1>1. CASE StartSession \/ OrientSaves
  <2>1. Fresh \in States
    BY FreshIs
  <2>2. CASE StartSession
    <3>1. work' \in [Holders -> Slot]
      BY <2>2, LoadEffect DEF StartSession, TurnTypeInv
    <3> QED
      BY <2>2, <3>1 DEF StartSession, TurnTypeInv, InTurn
  <2>3. CASE OrientSaves
    <3>1. work' \in [Holders -> Slot]
      BY <2>3, DropEffect DEF OrientSaves, Save, TurnTypeInv
    <3> QED
      BY <2>1, <2>3, <3>1 DEF OrientSaves, Save, TurnTypeInv, InTurn
  <2> QED
    BY <1>1, <2>2, <2>3
<1>2. CASE Prompt
  BY <1>0, <1>2 DEF Prompt, TurnTypeInv, InTurn
<1>3. CASE HookLoads \/ AskDaemon \/ RunInProcess \/ HookReturns
  <2>1. work' \in [Holders -> Slot]
    BY <1>3, LoadEffect, DropEffect
    DEF HookLoads, AskDaemon, RunInProcess, HookReturns, TurnTypeInv, InTurn
  <2> QED
    BY <1>3, <2>1 DEF HookLoads, AskDaemon, RunInProcess, HookReturns, TurnTypeInv, InTurn
<1>4. CASE CapturePrompt
  <2>1. work[Hook] \in Slot /\ turn \in 1..Turns /\ turn \in Prompts
    BY <1>0, <1>4 DEF CapturePrompt, TurnTypeInv, InTurn
  <2>2. file' \in States
    BY <1>4, <2>1 DEF CapturePrompt, WithPrompt, Slot, States
  <2>3. work' \in [Holders -> Slot]
    BY <1>4, <2>1, <2>2 DEF CapturePrompt, TurnTypeInv, Slot
  <2>4. captured' \subseteq 1..turn'
    BY <1>0, <1>4, <2>1 DEF CapturePrompt, TurnTypeInv
  <2> QED
    BY <1>4, <2>2, <2>3, <2>4 DEF CapturePrompt, TurnTypeInv, InTurn
<1>5. CASE EngineSaves \/ \E k \in 1..Turns : ReaderSaves(k)
  <2>1. PICK h \in Holders, k \in 1..Turns, s \in States :
          /\ s \in AfterRecall(work[h].copy, k)
          /\ Save(h, s) /\ UNCHANGED <<turn, jobs, captured>>
          /\ hook' \in {hook, "answering"}
          /\ (hook' # hook => hook = "engine")
    <3>1. \A h \in Holders, k \in 1..Turns : work[h].copy \in States /\ k \in Prompts
      BY <1>0 DEF TurnTypeInv, Slot
    <3>2. \A h \in Holders, k \in 1..Turns : AfterRecall(work[h].copy, k) \subseteq States
      BY <3>1, RecallEffect
    <3> QED
      BY <1>5, <3>2 DEF EngineSaves, ReaderSaves, TurnTypeInv, InTurn
  <2>4. work' \in [Holders -> Slot]
    BY <2>1, DropEffect DEF Save, TurnTypeInv
  <2> QED
    BY <2>1, <2>4 DEF Save, TurnTypeInv, InTurn
<1>6. CASE QueueObserve \/ QueueDistill
  <2>1. Observe \in Jobs /\ [phase |-> "distill", pin |-> file.prompt, turn |-> turn] \in Jobs
    BY <1>0 DEF Jobs, Observe, NoPrompt, TurnTypeInv, States
  <2>2. jobs' \in Seq(Jobs)
    BY <1>6, <2>1, AppendEffect DEF QueueObserve, QueueDistill, TurnTypeInv
  <2> QED
    BY <1>6, <2>2 DEF QueueObserve, QueueDistill, TurnTypeInv, InTurn
<1>7. CASE TakeJob \/ JobRetried
  <2>1. work' \in [Holders -> Slot]
    BY <1>7, LoadEffect, DropEffect DEF TakeJob, JobRetried, TurnTypeInv
  <2> QED
    BY <1>7, <2>1 DEF TakeJob, JobRetried, TurnTypeInv
<1>8. CASE ObserveSaves \/ DistillSaves \/ JobHeld
  <2>1. jobs # <<>> /\ jobs' = Tail(jobs) /\ UNCHANGED <<turn, hook, captured>> /\ Drop(Consumer)
    BY <1>8 DEF ObserveSaves, DistillSaves, JobHeld, JobDone, Save, JobsInv
  <2>2. work' \in [Holders -> Slot] /\ jobs' \in Seq(Jobs)
    BY <2>1, DropEffect, TailEffect DEF TurnTypeInv
  <2>3. work[Consumer].copy \in States
    BY DEF TurnTypeInv, Slot
  <2>4. file' \in States
    BY <1>0, <1>8, <2>3
    DEF ObserveSaves, DistillSaves, JobHeld, Save, AfterDistill, TurnTypeInv, States, NoPrompt
  <2> QED
    BY <2>1, <2>2, <2>4 DEF TurnTypeInv
<1>9. CASE EndSession
  <2>1. NoFile \in States
    BY FreshIs
  <2> QED
    BY <1>9, <2>1 DEF EndSession, TurnTypeInv, InTurn
<1>10. CASE UNCHANGED turnVars
  BY <1>10 DEF turnVars, TurnTypeInv
<1> QED
  BY <1>1, <1>2, <1>3, <1>4, <1>5, <1>6, <1>7, <1>8, <1>9, <1>10 DEF TurnNext

\* A step that leaves the queue, the turn and what was captured alone.
LEMMA JobsFrame ==
  ASSUME JobsInv, UNCHANGED <<jobs, turn, captured>>,
         Holding(Consumer)' => Holding(Consumer) \/ jobs # <<>>,
         \/ hook' \notin InTurn
         \/ hook \in InTurn /\ (hook' = "answering" \/ hook # "answering")
  PROVE  JobsInv'
  BY DEF JobsInv, Queued, InTurn

\* The jobs are those of the last turn, pinned to its prompt.
LEMMA JobsStep ==
  Quick /\ TurnTypeInv /\ JobsInv /\ HoldersInv /\ PromptInv /\ [TurnNext]_turnVars => JobsInv'
<1> SUFFICES ASSUME Quick, TurnTypeInv, JobsInv, HoldersInv, PromptInv, [TurnNext]_turnVars
             PROVE  JobsInv'
  OBVIOUS
<1> USE HoldersAre
<1>0. work \in [Holders -> Slot] /\ file \in States /\ jobs \in Seq(Jobs)
  BY DEF TurnTypeInv
<1>1. CASE StartSession
  BY <1>0, <1>1, LoadEffect, JobsFrame DEF StartSession, Holding, InTurn
<1>2. CASE OrientSaves
  BY <1>0, <1>2, DropEffect, JobsFrame DEF OrientSaves, Save, Holding, InTurn
<1>3. CASE Prompt
  BY <1>3 DEF Prompt, Quiet, JobsInv, Queued, Holding, InTurn
<1>4. CASE HookLoads \/ AskDaemon
  <2>1. \E h \in Holders \ {Consumer} : Load(h)
    BY <1>4 DEF HookLoads, AskDaemon, TurnTypeInv, InTurn
  <2> QED
    BY <1>0, <1>4, <2>1, LoadEffect, JobsFrame DEF HookLoads, AskDaemon, Holding, InTurn
<1>5. CASE CapturePrompt
  <2>1. jobs = <<>> /\ jobs' = <<>> /\ hook' = "captured"
    BY <1>5 DEF CapturePrompt, JobsInv, InTurn
  <2>2. ~Holding(Consumer) /\ work'[Consumer] = work[Consumer]
    BY <1>5, <2>1 DEF CapturePrompt, JobsInv, TurnTypeInv
  <2> QED
    BY <2>1, <2>2 DEF JobsInv, Queued, InTurn, Holding
<1>6. CASE RunInProcess
  BY <1>6, JobsFrame DEF RunInProcess, Holding, InTurn
<1>7. CASE EngineSaves \/ HookReturns \/ \E k \in 1..Turns : ReaderSaves(k)
  <2>1. \E h \in Holders \ {Consumer} : Drop(h)
    BY <1>7 DEF EngineSaves, HookReturns, ReaderSaves, Save, TurnTypeInv, InTurn
  <2>2. UNCHANGED <<jobs, turn, captured>> /\ hook' \in {hook, "answering"}
        /\ (hook' # hook => hook \in InTurn)
    BY <1>7 DEF EngineSaves, HookReturns, ReaderSaves, InTurn
  <2> QED
    BY <1>0, <2>1, <2>2, DropEffect, JobsFrame DEF Holding, InTurn
<1>8. CASE QueueObserve
  <2>1. Observe \in Jobs /\ Observe.phase = "observe"
    BY TurnAssumption DEF Jobs, Observe, NoPrompt, Prompts
  <2>2. jobs' # <<>> /\ Queued' \subseteq Queued \cup {Observe} /\ hook = "answering"
    BY <1>0, <1>8, <2>1, AppendEffect DEF QueueObserve
  <2> QED
    BY <1>8, <2>1, <2>2 DEF QueueObserve, JobsInv, InTurn
<1>9. CASE QueueDistill
  <2> DEFINE job == [phase |-> "distill", pin |-> file.prompt, turn |-> turn]
  <2>1. job \in Jobs
    BY <1>0 DEF Jobs, States, TurnTypeInv
  <2>2. jobs' # <<>> /\ Queued' \subseteq Queued \cup {job}
    BY <1>0, <1>9, <2>1, AppendEffect DEF QueueDistill
  <2>3. turn \in captured => job.pin = turn
    BY <1>9 DEF QueueDistill, PromptInv, InTurn
  <2> HIDE DEF job
  <2>4. job.turn = turn
    BY DEF job
  <2> QED
    BY <1>9, <2>2, <2>3, <2>4 DEF QueueDistill, JobsInv, InTurn
<1>10. CASE TakeJob
  BY <1>10, JobsFrame DEF TakeJob, InTurn
<1>11. CASE ObserveSaves \/ DistillSaves \/ JobHeld
  <2>1. jobs # <<>> /\ jobs' = Tail(jobs) /\ UNCHANGED <<turn, hook, captured>> /\ Drop(Consumer)
    BY <1>11 DEF ObserveSaves, DistillSaves, JobHeld, JobDone, Save, JobsInv
  <2>2. Queued' \subseteq Queued /\ ~Holding(Consumer)'
    BY <1>0, <2>1, TailEffect, DropEffect
  <2>3. hook \in InTurn \ {"answering"} => FALSE
    BY <2>1 DEF JobsInv
  <2> QED
    BY <2>1, <2>2, <2>3 DEF JobsInv
<1>12. CASE JobRetried
  BY <1>0, <1>12, DropEffect, JobsFrame DEF JobRetried, InTurn
<1>13. CASE EndSession
  BY <1>13, JobsFrame DEF EndSession, Holding, InTurn
<1>14. CASE UNCHANGED turnVars
  BY <1>14, JobsFrame DEF turnVars, Holding, InTurn
<1> QED
  BY <1>1, <1>2, <1>3, <1>4, <1>5, <1>6, <1>7, <1>8, <1>9, <1>10, <1>11, <1>12, <1>13, <1>14
  DEF TurnNext

\* While a prompt is answered nobody holds an older copy of the file.
LEMMA HoldersStep ==
  Quick /\ TurnTypeInv /\ JobsInv /\ HoldersInv /\ [TurnNext]_turnVars => HoldersInv'
<1> SUFFICES ASSUME Quick, TurnTypeInv, JobsInv, HoldersInv, [TurnNext]_turnVars PROVE HoldersInv'
  OBVIOUS
<1> USE HoldersAre
<1>0. work \in [Holders -> Slot] /\ file \in States /\ jobs \in Seq(Jobs)
  BY DEF TurnTypeInv
<1>1. CASE StartSession
  <2>1. /\ hook' = "over" /\ turn' = turn
        /\ \A g \in Holders \ {Orient} : work'[g] = work[g]
    BY <1>0, <1>1, LoadEffect DEF StartSession
  <2> QED
    BY <2>1 DEF HoldersInv, Holding, InTurn
<1>2. CASE Prompt
  <2>1. \A h \in Holders : ~Holding(h)
    BY <1>2 DEF Prompt, Quiet
  <2>2. turn' = turn + 1 /\ work' = work /\ captured' = captured /\ captured \subseteq 1..turn
        /\ turn \in Nat
    BY <1>2, TurnAssumption DEF Prompt, TurnTypeInv, Prompts
  <2>3. turn' \notin captured'
    BY <2>2
  <2> QED
    BY <2>1, <2>2, <2>3 DEF HoldersInv, Holding
<1>3. CASE HookLoads
  <2>1. /\ hook = "starting" /\ hook' = "loading" /\ UNCHANGED <<turn, captured>>
        /\ \A g \in Holders \ {Hook} : work'[g] = work[g]
    BY <1>0, <1>3, LoadEffect DEF HookLoads
  <2> QED
    BY <2>1 DEF HoldersInv, Holding, InTurn
<1>4. CASE AskDaemon
  <2>1. turn \in 1..Turns
    BY <1>4 DEF AskDaemon, TurnTypeInv, InTurn
  <2>2. /\ hook = "captured" /\ hook' = "asked" /\ UNCHANGED <<turn, captured>>
        /\ \A g \in Holders \ {Reader(turn)} : work'[g] = work[g]
    BY <1>0, <1>4, <2>1, LoadEffect DEF AskDaemon
  <2> QED
    BY <2>1, <2>2 DEF HoldersInv, Holding, InTurn
<1>5. CASE CapturePrompt
  <2>1. /\ hook = "loading" /\ hook' = "captured" /\ turn' = turn
        /\ \A g \in Holders \ {Hook} : work'[g] = work[g]
    BY <1>0, <1>5 DEF CapturePrompt
  <2> QED
    BY <2>1 DEF HoldersInv, Holding, InTurn
<1>6. CASE RunInProcess \/ QueueObserve \/ QueueDistill \/ EndSession
  <2>1. /\ UNCHANGED <<work, turn, captured>> /\ hook' \notin {"starting", "loading"}
        /\ hook' \in InTurn => hook \in InTurn
    BY <1>6 DEF RunInProcess, QueueObserve, QueueDistill, EndSession, InTurn
  <2> QED
    BY <2>1 DEF HoldersInv, Holding
<1>7. CASE \/ OrientSaves \/ EngineSaves \/ HookReturns \/ \E k \in 1..Turns : ReaderSaves(k)
           \/ ObserveSaves \/ DistillSaves \/ JobHeld \/ JobRetried
  <2>1. PICK h \in Holders : Drop(h)
    BY <1>7 DEF OrientSaves, EngineSaves, HookReturns, ReaderSaves, ObserveSaves, DistillSaves,
                JobHeld, JobRetried, Save
  <2>2. /\ UNCHANGED <<turn, captured>> /\ hook' \in {hook, "answering"}
        /\ hook' # hook => hook \in InTurn
    BY <1>7 DEF OrientSaves, EngineSaves, HookReturns, ReaderSaves, ObserveSaves, DistillSaves,
                JobHeld, JobRetried, JobDone, InTurn
  <2>3. \A g \in Holders : Holding(g)' => Holding(g)
    BY <1>0, <2>1, DropEffect DEF Holding
  <2> QED
    BY <2>2, <2>3 DEF HoldersInv, InTurn
<1>8. CASE TakeJob
  <2>1. /\ UNCHANGED <<hook, turn, captured>> /\ jobs # <<>>
        /\ \A g \in Holders \ {Consumer} : work'[g] = work[g]
    BY <1>0, <1>8, LoadEffect DEF TakeJob
  <2>2. hook \notin {"starting", "loading"}
    BY <2>1 DEF JobsInv, InTurn
  <2> QED
    BY <2>1, <2>2 DEF HoldersInv, Holding
<1>9. CASE UNCHANGED turnVars
  BY <1>9 DEF turnVars, HoldersInv, Holding
<1> QED
  BY <1>1, <1>2, <1>3, <1>4, <1>5, <1>6, <1>7, <1>8, <1>9 DEF TurnNext

\* The hook keeps its copy until it saves or leaves.
LEMMA CopyStep == TurnTypeInv /\ HoldersInv /\ CopyInv /\ [TurnNext]_turnVars => CopyInv'
<1> SUFFICES ASSUME TurnTypeInv, HoldersInv, CopyInv, [TurnNext]_turnVars PROVE CopyInv'
  OBVIOUS
<1> USE HoldersAre
<1>0. work \in [Holders -> Slot] /\ file \in States
  BY DEF TurnTypeInv
<1>1. CASE hook' \notin {"loading", "captured", "asked", "engine"}
  BY <1>1 DEF CopyInv
<1>2. CASE HookLoads
  BY <1>0, <1>2, LoadEffect DEF HookLoads, CopyInv
<1>3. CASE CapturePrompt
  <2>1. work[Hook].at = "loaded" /\ work[Hook].copy \in States /\ work[Hook].copy.there
    BY <1>0, <1>3 DEF CapturePrompt, CopyInv, Holding, Slot
  <2>2. file'.there
    BY <1>3, <2>1 DEF CapturePrompt, WithPrompt, States
  <2>3. work'[Hook].at = "loaded" /\ work'[Hook].copy = file'
    BY <1>0, <1>3, <2>1 DEF CapturePrompt, Slot
  <2> QED
    BY <1>3, <2>2, <2>3 DEF CapturePrompt, CopyInv, Holding
<1>4. CASE /\ UNCHANGED <<turn, captured>>
           /\ hook' \in {"loading", "captured", "asked", "engine"}
           /\ \E h \in Holders \ {Hook} : Load(h) \/ Drop(h)
           /\ hook' = hook \/ (hook = "captured" /\ hook' = "asked")
  <2>1. work'[Hook] = work[Hook]
    BY <1>0, <1>4, LoadEffect, DropEffect
  <2> QED
    BY <1>4, <2>1 DEF CopyInv, Holding
<1>5. CASE AskDaemon
  BY <1>4, <1>5 DEF AskDaemon, TurnTypeInv, InTurn
<1>6. CASE TakeJob \/ ObserveSaves \/ DistillSaves \/ JobHeld \/ JobRetried \/ OrientSaves
           \/ \E k \in 1..Turns : ReaderSaves(k)
  BY <1>1, <1>4, <1>6
  DEF TakeJob, ObserveSaves, DistillSaves, JobHeld, JobRetried, JobDone, OrientSaves, ReaderSaves,
      Save
<1>7. CASE RunInProcess
  BY <1>7 DEF RunInProcess, CopyInv, Holding
<1>8. CASE UNCHANGED turnVars
  BY <1>8 DEF turnVars, CopyInv, Holding
<1>9. CASE StartSession \/ Prompt \/ EngineSaves \/ HookReturns \/ QueueDistill \/ EndSession
           \/ QueueObserve
  BY <1>1, <1>9 DEF StartSession, Prompt, EngineSaves, HookReturns, QueueObserve, QueueDistill,
                    EndSession
<1> QED
  BY <1>2, <1>3, <1>5, <1>6, <1>7, <1>8, <1>9 DEF TurnNext

\* A step that loads or drops one copy, or none, while file and turn stay.
LEMMA PromptFrame ==
  ASSUME TurnTypeInv, PromptInv, UNCHANGED <<file, turn, captured>>,
         hook' \in InTurn => hook \in InTurn,
         UNCHANGED work \/ \E h \in Holders : Load(h) \/ Drop(h)
  PROVE  PromptInv'
<1>1. work \in [Holders -> Slot] /\ file \in States
  BY DEF TurnTypeInv
<1>2. CASE UNCHANGED work
  BY <1>2 DEF PromptInv, Holding
<1>3. ASSUME NEW h \in Holders, Load(h) PROVE PromptInv'
  BY <1>1, <1>3, LoadEffect DEF PromptInv, Holding
<1>4. ASSUME NEW h \in Holders, Drop(h) PROVE PromptInv'
  BY <1>1, <1>4, DropEffect DEF PromptInv, Holding
<1> QED
  BY <1>2, <1>3, <1>4

\* A step that saves a copy with the prompt.
LEMMA PromptSaved ==
  ASSUME TurnTypeInv, PromptInv, NEW h \in Holders, Drop(h), UNCHANGED <<turn, captured>>,
         hook' \in InTurn => hook \in InTurn,
         turn \in captured /\ hook \in InTurn => file'.there /\ file'.prompt = turn
  PROVE  PromptInv'
<1>1. work \in [Holders -> Slot]
  BY DEF TurnTypeInv
<1> QED
  BY <1>1, DropEffect DEF PromptInv, Holding

\* No save takes the captured prompt back before the pin.
LEMMA PromptStep ==
  TurnTypeInv /\ JobsInv /\ HoldersInv /\ CopyInv /\ PromptInv /\ [TurnNext]_turnVars => PromptInv'
<1> SUFFICES ASSUME TurnTypeInv, JobsInv, HoldersInv, CopyInv, PromptInv, [TurnNext]_turnVars
             PROVE  PromptInv'
  OBVIOUS
<1> USE HoldersAre
<1>0. work \in [Holders -> Slot] /\ file \in States /\ turn \in Prompts
  BY DEF TurnTypeInv
<1>1. CASE hook' \notin InTurn
  BY <1>1 DEF PromptInv
<1>2. CASE Prompt
  <2>1. turn' = turn + 1 /\ captured' = captured /\ captured \subseteq 1..turn /\ turn \in Nat
    BY <1>2, TurnAssumption DEF Prompt, TurnTypeInv, Prompts
  <2> QED
    BY <2>1 DEF PromptInv
<1>3. CASE HookLoads \/ TakeJob \/ JobRetried \/ JobHeld \/ HookReturns
  BY <1>3, PromptFrame DEF HookLoads, TakeJob, JobRetried, JobHeld, JobDone, HookReturns, InTurn
<1>4. CASE AskDaemon
  <2>1. Reader(turn) \in Holders
    BY <1>4 DEF AskDaemon, TurnTypeInv, InTurn
  <2> QED
    BY <1>4, <2>1, PromptFrame DEF AskDaemon, InTurn
<1>5. CASE RunInProcess \/ QueueObserve
  BY <1>5, PromptFrame DEF RunInProcess, QueueObserve, InTurn
<1>6. CASE CapturePrompt
  <2>1. work[Hook] \in Slot /\ work[Hook].copy \in States /\ work[Hook].copy.there
    BY <1>0, <1>6 DEF CapturePrompt, CopyInv, Slot
  <2>2. file'.there /\ file'.prompt = turn
    BY <1>0, <1>6, <2>1 DEF CapturePrompt, WithPrompt, States
  <2>3. work'[Hook].copy = file' /\ \A g \in Holders \ {Hook} : work'[g] = work[g]
    BY <1>0, <1>6, <2>1 DEF CapturePrompt, Slot
  <2>4. turn' = turn /\ \A g \in Holders \ {Hook} : ~Holding(g)
    BY <1>6 DEF CapturePrompt, HoldersInv
  <2> QED
    BY <2>2, <2>3, <2>4 DEF PromptInv, Holding
<1>7. CASE EngineSaves
  <2>1. PICK s \in AfterRecall(work[Hook].copy, turn) : Save(Hook, s)
    BY <1>7 DEF EngineSaves
  <2>2. work[Hook].copy \in States /\ work[Hook].copy.there
    BY <1>0, <1>7 DEF EngineSaves, CopyInv, Slot
  <2>3. s.there /\ s.prompt = turn
    BY <1>0, <2>2, RecallEffect
  <2> QED
    BY <1>7, <2>1, <2>3, PromptSaved DEF EngineSaves, Save, InTurn
<1>8. ASSUME NEW k \in 1..Turns, ReaderSaves(k) PROVE PromptInv'
  <2>1. PICK s \in AfterRecall(work[Reader(k)].copy, k) : Save(Reader(k), s)
    BY <1>8 DEF ReaderSaves
  <2>2. k = turn /\ work[Reader(k)].copy \in States
    BY <1>0, <1>8 DEF ReaderSaves, HoldersInv, Slot
  <2>3. turn \in captured /\ hook \in InTurn => work[Reader(k)].copy.there
    BY <1>8 DEF ReaderSaves, PromptInv
  <2>4. turn \in captured /\ hook \in InTurn => s.there /\ s.prompt = turn
    BY <1>0, <2>2, <2>3, RecallEffect
  <2> QED
    BY <1>8, <2>1, <2>4, PromptSaved DEF ReaderSaves, Save
<1>9. CASE OrientSaves
  <2>1. hook \notin InTurn /\ hook' = hook
    BY <1>9 DEF OrientSaves, HoldersInv
  <2> QED
    BY <1>1, <2>1
<1>10. CASE ObserveSaves
  BY <1>10, PromptSaved DEF ObserveSaves, JobDone, Save, PromptInv
<1>11. CASE DistillSaves
  <2>1. Head(jobs) \in Queued /\ hook' = hook
    BY <1>11, TailEffect DEF DistillSaves, JobDone, JobsInv, TurnTypeInv
  <2>2. hook \notin InTurn
    BY <1>11, <2>1 DEF DistillSaves, JobsInv
  <2> QED
    BY <1>1, <2>1, <2>2
<1>12. CASE StartSession \/ QueueDistill \/ EndSession
  BY <1>1, <1>12 DEF StartSession, QueueDistill, EndSession, InTurn
<1>13. CASE UNCHANGED turnVars
  BY <1>13, PromptFrame DEF turnVars
<1> QED
  BY <1>2, <1>3, <1>4, <1>5, <1>6, <1>7, <1>8, <1>9, <1>10, <1>11, <1>12, <1>13 DEF TurnNext

\* What is ingested is the pair of a pinned job.
LEMMA PairsStep ==
  TurnTypeInv /\ JobsInv /\ HoldersInv /\ PairsInv /\ [TurnNext]_turnVars => PairsInv'
<1> SUFFICES ASSUME TurnTypeInv, JobsInv, HoldersInv, PairsInv, [TurnNext]_turnVars PROVE PairsInv'
  OBVIOUS
<1>0. turn \in Nat
  BY TurnAssumption DEF TurnTypeInv, Prompts
<1>1. CASE UNCHANGED <<pairs, turn, captured>> /\ (hook' \in InTurn => hook \in InTurn)
  BY <1>1 DEF PairsInv
<1>2. CASE StartSession \/ OrientSaves \/ HookLoads \/ AskDaemon \/ RunInProcess \/ EngineSaves
           \/ HookReturns \/ \E k \in 1..Turns : ReaderSaves(k)
  BY <1>1, <1>2 DEF StartSession, OrientSaves, HookLoads, AskDaemon, RunInProcess, EngineSaves,
                    HookReturns, ReaderSaves, InTurn
<1>3. CASE QueueObserve \/ QueueDistill \/ TakeJob \/ ObserveSaves \/ JobHeld \/ JobRetried
           \/ EndSession
  BY <1>1, <1>3 DEF QueueObserve, QueueDistill, TakeJob, ObserveSaves, JobHeld, JobRetried, JobDone,
                    EndSession, InTurn
<1>4. CASE Prompt
  <2>1. turn' = turn + 1 /\ UNCHANGED <<captured, pairs>> /\ captured \subseteq 1..turn
    BY <1>4 DEF Prompt, TurnTypeInv
  <2> QED
    BY <1>0, <2>1 DEF PairsInv
<1>5. CASE CapturePrompt
  <2>1. /\ hook \in InTurn /\ hook' \in InTurn /\ captured' = captured \cup {turn}
        /\ UNCHANGED <<pairs, turn>>
    BY <1>5 DEF CapturePrompt, InTurn
  <2> QED
    BY <1>0, <2>1 DEF PairsInv
<1>6. CASE DistillSaves
  <2>1. Head(jobs) \in Queued /\ Head(jobs).phase = "distill"
    BY <1>6, TailEffect DEF DistillSaves, JobDone, JobsInv, TurnTypeInv
  <2>2. /\ UNCHANGED <<hook, turn, captured>>
        /\ pairs' = pairs \cup {<<Head(jobs).pin, Head(jobs).turn>>}
    BY <1>6 DEF DistillSaves, JobDone
  <2>3. hook \notin InTurn /\ Head(jobs).turn = turn /\ (turn \in captured => Head(jobs).pin = turn)
    BY <2>1 DEF JobsInv
  <2> QED
    BY <1>0, <2>2, <2>3 DEF PairsInv
<1>7. CASE UNCHANGED turnVars
  BY <1>1, <1>7 DEF turnVars
<1> QED
  BY <1>2, <1>3, <1>4, <1>5, <1>6, <1>7 DEF TurnNext

\* If the user waits for the jobs and reads of a session before the next prompt, a
\* response whose prompt was captured is ingested with that prompt, wherever the hook is
\* killed and however long a read goes on after its answer.
THEOREM PairsItsPromptAlways == Quick /\ TurnSpec => []PairsItsPrompt
<1> SUFFICES ASSUME Quick PROVE TurnSpec => []PairsItsPrompt
  OBVIOUS
<1>1. TurnInit => TurnInv
  <2> SUFFICES ASSUME TurnInit PROVE TurnInv
    OBVIOUS
  <2>1. Idle \in Slot /\ Idle.at = "off" /\ 0 \in Prompts
    BY FreshIs, TurnAssumption DEF Idle, Slot, Prompts
  <2>2. work \in [Holders -> Slot] /\ \A h \in Holders : ~Holding(h)
    BY <2>1 DEF TurnInit, Holding
  <2>3. jobs \in Seq(Jobs) /\ Queued = {}
    BY DEF TurnInit, Queued
  <2> QED
    BY <2>1, <2>2, <2>3, FreshIs, HoldersAre
    DEF TurnInit, TurnInv, TurnTypeInv, JobsInv, HoldersInv, PromptInv, CopyInv, PairsInv, InTurn
<1>2. TurnInv /\ [TurnNext]_turnVars => TurnInv'
  BY TurnTypeStep, JobsStep, HoldersStep, CopyStep, PromptStep, PairsStep DEF TurnInv
<1>3. TurnInv => PairsItsPrompt
  BY DEF TurnInv, PairsInv, PairsItsPrompt
<1> QED
  BY <1>1, <1>2, <1>3, PTL DEF TurnSpec

-----------------------------------------------------------------------------
(* LegacyRetirement: rows are recovered when the old workers are gone. *)

ItemRecord   == [st : {"pending", "processing", "done", "failed", "migrated", "cleared"},
                 attempts : Nat, gen : Nat]
InHand       == [job : Items \cup {"none"}, step : {"loop", "read", "write"}, gen : Nat]
WorkerRecord == [file : {"none", "pid", "garbled"}, alive : BOOLEAN, shown : BOOLEAN,
                 work : InHand]

LegacyType ==
  /\ rows \in [Items -> ItemRecord] /\ legacy \in [LegacyWorkers -> WorkerRecord]
  /\ agent \in BOOLEAN /\ generation \in Nat

\* A worker without a PID file is dead, but for launchd's while its job is loaded; a dead
\* one has nothing in hand; and the table is recovered when no PID file is left.
RetiredInv ==
  /\ \A w \in LegacyWorkers : ~legacy[w].alive => legacy[w].work = Unoccupied
  /\ \A w \in LegacyWorkers :
       legacy[w].file = "none" => ~legacy[w].alive \/ (w = Agent /\ agent)
  /\ workerStart \in {"files", "migrate"} => ~agent
  /\ workerStart = "migrate" => Filed = {}

\* The work of one worker that lives on.
LEMMA WorkEffect ==
  ASSUME LegacyType, RetiredInv, NEW w \in LegacyWorkers, NEW work1 \in InHand,
         legacy[w].alive, Work(w, work1), Keep, rows' \in [Items -> ItemRecord]
  PROVE  LegacyType' /\ RetiredInv'
<1>1. /\ legacy' \in [LegacyWorkers -> WorkerRecord]
      /\ \A v \in LegacyWorkers \ {w} : legacy'[v] = legacy[v]
      /\ legacy'[w].alive /\ legacy'[w].file = legacy[w].file
  BY DEF Work, LegacyType, WorkerRecord
<1>2. UNCHANGED <<agent, workerStart, generation>>
  BY DEF Keep
<1>3. Filed' = Filed
  BY <1>1 DEF Filed
<1> QED
  BY <1>1, <1>2, <1>3 DEF LegacyType, RetiredInv

\* One worker is gone, with its PID file or without.
LEMMA GoneEffect ==
  ASSUME LegacyType, RetiredInv, NEW w \in LegacyWorkers, NEW f \in {"none", "pid", "garbled"},
         legacy' = [legacy EXCEPT ![w].alive = FALSE, ![w].work = Unoccupied, ![w].file = f],
         UNCHANGED <<rows, generation>>, agent' \in BOOLEAN, agent = agent' \/ w = Agent,
         workerStart' \in {"files", "migrate"} => ~agent',
         workerStart' = "migrate" => workerStart = "migrate" /\ f = legacy[w].file
  PROVE  LegacyType' /\ RetiredInv'
<1>1. Unoccupied \in InHand
  BY DEF Unoccupied, InHand
<1>2. /\ legacy' \in [LegacyWorkers -> WorkerRecord]
      /\ \A v \in LegacyWorkers \ {w} : legacy'[v] = legacy[v]
      /\ ~legacy'[w].alive /\ legacy'[w].work = Unoccupied /\ legacy'[w].file = f
  BY <1>1 DEF LegacyType, WorkerRecord
<1>3. workerStart' = "migrate" => Filed' = {}
  BY <1>2 DEF Filed, RetiredInv
<1> QED
  BY <1>2, <1>3 DEF LegacyType, RetiredInv

\* Every row and worker keeps its type, and a step leaves the retired ones retired.
LEMMA RetiredStep ==
  LegacyType /\ RetiredInv /\ [RetirementNext]_legacyVars => LegacyType' /\ RetiredInv'
<1> SUFFICES ASSUME LegacyType, RetiredInv, [RetirementNext]_legacyVars
             PROVE  LegacyType' /\ RetiredInv'
  OBVIOUS
<1> USE RetirementAssumption
<1>1. ASSUME NEW w \in LegacyWorkers, NEW j \in Items, Dequeue(w, j) PROVE LegacyType' /\ RetiredInv'
  <2>1. rows' \in [Items -> ItemRecord]
    <3>1. rows[j] \in ItemRecord
      BY DEF LegacyType
    <3>2. PICK n \in Nat : rows' = [rows EXCEPT ![j].st = "processing", ![j].attempts = n]
      <4> DEFINE n == IF rows[j].attempts < MaxAttempts THEN rows[j].attempts + 1
                      ELSE rows[j].attempts
      <4>1. n \in Nat
        BY <3>1 DEF MaxAttempts, ItemRecord
      <4>2. rows' = [rows EXCEPT ![j].st = "processing", ![j].attempts = n]
        BY <1>1, <3>1, Zenon DEF Dequeue
      <4> QED
        BY <4>1, <4>2
    <3>3. [rows[j] EXCEPT !.st = "processing", !.attempts = n] \in ItemRecord
      BY <3>1 DEF ItemRecord
    <3>4. rows' = [rows EXCEPT ![j] = [rows[j] EXCEPT !.st = "processing", !.attempts = n]]
      BY <3>2
    <3> QED
      BY <3>3, <3>4 DEF LegacyType
  <2>2. [job |-> j, step |-> "read", gen |-> rows[j].gen] \in InHand
    BY DEF InHand, LegacyType, ItemRecord
  <2> QED
    BY <1>1, <2>1, <2>2, WorkEffect DEF Dequeue
<1>2. ASSUME NEW w \in LegacyWorkers, Discard(w) \/ Extracts(w) \/ Marks(w)
      PROVE  LegacyType' /\ RetiredInv'
  <2>1. legacy[w].work \in InHand /\ Unoccupied \in InHand
    BY DEF LegacyType, WorkerRecord, Unoccupied, InHand
  <2>2. [legacy[w].work EXCEPT !.step = "write"] \in InHand
    BY <2>1 DEF InHand
  <2>3. CASE Marks(w)
    <3>1. PICK st \in Result(rows[legacy[w].work.job].attempts) :
            rows' = MarkAs(legacy[w].work.job, st)
      BY <2>3 DEF Marks
    <3>2. st \in {"pending", "done", "failed"}
      BY <3>1 DEF Result
    <3> DEFINE j == legacy[w].work.job
    <3>3. CASE rows' = rows
      BY <1>2, <2>1, <2>3, <3>3, WorkEffect DEF Marks, LegacyType
    <3>4. CASE rows' = [rows EXCEPT ![j].st = st] /\ j \in Items
      <4>1. [rows[j] EXCEPT !.st = st] \in ItemRecord
        BY <3>2, <3>4 DEF LegacyType, ItemRecord
      <4>2. rows' = [rows EXCEPT ![j] = [rows[j] EXCEPT !.st = st]]
        BY <3>4
      <4>3. rows' \in [Items -> ItemRecord]
        BY <4>1, <4>2 DEF LegacyType
      <4> QED
        BY <2>1, <2>3, <4>3, WorkEffect DEF Marks
    <3>5. CASE rows' = [rows EXCEPT ![j].st = st] /\ j \notin Items
      <4>1. rows' = rows
        BY <3>5 DEF LegacyType
      <4> QED
        BY <3>3, <4>1
    <3> QED
      BY <3>1, <3>3, <3>4, <3>5 DEF MarkAs
  <2>4. CASE Discard(w) \/ Extracts(w)
    <3>1. rows' \in [Items -> ItemRecord]
      BY <2>4 DEF Discard, Extracts, LegacyType
    <3> QED
      BY <2>1, <2>2, <2>4, <3>1, WorkEffect DEF Discard, Extracts
  <2> QED
    BY <1>2, <2>3, <2>4
<1>3. ASSUME NEW w \in LegacyWorkers, WorkerDies(w) PROVE LegacyType' /\ RetiredInv'
  <2>1. legacy' = [legacy EXCEPT ![w].alive = FALSE, ![w].work = Unoccupied,
                                 ![w].file = legacy[w].file]
    BY <1>3 DEF WorkerDies, LegacyType, WorkerRecord
  <2>2. legacy[w].file \in {"none", "pid", "garbled"} /\ agent \in BOOLEAN
    BY DEF LegacyType, WorkerRecord
  <2>3. UNCHANGED <<rows, agent, workerStart, generation>>
    BY <1>3 DEF WorkerDies, Keep
  <2> QED
    BY <2>1, <2>2, <2>3, GoneEffect DEF RetiredInv
<1>4. ASSUME NEW w \in LegacyWorkers, RetireWorker(w) PROVE LegacyType' /\ RetiredInv'
  <2>1. CASE Fail
    BY <2>1 DEF Fail, LegacyType, RetiredInv
  <2>2. CASE /\ legacy' = [legacy EXCEPT ![w].alive = FALSE, ![w].work = Unoccupied, ![w].file = "none"]
             /\ UNCHANGED <<rows, agent, core, workerStart, generation>>
    <3>1. workerStart = "files" /\ agent \in BOOLEAN
      BY <1>4 DEF RetireWorker, LegacyType
    <3> QED
      BY <2>2, <3>1, GoneEffect DEF RetiredInv
  <2>3. CASE /\ ~Unverifiable(w) /\ ~(legacy[w].alive /\ legacy[w].shown)
             /\ legacy' = [legacy EXCEPT ![w].file = "none"]
             /\ UNCHANGED <<rows, agent, core, workerStart, generation>>
    <3>1. ~legacy[w].alive
      BY <2>3 DEF Unverifiable
    <3>2. legacy[w].work = Unoccupied /\ legacy[w] \in WorkerRecord
      BY <3>1 DEF RetiredInv, LegacyType
    <3>3. [legacy[w] EXCEPT !.file = "none"]
            = [legacy[w] EXCEPT !.alive = FALSE, !.work = Unoccupied, !.file = "none"]
      BY <3>1, <3>2 DEF WorkerRecord
    <3>4. legacy' = [legacy EXCEPT ![w].alive = FALSE, ![w].work = Unoccupied, ![w].file = "none"]
      BY <2>3, <3>3 DEF LegacyType
    <3>5. workerStart = "files" /\ agent \in BOOLEAN
      BY <1>4 DEF RetireWorker, LegacyType
    <3> QED
      BY <2>3, <3>4, <3>5, GoneEffect DEF RetiredInv
  <2> QED
    BY <1>4, <2>1, <2>2, <2>3 DEF RetireWorker
<1>5. CASE RetireAgent
  <2>1. CASE /\ agent' = FALSE /\ At("files")
             /\ legacy' = [legacy EXCEPT ![Agent].alive = FALSE, ![Agent].work = Unoccupied]
    <3>1. legacy' = [legacy EXCEPT ![Agent].alive = FALSE, ![Agent].work = Unoccupied,
                                   ![Agent].file = legacy[Agent].file]
      BY <2>1 DEF LegacyType, WorkerRecord
    <3>2. legacy[Agent].file \in {"none", "pid", "garbled"}
      BY DEF LegacyType, WorkerRecord
    <3>3. UNCHANGED <<rows, generation>> /\ workerStart' = "files"
      BY <1>5, <2>1 DEF RetireAgent, At
    <3> QED
      BY <2>1, <3>1, <3>2, <3>3, GoneEffect
  <2>2. CASE /\ agent' = FALSE /\ At("idle")
             /\ legacy' = [legacy EXCEPT ![Agent].file = "pid"]
    <3>1. /\ legacy' \in [LegacyWorkers -> WorkerRecord]
          /\ \A v \in LegacyWorkers \ {Agent} : legacy'[v] = legacy[v]
          /\ legacy'[Agent].alive = legacy[Agent].alive /\ legacy'[Agent].file = "pid"
          /\ legacy'[Agent].work = legacy[Agent].work
      BY <2>2 DEF LegacyType, WorkerRecord
    <3>2. UNCHANGED <<rows, generation>> /\ workerStart' = "idle"
      BY <1>5, <2>2 DEF RetireAgent, At
    <3> QED
      BY <2>2, <3>1, <3>2 DEF LegacyType, RetiredInv
  <2>3. CASE ~agent /\ At("files") /\ UNCHANGED <<agent, legacy>>
    BY <1>5, <2>3 DEF RetireAgent, At, LegacyType, RetiredInv
  <2> QED
    BY <1>5, <2>1, <2>2, <2>3 DEF RetireAgent
<1>6. CASE StartWorkers \/ AllRetired
  BY <1>6 DEF StartWorkers, AllRetired, At, Filed, LegacyType, RetiredInv
<1>7. CASE Migrate \/ Clear
  <2>1. rows' \in [Items -> ItemRecord] /\ generation' \in Nat
    BY <1>7 DEF Migrate, Clear, LegacyType, ItemRecord
  <2> QED
    BY <1>7, <2>1 DEF Migrate, Clear, At, Filed, LegacyType, RetiredInv
<1>8. CASE StopWorkers
  <2>1. PICK gone \in SUBSET LegacyWorkers :
          legacy' = [w \in LegacyWorkers |-> IF w \in gone
                      THEN [legacy[w] EXCEPT !.alive = FALSE, !.file = "none", !.work = Unoccupied]
                      ELSE legacy[w]]
    BY <1>8 DEF StopWorkers, Filed
  <2>2. Unoccupied \in InHand
    BY DEF Unoccupied, InHand
  <2>3. \A w \in gone : /\ legacy'[w] \in WorkerRecord /\ ~legacy'[w].alive
                        /\ legacy'[w].work = Unoccupied
    BY <2>1, <2>2 DEF LegacyType, WorkerRecord
  <2>4. \A w \in LegacyWorkers \ gone : legacy'[w] = legacy[w]
    BY <2>1
  <2>5. legacy' \in [LegacyWorkers -> WorkerRecord]
    BY <2>1, <2>3, <2>4 DEF LegacyType
  <2>6. UNCHANGED <<rows, agent, workerStart, generation>> /\ workerStart = "idle"
    BY <1>8 DEF StopWorkers
  <2> QED
    BY <2>3, <2>4, <2>5, <2>6 DEF LegacyType, RetiredInv
<1>9. CASE UNCHANGED legacyVars
  BY <1>9 DEF legacyVars, LegacyType, RetiredInv, Filed
<1> QED
  BY <1>1, <1>2, <1>3, <1>4, <1>5, <1>6, <1>7, <1>8, <1>9 DEF RetirementNext

\* However the old workers were started, die or resist, a row is handed to the core worker
\* only when none of them has it in hand.
THEOREM OnlyQuietRowsRecoveredAlways == RetirementSpec => OnlyQuietRowsRecovered
<1>1. RetirementInit => LegacyType /\ RetiredInv
  <2> SUFFICES ASSUME RetirementInit PROVE LegacyType /\ RetiredInv
    OBVIOUS
  <2>1. rows \in [Items -> ItemRecord] /\ agent = TRUE /\ generation = 0 /\ workerStart = "idle"
    BY DEF RetirementInit, ItemRecord
  <2>2. Unoccupied \in InHand
    BY DEF Unoccupied, InHand
  <2>3. PICK alive, garbled, shown \in SUBSET LegacyWorkers :
          legacy = [w \in LegacyWorkers |->
                     [file |-> IF w = Agent THEN "none"
                               ELSE IF w \in garbled THEN "garbled" ELSE "pid",
                      alive |-> w \in alive, shown |-> w \in shown, work |-> Unoccupied]]
    BY DEF RetirementInit
  <2>4. /\ legacy \in [LegacyWorkers -> WorkerRecord]
        /\ \A w \in LegacyWorkers : legacy[w].work = Unoccupied
        /\ \A w \in LegacyWorkers : legacy[w].file = "none" => w = Agent
    BY <2>2, <2>3 DEF WorkerRecord
  <2> QED
    BY <2>1, <2>4 DEF LegacyType, RetiredInv
<1>2. LegacyType /\ RetiredInv /\ [RetirementNext]_legacyVars =>
        [\A j \in Items : rows[j].st # "migrated" /\ rows'[j].st = "migrated"
           => \A w \in LegacyWorkers : legacy[w].work.job # j]_legacyVars
  <2> SUFFICES ASSUME LegacyType, RetiredInv, RetirementNext, NEW j \in Items,
                      rows[j].st # "migrated", rows'[j].st = "migrated", NEW w \in LegacyWorkers
               PROVE  legacy[w].work.job # j
    BY DEF legacyVars
  <2>1. rows[j] \in ItemRecord /\ \A i \in Items : rows[i] \in ItemRecord
    BY DEF LegacyType
  <2>2. ASSUME NEW v \in LegacyWorkers, NEW i \in Items, Dequeue(v, i) PROVE FALSE
    <3>1. rows'[j].st \in {rows[j].st, "processing"}
      BY <2>1, <2>2 DEF Dequeue, LegacyType, ItemRecord
    <3> QED
      BY <3>1
  <2>3. ASSUME NEW v \in LegacyWorkers, Marks(v) PROVE FALSE
    <3>1. PICK st \in {"pending", "done", "failed"} : rows' = MarkAs(legacy[v].work.job, st)
      BY <2>3 DEF Marks, Result
    <3>2. rows'[j].st \in {rows[j].st, st}
      BY <2>1, <3>1 DEF MarkAs, LegacyType, ItemRecord
    <3> QED
      BY <3>1, <3>2
  <2>4. Clear => FALSE
    BY <2>1 DEF Clear, ItemRecord
  <2>5. ~(UNCHANGED rows)
    OBVIOUS
  <2>6. workerStart = "migrate"
    BY <2>2, <2>3, <2>4, <2>5
    DEF RetirementNext, StartWorkers, RetireAgent, AllRetired, Migrate, StopWorkers, Discard,
        Extracts, WorkerDies, RetireWorker, Fail
  <2>7. legacy[w].file = "none" /\ ~agent
    BY <2>6 DEF RetiredInv, Filed
  <2>8. legacy[w].work = Unoccupied
    BY <2>7 DEF RetiredInv, LegacyType
  <2> QED
    BY <2>8, RetirementAssumption DEF Unoccupied
<1> QED
  BY <1>1, RetiredStep, <1>2, PTL DEF RetirementSpec, OnlyQuietRowsRecovered

-----------------------------------------------------------------------------
(* PhaseCalls: a read runs for a client that still waits.                  *)

\* Who gave up a read did it when its time was over, and who was killed at the
\* deadline of its hook: what a pool holds is waited for until then.
WaitedFor(r) == client[r] = "waiting" \/ now >= until[r] \/ now >= begun[r] + HookDeadline

CallTypes ==
    /\ now \in Nat
    /\ DOMAIN client = Calls /\ DOMAIN call = Calls /\ DOMAIN answer = Calls
    /\ begun \in [Reads -> Nat] /\ until \in [Reads -> Nat] /\ startBy \in [Reads -> Nat]

ReadInv ==
    \A r \in Reads :
      /\ client[r] \in {"off", "hook"} => call[r] = "none"
      /\ call[r] \in {"none", "sent", "queued"} => answer[r] = "none"
      /\ call[r] \in {"sent", "queued"} => WaitedFor(r)
      /\ r \in waiters => call[r] = "queued" /\ startBy[r] < until[r]

CallsInv == CallTypes /\ ReadInv

PhaseConstants ==
    /\ Timeout \in Nat /\ Cap \in Nat /\ HookDeadline \in Nat /\ Horizon \in Nat
    /\ Reads \cap Writes = {}

LEMMA CallTypesStep == ASSUME PhaseConstants PROVE CallTypes /\ [PhaseNext]_phaseVars => CallTypes'
<1> SUFFICES ASSUME PhaseConstants, CallTypes, [PhaseNext]_phaseVars  PROVE CallTypes'
  OBVIOUS
<1> USE DEF CallTypes, PhaseConstants
<1>1. CASE Tick \/ UNCHANGED phaseVars
  BY <1>1 DEF Tick, phaseVars
<1>2. ASSUME NEW c \in Calls, CommonSteps(c)  PROVE CallTypes'
  BY <1>2 DEF CommonSteps, TakeAnswer, GiveUp, EngineEnds
<1>3. ASSUME NEW r \in Reads, ClientSteps(r)  PROVE CallTypes'
  BY <1>3 DEF ClientSteps, BeginHook, SendRead, HookKilled
<1>4. ASSUME NEW r \in Reads, ReadRoute(r) \/ ReadEnds(r)  PROVE CallTypes'
  BY <1>4 DEF ReadRoute, ReadEnds, DropRead, QueueRead, RunRead, SkipRead, CapRead, StartBy, LeastOf, Margin, TimeLeft
<1>5. ASSUME NEW w \in Writes, SendWrite(w) \/ WriteRoute(w)  PROVE CallTypes'
  BY <1>5 DEF SendWrite, WriteRoute, QueueWrite, RunWrite, WriteEnds
<1> QED
  BY <1>1, <1>2, <1>3, <1>4, <1>5 DEF PhaseNext

LEMMA ReadStep == ASSUME PhaseConstants PROVE CallsInv /\ [PhaseNext]_phaseVars => ReadInv'
<1> SUFFICES ASSUME PhaseConstants, CallTypes, ReadInv, [PhaseNext]_phaseVars  PROVE ReadInv'
  BY DEF CallsInv
<1> USE DEF CallTypes, ReadInv, PhaseConstants, Calls, WaitedFor
<1>1. CASE Tick \/ UNCHANGED phaseVars
  BY <1>1 DEF Tick, phaseVars
<1>2. ASSUME NEW c \in Calls, TakeAnswer(c)  PROVE ReadInv'
  BY <1>2 DEF TakeAnswer
<1>3. ASSUME NEW c \in Calls, GiveUp(c)  PROVE ReadInv'
  BY <1>3 DEF GiveUp
<1>4. ASSUME NEW c \in Calls, EngineEnds(c)  PROVE ReadInv'
  BY <1>4 DEF EngineEnds
<1>5. ASSUME NEW r \in Reads, BeginHook(r)  PROVE ReadInv'
  BY <1>5 DEF BeginHook
<1>6. ASSUME NEW r \in Reads, SendRead(r)  PROVE ReadInv'
  BY <1>6 DEF SendRead
<1>7. ASSUME NEW r \in Reads, HookKilled(r)  PROVE ReadInv'
  BY <1>7 DEF HookKilled
<1>8. ASSUME NEW r \in Reads, DropRead(r)  PROVE ReadInv'
  BY <1>8 DEF DropRead
<1>9. ASSUME NEW r \in Reads, QueueRead(r)  PROVE ReadInv'
  BY <1>9 DEF QueueRead, StartBy, LeastOf, Margin, TimeLeft
<1>10. ASSUME NEW r \in Reads, RunRead(r)  PROVE ReadInv'
  BY <1>10 DEF RunRead
<1>11. ASSUME NEW r \in Reads, SkipRead(r)  PROVE ReadInv'
  BY <1>11 DEF SkipRead
<1>12. ASSUME NEW r \in Reads, CapRead(r)  PROVE ReadInv'
  BY <1>12 DEF CapRead
<1>13. ASSUME NEW r \in Reads, ReadEnds(r)  PROVE ReadInv'
  BY <1>13 DEF ReadEnds
<1>14. ASSUME NEW w \in Writes, SendWrite(w) \/ WriteRoute(w)  PROVE ReadInv'
  BY <1>14 DEF SendWrite, WriteRoute, QueueWrite, RunWrite, WriteEnds
<1> QED
  BY <1>1, <1>2, <1>3, <1>4, <1>5, <1>6, <1>7, <1>8, <1>9, <1>10, <1>11, <1>12, <1>13, <1>14
  DEF PhaseNext, CommonSteps, ClientSteps, ReadRoute

\* A queued read is run only for a client that still waits, or after the hook overran its
\* own deadline, for any calls, slots and timeouts (lifecycle_api and its two pools).
THEOREM NoReadIsRunForNobody == ASSUME PhaseConstants PROVE PhaseSpec => NoReadForNobody
<1>1. PhaseInit => CallsInv
  BY DEF PhaseInit, CallsInv, CallTypes, ReadInv, WaitedFor, Calls
<1>2. CallsInv /\ [PhaseNext]_phaseVars => CallsInv'
  BY CallTypesStep, ReadStep DEF CallsInv
<1>3. CallsInv => \A r \in Reads : RunRead(r) => client[r] = "waiting" \/ now >= begun[r] + HookDeadline
  BY DEF CallsInv, CallTypes, ReadInv, WaitedFor, RunRead, Late
<1> QED
  BY <1>1, <1>2, <1>3, PTL DEF PhaseSpec, NoReadForNobody

-----------------------------------------------------------------------------
(* DaemonControl: who was there when a stop began, and where it can be.    *)

ControlInv ==
    /\ missed = 0
    /\ DOMAIN proc = Pids /\ stop = [at |-> stop.at, pid |-> stop.pid, must |-> stop.must]
    /\ \A p \in Pids : proc[p] \in Serving => port = p
    /\ \A p \in Pids \cap stop.must : proc[p] \in Serving \cup {"stopping", "dead", "other"}
    /\ stop.at = "done" => \A p \in Pids \cap stop.must : proc[p] \notin Serving
    /\ stop.must \subseteq Pids

ControlConstants == Misses = 0 /\ None \notin Pids /\ "foreign" \notin Pids

\* With no probe missed, a probe answers for the one daemon that serves.
LEMMA ProbesTell ==
  ASSUME ControlConstants, ControlInv, NEW h, Probe(h)
  PROVE  missed' = 0 /\ h = Answer
BY DEF Probe, ControlInv, ControlConstants

LEMMA SilentPort ==
  ASSUME ControlConstants, ControlInv, Answer = None  PROVE \A p \in Pids : proc[p] \notin Serving
<1> SUFFICES ASSUME NEW p \in Pids, proc[p] \in Serving  PROVE FALSE
  OBVIOUS
<1>1. port = p
  BY DEF ControlInv
<1>2. Answer = proc[p]
  BY <1>1 DEF Answer
<1> QED
  BY <1>2 DEF Serving, None

\* What happens to the processes: a place is left at its end only, and none of
\* those that have served is on its way to serve.
LEMMA ProcessesStep == ASSUME ControlConstants PROVE ControlInv /\ Processes => ControlInv'
<1> SUFFICES ASSUME ControlConstants, ControlInv, Processes  PROVE ControlInv'
  OBVIOUS
<1> USE DEF ControlInv, Serving, Living, Machine, Is, IsDaemon, Freed
<1>1. ASSUME NEW p \in Pids, Boots(p) \/ Warms(p) \/ Reused(p) \/ Respawns(p)  PROVE ControlInv'
  BY <1>1 DEF Boots, Warms, Reused, Respawns
<1>2. ASSUME NEW p \in Pids, Binds(p)  PROVE ControlInv'
  <2>1. p \notin stop.must /\ UNCHANGED <<stop, missed>> /\ proc[p] = "marked"
    BY <1>2 DEF Binds
  <2>2. CASE port = None
    <3>1. proc' = [proc EXCEPT ![p] = "warming"] /\ port' = p
      BY <1>2, <2>2 DEF Binds
    <3>2. \A q \in Pids : proc[q] \notin {"warming", "ready"}
      BY <2>2 DEF ControlConstants
    <3> QED
      BY <2>1, <3>1, <3>2
  <2>3. CASE port # None
    BY <1>2, <2>1, <2>3 DEF Binds
  <2> QED
    BY <2>2, <2>3
<1>3. ASSUME NEW p \in Pids, Exits(p) \/ Dies(p)  PROVE ControlInv'
  BY <1>3 DEF Exits, Dies
<1>4. CASE ForeignListener
  <2>1. port \in {None, "foreign"} /\ UNCHANGED <<proc, stop, missed>>
    BY <1>4 DEF ForeignListener
  <2>2. \A q \in Pids : proc[q] \notin {"warming", "ready"}
    BY <2>1 DEF ControlConstants
  <2> QED
    BY <2>1, <2>2
<1> QED
  BY <1>1, <1>2, <1>3, <1>4 DEF Processes

LEMMA StartStep == ASSUME ControlConstants PROVE ControlInv /\ StartCommand => ControlInv'
<1> SUFFICES ASSUME ControlConstants, ControlInv, StartCommand  PROVE ControlInv'
  OBVIOUS
<1>1. UNCHANGED <<port, stop>> /\ missed' = 0
  BY ProbesTell DEF StartCommand, StartLook, StartProbe, StartVerify, StartWarm, StartWatch, Launch,
                    Bootstrap, StartPort, Starting, ControlInv
<1>2. DOMAIN proc' = Pids /\ \A p \in Pids : proc'[p] = proc[p] \/ proc'[p] = "stopping"
                                            \/ (proc[p] = "new" /\ proc'[p] = "booting")
  BY DEF StartCommand, StartLook, StartProbe, StartVerify, StartWarm, StartWatch, Launch,
         Bootstrap, StartPort, Starting, ControlInv, Terminated, Is
<1> QED
  BY <1>1, <1>2 DEF ControlInv, Serving

LEMMA StopStep == ASSUME ControlConstants PROVE ControlInv /\ StopCommand => ControlInv'
<1> SUFFICES ASSUME ControlConstants, ControlInv, StopCommand  PROVE ControlInv'
  OBVIOUS
<1> USE DEF ControlInv, Serving, Living
<1>1. CASE StopBegin
  BY <1>1 DEF StopBegin, Stopping, IsDaemon
<1>2. ASSUME NEW h \in {None} \cup Living, StopBooted(h) \/ StopIdentify(h) \/ StopGone(h)
      PROVE  ControlInv'
  <2>1. Probe(h) /\ UNCHANGED <<proc, port>>
    BY <1>2 DEF StopBooted, StopIdentify, StopGone
  <2>2. missed' = 0 /\ h = Answer
    BY <2>1, ProbesTell
  <2>3. stop'.must = stop.must /\ stop' = [at |-> stop'.at, pid |-> stop'.pid, must |-> stop'.must]
    BY <1>2 DEF StopBooted, StopIdentify, StopGone, Stops
  <2>4. stop'.at = "done" => h = None
    <3>1. CASE StopBooted(h)
      BY <3>1 DEF StopBooted, Stops
    <3>2. CASE StopIdentify(h)
      <4>1. stop'.at = "done" => Target(h) = None
        BY <3>2 DEF StopIdentify
      <4>2. h # None => Target(h) = port
        BY DEF Target
      <4>3. h # None => port \in Pids
        BY <2>2 DEF Answer
      <4> QED
        BY <4>1, <4>2, <4>3 DEF ControlConstants
    <3>3. CASE StopGone(h)
      BY <3>3 DEF StopGone, Stops
    <3> QED
      BY <1>2, <3>1, <3>2, <3>3
  <2>5. h = None => \A p \in Pids \cap stop.must : proc[p] \notin Serving
    BY <2>2, SilentPort
  <2> QED
    BY <2>1, <2>2, <2>3, <2>4, <2>5
<1>3. CASE StopGrace
  BY <1>3 DEF StopGrace, Stops, Is, Freed, Gone, IsDaemon
<1> QED
  BY <1>1, <1>2, <1>3 DEF StopCommand

\* If every probe of a living daemon is answered, a stop that reports success has stopped
\* every daemon that served when it began, for any process numbers and crashes
\* (daemon.stop_daemon).
THEOREM StoppedMeansStopped ==
  ASSUME Misses = 0, None \notin Pids, "foreign" \notin Pids  PROVE ControlSpec => StopMeansStopped
<1>1. ControlInit => ControlInv
  BY DEF ControlInit, ControlInv, Serving
<1>2. ControlInv /\ [ControlNext]_controlVars => ControlInv'
  <2>1. ControlInv /\ UNCHANGED controlVars => ControlInv'
    BY DEF ControlInv, controlVars
  <2> QED
    BY <2>1, ProcessesStep, StartStep, StopStep DEF ControlNext, ControlConstants
<1>3. ControlInv' => (stop'.at = "done" => \A p \in stop'.must : proc'[p] \notin Serving)
  BY DEF ControlInv
<1> QED
  BY <1>1, <1>2, <1>3, PTL DEF ControlSpec, StopMeansStopped

-----------------------------------------------------------------------------
(* HealthProbe: the threads follow one another.                            *)

\* The value is that of the last thread that ended.
ProbeInv ==
    /\ reader = [no |-> reader.no, alive |-> reader.alive, read |-> reader.read]
    /\ reader.no \in Nat /\ last.by = (IF reader.alive THEN reader.no - 1 ELSE reader.no)
    /\ reader.alive \in BOOLEAN /\ (reader.alive => reader.no > 0)
    /\ DOMAIN ask = Requests /\ DOMAIN reply = Requests
    /\ \A q \in Requests :
         /\ ask[q] = [at |-> ask[q].at, no |-> ask[q].no, since |-> ask[q].since]
         /\ ask[q].no \in Nat /\ ask[q].since \in Nat
         /\ ask[q].at \in {"began", "joining"} => ask[q].since <= last.by
         /\ ask[q].at = "joining" => ask[q].no > ask[q].since /\ ask[q].no <= reader.no
         /\ ask[q].at \in {"began", "joining"} => ~reply[q].fresh
         /\ reply[q].fresh => ask[q].at = "done" /\ reply[q].by > ask[q].since

LEMMA ProbeStep == ProbeInv /\ [HealthNext]_healthVars => ProbeInv'
<1> SUFFICES ASSUME ProbeInv, [HealthNext]_healthVars  PROVE ProbeInv'
  OBVIOUS
<1> USE DEF ProbeInv
<1>1. CASE WarmupEnds \/ StoreCloses \/ Remember \/ UNCHANGED healthVars
  BY <1>1 DEF WarmupEnds, StoreCloses, Remember, healthVars
<1>2. CASE ReadCount
  <2>1. PICK n : n = IF closing THEN 0 ELSE stored
    OBVIOUS
  <2>2. reader' = [reader EXCEPT !.read = n] /\ UNCHANGED <<last, ask, reply>>
    BY <1>2, <2>1 DEF ReadCount
  <2>3. reader' = [no |-> reader.no, alive |-> reader.alive, read |-> n]
    BY <2>2
  <2> HIDE <2>1
  <2> QED
    BY <2>2, <2>3
<1>3. CASE PublishCount
  <2>1. reader' = [reader EXCEPT !.alive = FALSE] /\ reader.alive /\ UNCHANGED <<ask, reply>>
    BY <1>3 DEF PublishCount
  <2>2. last'.by = reader.no
    BY <1>3 DEF PublishCount
  <2>3. reader' = [no |-> reader.no, alive |-> FALSE, read |-> reader.read]
    BY <2>1
  <2>4. reader'.no = reader.no /\ reader'.alive = FALSE /\ reader'.read = reader.read
    BY <2>3
  <2>5. last.by = reader.no - 1
    BY <2>1
  <2>6. reader'.no \in Nat /\ last'.by >= last.by
        /\ last'.by = (IF reader'.alive THEN reader'.no - 1 ELSE reader'.no)
    BY <2>2, <2>4, <2>5
  <2>7. \A q \in Requests : ask[q].at \in {"began", "joining"} => ask[q].since <= last'.by
    BY <2>5, <2>6
  <2>8. /\ reader' = [no |-> reader'.no, alive |-> reader'.alive, read |-> reader'.read]
        /\ reader'.alive \in BOOLEAN /\ (reader'.alive => reader'.no > 0)
    BY <2>3, <2>4
  <2> QED
    BY <2>1, <2>4, <2>6, <2>7, <2>8
<1>4. ASSUME NEW q \in Requests, AnswerWithoutStore(q)  PROVE ProbeInv'
  BY <1>4 DEF AnswerWithoutStore, Answers
<1>5. ASSUME NEW q \in Requests, Begin(q)  PROVE ProbeInv'
  BY <1>5 DEF Begin
<1>6. ASSUME NEW q \in Requests, JoinOrStart(q)  PROVE ProbeInv'
  <2>1. PICK mid : mid = [ask EXCEPT ![q].at = "joining"]
    OBVIOUS
  <2>2. ask' = [mid EXCEPT ![q].no = reader'.no] /\ UNCHANGED <<last, reply>> /\ ask[q].at = "began"
    BY <1>6, <2>1 DEF JoinOrStart
  <2>3. /\ reader'.no \in Nat /\ reader'.no >= reader.no /\ reader'.alive = TRUE
        /\ reader' = [no |-> reader'.no, alive |-> reader'.alive, read |-> reader'.read]
        /\ last.by = reader'.no - 1
    <3>1. CASE Reading /\ UNCHANGED reader
      BY <3>1 DEF Reading
    <3>2. CASE ~Reading /\ reader' = [no |-> reader.no + 1, alive |-> TRUE, read |-> NoCount]
      BY <3>2 DEF Reading
    <3> QED
      BY <1>6, <3>1, <3>2 DEF JoinOrStart
  <2>4. ask[q].since < reader'.no
    BY <2>2, <2>3
  <2>5. mid[q] = [at |-> "joining", no |-> ask[q].no, since |-> ask[q].since]
        /\ DOMAIN mid = Requests /\ \A p \in Requests : p # q => mid[p] = ask[p]
    BY <2>1
  <2>6. /\ ask'[q] = [at |-> "joining", no |-> reader'.no, since |-> ask[q].since]
        /\ DOMAIN ask' = Requests /\ \A p \in Requests : p # q => ask'[p] = ask[p]
    BY <2>2, <2>5
  <2>7. ask'[q].at = "joining" /\ ask'[q].no = reader'.no /\ ask'[q].since = ask[q].since
    BY <2>6
  <2>8. ~reply'[q].fresh /\ reply' = reply /\ last' = last /\ reader'.no \in Nat
    BY <2>2, <2>3
  <2>9. reader'.no > 0 /\ ask[q].since \in Nat /\ ask[q].since <= last'.by
        /\ last'.by = (IF reader'.alive THEN reader'.no - 1 ELSE reader'.no)
    BY <2>2, <2>3
  <2>10. ASSUME NEW p \in Requests
         PROVE /\ ask'[p] = [at |-> ask'[p].at, no |-> ask'[p].no, since |-> ask'[p].since]
               /\ ask'[p].no \in Nat /\ ask'[p].since \in Nat
               /\ ask'[p].at \in {"began", "joining"} => ask'[p].since <= last'.by
               /\ ask'[p].at = "joining" => ask'[p].no > ask'[p].since /\ ask'[p].no <= reader'.no
               /\ ask'[p].at \in {"began", "joining"} => ~reply'[p].fresh
               /\ reply'[p].fresh => ask'[p].at = "done" /\ reply'[p].by > ask'[p].since
    <3>1. CASE p = q
      BY <2>4, <2>6, <2>7, <2>8, <2>9, <3>1
    <3>2. CASE p # q
      BY <2>3, <2>6, <2>8, <3>2
    <3> QED
      BY <3>1, <3>2
  <2> HIDE <2>1
  <2> QED
    BY <2>3, <2>6, <2>8, <2>9, <2>10
<1>7. ASSUME NEW q \in Requests, AnswerWithCount(q)  PROVE ProbeInv'
  <2>1. PICK f : f = IsFresh(q)
    OBVIOUS
  <2>2. f => last.by >= ask[q].no
    <3>1. ask[q].at = "joining"
      BY <1>7 DEF AnswerWithCount
    <3>2. f => Ended(ask[q].no)
      BY <2>1 DEF IsFresh
    <3>3. Ended(ask[q].no) => reader.no # ask[q].no \/ ~reader.alive
      BY DEF Ended
    <3> QED
      BY <3>1, <3>2, <3>3
  <2>3. /\ ask' = [ask EXCEPT ![q].at = "done"] /\ ask[q].at = "joining"
        /\ reply' = [reply EXCEPT ![q] =
                       [status |-> "ok", memories |-> last.value, fresh |-> f, by |-> last.by]]
        /\ UNCHANGED <<reader, last>>
    BY <1>7, <2>1 DEF AnswerWithCount, Answers
  <2>4. /\ reply'[q].fresh = f /\ reply'[q].by = last.by /\ DOMAIN reply' = Requests
        /\ \A p \in Requests : p # q => reply'[p] = reply[p]
    BY <2>3
  <2> HIDE <2>1
  <2> QED
    BY <2>2, <2>3, <2>4
<1> QED
  BY <1>1, <1>2, <1>3, <1>4, <1>5, <1>6, <1>7 DEF HealthNext

\* A count that is not marked stale was read by a thread that was alive during the request,
\* for any requests and any number of threads (viewer_server's health route).
THEOREM FreshCountsAreRecent == HealthSpec => []FreshIsRecent
<1>1. HealthInit => ProbeInv
  BY DEF HealthInit, ProbeInv, NoReply
<1>2. ProbeInv => FreshIsRecent
  BY DEF ProbeInv, FreshIsRecent
<1> QED
  BY <1>1, <1>2, ProbeStep, PTL DEF HealthSpec
=============================================================================
