------------------------- MODULE CaptureReleaseProofs -------------------------
(***************************************************************************)
(* release-held racing hooks and workers, for every value of the constants *)
(* and whatever hold setting each process has.  The layers TypeInv and     *)
(* LockInv of CaptureLedgerProofs survive the command; on them stand       *)
(*   OpInv    the locals of the command, and when it holds ledger.lock     *)
(*   IdsInv   nobody works with a capture id that was not given out        *)
(*   MarkInv  the replacement of a forced event is forced                  *)
(*   DoneInv  a parked event is not active, except while it is moved       *)
(* The other layers survive it until a step fails and while all processes  *)
(* share one hold setting: the last part, with the invariants it adds.     *)
(***************************************************************************)
EXTENDS CaptureRelease, CaptureLedgerProofs

USE DEF Procs, vars, ledgerVars, dataVars, worldVars, lockVars, localVars,
        sliceVars, countVars

OpLockPCs == {"supersede", "append", "unlink"}
OpMovePCs == {"move"} \cup OpLockPCs

OpRecord == [pc : {"idle", "snapshot"} \cup OpMovePCs, force : BOOLEAN,
             events : SUBSET File, snapshot : SUBSET Event,
             queued : SUBSET Event, stale : SUBSET Event]

\* The command holds ledger.lock in _release_one and nowhere else, has a file
\* to move and events to replace where it says so, all of them listed.
OpInv ==
  /\ op \in OpRecord
  /\ op.stale \cup op.queued \subseteq op.snapshot
  /\ ledgerLock = Operator <=> op.pc \in OpLockPCs
  /\ op.pc \in OpMovePCs \cup {"snapshot"} => op.events # {}
  /\ op.pc = "supersede" <=> op.stale # {}

-----------------------------------------------------------------------------
(* The step of the command *)

\* A non-empty list of parked files has an oldest one.
LEMMA FirstIn ==
  ASSUME NEW F \in SUBSET File, F # {}
  PROVE  First(F) \in F /\ \A g \in F : First(F).stamp <= g.stamp
<1> DEFINE T == {f.stamp : f \in F}
<1>1. T \in SUBSET Nat /\ T # {}
  BY DEF File
<1>2. PICK n \in T : \A m \in T : <<m, n>> \notin OpToRel(<, Nat)
  <2> HIDE DEF T
  <2> QED BY <1>1, WFMin, NatLessThanWellFounded, Zenon
<1>3. \A m \in T : n <= m
  <2> HIDE DEF T
  <2>1. \A m \in T : ~(m < n)
    BY <1>1, <1>2, Zenon DEF OpToRel
  <2> QED BY <1>1, <2>1
<1>4. \E f \in F : \A g \in F : f.stamp <= g.stamp
  BY <1>3
<1> QED
  BY <1>4 DEF First

LEMMA HeadIn ==
  ASSUME OpInv, op.pc \in OpMovePCs
  PROVE  Head \in op.events /\ Head \in File /\ Head.id \in Ids /\ Head.path \in Targets
<1>1. op.events \in SUBSET File /\ op.events # {}
  BY DEF OpInv, OpRecord
<1>2. Head \in op.events
  BY <1>1, FirstIn DEF Head
<1> QED
  BY <1>1, <1>2 DEF File

\* An idle command has no files.
LEMMA IdleOpInv == IdleOp \in OpRecord /\ IdleOp.pc = "idle" /\ IdleOp.events = {}
                   /\ IdleOp.stale = {} /\ IdleOp.queued = {}
  BY DEF IdleOp, OpRecord

\* After a file the command goes on with the next one, or ends.
LEMMA NextEventInv ==
  ASSUME OpInv, op.pc \in OpMovePCs, NextEvent
  PROVE  /\ op' \in OpRecord /\ op'.pc \in {"idle", "move"}
         /\ op'.events \subseteq op.events \ {Head}
         /\ op'.stale = {} /\ op'.queued \subseteq op'.snapshot
         /\ op'.pc = "move" => op'.events # {}
<1>1. CASE op.events \ {Head} = {}
  BY <1>1, IdleOpInv DEF NextEvent
<1>2. CASE op.events \ {Head} # {}
  BY <1>2 DEF NextEvent, OpInv, OpRecord, OpMovePCs
<1> QED
  BY <1>1, <1>2

\* A step of the command keeps the types of the queue and its locks.
LEMMA ReleaseFrame ==
  ASSUME TypeInv, LockInv, UNCHANGED <<dataVars, worldVars, workerLock, localVars, used>>,
         LedgerOK', parked' \subseteq parked,
         ledgerLock \in {Nobody, Operator} \/ ledgerLock' = ledgerLock,
         ledgerLock' \in {Nobody, Operator} \/ ledgerLock' = ledgerLock,
         faults' \in Nat, commands' \in Nat
  PROVE  TypeInv' /\ LockInv'
<1> USE LedgerAssumption
<1>1. TypeOK'
  BY DEF TypeInv, TypeOK, LedgerOK
<1>2. LocalInv'
  BY DEF TypeInv, LocalInv, EventPCs
<1>3. LockInv'
  BY DEF LockInv
<1> QED
  BY <1>1, <1>2, <1>3 DEF TypeInv

\* What a record of an event that the command writes leaves of the types.
LEMMA ReleaseAppends ==
  ASSUME TypeInv, NEW e \in Event, NEW s \in {"queued", "superseded"}, Append(e, s)
  PROVE  LedgerOK'
  BY AppendType DEF TypeInv, Statuses, Active

\* The record release_held writes for the file it moves.
Moving == [id |-> Head.id, path |-> Head.path, forced |-> Keep /\ op.force]

LEMMA MovingEvent ==
  ASSUME OpInv, op.pc \in OpMovePCs
  PROVE  Moving \in Event /\ Moving.id = Head.id
  BY HeadIn DEF Moving, Event

\* Every step of the command keeps the types, the locks and its locals.
LEMMA ReleaseStep == TypeInv /\ LockInv /\ OpInv /\ ReleaseNext => TypeInv' /\ LockInv' /\ OpInv'
<1> SUFFICES ASSUME TypeInv, LockInv, OpInv, ReleaseNext PROVE TypeInv' /\ LockInv' /\ OpInv'
  OBVIOUS
<1> USE LedgerAssumption
<1>0. LedgerOK /\ faults \in Nat /\ commands \in Nat /\ op.pc \in {"idle", "snapshot"} \cup OpMovePCs
  BY DEF TypeInv, TypeOK, LedgerOK, OpInv, OpRecord
<1>1. ASSUME NEW d \in Dirs, NEW force \in BOOLEAN, NEW b \in HoldSettings, ReleaseList(d, force, b)
      PROVE  TypeInv' /\ LockInv' /\ OpInv'
  <2> DEFINE F == {f \in parked : /\ f.dir = d /\ f.path # NoPath
                                  /\ force \/ ~OverLimit(f.path)}
  <2>1. TypeInv' /\ LockInv'
    BY <1>0, <1>1, ReleaseFrame DEF ReleaseList, LedgerOK
  <2>2. /\ op' = [IdleOp EXCEPT !.pc = "snapshot", !.force = force, !.events = F]
        /\ op'.events # {} /\ op.pc = "idle" /\ UNCHANGED ledgerLock
    BY <1>1 DEF ReleaseList
  <2>3. F \in SUBSET File
    BY DEF TypeInv, TypeOK
  <2> HIDE DEF F
  <2>4. /\ op' \in OpRecord /\ op'.pc = "snapshot" /\ op'.stale = {} /\ op'.queued = {}
    BY <2>2, <2>3, IdleOpInv DEF OpRecord
  <2> QED
    BY <2>1, <2>2, <2>4 DEF OpInv, OpLockPCs, OpMovePCs
<1>2. CASE ReleaseSnapshot
  <2>1. TypeInv' /\ LockInv'
    BY <1>0, <1>2, ReleaseFrame DEF ReleaseSnapshot, LedgerOK
  <2>2. Pending \in SUBSET Event
    BY DEF Pending, ActiveIds, Record, Event, TypeInv, TypeOK
  <2> HIDE DEF Pending
  <2>3. /\ op' = [op EXCEPT !.pc = "move", !.snapshot = Pending, !.queued = Pending]
        /\ op.pc = "snapshot" /\ UNCHANGED ledgerLock
    BY <1>2 DEF ReleaseSnapshot
  <2>4. op' \in OpRecord /\ op'.pc = "move" /\ op'.stale = {} /\ op'.events # {}
    BY <2>2, <2>3 DEF OpInv, OpRecord, OpMovePCs
  <2>5. op'.queued = Pending /\ op'.snapshot = Pending
    BY <2>3 DEF OpInv, OpRecord
  <2> QED
    BY <2>1, <2>3, <2>4, <2>5 DEF OpInv, OpLockPCs
<1>3. CASE ReleaseOne
  <2> DEFINE S == IF Moves /\ Keep THEN Replaces ELSE {}
             Q == IF Moves /\ Keep THEN {r \in op.queued : r.path # Head.path} ELSE op.queued
             l == IF S # {} THEN "supersede" ELSE IF Moves THEN "append" ELSE "unlink"
  <2>1. TypeInv' /\ LockInv'
    BY <1>0, <1>3, ReleaseFrame DEF ReleaseOne, LedgerOK
  <2>2. S \subseteq op.queued /\ Q \subseteq op.queued
    BY DEF Replaces
  <2>3. l \in OpLockPCs /\ (l = "supersede" <=> S # {})
    BY DEF OpLockPCs
  <2>4. /\ op' = [op EXCEPT !.pc = l, !.stale = S, !.queued = Q]
        /\ op.pc = "move" /\ ledgerLock' = Operator
    BY <1>3 DEF ReleaseOne
  <2> HIDE DEF S, Q, l
  <2>5. /\ op'.pc = l /\ op'.stale = S /\ op'.queued = Q
        /\ op'.snapshot = op.snapshot /\ op'.events = op.events
    BY <2>4 DEF OpInv, OpRecord
  <2>6. op' \in OpRecord
    <3>1. l \in {"idle", "snapshot"} \cup OpMovePCs
      BY <2>3 DEF OpMovePCs
    <3>2. S \in SUBSET Event /\ Q \in SUBSET Event
      BY <2>2 DEF OpInv, OpRecord
    <3> QED
      BY <2>4, <3>1, <3>2 DEF OpInv, OpRecord
  <2>7. op.events # {}
    BY <2>4 DEF OpInv, OpMovePCs
  <2> QED
    BY <2>1, <2>2, <2>3, <2>4, <2>5, <2>6, <2>7 DEF OpInv
<1>4. CASE ReleaseSupersede
  <2> DEFINE r == Oldest(op.stale)
  <2>1. r \in op.stale /\ r \in Event
    <3>1. op.stale \in SUBSET Event /\ op.stale # {}
      BY <1>4 DEF ReleaseSupersede, OpInv, OpRecord
    <3> QED
      BY <3>1, OldestIn DEF TypeInv, TypeOK
  <2>2. /\ Append(r, "superseded") /\ op.pc = "supersede"
        /\ UNCHANGED <<parked, dataVars, worldVars, lockVars, localVars, used, countVars>>
        /\ op' = [op EXCEPT !.stale = @ \ {r},
                           !.pc = IF op.stale = {r} THEN "append" ELSE @]
    BY <1>4 DEF ReleaseSupersede
  <2> HIDE DEF r
  <2>3. TypeInv' /\ LockInv'
    BY <1>0, <2>1, <2>2, ReleaseFrame, ReleaseAppends
  <2>4. /\ op'.pc = (IF op.stale = {r} THEN "append" ELSE "supersede") /\ op'.stale = op.stale \ {r}
        /\ op'.queued = op.queued /\ op'.snapshot = op.snapshot /\ op'.events = op.events
        /\ op' \in OpRecord
    BY <2>2 DEF OpInv, OpRecord, OpMovePCs, OpLockPCs
  <2> QED
    BY <2>1, <2>2, <2>3, <2>4 DEF OpInv, OpMovePCs, OpLockPCs
<1>5. CASE ReleaseAppend
  <2>1. PICK s \in {"queued", "superseded"} : Append(Moving, s)
    BY <1>5 DEF ReleaseAppend, Moving
  <2>2. /\ op.pc = "append" /\ op' = [op EXCEPT !.pc = "unlink"]
        /\ UNCHANGED <<parked, dataVars, worldVars, lockVars, localVars, used, countVars>>
    BY <1>5 DEF ReleaseAppend, OpGoto
  <2>3. Moving \in Event
    BY <2>2, MovingEvent DEF OpMovePCs, OpLockPCs
  <2>4. TypeInv' /\ LockInv'
    BY <1>0, <2>1, <2>2, <2>3, ReleaseFrame, ReleaseAppends
  <2> QED
    BY <2>2, <2>4 DEF OpInv, OpRecord, OpMovePCs, OpLockPCs
<1>6. CASE ReleaseUnlink
  <2>1. /\ NextEvent /\ op.pc = "unlink" /\ ledgerLock' = Nobody /\ parked' \subseteq parked
    BY <1>6 DEF ReleaseUnlink, Unlink
  <2>2. TypeInv' /\ LockInv'
    BY <1>0, <1>6, <2>1, ReleaseFrame DEF ReleaseUnlink, LedgerOK, OpInv, OpLockPCs
  <2> QED
    BY <2>1, <2>2, NextEventInv DEF OpInv, OpMovePCs, OpLockPCs
<1>7. CASE ReleaseLeaves
  <2>1. /\ NextEvent /\ op.pc \in OpMovePCs /\ faults' \in Nat
        /\ \/ op.pc = "move" /\ ledgerLock' = ledgerLock
           \/ op.pc \in OpLockPCs /\ ledgerLock' = Nobody
    BY <1>0, <1>7 DEF ReleaseLeaves, OpMovePCs, OpLockPCs
  <2>2. TypeInv' /\ LockInv'
    BY <1>0, <1>7, <2>1, ReleaseFrame DEF ReleaseLeaves, LedgerOK, OpInv
  <2>3. ledgerLock' # Operator
    BY <2>1 DEF OpInv, OpLockPCs
  <2> QED
    BY <2>1, <2>2, <2>3, NextEventInv DEF OpInv, OpMovePCs, OpLockPCs
<1>8. CASE ReleaseCrash
  <2>1. /\ op' = IdleOp /\ faults' \in Nat
        /\ ledgerLock' = IF ledgerLock = Operator THEN Nobody ELSE ledgerLock
    BY <1>0, <1>8 DEF ReleaseCrash
  <2>2. TypeInv' /\ LockInv'
    BY <1>0, <1>8, <2>1, ReleaseFrame DEF ReleaseCrash, LedgerOK
  <2> QED
    BY <2>1, <2>2, IdleOpInv DEF OpInv, OpMovePCs, OpLockPCs
<1> QED
  BY <1>1, <1>2, <1>3, <1>4, <1>5, <1>6, <1>7, <1>8 DEF ReleaseNext

\* No hook or worker takes ledger.lock from the command or hands it over.
LEMMA OperatorLock ==
  TypeInv /\ LockInv /\ [Next]_vars => (ledgerLock' = Operator <=> ledgerLock = Operator)
<1> SUFFICES ASSUME TypeInv, LockInv, [Next]_vars
             PROVE  ledgerLock' = Operator <=> ledgerLock = Operator
  OBVIOUS
<1> USE LedgerAssumption
<1>1. CASE UNCHANGED ledgerLock
  BY <1>1
<1>2. ASSUME NEW q \in Procs, Lock(q) PROVE ledgerLock' = Operator <=> ledgerLock = Operator
  BY <1>2 DEF Lock
<1>3. ASSUME NEW q \in Procs, q \in Hooks => pc[q] \in HookLockPCs,
             q \in Workers => pc[q] \in WorkerLockPCs, Free
      PROVE  ledgerLock' = Operator <=> ledgerLock = Operator
  BY <1>3 DEF Free, LockInv
<1>4. ASSUME NEW q \in Procs, NEW e, EnqueueHeld(q, e) \/ EnqueueQueued(q, e)
      PROVE  ledgerLock' = Operator <=> ledgerLock = Operator
  BY <1>1, <1>2, <1>4 DEF EnqueueHeld, EnqueueQueued, LockBriefly
<1>5. ASSUME NEW h \in Hooks, NEW t \in Targets, NEW i \in Ids, SessionEnd(h, t, i)
      PROVE  ledgerLock' = Operator <=> ledgerLock = Operator
  BY <1>4, <1>5 DEF SessionEnd
<1>6. ASSUME NEW w \in Workers, NEW i \in Ids, Continue(w, i)
      PROVE  ledgerLock' = Operator <=> ledgerLock = Operator
  BY <1>4, <1>6 DEF Continue
<1>7. ASSUME NEW q \in Procs, EnqueueDrop(q) \/ EnqueueSupersede(q)
      PROVE  ledgerLock' = Operator <=> ledgerLock = Operator
  BY <1>1, <1>3, <1>7 DEF EnqueueDrop, EnqueueSupersede, HookLockPCs, WorkerLockPCs
<1>8. ASSUME NEW h \in Hooks, EnqueueNoPath(h) PROVE ledgerLock' = Operator <=> ledgerLock = Operator
  BY <1>1, <1>3, <1>8 DEF EnqueueNoPath, HookLockPCs
<1>9. ASSUME NEW w \in Workers, HoldOne(w) \/ QuarantineLarge(w)
      PROVE  ledgerLock' = Operator <=> ledgerLock = Operator
  BY <1>2, <1>9 DEF HoldOne, QuarantineLarge, HoldEvent
<1>10. ASSUME NEW w \in Workers, HoldFinish(w) PROVE ledgerLock' = Operator <=> ledgerLock = Operator
  BY <1>1, <1>3, <1>10 DEF HoldFinish, WorkerLockPCs
<1>11. ASSUME NEW w \in Workers,
              TryWorkerLock(w) \/ Scan(w) \/ HoldDone(w) \/ Recycle(w) \/ SpawnSuccessor(w)
                \/ TakeJob(w) \/ CaptureNothing(w) \/ CaptureFails(w) \/ CaptureSlice(w)
                \/ WriteOffset(w) \/ ContinueTimeout(w) \/ FinishJob(w) \/ Release(w) \/ Rescan(w)
                \/ Exit(w)
       PROVE  UNCHANGED ledgerLock
  BY <1>11 DEF TryWorkerLock, Scan, HoldDone, Recycle, SpawnSuccessor, TakeJob, CaptureNothing,
               CaptureFails, CaptureSlice, WriteOffset, ContinueTimeout, FinishJob, Release, Rescan,
               Exit, LockBriefly
<1>12. ASSUME NEW q \in Procs, Crash(q) PROVE ledgerLock' = Operator <=> ledgerLock = Operator
  BY <1>12 DEF Crash
<1> QED
  BY <1>1, <1>5, <1>6, <1>7, <1>8, <1>9, <1>10, <1>11, <1>12
  DEF Next, HookStep, WorkerStep, Grow, SpawnCount, Spawn, Drain, RequeueErrors, LockBriefly

\* What holds of the locks and of the locals of the command, in every state.
BaseInv == TypeInv /\ LockInv /\ OpInv

LEMMA BaseInit == RInit => BaseInv
<1> SUFFICES ASSUME RInit PROVE BaseInv
  OBVIOUS
<1>1. Init /\ op = IdleOp
  BY DEF RInit
<1>2. ledgerLock # Operator
  BY <1>1, LedgerAssumption DEF Init
<1> QED
  BY <1>1, <1>2, TypeInit, LockInit, IdleOpInv DEF BaseInv, OpInv, OpMovePCs, OpLockPCs

LEMMA BaseStep == BaseInv /\ [RNext]_releaseVars => BaseInv'
<1>1. ASSUME BaseInv, [Next]_vars, UNCHANGED op PROVE BaseInv'
  <2>1. OpInv'
    BY <1>1, OperatorLock DEF BaseInv, OpInv
  <2> QED
    BY <1>1, <2>1, TypeStep, LockStep DEF BaseInv
<1> QED
  BY <1>1, ReleaseStep DEF BaseInv, RNext, releaseVars

-----------------------------------------------------------------------------
(* Capture ids *)

\* The files the command or a parking lot knows.
Known == parked \cup op.events

\* An id that is in the ledger, in a parking lot or in the hands of a process
\* was given out: the next enqueue does not reuse it.
IdsInv ==
  /\ IdInv
  /\ \A q \in Procs : \A e \in todo[q] : e.id \in used
  /\ \A q \in Procs : pc[q] \in EventPCs(q) => cur[q].id \in used
  /\ \A f \in Known : f.id \in used
  /\ \A r \in op.snapshot : r.id \in used

\* A record of an id that is given out keeps the ledger so.
LEMMA IdsAppend ==
  ASSUME TypeInv, IdsInv, used \subseteq used', NEW e \in Event, e.id \in used', NEW s, Append(e, s)
  PROVE  IdInv'
  BY AppendLedger DEF IdsInv, IdInv

\* A step of a hook or worker that gets no id but those given out.
LEMMA IdsFrame ==
  ASSUME IdsInv, IdInv', used \subseteq used', UNCHANGED op,
         \A q \in Procs : \A e \in todo'[q] : e \in todo[q] \/ e.id \in used',
         \A q \in Procs : pc'[q] \in EventPCs(q) =>
           (pc[q] \in EventPCs(q) /\ cur'[q] = cur[q]) \/ cur'[q].id \in used',
         \A f \in parked' : f \in parked \/ f.id \in used'
  PROVE  IdsInv'
  BY DEF IdsInv, Known

\* An enqueue takes a fresh id and gives it out.
LEMMA IdsEnqueue ==
  ASSUME TypeInv, IdsInv, UNCHANGED op, NEW q \in Procs, NEW e \in Event,
         EnqueueHeld(q, e) \/ EnqueueQueued(q, e),
         cur'[q].id = e.id \/ (pc[q] \in EventPCs(q) /\ cur'[q] = cur[q]),
         \A r \in Procs \ {q} : cur'[r] = cur[r]
  PROVE  IdsInv'
<1>1. used' = used \cup {e.id}
  BY DEF EnqueueHeld, EnqueueQueued
<1>2. \A r \in Procs \ {q} : pc'[r] = pc[r]
  BY DEF EnqueueHeld, EnqueueQueued, Goto, TypeInv, TypeOK
<1>3. CASE EnqueueHeld(q, e)
  <2>1. IdInv' /\ todo' = todo
    BY <1>1, <1>3 DEF EnqueueHeld, IdsInv, IdInv
  <2>2. \A f \in parked' : f \in parked \/ f.id \in used'
    BY <1>1, <1>3 DEF EnqueueHeld, Park
  <2> QED
    BY <1>1, <1>2, <2>1, <2>2, IdsFrame DEF IdsInv
<1>4. CASE EnqueueQueued(q, e)
  <2> DEFINE f == [e EXCEPT !.forced = Mark(e)]
  <2>1. f \in Event /\ f.id = e.id /\ Append(f, "queued") /\ parked' = parked
    BY <1>4 DEF EnqueueQueued, Event, Mark
  <2> HIDE DEF f
  <2>2. IdInv'
    BY <1>1, <2>1, IdsAppend
  <2>3. todo' = [todo EXCEPT ![q] = Stale(e)]
    BY <1>4 DEF EnqueueQueued
  <2>4. \A g \in Stale(e) : g.id \in used
    BY DEF Stale, QueuedFor, Record, IdsInv, IdInv
  <2>5. \A r \in Procs : \A g \in todo'[r] : g \in todo[r] \/ g.id \in used'
    BY <1>1, <2>3, <2>4 DEF TypeInv, TypeOK
  <2> QED
    BY <1>1, <1>2, <2>1, <2>2, <2>5, IdsFrame DEF IdsInv
<1> QED
  BY <1>3, <1>4

\* Starting a worker moves its starter and the worker.
LEMMA SpawnEffect ==
  ASSUME TypeInv, NEW q \in Procs, NEW l,
         \E v \in Workers : pc' = [pc EXCEPT ![q] = l, ![v] = "start"]
  PROVE  /\ pc'[q] \in {l, "start"}
         /\ \A r \in Procs \ {q} : pc'[r] = pc[r] \/ (pc'[r] = "start" /\ r \in Workers)
  BY DEF TypeInv, TypeOK

\* Whoever takes an event from those it read works with an id that is given out.
LEMMA IdsNext == TypeInv /\ IdsInv /\ [Next]_vars /\ UNCHANGED op => IdsInv'
<1> SUFFICES ASSUME TypeInv, IdsInv, [Next]_vars, UNCHANGED op PROVE IdsInv'
  OBVIOUS
<1> USE LedgerAssumption
<1>1. ASSUME NEW h \in Hooks, NEW t \in Targets, NEW i \in Ids, SessionEnd(h, t, i) PROVE IdsInv'
  <2> DEFINE e == [id |-> i, path |-> t, forced |-> FALSE]
  <2>1. /\ e \in Event /\ cur'[h].id = e.id
        /\ \A r \in Procs \ {h} : cur'[r] = cur[r]
        /\ EnqueueHeld(h, e) \/ EnqueueQueued(h, e)
    BY <1>1 DEF SessionEnd, Event, TypeInv, TypeOK
  <2> HIDE DEF e
  <2>2. h \in Procs
    OBVIOUS
  <2>3. CASE EnqueueHeld(h, e)
    BY <2>1, <2>2, <2>3, IdsEnqueue
  <2>4. CASE EnqueueQueued(h, e)
    BY <2>1, <2>2, <2>4, IdsEnqueue
  <2> QED
    BY <2>1, <2>3, <2>4
<1>2. ASSUME NEW w \in Workers, NEW i \in Ids, Continue(w, i) PROVE IdsInv'
  <2> DEFINE e == [cur[w] EXCEPT !.id = i]
  <2>1. cur[w] \in Event /\ pc[w] \in EventPCs(w) /\ cur' = cur
    BY <1>2 DEF Continue, TypeInv, LocalInv, EventPCs, JobPCs
  <2>2. e \in Event /\ (EnqueueHeld(w, e) \/ EnqueueQueued(w, e))
    BY <1>2, <2>1 DEF Continue, Event
  <2> HIDE DEF e
  <2> QED
    BY <2>1, <2>2, IdsEnqueue
<1>3. ASSUME NEW q \in Procs, EnqueueDrop(q) PROVE IdsInv'
  <2>1. /\ UNCHANGED <<ledger, used, cur, todo>> /\ parked' \subseteq parked
        /\ pc[q] = "drop" /\ \A r \in Procs : pc'[r] \in {pc[r], "gone", "finish"} /\ (r # q => pc'[r] = pc[r])
        /\ pc'[q] = "finish" => q \notin Hooks
    BY <1>3 DEF EnqueueDrop, DropOlder, AfterHeld, Goto, TypeInv, TypeOK
  <2> QED
    BY <2>1, IdsFrame DEF IdsInv, IdInv, EventPCs, HookLockPCs, JobPCs
<1>4. ASSUME NEW q \in Procs, EnqueueSupersede(q) PROVE IdsInv'
  <2> DEFINE e == Oldest(todo[q])
  <2>1. e \in todo[q] /\ e \in Event
    BY <1>4, OldestIn DEF EnqueueSupersede, TypeInv, TypeOK, LocalInv
  <2>2. Append(e, "superseded") /\ UNCHANGED <<used, parked, cur>> /\ pc[q] = "supersede"
    BY <1>4 DEF EnqueueSupersede
  <2>3. /\ \A r \in Procs : todo'[r] \subseteq todo[r]
        /\ \A r \in Procs \ {q} : pc'[r] = pc[r]
    BY <1>4 DEF EnqueueSupersede, Goto, TypeInv, TypeOK
  <2>4. IdInv'
    BY <2>1, <2>2, IdsAppend DEF IdsInv
  <2> QED
    BY <2>2, <2>3, <2>4, IdsFrame DEF EventPCs, HookLockPCs, JobPCs
<1>5. ASSUME NEW h \in Hooks, EnqueueNoPath(h) PROVE IdsInv'
  <2>1. PICK s \in {"running", "error"} : Append(cur[h], s)
    BY <1>5 DEF EnqueueNoPath
  <2>2. /\ cur[h] \in Event /\ cur[h].id \in used /\ pc[h] \in EventPCs(h)
        /\ UNCHANGED <<used, parked, cur, todo>> /\ \A r \in Procs \ {h} : pc'[r] = pc[r]
    BY <1>5 DEF EnqueueNoPath, Goto, TypeInv, TypeOK, LocalInv, EventPCs, HookLockPCs, IdsInv
  <2> QED
    BY <2>1, <2>2, IdsAppend, IdsFrame
<1>6. ASSUME NEW w \in Workers, Scan(w) PROVE IdsInv'
  <2>1. /\ todo' = [todo EXCEPT ![w] = Pending] /\ UNCHANGED <<ledger, used, parked, cur>>
        /\ pc'[w] \notin EventPCs(w) /\ \A r \in Procs \ {w} : pc'[r] = pc[r]
    BY <1>6 DEF Scan, NoWrite, Goto, TypeInv, TypeOK, EventPCs, JobPCs
  <2>2. \A e \in Pending : e.id \in used
    BY DEF Pending, ActiveIds, Active, Record, IdsInv, IdInv
  <2> HIDE DEF Pending
  <2>3. \A r \in Procs : \A e \in todo'[r] : e \in todo[r] \/ e.id \in used'
    BY <2>1, <2>2 DEF TypeInv, TypeOK
  <2>4. IdInv'
    BY <2>1 DEF IdsInv, IdInv
  <2> QED
    BY <2>1, <2>3, <2>4, IdsFrame
<1>7. ASSUME NEW w \in Workers, NEW e \in todo[w], NEW d \in Dirs, HoldEvent(w, e, d) PROVE IdsInv'
  <2>1. /\ UNCHANGED <<ledger, used>> /\ cur' = [cur EXCEPT ![w] = e]
        /\ todo' = [todo EXCEPT ![w] = @ \ {e}] /\ Goto(w, "park") /\ e.id \in used
        /\ \A f \in parked' : f \in parked \/ f.id = e.id
    BY <1>7 DEF HoldEvent, Park, IdsInv
  <2>2. /\ cur'[w] = e /\ \A r \in Procs : todo'[r] \subseteq todo[r]
        /\ \A r \in Procs \ {w} : cur'[r] = cur[r] /\ pc'[r] = pc[r]
    BY <2>1 DEF Goto, TypeInv, TypeOK
  <2>3. IdInv'
    BY <2>1 DEF IdsInv, IdInv
  <2> QED
    BY <2>1, <2>2, <2>3, IdsFrame
<1>8. ASSUME NEW w \in Workers, HoldOne(w) \/ QuarantineLarge(w) PROVE IdsInv'
  <2>1. PICK S \in SUBSET todo[w], d \in Dirs : S # {} /\ HoldEvent(w, Oldest(S), d)
    <3>1. CASE HoldOne(w)
      BY <3>1 DEF HoldOne, Unforced, Dirs
    <3>2. CASE QuarantineLarge(w)
      BY <3>2 DEF QuarantineLarge, Dirs, TypeInv, LocalInv
    <3> QED
      BY <1>8, <3>1, <3>2
  <2>2. Oldest(S) \in todo[w]
    BY <2>1, OldestIn DEF TypeInv, TypeOK
  <2> QED
    BY <1>7, <2>1, <2>2
<1>9. ASSUME NEW w \in Workers, HoldFinish(w) PROVE IdsInv'
  <2>1. /\ UNCHANGED <<used, cur, todo>> /\ parked' \subseteq parked /\ pc[w] = "park"
        /\ pc'[w] \in {"park", "holding", "scan"} /\ \A r \in Procs \ {w} : pc'[r] = pc[r]
    BY <1>9 DEF HoldFinish, DropOlder, Goto, TypeInv, TypeOK
  <2>2. cur[w] \in Event /\ cur[w].id \in used
    BY <2>1 DEF TypeInv, LocalInv, EventPCs, IdsInv
  <2>3. IdInv'
    <3>1. ledger' = ledger \/ \E s \in Statuses : Append(cur[w], s)
      BY <1>9 DEF HoldFinish, Statuses
    <3> QED
      BY <2>1, <2>2, <3>1, IdsAppend DEF IdsInv, IdInv
  <2> QED
    BY <2>1, <2>3, IdsFrame DEF EventPCs, JobPCs
<1>10. ASSUME NEW w \in Workers, TakeJob(w) PROVE IdsInv'
  <2> DEFINE e == Oldest(todo[w])
  <2>1. e \in todo[w] /\ e \in Event
    BY <1>10, OldestIn DEF TakeJob, TypeInv, TypeOK, LocalInv
  <2>2. /\ Append(e, "running") /\ UNCHANGED <<used, parked>>
        /\ cur' = [cur EXCEPT ![w] = e] /\ todo' = [todo EXCEPT ![w] = {}] /\ Goto(w, "capture")
    BY <1>10 DEF TakeJob
  <2> HIDE DEF e
  <2>3. /\ cur'[w] = e /\ \A r \in Procs : todo'[r] \subseteq todo[r]
        /\ \A r \in Procs \ {w} : cur'[r] = cur[r] /\ pc'[r] = pc[r]
    BY <2>2 DEF Goto, TypeInv, TypeOK
  <2>4. e.id \in used
    BY <2>1 DEF IdsInv
  <2> QED
    BY <2>1, <2>2, <2>3, <2>4, IdsAppend, IdsFrame
<1>11. ASSUME NEW w \in Workers, FinishJob(w) PROVE IdsInv'
  <2>1. PICK s \in {"done", "error"} : Append(cur[w], s)
    BY <1>11 DEF FinishJob
  <2>2. /\ cur[w] \in Event /\ cur[w].id \in used /\ UNCHANGED <<used, parked, todo>>
        /\ pc'[w] \notin EventPCs(w)
        /\ \A r \in Procs \ {w} : pc'[r] = pc[r] /\ cur'[r] = cur[r]
    BY <1>11 DEF FinishJob, Goto, TypeInv, TypeOK, LocalInv, EventPCs, JobPCs, IdsInv
  <2> QED
    BY <2>1, <2>2, IdsAppend, IdsFrame
<1>12. ASSUME NEW S \in SUBSET Ids, RequeueErrors(S) PROVE IdsInv'
  <2>1. \A i \in Ids : ledger'[i].status # "none" => ledger[i].status # "none"
    BY <1>12 DEF RequeueErrors, TypeInv, TypeOK
  <2>2. UNCHANGED <<used, parked, pc, cur, todo>>
    BY <1>12 DEF RequeueErrors
  <2>3. IdInv'
    BY <2>1, <2>2 DEF IdsInv, IdInv
  <2> QED
    BY <2>2, <2>3, IdsFrame
<1>13. ASSUME UNCHANGED <<ledger, used, parked>>, NEW q \in Procs,
              todo'[q] \subseteq todo[q],
              pc'[q] \in EventPCs(q) => pc[q] \in EventPCs(q) /\ cur'[q] = cur[q],
              \A r \in Procs \ {q} : \/ pc'[r] = pc[r] /\ cur'[r] = cur[r] /\ todo'[r] = todo[r]
                                     \/ pc'[r] = "start" /\ r \in Workers /\ todo'[r] = todo[r]
       PROVE  IdsInv'
  <2>1. "start" \notin JobPCs \cup {"park"}
    BY DEF JobPCs
  <2> QED
    BY <1>13, <2>1, IdsFrame DEF IdsInv, IdInv, EventPCs
<1>14. ASSUME NEW h \in Hooks, SpawnCount(h) \/ Spawn(h) PROVE IdsInv'
  <2>1. /\ UNCHANGED <<ledger, used, parked, cur, todo>> /\ pc'[h] \in {"spawn", "gone", "start"}
        /\ \A r \in Procs \ {h} : pc'[r] = pc[r] \/ (pc'[r] = "start" /\ r \in Workers)
    <3>1. CASE SpawnCount(h)
      BY <3>1 DEF SpawnCount, Goto, TypeInv, TypeOK
    <3>2. CASE Spawn(h)
      BY <3>2, SpawnEffect DEF Spawn
    <3> QED
      BY <1>14, <3>1, <3>2
  <2> QED
    BY <1>13, <2>1 DEF EventPCs, HookLockPCs
<1>15. ASSUME NEW w \in Workers,
              TryWorkerLock(w) \/ HoldDone(w) \/ Recycle(w) \/ SpawnSuccessor(w)
                \/ CaptureNothing(w) \/ CaptureFails(w) \/ CaptureSlice(w) \/ WriteOffset(w)
                \/ ContinueTimeout(w)
       PROVE  IdsInv'
  <2>1. CASE TryWorkerLock(w) \/ HoldDone(w)
    <3>1. /\ UNCHANGED <<ledger, used, parked, cur, todo>>
          /\ pc'[w] \in {"scan", "exit", "release", "pick"}
          /\ \A r \in Procs \ {w} : pc'[r] = pc[r]
      BY <2>1 DEF TryWorkerLock, HoldDone, NoWrite, Goto, TypeInv, TypeOK
    <3> QED
      BY <1>13, <3>1 DEF EventPCs, JobPCs
  <2>2. CASE Recycle(w) \/ SpawnSuccessor(w)
    <3>1. /\ UNCHANGED <<ledger, used, parked, cur, todo>>
          /\ pc'[w] \in {"exit", "successor", "start"}
          /\ \A r \in Procs \ {w} : pc'[r] = pc[r] \/ (pc'[r] = "start" /\ r \in Workers)
      <4>1. CASE Recycle(w)
        BY <4>1 DEF Recycle, NoWrite, Goto, TypeInv, TypeOK
      <4>2. CASE SpawnSuccessor(w)
        BY <4>2, SpawnEffect DEF SpawnSuccessor
      <4> QED
        BY <2>2, <4>1, <4>2
    <3> QED
      BY <1>13, <3>1 DEF EventPCs, JobPCs
  <2>3. CASE CaptureNothing(w) \/ CaptureFails(w) \/ CaptureSlice(w) \/ WriteOffset(w)
                \/ ContinueTimeout(w)
    <3>1. /\ UNCHANGED <<ledger, used, parked, cur, todo>> /\ pc[w] \in JobPCs
          /\ \A r \in Procs \ {w} : pc'[r] = pc[r]
      BY <2>3
      DEF CaptureNothing, CaptureFails, CaptureSlice, WriteOffset, ContinueTimeout, NoWrite, Goto,
          TypeInv, TypeOK, JobPCs
    <3> QED
      BY <1>13, <3>1 DEF EventPCs
  <2> QED
    BY <1>15, <2>1, <2>2, <2>3
<1>16. ASSUME NEW q \in Procs,
              (q \in Workers /\ (Release(q) \/ Rescan(q) \/ Exit(q))) \/ Crash(q)
                \/ (\E b \in HoldSettings : q \in Workers /\ Drain(q, b))
       PROVE  IdsInv'
  <2>1. /\ UNCHANGED <<ledger, used, parked>> /\ todo'[q] \subseteq todo[q]
        /\ pc'[q] \in {"rescan", "start", "exit", "off", "gone"}
        /\ \A r \in Procs \ {q} : pc'[r] = pc[r] /\ cur'[r] = cur[r] /\ todo'[r] = todo[r]
    BY <1>16 DEF Release, Rescan, Exit, Crash, Gone, Drain, Start, NoWrite, Goto, TypeInv, TypeOK
  <2> QED
    BY <1>13, <2>1 DEF EventPCs, HookLockPCs, JobPCs
<1>17. CASE UNCHANGED <<ledger, used, parked, pc, cur, todo>>
  BY <1>17, IdsFrame DEF IdsInv, IdInv
<1> QED
  BY <1>1, <1>2, <1>3, <1>4, <1>5, <1>6, <1>8, <1>9, <1>10, <1>11, <1>12, <1>14, <1>15, <1>16, <1>17
  DEF Next, HookStep, WorkerStep, Grow

\* The command writes the files and events it listed and keeps them given out.
LEMMA IdsRelease == BaseInv /\ IdsInv /\ ReleaseNext => IdsInv'
<1> SUFFICES ASSUME TypeInv, LockInv, OpInv, IdsInv, ReleaseNext PROVE IdsInv'
  BY DEF BaseInv
<1>1. ASSUME UNCHANGED <<localVars, used>>, IdInv', parked' \subseteq parked,
             op'.events \subseteq Known, \A r \in op'.snapshot : r.id \in used
      PROVE  IdsInv'
  BY <1>1 DEF IdsInv, Known, EventPCs
<1>2. ASSUME NEW d \in Dirs, NEW force \in BOOLEAN, NEW b \in HoldSettings, ReleaseList(d, force, b)
      PROVE  IdsInv'
  <2>1. op'.events \subseteq parked /\ op'.snapshot = {}
    BY <1>2 DEF ReleaseList, IdleOp
  <2> QED
    BY <1>1, <1>2, <2>1 DEF ReleaseList, IdsInv, IdInv, Known
<1>3. CASE ReleaseSnapshot
  <2>1. \A r \in Pending : r.id \in used
    BY DEF Pending, ActiveIds, Active, Record, IdsInv, IdInv
  <2>2. op'.events = op.events /\ op'.snapshot = Pending
    BY <1>3 DEF ReleaseSnapshot, OpInv, OpRecord
  <2> QED
    BY <1>1, <1>3, <2>1, <2>2 DEF ReleaseSnapshot, IdsInv, IdInv, Known
<1>4. CASE ReleaseOne
  <2>1. op'.events = op.events /\ op'.snapshot = op.snapshot
    BY <1>4 DEF ReleaseOne, OpInv, OpRecord
  <2> QED
    BY <1>1, <1>4, <2>1 DEF ReleaseOne, IdsInv, IdInv, Known
<1>5. CASE ReleaseSupersede
  <2> DEFINE r == Oldest(op.stale)
  <2>1. op.stale \in SUBSET Event /\ op.stale # {} /\ op.stale \subseteq op.snapshot
    BY <1>5 DEF ReleaseSupersede, OpInv, OpRecord
  <2>2. r \in op.stale /\ r \in Event /\ r.id \in used
    BY <2>1, OldestIn DEF TypeInv, TypeOK, IdsInv
  <2>3. /\ Append(r, "superseded") /\ UNCHANGED <<localVars, used, parked>>
        /\ op'.events = op.events /\ op'.snapshot = op.snapshot
    BY <1>5 DEF ReleaseSupersede, OpInv, OpRecord
  <2> HIDE DEF r
  <2> QED
    BY <1>1, <2>2, <2>3, IdsAppend DEF IdsInv, Known
<1>6. CASE ReleaseAppend
  <2>1. PICK s \in {"queued", "superseded"} : Append(Moving, s)
    BY <1>6 DEF ReleaseAppend, Moving
  <2>2. Moving \in Event /\ Moving.id \in used
    BY <1>6, MovingEvent, HeadIn DEF ReleaseAppend, OpMovePCs, OpLockPCs, IdsInv, Known
  <2>3. /\ UNCHANGED <<localVars, used, parked>>
        /\ op'.events = op.events /\ op'.snapshot = op.snapshot
    BY <1>6 DEF ReleaseAppend, OpGoto, OpInv, OpRecord
  <2> QED
    BY <1>1, <2>1, <2>2, <2>3, IdsAppend DEF IdsInv, Known
<1>7. CASE ReleaseUnlink \/ ReleaseLeaves
  <2>1. NextEvent /\ op.pc \in OpMovePCs /\ parked' \subseteq parked /\ UNCHANGED <<ledger, localVars, used>>
    BY <1>7 DEF ReleaseUnlink, Unlink, ReleaseLeaves, OpMovePCs, OpLockPCs
  <2>2. op'.events \subseteq op.events
    BY <2>1, NextEventInv
  <2>3. op'.snapshot \in {{}, op.snapshot}
    BY <2>1 DEF NextEvent, IdleOp, OpInv, OpRecord
  <2> QED
    BY <1>1, <2>1, <2>2, <2>3 DEF IdsInv, IdInv, Known
<1>8. CASE ReleaseCrash
  <2>1. op'.events = {} /\ op'.snapshot = {}
    BY <1>8 DEF ReleaseCrash, IdleOp
  <2> QED
    BY <1>1, <1>8, <2>1 DEF ReleaseCrash, IdsInv, IdInv, Known
<1> QED
  BY <1>2, <1>3, <1>4, <1>5, <1>6, <1>7, <1>8 DEF ReleaseNext

LEMMA IdsInit == RInit => IdsInv
<1> SUFFICES ASSUME RInit PROVE IdsInv
  OBVIOUS
<1>1. Init /\ op.events = {} /\ op.snapshot = {}
  BY DEF RInit, IdleOp
<1> QED
  BY <1>1, LedgerAssumption DEF Init, IdsInv, IdInv, Known, EventPCs, HookLockPCs, JobPCs

LEMMA IdsStep == BaseInv /\ IdsInv /\ [RNext]_releaseVars => IdsInv'
<1>1. BaseInv /\ IdsInv /\ [Next]_vars /\ UNCHANGED op => IdsInv'
  BY IdsNext DEF BaseInv
<1> QED
  BY <1>1, IdsRelease DEF RNext, releaseVars

-----------------------------------------------------------------------------
(* The forced mark *)

\* While events are superseded one that is queued replaces them, and it is
\* forced if one of them is.
MarkInv ==
  \A q \in Procs : pc[q] = "supersede" =>
    /\ \A e \in todo[q] : e = Record(e.id) /\ e.path = cur[q].path
    /\ \E j \in Ids : /\ ledger[j].status = "queued" /\ ledger[j].path = cur[q].path
                      /\ \A e \in todo[q] : e.id # j /\ (e.forced => ledger[j].forced)

\* Where nobody else writes the ledger the invariant stays.
LEMMA MarkFrame ==
  ASSUME MarkInv,
         \A q \in Procs : pc'[q] = "supersede" =>
           /\ pc[q] = "supersede" /\ cur'[q] = cur[q] /\ todo'[q] = todo[q]
           /\ ledger' = ledger
  PROVE  MarkInv'
  BY DEF MarkInv, Record

\* Without ledger.lock nobody supersedes.
LEMMA NobodySupersedes ==
  ASSUME LockInv, NEW q \in Procs, ledgerLock # q
  PROVE  pc[q] # "supersede"
  BY DEF LockInv, HookLockPCs, WorkerLockPCs

\* The event of an enqueue takes the mark of every event it replaces.
LEMMA MarkEnqueue ==
  ASSUME TypeInv, LockInv, IdsInv, NEW q \in Procs, NEW e \in Event, e.id \notin used,
         EnqueueHeld(q, e) \/ EnqueueQueued(q, e), cur'[q].path = e.path
  PROVE  MarkInv'
<1> USE LedgerAssumption
<1>1. ledgerLock = Nobody /\ \A r \in Procs : pc[r] # "supersede"
  <2>1. ledgerLock = Nobody
    BY DEF EnqueueHeld, EnqueueQueued, Lock, LockBriefly
  <2> QED
    BY <2>1, NobodySupersedes
<1>2. \A r \in Procs \ {q} : pc'[r] = pc[r]
  BY DEF EnqueueHeld, EnqueueQueued, Goto, TypeInv, TypeOK
<1>3. CASE pc'[q] # "supersede"
  BY <1>1, <1>2, <1>3 DEF MarkInv
<1>4. CASE pc'[q] = "supersede"
  <2> DEFINE f == [e EXCEPT !.forced = Mark(e)]
  <2>1. EnqueueQueued(q, e)
    BY <1>4 DEF EnqueueHeld, Goto, TypeInv, TypeOK
  <2>2. f \in Event /\ f.id = e.id /\ f.path = e.path /\ f.forced = Mark(e) /\ Append(f, "queued")
    BY <2>1 DEF EnqueueQueued, Event, Mark
  <2> HIDE DEF f
  <2>3. /\ ledger'[e.id] = [path |-> f.path, forced |-> f.forced, status |-> "queued"]
        /\ \A i \in Ids \ {e.id} : ledger'[i] = ledger[i]
    BY <2>2, AppendLedger
  <2>4. /\ ledger'[e.id].status = "queued" /\ ledger'[e.id].path = e.path
        /\ ledger'[e.id].forced = Mark(e) /\ e.id \in Ids
    BY <2>2, <2>3 DEF Event
  <2>5. todo'[q] = Stale(e)
    BY <2>1 DEF EnqueueQueued, TypeInv, TypeOK
  <2>6. ledger[e.id].status = "none"
    BY <2>4 DEF IdsInv, IdInv
  <2>7. \A g \in Stale(e) : g.id \in Ids \ {e.id} /\ g = Record(g.id) /\ g.path = e.path
    BY <2>6 DEF Stale, QueuedFor, Record
  <2>8. \A g \in Stale(e) : g = Record(g.id)'
    BY <2>3, <2>7 DEF Record
  <2>9. \A g \in Stale(e) : g.forced => Mark(e)
    BY DEF Mark
  <2> QED
    BY <1>1, <1>2, <2>4, <2>5, <2>7, <2>8, <2>9 DEF MarkInv
<1> QED
  BY <1>3, <1>4

\* Superseding one event leaves its replacement and the others as they are.
LEMMA MarkSupersede ==
  ASSUME TypeInv, LockInv, MarkInv, NEW q \in Procs, EnqueueSupersede(q)
  PROVE  MarkInv'
<1> DEFINE e == Oldest(todo[q])
<1>1. e \in todo[q] /\ e \in Event /\ pc[q] = "supersede"
  BY OldestIn DEF EnqueueSupersede, TypeInv, TypeOK, LocalInv
<1>2. Append(e, "superseded") /\ UNCHANGED cur /\ todo'[q] = todo[q] \ {e}
  BY DEF EnqueueSupersede, TypeInv, TypeOK
<1>3. \A r \in Procs \ {q} : pc'[r] = pc[r]
  BY DEF EnqueueSupersede, Goto, TypeInv, TypeOK
<1>4. \A r \in Procs \ {q} : pc[r] # "supersede"
  BY <1>1 DEF LockInv, HookLockPCs, WorkerLockPCs
<1> HIDE DEF e
<1>5. \A i \in Ids \ {e.id} : ledger'[i] = ledger[i]
  BY <1>1, <1>2, AppendLedger
<1>6. \A g \in todo[q] \ {e} : g.id \in Ids \ {e.id}
  BY <1>1 DEF MarkInv, TypeInv, TypeOK, Event
<1>7. \A g \in todo[q] \ {e} : g = Record(g.id)' /\ g.path = cur[q].path
  BY <1>1, <1>5, <1>6 DEF MarkInv, Record
<1>8. PICK j \in Ids : /\ ledger[j].status = "queued" /\ ledger[j].path = cur[q].path
                       /\ \A g \in todo[q] : g.id # j /\ (g.forced => ledger[j].forced)
  BY <1>1 DEF MarkInv
<1>9. ledger'[j] = ledger[j]
  BY <1>1, <1>5, <1>8
<1> QED
  BY <1>2, <1>3, <1>4, <1>7, <1>8, <1>9 DEF MarkInv

\* Hooks and workers keep the mark.
LEMMA MarkNext == TypeInv /\ LockInv /\ IdsInv /\ MarkInv /\ [Next]_vars => MarkInv'
<1> SUFFICES ASSUME TypeInv, LockInv, IdsInv, MarkInv, [Next]_vars PROVE MarkInv'
  OBVIOUS
<1> USE LedgerAssumption
<1>1. ASSUME NEW h \in Hooks, NEW t \in Targets, NEW i \in Ids, SessionEnd(h, t, i) PROVE MarkInv'
  <2> DEFINE e == [id |-> i, path |-> t, forced |-> FALSE]
  <2>1. e \in Event /\ e.id \notin used /\ cur'[h] = e /\ (EnqueueHeld(h, e) \/ EnqueueQueued(h, e))
    BY <1>1 DEF SessionEnd, Event, TypeInv, TypeOK
  <2> HIDE DEF e
  <2> QED
    BY <2>1, MarkEnqueue
<1>2. ASSUME NEW w \in Workers, NEW i \in Ids, Continue(w, i) PROVE MarkInv'
  <2> DEFINE e == [cur[w] EXCEPT !.id = i]
  <2>1. cur[w] \in Event
    BY <1>2 DEF Continue, TypeInv, LocalInv, EventPCs, JobPCs
  <2>2. /\ e \in Event /\ e.id \notin used /\ e.path = cur[w].path /\ cur' = cur
        /\ EnqueueHeld(w, e) \/ EnqueueQueued(w, e)
    BY <1>2, <2>1 DEF Continue, Event
  <2> HIDE DEF e
  <2> QED
    BY <2>2, MarkEnqueue
<1>3. ASSUME NEW q \in Procs, EnqueueSupersede(q) PROVE MarkInv'
  BY <1>3, MarkSupersede
<1>4. ASSUME NEW q \in Procs, EnqueueDrop(q) PROVE MarkInv'
  BY <1>4, MarkFrame DEF EnqueueDrop, AfterHeld, Goto, TypeInv, TypeOK
<1>5. ASSUME NEW q \in Procs, ledgerLock = q \/ ledgerLock = Nobody, pc[q] # "supersede",
             pc'[q] # "supersede", \A r \in Procs \ {q} : pc'[r] = pc[r]
      PROVE  MarkInv'
  <2>1. \A r \in Procs : pc[r] # "supersede"
    BY <1>5, NobodySupersedes
  <2> QED
    BY <1>5, <2>1 DEF MarkInv
<1>6. ASSUME NEW h \in Hooks, EnqueueNoPath(h) PROVE MarkInv'
  BY <1>5, <1>6 DEF EnqueueNoPath, Goto, TypeInv, TypeOK, LockInv, HookLockPCs
<1>7. ASSUME NEW w \in Workers, HoldFinish(w) PROVE MarkInv'
  BY <1>5, <1>7 DEF HoldFinish, Goto, TypeInv, TypeOK, LockInv, WorkerLockPCs
<1>8. ASSUME NEW w \in Workers, TakeJob(w) \/ FinishJob(w) PROVE MarkInv'
  BY <1>5, <1>8 DEF TakeJob, FinishJob, LockBriefly, Goto, TypeInv, TypeOK
<1>9. ASSUME NEW S \in SUBSET Ids, RequeueErrors(S) PROVE MarkInv'
  BY <1>9, NobodySupersedes DEF RequeueErrors, LockBriefly, MarkInv
<1>10. ASSUME NEW w \in Workers, TryWorkerLock(w) \/ Scan(w) \/ HoldDone(w) \/ Recycle(w) PROVE MarkInv'
  BY <1>10, MarkFrame DEF TryWorkerLock, Scan, HoldDone, Recycle, NoWrite, Goto, TypeInv, TypeOK
<1>11. ASSUME NEW w \in Workers, HoldOne(w) \/ QuarantineLarge(w) PROVE MarkInv'
  BY <1>11, MarkFrame DEF HoldOne, QuarantineLarge, HoldEvent, Goto, TypeInv, TypeOK
<1>12. ASSUME NEW h \in Hooks, SpawnCount(h) PROVE MarkInv'
  BY <1>12, MarkFrame DEF SpawnCount, Goto, TypeInv, TypeOK
<1>13. ASSUME NEW h \in Hooks, Spawn(h) PROVE MarkInv'
  <2>1. pc'[h] # "supersede" /\ \A r \in Procs \ {h} : pc'[r] \in {pc[r], "start"}
    BY <1>13, SpawnEffect DEF Spawn
  <2> QED
    BY <1>13, <2>1, MarkFrame DEF Spawn
<1>14. ASSUME NEW w \in Workers, SpawnSuccessor(w) PROVE MarkInv'
  <2>1. pc'[w] \in {"exit", "start"} /\ \A r \in Procs \ {w} : pc'[r] \in {pc[r], "start"}
    BY <1>14, SpawnEffect DEF SpawnSuccessor
  <2> QED
    BY <1>14, <2>1, MarkFrame DEF SpawnSuccessor
<1>15. ASSUME NEW w \in Workers,
              CaptureNothing(w) \/ CaptureFails(w) \/ CaptureSlice(w) \/ WriteOffset(w)
                \/ ContinueTimeout(w)
       PROVE  MarkInv'
  BY <1>15, MarkFrame
  DEF CaptureNothing, CaptureFails, CaptureSlice, WriteOffset, AfterSlice, ContinueTimeout, NoWrite,
      Goto, TypeInv, TypeOK
<1>16. ASSUME NEW w \in Workers, Release(w) \/ Rescan(w) PROVE MarkInv'
  BY <1>16, MarkFrame DEF Release, Rescan, NoWrite, Goto, TypeInv, TypeOK
<1>17. ASSUME NEW q \in Procs, Crash(q) \/ (q \in Workers /\ Exit(q)) PROVE MarkInv'
  BY <1>17, MarkFrame DEF Crash, Exit, Gone, NoWrite, Goto, TypeInv, TypeOK
<1>18. ASSUME NEW w \in Workers, NEW b \in HoldSettings, Drain(w, b) PROVE MarkInv'
  BY <1>18, MarkFrame DEF Drain, Start, NoWrite, Goto, TypeInv, TypeOK
<1>19. CASE UNCHANGED <<ledger, pc, cur, todo>>
  BY <1>19, MarkFrame
<1> QED
  BY <1>1, <1>2, <1>3, <1>4, <1>6, <1>7, <1>8, <1>9, <1>10, <1>11, <1>12, <1>13, <1>14, <1>15, <1>16,
     <1>17, <1>18, <1>19
  DEF Next, HookStep, WorkerStep, Grow

\* The command writes the ledger only while it holds ledger.lock.
LEMMA MarkStep == BaseInv /\ IdsInv /\ MarkInv /\ [RNext]_releaseVars => MarkInv'
<1> SUFFICES ASSUME BaseInv, IdsInv, MarkInv, [RNext]_releaseVars PROVE MarkInv'
  OBVIOUS
<1>1. CASE [Next]_vars
  BY <1>1, MarkNext DEF BaseInv
<1>2. CASE ReleaseNext
  <2>1. UNCHANGED <<pc, cur, todo>>
    BY <1>2 DEF ReleaseNext, ReleaseList, ReleaseSnapshot, ReleaseOne, ReleaseSupersede, ReleaseAppend,
                ReleaseUnlink, ReleaseLeaves, ReleaseCrash
  <2>2. ledger' = ledger \/ ledgerLock = Operator
    BY <1>2 DEF ReleaseNext, ReleaseList, ReleaseSnapshot, ReleaseOne, ReleaseSupersede, ReleaseAppend,
                ReleaseUnlink, ReleaseLeaves, ReleaseCrash, BaseInv, OpInv, OpLockPCs
  <2>3. ledgerLock = Operator => \A q \in Procs : pc[q] # "supersede"
    BY NobodySupersedes, LedgerAssumption DEF BaseInv
  <2> QED
    BY <2>1, <2>2, <2>3, MarkFrame DEF MarkInv
<1> QED
  BY <1>1, <1>2 DEF RNext, releaseVars

\* A status becomes "superseded" only where a hook or worker replaces the
\* event, or under the lock of the command.
LEMMA WhoSupersedes ==
  ASSUME BaseInv, Next, NEW i \in Ids, ledger[i].status # "superseded",
         ledger'[i].status = "superseded"
  PROVE  \E q \in Procs : EnqueueSupersede(q) /\ i = Oldest(todo[q]).id
<1> USE LedgerAssumption
<1>1. ASSUME NEW e \in Event, NEW s, Append(e, s), s # "superseded" PROVE FALSE
  <2>1. /\ ledger'[e.id] = [path |-> e.path, forced |-> e.forced, status |-> s]
        /\ \A k \in Ids \ {e.id} : ledger'[k] = ledger[k]
    BY <1>1, AppendLedger DEF BaseInv
  <2> QED
    BY <1>1, <2>1
<1>2. ASSUME NEW q \in Procs, NEW e \in Event, EnqueueHeld(q, e) \/ EnqueueQueued(q, e) PROVE FALSE
  <2> DEFINE f == [e EXCEPT !.forced = Mark(e)]
  <2>1. CASE EnqueueHeld(q, e)
    BY <2>1 DEF EnqueueHeld
  <2>2. CASE EnqueueQueued(q, e)
    <3>1. f \in Event /\ Append(f, "queued")
      BY <2>2 DEF EnqueueQueued, Event, Mark
    <3> QED
      BY <1>1, <3>1
  <2> QED
    BY <1>2, <2>1, <2>2
<1>3. ASSUME NEW h \in Hooks, NEW t \in Targets, NEW k \in Ids, SessionEnd(h, t, k) PROVE FALSE
  <2>1. [id |-> k, path |-> t, forced |-> FALSE] \in Event
    BY DEF Event
  <2> QED
    BY <1>2, <1>3, <2>1 DEF SessionEnd
<1>4. ASSUME NEW w \in Workers, NEW k \in Ids, Continue(w, k) PROVE FALSE
  <2>1. cur[w] \in Event
    BY <1>4 DEF Continue, BaseInv, TypeInv, LocalInv, EventPCs, JobPCs
  <2>2. [cur[w] EXCEPT !.id = k] \in Event
    BY <2>1 DEF Event
  <2> QED
    BY <1>2, <1>4, <2>2 DEF Continue
<1>5. ASSUME NEW h \in Hooks, EnqueueNoPath(h) PROVE FALSE
  <2>1. cur[h] \in Event
    BY <1>5 DEF EnqueueNoPath, BaseInv, TypeInv, LocalInv, EventPCs, HookLockPCs
  <2> QED
    BY <1>1, <1>5, <2>1 DEF EnqueueNoPath
<1>6. ASSUME NEW w \in Workers, HoldFinish(w) PROVE FALSE
  <2>1. cur[w] \in Event
    BY <1>6 DEF HoldFinish, BaseInv, TypeInv, LocalInv, EventPCs
  <2>2. ledger' = ledger \/ \E s \in {"held", "quarantined"} : Append(cur[w], s)
    BY <1>6 DEF HoldFinish
  <2> QED
    BY <1>1, <2>1, <2>2
<1>7. ASSUME NEW w \in Workers, TakeJob(w) PROVE FALSE
  <2>1. Oldest(todo[w]) \in Event
    BY <1>7, OldestIn DEF TakeJob, BaseInv, TypeInv, TypeOK, LocalInv
  <2> QED
    BY <1>1, <1>7, <2>1 DEF TakeJob
<1>8. ASSUME NEW w \in Workers, FinishJob(w) PROVE FALSE
  <2>1. cur[w] \in Event
    BY <1>8 DEF FinishJob, BaseInv, TypeInv, LocalInv, EventPCs, JobPCs
  <2>2. PICK s \in {"done", "error"} : Append(cur[w], s)
    BY <1>8 DEF FinishJob
  <2> QED
    BY <1>1, <2>1, <2>2
<1>9. ASSUME NEW S \in SUBSET Ids, RequeueErrors(S) PROVE FALSE
  BY <1>9 DEF RequeueErrors, BaseInv, TypeInv, TypeOK
<1>10. CASE UNCHANGED ledger
  BY <1>10
<1>11. ASSUME NEW q \in Procs, EnqueueSupersede(q) PROVE i = Oldest(todo[q]).id
  <2>1. Oldest(todo[q]) \in Event
    BY <1>11, OldestIn DEF EnqueueSupersede, BaseInv, TypeInv, TypeOK, LocalInv
  <2>2. \A k \in Ids \ {Oldest(todo[q]).id} : ledger'[k] = ledger[k]
    BY <1>11, <2>1, AppendLedger DEF EnqueueSupersede, BaseInv
  <2> QED
    BY <2>2
<1>12. CASE \E w \in Workers :
              \/ TryWorkerLock(w) \/ Scan(w) \/ HoldOne(w) \/ HoldDone(w) \/ QuarantineLarge(w)
              \/ Recycle(w) \/ SpawnSuccessor(w) \/ CaptureNothing(w) \/ CaptureFails(w)
              \/ CaptureSlice(w) \/ WriteOffset(w) \/ ContinueTimeout(w) \/ Release(w) \/ Rescan(w)
              \/ Exit(w) \/ \E b \in HoldSettings : Drain(w, b)
  BY <1>10, <1>12
  DEF TryWorkerLock, Scan, HoldOne, HoldDone, QuarantineLarge, HoldEvent, Recycle, SpawnSuccessor,
      CaptureNothing, CaptureFails, CaptureSlice, WriteOffset, ContinueTimeout, Release, Rescan, Exit,
      Drain, NoWrite
<1>13. CASE \/ \E p \in Paths : Grow(p)
            \/ \E h \in Hooks : SpawnCount(h) \/ Spawn(h)
            \/ \E q \in Procs : EnqueueDrop(q) \/ Crash(q)
  BY <1>10, <1>13 DEF Grow, SpawnCount, Spawn, EnqueueDrop, Crash, NoWrite
<1> QED
  BY <1>3, <1>4, <1>5, <1>6, <1>7, <1>8, <1>9, <1>11, <1>12, <1>13 DEF Next, HookStep, WorkerStep

\* A forced event that a hook or worker supersedes leaves a forced one queued
\* for its transcript.
THEOREM ForcedMarkAlways == RSpec => ForcedMarkInherited
<1>1. RInit => BaseInv /\ IdsInv /\ MarkInv
  <2>1. RInit => MarkInv
    BY DEF RInit, Init, MarkInv
  <2> QED
    BY <2>1, BaseInit, IdsInit
<1>2. BaseInv /\ IdsInv /\ MarkInv /\ [RNext]_releaseVars => (BaseInv /\ IdsInv /\ MarkInv)'
  BY BaseStep, IdsStep, MarkStep
<1>3. BaseInv /\ MarkInv /\ [RNext]_releaseVars =>
        [\A i \in Ids :
           /\ ledgerLock # Operator
           /\ ledger[i].status = "queued" /\ ledger[i].forced
           /\ ledger'[i].status = "superseded"
           => \E j \in Ids : /\ ledger'[j].status = "queued" /\ ledger'[j].forced
                             /\ ledger'[j].path = ledger[i].path]_releaseVars
  <2> SUFFICES ASSUME BaseInv, MarkInv, RNext, NEW i \in Ids, ledgerLock # Operator,
                      ledger[i].status = "queued", ledger[i].forced, ledger'[i].status = "superseded"
               PROVE  \E j \in Ids : /\ ledger'[j].status = "queued" /\ ledger'[j].forced
                                     /\ ledger'[j].path = ledger[i].path
    OBVIOUS
  <2>1. CASE ReleaseNext
    <3>1. ledger' = ledger
      BY <2>1 DEF ReleaseNext, ReleaseList, ReleaseSnapshot, ReleaseOne, ReleaseSupersede,
                  ReleaseAppend, ReleaseUnlink, ReleaseLeaves, ReleaseCrash, BaseInv, OpInv, OpLockPCs
    <3> QED
      BY <3>1
  <2>2. CASE Next
    <3>1. PICK q \in Procs : EnqueueSupersede(q) /\ i = Oldest(todo[q]).id
      BY <2>2, WhoSupersedes
    <3> DEFINE e == Oldest(todo[q])
    <3>2. e \in todo[q] /\ e \in Event /\ pc[q] = "supersede" /\ Append(e, "superseded")
      BY <3>1, OldestIn DEF EnqueueSupersede, BaseInv, TypeInv, TypeOK, LocalInv
    <3> HIDE DEF e
    <3>3. e = Record(i) /\ e.path = cur[q].path /\ e.id = i
      BY <3>1, <3>2 DEF MarkInv, e
    <3>4. e.forced /\ ledger[i].path = cur[q].path
      BY <3>3 DEF Record
    <3>5. PICK j \in Ids : /\ ledger[j].status = "queued" /\ ledger[j].path = cur[q].path
                           /\ \A g \in todo[q] : g.id # j /\ (g.forced => ledger[j].forced)
      BY <3>2 DEF MarkInv
    <3>6. ledger'[j] = ledger[j]
      BY <3>2, <3>5, AppendLedger DEF BaseInv
    <3> QED
      BY <3>2, <3>4, <3>5, <3>6
  <2> QED
    BY <2>1, <2>2 DEF RNext
<1> QED
  BY <1>1, <1>2, <1>3, PTL DEF RSpec, ForcedMarkInherited

-----------------------------------------------------------------------------
(* What is done stays done *)

Quiet      == {"none", "held", "quarantined", "superseded"}
HandPCs    == {"holding", "pick", "park"}
Moved(i)   == op.pc = "unlink" /\ i = Head.id
Parking(i) == \E w \in Workers : pc[w] = "park" /\ cur[w].id = i
Apart(i)   == \A f \in Known : f.id # i

\* A capture id names one file.
OneFile == \A f, g \in Known : f.id = g.id => f = g

\* A parked event is not done, and not active either except while its worker
\* still has to record the parking or the command to remove the file.
FileInv ==
  \A f \in Known :
    /\ ledger[f.id].status # "done"
    /\ ledger[f.id].status \in Quiet \/ Moved(f.id) \/ Parking(f.id)

\* What a worker has yet to deal with is not done and, unless the command has
\* just moved it, not parked; each event is there once.
HandInv ==
  \A w \in Workers : pc[w] \in HandPCs =>
    \A e \in todo[w] :
      /\ ledger[e.id].status # "done"
      /\ Apart(e.id) \/ Moved(e.id)
      /\ \A g \in todo[w] : g.id = e.id => g = e

\* What a worker captures is not parked.
JobApart == \A w \in Workers : pc[w] \in JobPCs => Apart(cur[w].id)

\* Nor is a SessionEnd without a transcript, which is queued until the hook
\* records it as running.
NoPathApart ==
  \A h \in Hooks : pc[h] \in {"run", "fail"} =>
    /\ Apart(cur[h].id)
    /\ pc[h] = "run" => ledger[cur[h].id].status = "queued"

DoneInv == faults = 0 => OneFile /\ FileInv /\ HandInv /\ JobApart /\ NoPathApart

\* A step of a hook or worker that parks nothing and reads nothing new.
LEMMA DoneFrame ==
  ASSUME TypeInv, OpInv, DoneInv, UNCHANGED op, faults' = 0 => faults = 0, parked' \subseteq parked,
         \A i \in Ids :
           \/ ledger'[i].status \in {ledger[i].status} \cup Quiet
           \/ Apart(i) /\ (ledger'[i].status = "done" => \A w \in Workers : pc'[w] \notin HandPCs),
         \A w \in Workers : pc[w] = "park" =>
           (pc'[w] = "park" /\ cur'[w] = cur[w]) \/ ledger'[cur[w].id].status \in Quiet,
         \A w \in Workers : pc'[w] \in HandPCs => pc[w] \in HandPCs /\ todo'[w] \subseteq todo[w],
         \A w \in Workers : pc'[w] \in JobPCs =>
           (pc[w] \in JobPCs /\ cur'[w] = cur[w]) \/ Apart(cur'[w].id),
         \A h \in Hooks : pc'[h] \in {"run", "fail"} =>
           /\ (pc[h] \in {"run", "fail"} /\ cur'[h] = cur[h]) \/ Apart(cur'[h].id)
           /\ pc'[h] = "run" => ledger'[cur'[h].id].status = "queued"
  PROVE  DoneInv'
<1> SUFFICES ASSUME OneFile, FileInv, HandInv, JobApart, NoPathApart
             PROVE  OneFile' /\ FileInv' /\ HandInv' /\ JobApart' /\ NoPathApart'
  BY DEF DoneInv
<1>1. Known' \subseteq Known /\ \A f \in Known : f.id \in Ids
  BY DEF Known, TypeInv, TypeOK, OpInv, OpRecord, File
<1>2. \A i : Apart(i) => Apart(i)'
  BY <1>1 DEF Apart
<1>3. \A i : Moved(i)' <=> Moved(i)
  BY DEF Moved, Head
<1>4. OneFile'
  BY <1>1 DEF OneFile
<1>5. FileInv'
  <2> SUFFICES ASSUME NEW f \in Known'
               PROVE  /\ ledger'[f.id].status # "done"
                      /\ ledger'[f.id].status \in Quiet \/ Moved(f.id)' \/ Parking(f.id)'
    BY DEF FileInv
  <2>1. f \in Known /\ f.id \in Ids /\ ~Apart(f.id)
    BY <1>1 DEF Apart
  <2>2. ledger'[f.id].status \in {ledger[f.id].status} \cup Quiet
    BY <2>1
  <2>3. CASE ledger'[f.id].status \in Quiet
    BY <2>3 DEF Quiet
  <2>4. CASE ledger'[f.id].status = ledger[f.id].status /\ ledger'[f.id].status \notin Quiet
    <3>1. ledger[f.id].status # "done" /\ (Moved(f.id) \/ Parking(f.id))
      BY <2>1, <2>4 DEF FileInv
    <3>2. CASE Parking(f.id)
      BY <2>4, <3>1, <3>2 DEF Parking
    <3> QED
      BY <1>3, <2>4, <3>1, <3>2
  <2> QED
    BY <2>2, <2>3, <2>4
<1>6. HandInv'
  <2> SUFFICES ASSUME NEW w \in Workers, pc'[w] \in HandPCs, NEW e \in todo'[w]
               PROVE  /\ ledger'[e.id].status # "done"
                      /\ Apart(e.id)' \/ Moved(e.id)'
                      /\ \A g \in todo'[w] : g.id = e.id => g = e
    BY DEF HandInv
  <2>1. pc[w] \in HandPCs /\ todo'[w] \subseteq todo[w] /\ e \in todo[w] /\ e.id \in Ids
    BY DEF TypeInv, TypeOK, Event
  <2>2. ledger'[e.id].status # "done"
    BY <2>1 DEF HandInv, Quiet
  <2> QED
    BY <1>2, <1>3, <2>1, <2>2 DEF HandInv
<1>7. JobApart'
  BY <1>2 DEF JobApart
<1>8. NoPathApart'
  BY <1>2 DEF NoPathApart
<1> QED
  BY <1>4, <1>5, <1>6, <1>7, <1>8

\* While the command does not hold ledger.lock nothing is being moved, and
\* while no worker holds it nothing is being parked.
LEMMA FreeLock ==
  ASSUME TypeInv, LockInv, OpInv, ledgerLock = Nobody
  PROVE  /\ \A i : ~Moved(i) /\ ~Parking(i)
         /\ \A h \in Hooks : pc[h] \notin {"run", "fail"}
<1>1. op.pc # "unlink"
  BY LedgerAssumption DEF OpInv, OpLockPCs
<1>2. \A w \in Workers : pc[w] # "park"
  BY LedgerAssumption DEF LockInv, WorkerLockPCs
<1>3. \A h \in Hooks : pc[h] \notin {"run", "fail"}
  BY LedgerAssumption DEF LockInv, HookLockPCs
<1> QED
  BY <1>1, <1>2, <1>3 DEF Moved, Parking

\* One worker drains the queue at a time.
LEMMA OneDrains ==
  ASSUME LockInv, NEW v \in Workers, NEW w \in Workers, pc[v] \in DrainPCs, pc[w] \in DrainPCs
  PROVE  v = w
  BY DEF LockInv

\* Parking a new event gives it a file of its own.
LEMMA DoneParks ==
  ASSUME TypeInv, LockInv, OpInv, DoneInv, UNCHANGED <<ledger, op>>, faults' = 0 => faults = 0,
         ledgerLock = Nobody, NEW e \in Event, NEW d, Park(e, d), NEW q \in Procs,
         faults = 0 => Apart(e.id) /\ ledger[e.id].status # "done",
         ledger[e.id].status \in Quiet \/ Parking(e.id)',
         \A r \in Procs \ {q} : pc'[r] = pc[r] /\ cur'[r] = cur[r] /\ todo'[r] = todo[r],
         \A r \in Procs \ {q} : \A g \in todo[r] : pc[r] \in HandPCs => g.id # e.id,
         \A w \in Workers \ {q} : pc[w] \in JobPCs => cur[w].id # e.id,
         q \in Workers /\ pc'[q] \in HandPCs =>
           pc[q] \in HandPCs /\ todo'[q] \subseteq {g \in todo[q] : g.id # e.id},
         q \in Workers /\ pc'[q] \in JobPCs =>
           pc[q] \in JobPCs /\ cur'[q] = cur[q] /\ cur[q].id # e.id,
         pc'[q] \notin {"run", "fail"}
  PROVE  DoneInv'
<1> SUFFICES ASSUME faults = 0, OneFile, FileInv, HandInv, JobApart, NoPathApart
             PROVE  OneFile' /\ FileInv' /\ HandInv' /\ JobApart' /\ NoPathApart'
  BY DEF DoneInv
<1> DEFINE n == [id |-> e.id, path |-> e.path, dir |-> d, stamp |-> clock + 1]
<1>1. Known' = Known \cup {n} /\ n.id = e.id
  BY DEF Park, Known
<1> HIDE DEF n
<1>2. \A i : i # e.id => (Apart(i) => Apart(i)')
  BY <1>1 DEF Apart
<1>3. \A i : ~Moved(i) /\ ~Parking(i) /\ (Moved(i)' <=> Moved(i))
  BY FreeLock DEF Moved, Head
<1>4. OneFile'
  BY <1>1 DEF OneFile, Apart
<1>5. FileInv'
  BY <1>1, <1>3 DEF FileInv
<1>6. HandInv'
  <2> SUFFICES ASSUME NEW w \in Workers, pc'[w] \in HandPCs, NEW g \in todo'[w]
               PROVE  /\ ledger[g.id].status # "done"
                      /\ Apart(g.id)'
                      /\ \A k \in todo'[w] : k.id = g.id => k = g
    BY DEF HandInv
  <2>1. pc[w] \in HandPCs /\ todo'[w] \subseteq todo[w] /\ g \in todo[w] /\ g.id # e.id
    BY DEF HandPCs
  <2> QED
    BY <1>2, <1>3, <2>1 DEF HandInv
<1>7. JobApart'
  <2> SUFFICES ASSUME NEW w \in Workers, pc'[w] \in JobPCs PROVE Apart(cur[w].id)'
    BY DEF JobApart
  <2>1. pc[w] \in JobPCs /\ cur'[w] = cur[w] /\ cur[w].id # e.id
    OBVIOUS
  <2> QED
    BY <1>2, <2>1 DEF JobApart
<1>8. NoPathApart'
  BY FreeLock DEF NoPathApart
<1> QED
  BY <1>4, <1>5, <1>6, <1>7, <1>8

\* An id that was not given out is in no file and in nobody's hands.
LEMMA FreshId ==
  ASSUME IdsInv, NEW i \in Ids, i \notin used
  PROVE  /\ Apart(i) /\ ledger[i].status = "none"
         /\ \A q \in Procs : \A g \in todo[q] : g.id # i
         /\ \A q \in Procs : pc[q] \in EventPCs(q) => cur[q].id # i
  BY DEF IdsInv, IdInv, Apart

\* An enqueue, of a fresh id.
LEMMA DoneEnqueue ==
  ASSUME TypeInv, LockInv, OpInv, IdsInv, DoneInv, UNCHANGED <<op, faults>>,
         NEW q \in Procs, NEW e \in Event, e.id \notin used,
         EnqueueHeld(q, e) \/ EnqueueQueued(q, e),
         \/ q \in Hooks /\ cur'[q] = e
         \/ q \in Workers /\ pc[q] = "continue" /\ cur'[q] = cur[q] /\ e.path # NoPath,
         \A r \in Procs \ {q} : cur'[r] = cur[r]
  PROVE  DoneInv'
<1> USE LedgerAssumption
<1>1. /\ Apart(e.id) /\ ledger[e.id].status = "none" /\ e.id \in Ids
      /\ \A r \in Procs : \A g \in todo[r] : g.id # e.id
      /\ \A w \in Workers : pc[w] \in JobPCs \cup {"park"} => cur[w].id # e.id
  BY FreshId DEF Event, EventPCs
<1>2. ledgerLock = Nobody
  BY DEF EnqueueHeld, EnqueueQueued, Lock, LockBriefly
<1>3. \A r \in Procs \ {q} : pc'[r] = pc[r] /\ todo'[r] = todo[r]
  BY DEF EnqueueHeld, EnqueueQueued, Goto, TypeInv, TypeOK
<1>4. CASE EnqueueHeld(q, e)
  <2>1. /\ UNCHANGED <<ledger, todo>> /\ Park(e, "held-all") /\ pc'[q] = "drop"
    BY <1>4 DEF EnqueueHeld, Goto, TypeInv, TypeOK
  <2>2. "drop" \in JobPCs /\ "drop" \notin HandPCs /\ "continue" \in JobPCs
    BY DEF JobPCs, HandPCs
  <2> QED
    BY <1>1, <1>2, <1>3, <2>1, <2>2, DoneParks DEF Quiet
<1>5. CASE EnqueueQueued(q, e)
  <2> DEFINE f == [e EXCEPT !.forced = Mark(e)]
  <2>1. f \in Event /\ f.id = e.id /\ f.path = e.path /\ Append(f, "queued") /\ parked' = parked
    BY <1>5 DEF EnqueueQueued, Event, Mark
  <2> HIDE DEF f
  <2>2. /\ ledger'[e.id] = [path |-> f.path, forced |-> f.forced, status |-> "queued"]
        /\ \A i \in Ids \ {e.id} : ledger'[i] = ledger[i]
    BY <2>1, AppendLedger
  <2>3. pc'[q] \in {"run", "count", "finish", "supersede"} /\ (pc'[q] = "run" => e.path = NoPath)
    BY <1>5 DEF EnqueueQueued, AfterQueued, Goto, TypeInv, TypeOK
  <2>4. \A w \in Workers : pc[w] # "park"
    BY <1>2 DEF LockInv, WorkerLockPCs
  <2>5. \A w \in Workers : pc'[w] \in HandPCs => w # q
    BY <2>3 DEF HandPCs
  <2>6. \A w \in Workers : pc'[w] \in JobPCs => pc[w] \in JobPCs /\ cur'[w] = cur[w]
    BY <1>3 DEF JobPCs
  <2>7. \A h \in Hooks : pc'[h] \in {"run", "fail"} => h = q /\ cur'[h] = e
    BY <1>2, <1>3, FreeLock
  <2> QED
    BY <1>1, <1>3, <2>1, <2>2, <2>3, <2>4, <2>5, <2>6, <2>7, DoneFrame
<1> QED
  BY <1>4, <1>5

\* A worker parks an event that it has, and that has no file yet.
LEMMA DoneHold ==
  ASSUME TypeInv, LockInv, OpInv, DoneInv, UNCHANGED op, NEW w \in Workers, NEW e \in todo[w],
         NEW d \in Dirs, HoldEvent(w, e, d), pc[w] \in {"holding", "pick"}
  PROVE  DoneInv'
<1> USE LedgerAssumption
<1>1. /\ e \in Event /\ ledgerLock = Nobody /\ Park(e, d) /\ UNCHANGED <<ledger, faults>>
      /\ pc'[w] = "park" /\ cur'[w] = e /\ todo'[w] = todo[w] \ {e}
      /\ \A r \in Procs \ {w} : pc'[r] = pc[r] /\ cur'[r] = cur[r] /\ todo'[r] = todo[r]
  BY DEF HoldEvent, Lock, Goto, TypeInv, TypeOK
<1>2. faults = 0 => /\ Apart(e.id) /\ ledger[e.id].status # "done"
                    /\ \A g \in todo[w] : g.id = e.id => g = e
  BY <1>1, FreeLock DEF DoneInv, HandInv, HandPCs
<1>3. Parking(e.id)'
  BY <1>1 DEF Parking
<1>4. \A v \in Workers \ {w} : pc[v] \notin HandPCs \cup JobPCs
  BY OneDrains DEF HandPCs, JobPCs, DrainPCs, EnqueuePCs
<1>5. \A h \in Hooks : pc[h] \notin HandPCs
  BY DEF TypeInv, TypeOK, HookPCs, HandPCs, EnqueuePCs
<1>6. "park" \in HandPCs /\ "park" \notin JobPCs /\ pc[w] \in HandPCs
  BY DEF HandPCs, JobPCs
<1>7. CASE faults # 0
  BY <1>1, <1>7 DEF DoneInv
<1>8. CASE faults = 0
  BY <1>1, <1>2, <1>3, <1>4, <1>5, <1>6, <1>8, DoneParks
<1> QED
  BY <1>7, <1>8

\* Hooks and workers keep what is done apart from what is parked.
LEMMA DoneNext ==
  TypeInv /\ LockInv /\ OpInv /\ IdsInv /\ DoneInv /\ [Next]_vars /\ UNCHANGED op => DoneInv'
<1> SUFFICES ASSUME TypeInv, LockInv, OpInv, IdsInv, DoneInv, [Next]_vars, UNCHANGED op
             PROVE  DoneInv'
  OBVIOUS
<1> USE LedgerAssumption
<1>0. /\ HandPCs = {"holding", "pick", "park"} /\ "park" \notin JobPCs
      /\ \A h \in Hooks : pc[h] \notin HandPCs
      /\ faults \in Nat
  BY DEF HandPCs, JobPCs, TypeInv, TypeOK, HookPCs, EnqueuePCs
<1>1. ASSUME NEW h \in Hooks, NEW t \in Targets, NEW i \in Ids, SessionEnd(h, t, i) PROVE DoneInv'
  <2> DEFINE e == [id |-> i, path |-> t, forced |-> FALSE]
  <2>1. /\ e \in Event /\ e.id \notin used /\ cur'[h] = e /\ faults' = faults
        /\ EnqueueHeld(h, e) \/ EnqueueQueued(h, e)
        /\ \A r \in Procs \ {h} : cur'[r] = cur[r]
    BY <1>1 DEF SessionEnd, Event, TypeInv, TypeOK
  <2> HIDE DEF e
  <2> QED
    BY <2>1, DoneEnqueue
<1>2. ASSUME NEW w \in Workers, NEW i \in Ids, Continue(w, i) PROVE DoneInv'
  <2> DEFINE e == [cur[w] EXCEPT !.id = i]
  <2>1. cur[w] \in Event /\ cur[w].path \in Paths
    BY <1>2 DEF Continue, TypeInv, LocalInv, EventPCs, JobPCs, PathPCs
  <2>2. /\ e \in Event /\ e.id \notin used /\ e.path # NoPath /\ cur' = cur /\ faults' = faults
        /\ EnqueueHeld(w, e) \/ EnqueueQueued(w, e)
        /\ pc[w] = "continue"
    BY <1>2, <2>1 DEF Continue, Event
  <2> HIDE DEF e
  <2> QED
    BY <2>2, DoneEnqueue
<1>3. ASSUME NEW q \in Procs, EnqueueDrop(q) PROVE DoneInv'
  <2>1. /\ UNCHANGED <<ledger, cur, todo, faults>> /\ parked' \subseteq parked
        /\ pc[q] = "drop" /\ pc'[q] \in {"drop", AfterHeld(q)}
        /\ \A r \in Procs \ {q} : pc'[r] = pc[r]
    BY <1>3 DEF EnqueueDrop, DropOlder, Goto, TypeInv, TypeOK
  <2>2. "drop" \in JobPCs /\ AfterHeld(q) \in {"gone", "finish"}
    BY DEF JobPCs, AfterHeld
  <2>3. \A h \in Hooks : pc'[h] \in {"run", "fail"} => pc'[h] = pc[h]
    BY <2>1, <2>2
  <2> QED
    BY <1>0, <2>1, <2>2, <2>3, DoneFrame DEF NoPathApart, DoneInv
<1>4. ASSUME NEW q \in Procs, EnqueueSupersede(q) PROVE DoneInv'
  <2> DEFINE e == Oldest(todo[q])
  <2>1. e \in todo[q] /\ e \in Event
    BY <1>4, OldestIn DEF EnqueueSupersede, TypeInv, TypeOK, LocalInv
  <2>2. /\ Append(e, "superseded") /\ UNCHANGED <<parked, cur, faults>> /\ pc[q] = "supersede"
        /\ pc'[q] \in {"supersede", "count", "finish"}
        /\ \A r \in Procs : todo'[r] \subseteq todo[r]
        /\ \A r \in Procs \ {q} : pc'[r] = pc[r]
    BY <1>4 DEF EnqueueSupersede, AfterQueued, Goto, TypeInv, TypeOK
  <2> HIDE DEF e
  <2>3. /\ ledger'[e.id] = [path |-> e.path, forced |-> e.forced, status |-> "superseded"]
        /\ \A i \in Ids \ {e.id} : ledger'[i] = ledger[i]
    BY <2>1, <2>2, AppendLedger
  <2>4. "supersede" \in JobPCs /\ ledgerLock = q
    BY <2>2 DEF JobPCs, LockInv, HookLockPCs, WorkerLockPCs
  <2>5. \A h \in Hooks : pc'[h] \notin {"run", "fail"}
    BY <2>2, <2>4 DEF LockInv, HookLockPCs
  <2> QED
    BY <1>0, <2>2, <2>3, <2>4, <2>5, DoneFrame DEF Quiet
<1>5. ASSUME NEW h \in Hooks, EnqueueNoPath(h) PROVE DoneInv'
  <2>1. PICK s \in {"running", "error"} : Append(cur[h], s)
    BY <1>5 DEF EnqueueNoPath
  <2>2. /\ cur[h] \in Event /\ pc[h] \in {"run", "fail"} /\ pc'[h] \in {"fail", "gone"}
        /\ UNCHANGED <<parked, cur, todo, faults>> /\ \A r \in Procs \ {h} : pc'[r] = pc[r]
    BY <1>5 DEF EnqueueNoPath, Goto, TypeInv, TypeOK, LocalInv, EventPCs, HookLockPCs
  <2>3. /\ ledger'[cur[h].id] = [path |-> cur[h].path, forced |-> cur[h].forced, status |-> s]
        /\ \A i \in Ids \ {cur[h].id} : ledger'[i] = ledger[i]
    BY <2>1, <2>2, AppendLedger
  <2>4. faults = 0 => Apart(cur[h].id)
    BY <2>2 DEF DoneInv, NoPathApart
  <2>5. \A g \in Hooks \ {h} : pc[g] \notin {"run", "fail"}
    BY <2>2 DEF LockInv, HookLockPCs
  <2>6. CASE faults # 0
    BY <2>2, <2>6 DEF DoneInv
  <2>7. CASE faults = 0
    BY <1>0, <2>2, <2>3, <2>4, <2>5, <2>7, DoneFrame
  <2> QED
    BY <2>6, <2>7
<1>6. ASSUME NEW w \in Workers, Scan(w) PROVE DoneInv'
  <2> SUFFICES ASSUME faults = 0, OneFile, FileInv, HandInv, JobApart, NoPathApart
               PROVE  OneFile' /\ FileInv' /\ HandInv' /\ JobApart' /\ NoPathApart'
    BY <1>6 DEF Scan, DoneInv
  <2>1. /\ UNCHANGED <<ledger, parked, cur, op>> /\ pc[w] = "scan" /\ pc'[w] \notin JobPCs \cup {"park"}
        /\ todo'[w] = Pending
        /\ \A r \in Procs \ {w} : pc'[r] = pc[r] /\ todo'[r] = todo[r]
    BY <1>6 DEF Scan, NoWrite, Goto, TypeInv, TypeOK, JobPCs
  <2>2. \A v \in Workers : pc[v] \in DrainPCs => v = w
    BY <2>1, OneDrains DEF DrainPCs
  <2>3. \A v \in Workers : pc[v] # "park"
    BY <2>1, <2>2 DEF DrainPCs
  <2>4. \A i : Apart(i)' <=> Apart(i)
    BY <2>1 DEF Apart, Known
  <2>5. \A i : Moved(i)' <=> Moved(i)
    BY <2>1 DEF Moved, Head
  <2>6. OneFile' /\ FileInv'
    BY <2>1, <2>3, <2>5 DEF OneFile, FileInv, Known, Parking
  <2>7. HandInv'
    <3> SUFFICES ASSUME NEW v \in Workers, pc'[v] \in HandPCs, NEW e \in todo'[v]
                 PROVE  /\ ledger[e.id].status # "done"
                        /\ Apart(e.id) \/ Moved(e.id)
                        /\ \A g \in todo'[v] : g.id = e.id => g = e
      BY <2>1, <2>4, <2>5 DEF HandInv
    <3>1. v = w
      BY <2>1, <2>2 DEF HandPCs, DrainPCs
    <3>2. ledger[e.id].status \in Active /\ e = Record(e.id) /\ e.id \in Ids
      BY <2>1, <3>1 DEF Pending, ActiveIds, Record
    <3>3. \A f \in Known : f.id = e.id => Moved(e.id)
      BY <2>3, <3>2 DEF FileInv, Parking, Active, Quiet
    <3>4. \A g \in todo'[v] : g = Record(g.id)
      BY <2>1, <3>1 DEF Pending, Record
    <3> QED
      BY <3>2, <3>3, <3>4 DEF Active, Apart
  <2>8. JobApart' /\ NoPathApart'
    BY <2>1, <2>4 DEF JobApart, NoPathApart
  <2> QED
    BY <2>6, <2>7, <2>8
<1>7. ASSUME NEW w \in Workers, HoldOne(w) \/ QuarantineLarge(w) PROVE DoneInv'
  <2>1. PICK S \in SUBSET todo[w], d \in Dirs : S # {} /\ HoldEvent(w, Oldest(S), d)
    <3>1. CASE HoldOne(w)
      BY <3>1 DEF HoldOne, Unforced, Dirs
    <3>2. CASE QuarantineLarge(w)
      BY <3>2 DEF QuarantineLarge, Dirs, TypeInv, LocalInv
    <3> QED
      BY <1>7, <3>1, <3>2
  <2>2. Oldest(S) \in todo[w] /\ pc[w] \in {"holding", "pick"}
    BY <1>7, <2>1, OldestIn DEF TypeInv, TypeOK, HoldOne, QuarantineLarge
  <2> QED
    BY <2>1, <2>2, DoneHold
<1>8. ASSUME NEW w \in Workers, HoldFinish(w) PROVE DoneInv'
  <2>1. /\ UNCHANGED <<cur, todo, faults>> /\ parked' \subseteq parked /\ pc[w] = "park"
        /\ \A r \in Procs \ {w} : pc'[r] = pc[r]
    BY <1>8 DEF HoldFinish, DropOlder, Goto, TypeInv, TypeOK
  <2>2. ledgerLock = w /\ \A h \in Hooks : pc'[h] \notin {"run", "fail"}
    BY <2>1 DEF LockInv, WorkerLockPCs, HookLockPCs
  <2>3. \A v \in Workers \ {w} : pc[v] # "park"
    BY <2>1, <2>2 DEF LockInv, WorkerLockPCs
  <2>4. CASE ledger' = ledger /\ pc' = pc
    BY <1>0, <2>1, <2>2, <2>4, DoneFrame
  <2>5. CASE /\ \E s \in {"held", "quarantined"} : Append(cur[w], s)
             /\ pc'[w] \in {"holding", "scan"}
    <3>1. PICK s \in {"held", "quarantined"} : Append(cur[w], s)
      BY <2>5
    <3>2. cur[w] \in Event
      BY <2>1 DEF TypeInv, LocalInv, EventPCs
    <3>3. /\ ledger'[cur[w].id] = [path |-> cur[w].path, forced |-> cur[w].forced, status |-> s]
          /\ \A i \in Ids \ {cur[w].id} : ledger'[i] = ledger[i]
      BY <3>1, <3>2, AppendLedger
    <3>4. "holding" \notin JobPCs /\ "scan" \notin JobPCs
      BY DEF JobPCs
    <3> QED
      BY <1>0, <2>1, <2>2, <2>3, <2>5, <3>3, <3>4, DoneFrame DEF Quiet
  <2> QED
    BY <1>8, <2>4, <2>5 DEF HoldFinish, Goto, TypeInv, TypeOK
<1>9. ASSUME NEW w \in Workers, TakeJob(w) PROVE DoneInv'
  <2> DEFINE e == Oldest(todo[w])
  <2>1. e \in todo[w] /\ e \in Event
    BY <1>9, OldestIn DEF TakeJob, TypeInv, TypeOK, LocalInv
  <2>2. /\ Append(e, "running") /\ UNCHANGED <<parked, faults>> /\ ledgerLock = Nobody
        /\ pc[w] = "pick" /\ pc'[w] = "capture" /\ cur'[w] = e /\ todo'[w] = {}
        /\ \A r \in Procs \ {w} : pc'[r] = pc[r] /\ cur'[r] = cur[r] /\ todo'[r] = todo[r]
    BY <1>9 DEF TakeJob, LockBriefly, Goto, TypeInv, TypeOK
  <2> HIDE DEF e
  <2>3. /\ ledger'[e.id] = [path |-> e.path, forced |-> e.forced, status |-> "running"]
        /\ \A i \in Ids \ {e.id} : ledger'[i] = ledger[i]
    BY <2>1, <2>2, AppendLedger
  <2>4. faults = 0 => Apart(e.id)
    BY <1>0, <2>1, <2>2, FreeLock DEF DoneInv, HandInv
  <2>5. \A h \in Hooks : pc'[h] \notin {"run", "fail"}
    BY <2>2, FreeLock
  <2>6. CASE faults # 0
    BY <2>2, <2>6 DEF DoneInv
  <2>7. CASE faults = 0
    BY <1>0, <2>2, <2>3, <2>4, <2>5, <2>7, DoneFrame
  <2> QED
    BY <2>6, <2>7
<1>10. ASSUME NEW w \in Workers, FinishJob(w) PROVE DoneInv'
  <2>1. PICK s \in {"done", "error"} : Append(cur[w], s)
    BY <1>10 DEF FinishJob
  <2>2. /\ cur[w] \in Event /\ UNCHANGED <<parked, todo, faults>> /\ ledgerLock = Nobody
        /\ pc[w] \in JobPCs /\ pc[w] \in DrainPCs \ HandPCs /\ pc'[w] = "scan" /\ cur'[w] = NoEvent
        /\ \A r \in Procs \ {w} : pc'[r] = pc[r] /\ cur'[r] = cur[r]
    BY <1>10 DEF FinishJob, LockBriefly, Goto, TypeInv, TypeOK, LocalInv, EventPCs, JobPCs, DrainPCs,
                 HandPCs
  <2>3. /\ ledger'[cur[w].id] = [path |-> cur[w].path, forced |-> cur[w].forced, status |-> s]
        /\ \A i \in Ids \ {cur[w].id} : ledger'[i] = ledger[i]
    BY <2>1, <2>2, AppendLedger
  <2>4. \A v \in Workers : pc'[v] \notin HandPCs
    BY <2>2, OneDrains DEF HandPCs, DrainPCs
  <2>5. faults = 0 => Apart(cur[w].id)
    BY <2>2 DEF DoneInv, JobApart
  <2>6. \A h \in Hooks : pc'[h] \notin {"run", "fail"}
    BY <2>2, FreeLock
  <2>7. "scan" \notin JobPCs
    BY DEF JobPCs
  <2>8. \A v \in Workers : pc[v] # "park"
    BY <2>2 DEF LockInv, WorkerLockPCs
  <2>9. CASE faults # 0
    BY <2>2, <2>9 DEF DoneInv
  <2>10. CASE faults = 0
    BY <2>2, <2>3, <2>4, <2>5, <2>6, <2>7, <2>8, <2>10, DoneFrame
  <2> QED
    BY <2>9, <2>10
<1>11. ASSUME NEW S \in SUBSET Ids, RequeueErrors(S) PROVE DoneInv'
  <2>1. /\ \A i \in S : ledger[i].status = "error" /\ ledger'[i].status = "queued"
        /\ \A i \in Ids \ S : ledger'[i] = ledger[i]
        /\ UNCHANGED <<parked, pc, cur, todo, faults>> /\ ledgerLock = Nobody
    BY <1>11 DEF RequeueErrors, LockBriefly, TypeInv, TypeOK
  <2>2. \A i : ~Moved(i) /\ ~Parking(i)
    BY <2>1, FreeLock
  <2>3. faults = 0 => \A i \in S : Apart(i)
    BY <2>1, <2>2 DEF DoneInv, FileInv, Apart, Quiet
  <2>4. \A v \in Workers : pc[v] # "park"
    BY <2>1 DEF LockInv, WorkerLockPCs
  <2>5. \A h \in Hooks : pc'[h] \notin {"run", "fail"}
    BY <2>1, FreeLock
  <2>6. \A i \in S : ledger'[i].status # "done"
    BY <2>1
  <2>7. CASE faults # 0
    BY <2>1, <2>7 DEF DoneInv
  <2>8. CASE faults = 0
    BY <2>1, <2>3, <2>4, <2>5, <2>6, <2>8, DoneFrame
  <2> QED
    BY <2>7, <2>8
<1>12. CASE faults' = faults + 1
  BY <1>0, <1>12 DEF DoneInv
<1>13. ASSUME UNCHANGED <<ledger, parked, faults>>, NEW q \in Procs,
              pc[q] # "park",
              q \in Workers /\ pc'[q] \in HandPCs => pc[q] \in HandPCs /\ todo'[q] \subseteq todo[q],
              q \in Workers /\ pc'[q] \in JobPCs => pc[q] \in JobPCs /\ cur'[q] = cur[q],
              pc'[q] \notin {"run", "fail"} \/ q \in Workers,
              \A r \in Procs \ {q} :
                \/ pc'[r] = pc[r] /\ cur'[r] = cur[r] /\ todo'[r] = todo[r]
                \/ pc'[r] = "start" /\ r \in Workers /\ pc[r] = "off"
       PROVE  DoneInv'
  <2>1. {"start", "off"} \cap (JobPCs \cup HandPCs) = {}
    BY DEF JobPCs, HandPCs
  <2> QED
    BY <1>0, <1>13, <2>1, DoneFrame DEF NoPathApart, DoneInv
<1>14. ASSUME NEW h \in Hooks, SpawnCount(h) PROVE DoneInv'
  <2>1. /\ UNCHANGED <<ledger, parked, faults, cur, todo>> /\ pc[h] = "count" /\ pc'[h] \in {"spawn", "gone"}
        /\ \A r \in Procs \ {h} : pc'[r] = pc[r]
    BY <1>14 DEF SpawnCount, Goto, TypeInv, TypeOK
  <2> QED
    BY <1>13, <2>1
<1>15. ASSUME NEW h \in Hooks, Spawn(h) PROVE DoneInv'
  <2>1. PICK v \in Workers : Start(v, hold[h]) /\ pc' = [pc EXCEPT ![h] = "gone", ![v] = "start"]
    BY <1>15 DEF Spawn
  <2>2. /\ UNCHANGED <<ledger, parked, faults, cur, todo>> /\ pc[h] = "spawn" /\ pc'[h] = "gone"
        /\ pc[v] = "off" /\ pc'[v] = "start"
        /\ \A r \in Procs \ {h, v} : pc'[r] = pc[r]
    BY <1>15, <2>1 DEF Spawn, Start, TypeInv, TypeOK
  <2> QED
    BY <1>13, <2>2
<1>16. ASSUME NEW w \in Workers, SpawnSuccessor(w) PROVE DoneInv'
  <2>1. PICK v \in Workers : Start(v, hold[w]) /\ pc' = [pc EXCEPT ![w] = "exit", ![v] = "start"]
    BY <1>16 DEF SpawnSuccessor
  <2>2. /\ UNCHANGED <<ledger, parked, faults, cur, todo>> /\ pc[w] = "successor" /\ v # w
        /\ pc'[w] = "exit" /\ pc[v] = "off" /\ pc'[v] = "start"
        /\ \A r \in Procs \ {w, v} : pc'[r] = pc[r]
    BY <1>16, <2>1 DEF SpawnSuccessor, Start, TypeInv, TypeOK
  <2>3. "exit" \notin JobPCs
    BY DEF JobPCs
  <2> QED
    BY <1>0, <1>13, <2>2, <2>3
<1>17. ASSUME NEW w \in Workers, TryWorkerLock(w) \/ HoldDone(w) \/ Recycle(w) PROVE DoneInv'
  <2>1. /\ UNCHANGED <<ledger, parked, faults, cur, todo>> /\ pc[w] # "park"
        /\ pc'[w] \in {"scan", "exit", "release", "successor"} \/ (pc[w] = "holding" /\ pc'[w] = "pick")
        /\ \A r \in Procs \ {w} : pc'[r] = pc[r]
    BY <1>17 DEF TryWorkerLock, HoldDone, Recycle, NoWrite, Goto, TypeInv, TypeOK
  <2>2. {"scan", "exit", "release", "successor", "pick"} \cap JobPCs = {}
    BY DEF JobPCs
  <2> QED
    BY <1>0, <1>13, <2>1, <2>2
<1>18. ASSUME NEW w \in Workers,
              CaptureNothing(w) \/ CaptureFails(w) \/ CaptureSlice(w) \/ WriteOffset(w)
       PROVE  DoneInv'
  <2>1. /\ UNCHANGED <<ledger, parked, faults, cur, todo>> /\ pc[w] \in JobPCs \ {"park"}
        /\ pc'[w] \in {"finish", "fail", "offset", "continue"}
        /\ \A r \in Procs \ {w} : pc'[r] = pc[r]
    BY <1>18 DEF CaptureNothing, CaptureFails, CaptureSlice, WriteOffset, AfterSlice, NoWrite, Goto,
                 TypeInv, TypeOK, JobPCs
  <2> QED
    BY <1>0, <1>13, <2>1
<1>19. ASSUME NEW w \in Workers, Release(w) \/ Rescan(w) \/ Exit(w) \/ \E b \in HoldSettings : Drain(w, b)
       PROVE  DoneInv'
  <2>1. /\ UNCHANGED <<ledger, parked, faults>> /\ pc[w] # "park"
        /\ pc'[w] \in {"rescan", "start", "exit", "off"}
        /\ \A r \in Procs \ {w} : pc'[r] = pc[r] /\ cur'[r] = cur[r] /\ todo'[r] = todo[r]
    BY <1>19 DEF Release, Rescan, Exit, Gone, Drain, Start, NoWrite, Goto, TypeInv, TypeOK
  <2>2. {"rescan", "start", "exit", "off"} \cap JobPCs = {}
    BY DEF JobPCs
  <2> QED
    BY <1>0, <1>13, <2>1, <2>2
<1>20. CASE UNCHANGED <<ledger, parked, pc, cur, todo, faults>>
  BY <1>20, DoneFrame DEF NoPathApart, DoneInv
<1> QED
  BY <1>1, <1>2, <1>3, <1>4, <1>5, <1>6, <1>7, <1>8, <1>9, <1>10, <1>11, <1>12, <1>14, <1>15, <1>16,
     <1>17, <1>18, <1>19, <1>20
  DEF Next, HookStep, WorkerStep, Grow, ContinueTimeout, Crash

\* A step of the command forgets files, and changes only what it moves.
LEMMA DoneMoves ==
  ASSUME BaseInv, DoneInv, UNCHANGED <<localVars, faults>>, Known' \subseteq Known,
         \A i \in Ids : Moved(i) => Moved(i)' \/ Apart(i)',
         \A i \in Ids :
           \/ ledger'[i] = ledger[i]
           \/ /\ ledgerLock = Operator
              /\ ledger'[i].status \in Quiet \/ (Moved(i)' /\ ledger'[i].status # "done")
  PROVE  DoneInv'
<1> SUFFICES ASSUME OneFile, FileInv, HandInv, JobApart, NoPathApart
             PROVE  OneFile' /\ FileInv' /\ HandInv' /\ JobApart' /\ NoPathApart'
  BY DEF DoneInv
<1> USE LedgerAssumption
<1>1. \A f \in Known : f.id \in Ids
  BY DEF Known, BaseInv, TypeInv, TypeOK, OpInv, OpRecord, File
<1>2. \A i : Apart(i) => Apart(i)'
  BY DEF Apart
<1>3. \A i : Parking(i)' <=> Parking(i)
  BY DEF Parking
<1>4. OneFile'
  BY DEF OneFile
<1>5. FileInv'
  <2> SUFFICES ASSUME NEW f \in Known'
               PROVE  /\ ledger'[f.id].status # "done"
                      /\ ledger'[f.id].status \in Quiet \/ Moved(f.id)' \/ Parking(f.id)'
    BY DEF FileInv
  <2>1. f \in Known /\ f.id \in Ids
    BY <1>1
  <2>2. CASE ledger'[f.id] = ledger[f.id]
    <3>1. /\ ledger[f.id].status # "done"
          /\ ledger[f.id].status \in Quiet \/ Moved(f.id) \/ Parking(f.id)
      BY <2>1 DEF FileInv
    <3>2. ~Apart(f.id)'
      BY DEF Apart
    <3> QED
      BY <1>3, <2>1, <2>2, <3>1, <3>2
  <2> QED
    BY <2>1, <2>2 DEF Quiet
<1>6. HandInv'
  <2> SUFFICES ASSUME NEW w \in Workers, pc[w] \in HandPCs, NEW e \in todo[w]
               PROVE  /\ ledger'[e.id].status # "done"
                      /\ Apart(e.id)' \/ Moved(e.id)'
                      /\ \A g \in todo[w] : g.id = e.id => g = e
    BY DEF HandInv
  <2>1. e.id \in Ids
    BY DEF BaseInv, TypeInv, TypeOK, Event
  <2>2. ledger[e.id].status # "done" /\ (Apart(e.id) \/ Moved(e.id))
    BY DEF HandInv
  <2>3. ledger'[e.id].status # "done"
    BY <2>1, <2>2 DEF Quiet
  <2> QED
    BY <1>2, <2>1, <2>2, <2>3 DEF HandInv
<1>7. JobApart'
  BY <1>2 DEF JobApart
<1>8. NoPathApart'
  <2> SUFFICES ASSUME NEW h \in Hooks, pc[h] \in {"run", "fail"}
               PROVE  /\ Apart(cur[h].id)'
                      /\ pc[h] = "run" => ledger'[cur[h].id].status = "queued"
    BY DEF NoPathApart
  <2>1. cur[h].id \in Ids
    BY DEF BaseInv, TypeInv, LocalInv, EventPCs, HookLockPCs, Event
  <2>2. ledgerLock # Operator
    BY DEF BaseInv, LockInv, HookLockPCs
  <2> QED
    BY <1>2, <2>1, <2>2 DEF NoPathApart
<1> QED
  BY <1>4, <1>5, <1>6, <1>7, <1>8

\* The command moves a file by writing its event and then removing it.
LEMMA DoneRelease == BaseInv /\ DoneInv /\ ReleaseNext => DoneInv'
<1> SUFFICES ASSUME BaseInv, DoneInv, ReleaseNext PROVE DoneInv'
  OBVIOUS
<1>1. CASE op.pc \notin OpLockPCs /\ UNCHANGED <<ledger, localVars, faults, parked>> /\ Known' \subseteq Known
  BY <1>1, DoneMoves DEF Moved, OpLockPCs
<1>2. ASSUME NEW d \in Dirs, NEW force \in BOOLEAN, NEW b \in HoldSettings, ReleaseList(d, force, b)
      PROVE  DoneInv'
  <2> DEFINE F == {f \in parked : /\ f.dir = d /\ f.path # NoPath
                                  /\ force \/ ~OverLimit(f.path)}
  <2>1. /\ op' = [IdleOp EXCEPT !.pc = "snapshot", !.force = force, !.events = F]
        /\ UNCHANGED <<ledger, localVars, faults, parked>> /\ op.pc = "idle"
    BY <1>2 DEF ReleaseList
  <2>2. F \subseteq parked
    OBVIOUS
  <2> HIDE DEF F
  <2>3. op'.events = F
    BY <2>1 DEF IdleOp
  <2> QED
    BY <1>1, <2>1, <2>2, <2>3 DEF Known, OpLockPCs
<1>3. CASE ReleaseSnapshot \/ ReleaseOne
  <2>1. op'.events = op.events
    BY <1>3 DEF ReleaseSnapshot, ReleaseOne, BaseInv, OpInv, OpRecord
  <2>2. op.pc \in {"snapshot", "move"} /\ UNCHANGED <<ledger, localVars, faults, parked>>
    BY <1>3 DEF ReleaseSnapshot, ReleaseOne
  <2> QED
    BY <1>1, <2>1, <2>2 DEF Known, OpLockPCs
<1>4. CASE ReleaseSupersede
  <2> DEFINE r == Oldest(op.stale)
  <2>1. r \in Event
    <3>1. op.stale \in SUBSET Event /\ op.stale # {}
      BY <1>4 DEF ReleaseSupersede, BaseInv, OpInv, OpRecord
    <3> QED
      BY <3>1, OldestIn DEF BaseInv, TypeInv, TypeOK
  <2>2. /\ Append(r, "superseded") /\ op.pc = "supersede"
        /\ UNCHANGED <<parked, localVars, faults>> /\ op'.events = op.events
    BY <1>4 DEF ReleaseSupersede, BaseInv, OpInv, OpRecord
  <2> HIDE DEF r
  <2>3. /\ ledger'[r.id] = [path |-> r.path, forced |-> r.forced, status |-> "superseded"]
        /\ \A i \in Ids \ {r.id} : ledger'[i] = ledger[i]
    BY <2>1, <2>2, AppendLedger DEF BaseInv
  <2>4. ledgerLock = Operator /\ ~(\E i : Moved(i))
    BY <2>2 DEF BaseInv, OpInv, OpLockPCs, Moved
  <2>5. \A i \in Ids : ledger'[i] = ledger[i] \/ ledger'[i].status \in Quiet
    BY <2>3 DEF Quiet
  <2> QED
    BY <2>2, <2>4, <2>5, DoneMoves DEF Known
<1>5. CASE ReleaseAppend
  <2>1. PICK s \in {"queued", "superseded"} : Append(Moving, s)
    BY <1>5 DEF ReleaseAppend, Moving
  <2>2. /\ op.pc = "append" /\ op' = [op EXCEPT !.pc = "unlink"]
        /\ UNCHANGED <<parked, localVars, faults>>
    BY <1>5 DEF ReleaseAppend, OpGoto
  <2>3. Moving \in Event /\ Moving.id = Head.id
    BY <2>2, MovingEvent DEF OpMovePCs, OpLockPCs, BaseInv
  <2> HIDE DEF Moving
  <2>4. /\ ledger'[Head.id] = [path |-> Moving.path, forced |-> Moving.forced, status |-> s]
        /\ \A i \in Ids \ {Head.id} : ledger'[i] = ledger[i]
    BY <2>1, <2>3, AppendLedger DEF BaseInv
  <2>5. op'.events = op.events /\ op'.pc = "unlink" /\ ledgerLock = Operator
    BY <2>2 DEF BaseInv, OpInv, OpRecord, OpLockPCs
  <2>6. (\A i : Moved(i)' <=> i = Head.id) /\ ~(\E i : Moved(i))
    BY <2>2, <2>5 DEF Moved, Head
  <2>7. \A i \in Ids : ledger'[i] = ledger[i] \/ (Moved(i)' /\ ledger'[i].status # "done")
    BY <2>4, <2>6
  <2> QED
    BY <2>2, <2>5, <2>6, <2>7, DoneMoves DEF Known
<1>6. CASE ReleaseUnlink
  <2>1. /\ NextEvent /\ op.pc = "unlink" /\ parked' = parked \ {Head}
        /\ UNCHANGED <<ledger, localVars, faults>>
    BY <1>6 DEF ReleaseUnlink, Unlink
  <2>2. op'.events \subseteq op.events \ {Head} /\ Head \in op.events
    BY <2>1, NextEventInv, HeadIn DEF BaseInv, OpMovePCs, OpLockPCs
  <2>3. Known' \subseteq Known \ {Head} /\ Head \in Known
    BY <2>1, <2>2 DEF Known
  <2>4. CASE faults # 0
    BY <2>1, <2>4 DEF DoneInv
  <2>5. CASE faults = 0
    <3>1. \A f \in Known' : f.id # Head.id
      BY <2>3, <2>5 DEF DoneInv, OneFile
    <3>2. \A i : Moved(i) => Apart(i)'
      BY <3>1 DEF Moved, Apart
    <3> QED
      BY <2>1, <2>3, <3>2, DoneMoves
  <2> QED
    BY <2>4, <2>5
<1>7. CASE ReleaseLeaves \/ ReleaseCrash
  <2>1. faults' = faults + 1 /\ faults \in Nat
    BY <1>7 DEF ReleaseLeaves, ReleaseCrash, BaseInv, TypeInv, TypeOK
  <2> QED
    BY <2>1 DEF DoneInv
<1> QED
  BY <1>2, <1>3, <1>4, <1>5, <1>6, <1>7 DEF ReleaseNext

LEMMA DoneInit == RInit => DoneInv
<1> SUFFICES ASSUME RInit PROVE OneFile /\ FileInv /\ HandInv /\ JobApart /\ NoPathApart
  BY DEF DoneInv
<1>1. Known = {}
  BY DEF RInit, Init, Known, IdleOp
<1>2. \A q \in Procs : pc[q] \in {"ready", "off"}
  BY DEF RInit, Init
<1>3. {"ready", "off"} \cap (JobPCs \cup HandPCs \cup {"run", "fail"}) = {}
  BY DEF JobPCs, HandPCs
<1> QED
  BY <1>1, <1>2, <1>3 DEF OneFile, FileInv, HandInv, JobApart, NoPathApart

LEMMA DoneStep == BaseInv /\ IdsInv /\ DoneInv /\ [RNext]_releaseVars => DoneInv'
<1> SUFFICES ASSUME BaseInv, IdsInv, DoneInv, [RNext]_releaseVars PROVE DoneInv'
  OBVIOUS
<1>1. CASE [Next]_vars /\ UNCHANGED op
  BY <1>1, DoneNext DEF BaseInv
<1>2. CASE ReleaseNext
  BY <1>2, DoneRelease
<1> QED
  BY <1>1, <1>2 DEF RNext, releaseVars

\* Which steps make an event active: an enqueue, the two records of a
\* SessionEnd without a transcript, the start of a job and a requeue.
LEMMA WhoActivates ==
  ASSUME BaseInv, IdsInv, DoneInv, faults = 0, Next, NEW i \in Ids, ledger[i].status = "done"
  PROVE  ledger'[i].status \notin Active
<1> USE LedgerAssumption
<1>1. ASSUME NEW e \in Event, NEW s, Append(e, s), s \notin Active \/ ledger[e.id].status # "done"
      PROVE  ledger'[i].status \notin Active
  <2>1. /\ ledger'[e.id] = [path |-> e.path, forced |-> e.forced, status |-> s]
        /\ \A k \in Ids \ {e.id} : ledger'[k] = ledger[k]
    BY <1>1, AppendLedger DEF BaseInv
  <2> QED
    BY <1>1, <2>1 DEF Active
<1>2. CASE UNCHANGED ledger
  BY <1>2 DEF Active
<1>3. ASSUME NEW q \in Procs, NEW e \in Event, e.id \notin used, EnqueueHeld(q, e) \/ EnqueueQueued(q, e)
      PROVE  ledger'[i].status \notin Active
  <2> DEFINE f == [e EXCEPT !.forced = Mark(e)]
  <2>1. CASE EnqueueHeld(q, e)
    BY <1>2, <2>1 DEF EnqueueHeld
  <2>2. CASE EnqueueQueued(q, e)
    <3>1. f \in Event /\ f.id = e.id /\ Append(f, "queued")
      BY <2>2 DEF EnqueueQueued, Event, Mark
    <3> HIDE DEF f
    <3>2. ledger[e.id].status # "done"
      BY <1>3 DEF IdsInv, IdInv, Event
    <3> QED
      BY <1>1, <3>1, <3>2
  <2> QED
    BY <1>3, <2>1, <2>2
<1>4. ASSUME NEW h \in Hooks, NEW t \in Targets, NEW k \in Ids, SessionEnd(h, t, k)
      PROVE  ledger'[i].status \notin Active
  <2>1. [id |-> k, path |-> t, forced |-> FALSE] \in Event
    BY DEF Event
  <2> QED
    BY <1>3, <1>4, <2>1 DEF SessionEnd
<1>5. ASSUME NEW w \in Workers, NEW k \in Ids, Continue(w, k) PROVE ledger'[i].status \notin Active
  <2>1. cur[w] \in Event
    BY <1>5 DEF Continue, BaseInv, TypeInv, LocalInv, EventPCs, JobPCs
  <2>2. [cur[w] EXCEPT !.id = k] \in Event /\ [cur[w] EXCEPT !.id = k].id = k
    BY <2>1 DEF Event
  <2> QED
    BY <1>3, <1>5, <2>2 DEF Continue
<1>6. ASSUME NEW h \in Hooks, EnqueueNoPath(h) PROVE ledger'[i].status \notin Active
  <2>1. cur[h] \in Event
    BY <1>6 DEF EnqueueNoPath, BaseInv, TypeInv, LocalInv, EventPCs, HookLockPCs
  <2>2. CASE pc[h] = "run" /\ Append(cur[h], "running")
    BY <1>1, <2>1, <2>2 DEF DoneInv, NoPathApart
  <2>3. CASE Append(cur[h], "error")
    BY <1>1, <2>1, <2>3 DEF Active
  <2> QED
    BY <1>6, <2>2, <2>3 DEF EnqueueNoPath
<1>7. ASSUME NEW q \in Procs, EnqueueSupersede(q) PROVE ledger'[i].status \notin Active
  <2>1. Oldest(todo[q]) \in Event
    BY <1>7, OldestIn DEF EnqueueSupersede, BaseInv, TypeInv, TypeOK, LocalInv
  <2> QED
    BY <1>1, <1>7, <2>1 DEF EnqueueSupersede, Active
<1>8. ASSUME NEW w \in Workers, HoldFinish(w) PROVE ledger'[i].status \notin Active
  <2>1. cur[w] \in Event
    BY <1>8 DEF HoldFinish, BaseInv, TypeInv, LocalInv, EventPCs
  <2>2. ledger' = ledger \/ \E s \in {"held", "quarantined"} : Append(cur[w], s)
    BY <1>8 DEF HoldFinish
  <2>3. "held" \notin Active /\ "quarantined" \notin Active
    BY DEF Active
  <2> QED
    BY <1>1, <1>2, <2>1, <2>2, <2>3
<1>9. ASSUME NEW w \in Workers, TakeJob(w) PROVE ledger'[i].status \notin Active
  <2>1. Oldest(todo[w]) \in todo[w] /\ Oldest(todo[w]) \in Event /\ pc[w] = "pick"
    BY <1>9, OldestIn DEF TakeJob, BaseInv, TypeInv, TypeOK, LocalInv
  <2>2. ledger[Oldest(todo[w]).id].status # "done"
    BY <2>1 DEF DoneInv, HandInv, HandPCs
  <2> QED
    BY <1>1, <1>9, <2>1, <2>2 DEF TakeJob
<1>10. ASSUME NEW w \in Workers, FinishJob(w) PROVE ledger'[i].status \notin Active
  <2>1. cur[w] \in Event
    BY <1>10 DEF FinishJob, BaseInv, TypeInv, LocalInv, EventPCs, JobPCs
  <2>2. PICK s \in {"done", "error"} : Append(cur[w], s)
    BY <1>10 DEF FinishJob
  <2> QED
    BY <1>1, <2>1, <2>2 DEF Active
<1>11. ASSUME NEW S \in SUBSET Ids, RequeueErrors(S) PROVE ledger'[i].status \notin Active
  BY <1>11 DEF RequeueErrors, BaseInv, TypeInv, TypeOK, Active
<1>12. CASE \E w \in Workers :
              \/ TryWorkerLock(w) \/ Scan(w) \/ HoldOne(w) \/ HoldDone(w) \/ QuarantineLarge(w)
              \/ Recycle(w) \/ SpawnSuccessor(w) \/ CaptureNothing(w) \/ CaptureFails(w)
              \/ CaptureSlice(w) \/ WriteOffset(w) \/ ContinueTimeout(w) \/ Release(w) \/ Rescan(w)
              \/ Exit(w) \/ \E b \in HoldSettings : Drain(w, b)
  BY <1>2, <1>12
  DEF TryWorkerLock, Scan, HoldOne, HoldDone, QuarantineLarge, HoldEvent, Recycle, SpawnSuccessor,
      CaptureNothing, CaptureFails, CaptureSlice, WriteOffset, ContinueTimeout, Release, Rescan, Exit,
      Drain, NoWrite
<1>13. CASE \/ \E p \in Paths : Grow(p)
            \/ \E h \in Hooks : SpawnCount(h) \/ Spawn(h)
            \/ \E q \in Procs : EnqueueDrop(q) \/ Crash(q)
  BY <1>2, <1>13 DEF Grow, SpawnCount, Spawn, EnqueueDrop, Crash, NoWrite
<1> QED
  BY <1>4, <1>5, <1>6, <1>7, <1>8, <1>9, <1>10, <1>11, <1>12, <1>13 DEF Next, HookStep, WorkerStep

\* The command queues only what it read from a parking lot.
LEMMA CommandActivates ==
  ASSUME BaseInv, DoneInv, faults = 0, ReleaseNext, NEW i \in Ids, ledger[i].status = "done"
  PROVE  ledger'[i].status \notin Active
<1>1. CASE UNCHANGED ledger
  BY <1>1 DEF Active
<1>2. CASE ReleaseSupersede
  <2>1. Oldest(op.stale) \in Event
    <3>1. op.stale \in SUBSET Event /\ op.stale # {}
      BY <1>2 DEF ReleaseSupersede, BaseInv, OpInv, OpRecord
    <3> QED
      BY <3>1, OldestIn DEF BaseInv, TypeInv, TypeOK
  <2> DEFINE r == Oldest(op.stale)
  <2>2. r \in Event /\ Append(r, "superseded")
    BY <1>2, <2>1 DEF ReleaseSupersede
  <2> HIDE DEF r
  <2>3. /\ ledger'[r.id] = [path |-> r.path, forced |-> r.forced, status |-> "superseded"]
        /\ \A k \in Ids \ {r.id} : ledger'[k] = ledger[k]
    BY <2>2, AppendLedger DEF BaseInv
  <2> QED
    BY <2>3 DEF Active
<1>3. CASE ReleaseAppend
  <2>1. PICK s \in {"queued", "superseded"} : Append(Moving, s)
    BY <1>3 DEF ReleaseAppend, Moving
  <2>2. op.pc \in OpMovePCs
    BY <1>3 DEF ReleaseAppend, OpMovePCs, OpLockPCs
  <2>3. Moving \in Event /\ Moving.id = Head.id /\ Head \in Known
    BY <2>2, MovingEvent, HeadIn DEF BaseInv, Known
  <2>4. \A k \in Ids \ {Head.id} : ledger'[k] = ledger[k]
    BY <2>1, <2>3, AppendLedger DEF BaseInv
  <2>5. ledger[Head.id].status # "done"
    BY <2>3 DEF DoneInv, FileInv
  <2> QED
    BY <2>4, <2>5 DEF Active
<1> QED
  BY <1>1, <1>2, <1>3 DEF ReleaseNext, ReleaseList, ReleaseSnapshot, ReleaseOne, ReleaseUnlink,
                         ReleaseLeaves, ReleaseCrash

\* An event whose capture is done does not go back to the queue, whatever the
\* unlocked listing of the command said, while no process died and no step of
\* the command failed.
THEOREM DoneStaysDone == RSpec => DoneIsNotRequeued
<1>1. RInit => BaseInv /\ IdsInv /\ DoneInv
  BY BaseInit, IdsInit, DoneInit
<1>2. BaseInv /\ IdsInv /\ DoneInv /\ [RNext]_releaseVars => (BaseInv /\ IdsInv /\ DoneInv)'
  BY BaseStep, IdsStep, DoneStep
<1>3. BaseInv /\ IdsInv /\ DoneInv /\ [RNext]_releaseVars =>
        [\A i \in Ids : ledger[i].status = "done" /\ faults = 0
                          => ledger'[i].status \notin Active]_releaseVars
  BY WhoActivates, CommandActivates DEF RNext
<1> QED
  BY <1>1, <1>2, <1>3, PTL DEF RSpec, DoneIsNotRequeued

\* The locals of the command and of the queue have their types.
THEOREM CommandTypes == RSpec => [](TypeOK /\ OpTypeOK)
<1>1. BaseInv => TypeOK /\ OpTypeOK
  BY DEF BaseInv, TypeInv, OpInv, OpRecord, OpMovePCs, OpLockPCs, OpTypeOK
<1> QED
  BY <1>1, BaseInit, BaseStep, PTL DEF RSpec

-----------------------------------------------------------------------------
(***************************************************************************)
(* No gap.  Until something fails, and while every process has the same    *)
(* hold setting, the invariants of CaptureLedgerProofs survive the command *)
(* as well, on top of                                                      *)
(*   SettingInv  whose hold is on, and why an event is being parked        *)
(*   PathInv     what the command and the parking lots say of a transcript *)
(*   StampInv    no two parked files have the same time                    *)
(*   ThereInv    a listed file, or a newer one of its transcript, is there *)
(*   HandMarks   no forced event is being parked                           *)
(*   ListInv, MovesInv, StaleInv, QueuedInv                                *)
(*               where in the move of a file its event is                  *)
(***************************************************************************)

SettingInv ==
  /\ \A h \in Hooks : hold[h] \in HoldSettings
  /\ \A w \in Workers : pc[w] # "off" => hold[w] \in HoldSettings
  /\ \A w \in Workers : pc[w] = "holding" => hold[w]
  /\ \A w \in Workers : pc[w] = "park" => hold[w] \/ OverLimit(cur[w].path)
  /\ op.pc # "idle" => op.force \/ FALSE \in HoldSettings

PathInv ==
  /\ \A r \in op.snapshot : ledger[r.id].path = r.path /\ ledger[r.id].status # "none"
  /\ \A f \in Known : ledger[f.id].status # "none" => ledger[f.id].path = f.path

StampInv ==
  /\ \A f \in Known : f.stamp <= clock
  /\ \A f, g \in Known : f.stamp = g.stamp => f = g

ThereInv ==
  \A f \in op.events : /\ f.path \in Paths
                       /\ \E g \in parked : g.path = f.path /\ f.stamp <= g.stamp

Live(i) == ledger[i].status \in Active \cup {"error"}

HandMarks ==
  \A w \in Workers :
    /\ pc[w] \in HandPCs => \A e \in todo[w] :
         e.path \in Paths /\ Live(e.id) => ledger[e.id].forced = e.forced
    /\ pc[w] = "park" /\ cur[w].path \in Paths /\ Live(cur[w].id)
         => ~ledger[cur[w].id].forced

\* What is listed without --force is not being parked.
ListInv == op.pc = "snapshot" /\ ~op.force => \A f \in op.events : ~Parking(f.id)

\* A listed event that was active in the snapshot was being parked, and is moved.
MovesInv ==
  op.pc \in OpMovePCs => \A r \in op.snapshot, f \in op.events :
    r.id = f.id => op.force /\ ~r.forced

StaleInv  == op.pc = "supersede" => \A r \in op.stale : r.path = Head.path

QueuedInv ==
  op.pc = "unlink" /\ Keep =>
    ledger[Head.id].status = "queued" /\ ledger[Head.id].path = Head.path

FilesOK == PathInv /\ StampInv /\ ThereInv
MoveOK  == FilesOK /\ HandMarks /\ ListInv /\ MovesInv /\ StaleInv /\ QueuedInv
QueueOK == LedgerInv /\ ParkInv /\ GoalInv /\ BesideInv /\ SizeInv /\ NothingLost

\* A worker with events in its hand kept them, or does one of these.
LEMMA WhoHolds ==
  ASSUME TypeInv, [Next]_vars, NEW w \in Workers, pc'[w] \in HandPCs
  PROVE  \/ pc'[w] = pc[w] /\ cur'[w] = cur[w] /\ todo'[w] = todo[w]
         \/ Scan(w) \/ HoldOne(w) \/ QuarantineLarge(w) \/ HoldDone(w) \/ HoldFinish(w)
<1> USE LedgerAssumption
<1>1. pc'[w] \in {"holding", "pick", "park"}
  BY DEF HandPCs
<1>2. ASSUME NEW h \in Hooks, NEW t \in Targets, NEW i \in Ids, SessionEnd(h, t, i)
      PROVE  pc'[w] = pc[w] /\ cur'[w] = cur[w] /\ todo'[w] = todo[w]
  BY <1>2 DEF SessionEnd, EnqueueHeld, EnqueueQueued, Goto, TypeInv, TypeOK
<1>3. ASSUME NEW q \in Procs, EnqueueDrop(q) \/ EnqueueSupersede(q)
      PROVE  pc'[w] = pc[w] /\ cur'[w] = cur[w] /\ todo'[w] = todo[w]
  BY <1>1, <1>3
  DEF EnqueueDrop, EnqueueSupersede, AfterHeld, AfterQueued, Goto, TypeInv, TypeOK
<1>4. ASSUME NEW h \in Hooks, EnqueueNoPath(h) \/ SpawnCount(h) \/ Spawn(h)
      PROVE  pc'[w] = pc[w] /\ cur'[w] = cur[w] /\ todo'[w] = todo[w]
  BY <1>1, <1>4 DEF EnqueueNoPath, SpawnCount, Spawn, Goto, TypeInv, TypeOK
<1>5. ASSUME NEW v \in Workers,
             \/ TryWorkerLock(v) \/ Recycle(v) \/ SpawnSuccessor(v) \/ Release(v) \/ Rescan(v)
             \/ FinishJob(v) \/ TakeJob(v) \/ CaptureNothing(v) \/ CaptureFails(v)
             \/ CaptureSlice(v) \/ WriteOffset(v) \/ ContinueTimeout(v)
      PROVE  pc'[w] = pc[w] /\ cur'[w] = cur[w] /\ todo'[w] = todo[w]
  BY <1>1, <1>5
  DEF TryWorkerLock, Recycle, SpawnSuccessor, Release, Rescan, FinishJob, TakeJob, CaptureNothing,
      CaptureFails, CaptureSlice, WriteOffset, AfterSlice, ContinueTimeout, Goto, TypeInv, TypeOK
<1>6. ASSUME NEW v \in Workers, NEW i \in Ids, Continue(v, i)
      PROVE  pc'[w] = pc[w] /\ cur'[w] = cur[w] /\ todo'[w] = todo[w]
  BY <1>1, <1>6
  DEF Continue, EnqueueHeld, EnqueueQueued, AfterQueued, Goto, TypeInv, TypeOK
<1>7. ASSUME NEW v \in Workers, v # w, HoldDone(v) \/ HoldFinish(v) \/ Scan(v)
      PROVE  pc'[w] = pc[w] /\ cur'[w] = cur[w] /\ todo'[w] = todo[w]
  BY <1>7 DEF HoldDone, HoldFinish, Scan, Goto, TypeInv, TypeOK
<1>8. ASSUME NEW v \in Workers, v # w, NEW e, NEW d, HoldEvent(v, e, d)
      PROVE  pc'[w] = pc[w] /\ cur'[w] = cur[w] /\ todo'[w] = todo[w]
  BY <1>8 DEF HoldEvent, Goto, TypeInv, TypeOK
<1>9. ASSUME NEW q \in Procs, Exit(q) \/ Crash(q)
      PROVE  pc'[w] = pc[w] /\ cur'[w] = cur[w] /\ todo'[w] = todo[w]
  BY <1>1, <1>9 DEF Exit, Crash, Gone, Goto, TypeInv, TypeOK
<1>10. ASSUME NEW v \in Workers, NEW b \in HoldSettings, Drain(v, b)
       PROVE  pc'[w] = pc[w] /\ cur'[w] = cur[w] /\ todo'[w] = todo[w]
  BY <1>1, <1>10 DEF Drain, Goto, TypeInv, TypeOK
<1>11. CASE UNCHANGED <<pc, cur, todo>>
  BY <1>11
<1> QED
  BY <1>2, <1>3, <1>4, <1>5, <1>6, <1>7, <1>8, <1>9, <1>10, <1>11
  DEF Next, HookStep, WorkerStep, HoldOne, QuarantineLarge, Grow, RequeueErrors

\* A process has the setting of whoever started it.
LEMMA WhoStarts ==
  ASSUME TypeInv, SettingInv, [Next]_vars
  PROVE  /\ \A h \in Hooks : hold'[h] = hold[h]
         /\ \A w \in Workers : \/ hold'[w] = hold[w] /\ (pc[w] = "off" => pc'[w] = "off")
                               \/ pc[w] = "off" /\ hold'[w] \in HoldSettings
<1> USE LedgerAssumption
<1>1. ASSUME NEW v \in Workers, NEW b \in HoldSettings, Start(v, b),
             \A w \in Workers \ {v} : pc[w] = "off" => pc'[w] = "off"
      PROVE  /\ \A h \in Hooks : hold'[h] = hold[h]
             /\ \A w \in Workers : \/ hold'[w] = hold[w] /\ (pc[w] = "off" => pc'[w] = "off")
                                   \/ pc[w] = "off" /\ hold'[w] \in HoldSettings
  BY <1>1 DEF Start, TypeInv, TypeOK
<1>2. ASSUME NEW h \in Hooks, Spawn(h)
      PROVE  \E v \in Workers, b \in HoldSettings :
               /\ Start(v, b)
               /\ \A w \in Workers \ {v} : pc[w] = "off" => pc'[w] = "off"
  BY <1>2 DEF Spawn, SettingInv, TypeInv, TypeOK
<1>3. ASSUME NEW u \in Workers, SpawnSuccessor(u)
      PROVE  \E v \in Workers, b \in HoldSettings :
               /\ Start(v, b)
               /\ \A w \in Workers \ {v} : pc[w] = "off" => pc'[w] = "off"
  BY <1>3 DEF SpawnSuccessor, SettingInv, TypeInv, TypeOK
<1>4. ASSUME NEW v \in Workers, NEW b \in HoldSettings, Drain(v, b)
      PROVE  Start(v, b) /\ \A w \in Workers \ {v} : pc[w] = "off" => pc'[w] = "off"
  BY <1>4 DEF Drain, Goto, TypeInv, TypeOK
<1>5. ASSUME hold' = hold, NEW q \in Procs, pc[q] # "off",
             \A w \in Workers \ {q} : pc'[w] = pc[w]
      PROVE  /\ \A h \in Hooks : hold'[h] = hold[h]
             /\ \A w \in Workers : \/ hold'[w] = hold[w] /\ (pc[w] = "off" => pc'[w] = "off")
                                   \/ pc[w] = "off" /\ hold'[w] \in HoldSettings
  BY <1>5
<1>6. ASSUME NEW h \in Hooks, NEW t \in Targets, NEW i \in Ids, SessionEnd(h, t, i)
      PROVE  hold' = hold /\ pc[h] # "off" /\ \A w \in Workers \ {h} : pc'[w] = pc[w]
  BY <1>6 DEF SessionEnd, EnqueueHeld, EnqueueQueued, Goto, TypeInv, TypeOK
<1>7. ASSUME NEW q \in Procs, EnqueueDrop(q) \/ EnqueueSupersede(q)
      PROVE  hold' = hold /\ pc[q] # "off" /\ \A w \in Workers \ {q} : pc'[w] = pc[w]
  BY <1>7 DEF EnqueueDrop, EnqueueSupersede, Goto, TypeInv, TypeOK
<1>8. ASSUME NEW h \in Hooks, EnqueueNoPath(h) \/ SpawnCount(h)
      PROVE  hold' = hold /\ pc[h] # "off" /\ \A w \in Workers \ {h} : pc'[w] = pc[w]
  BY <1>8 DEF EnqueueNoPath, SpawnCount, Goto, TypeInv, TypeOK
<1>9. ASSUME NEW v \in Workers,
             \/ TryWorkerLock(v) \/ Recycle(v) \/ Release(v) \/ Rescan(v)
             \/ FinishJob(v) \/ TakeJob(v) \/ CaptureNothing(v) \/ CaptureFails(v)
             \/ CaptureSlice(v) \/ WriteOffset(v) \/ ContinueTimeout(v)
             \/ HoldDone(v) \/ HoldFinish(v) \/ Scan(v)
      PROVE  hold' = hold /\ pc[v] # "off" /\ \A w \in Workers \ {v} : pc'[w] = pc[w]
  BY <1>9
  DEF TryWorkerLock, Recycle, Release, Rescan, FinishJob, TakeJob, CaptureNothing, CaptureFails,
      CaptureSlice, WriteOffset, ContinueTimeout, HoldDone, HoldFinish, Scan, Goto, TypeInv, TypeOK
<1>10. ASSUME NEW v \in Workers, HoldOne(v) \/ QuarantineLarge(v)
       PROVE  hold' = hold /\ pc[v] # "off" /\ \A w \in Workers \ {v} : pc'[w] = pc[w]
  BY <1>10 DEF HoldOne, QuarantineLarge, HoldEvent, Goto, TypeInv, TypeOK
<1>11. ASSUME NEW v \in Workers, NEW i \in Ids, Continue(v, i)
       PROVE  hold' = hold /\ pc[v] # "off" /\ \A w \in Workers \ {v} : pc'[w] = pc[w]
  BY <1>11 DEF Continue, EnqueueHeld, EnqueueQueued, Goto, TypeInv, TypeOK
<1>12. ASSUME NEW q \in Procs, Crash(q) \/ (q \in Workers /\ Exit(q))
       PROVE  hold' = hold /\ pc[q] # "off" /\ \A w \in Workers \ {q} : pc'[w] = pc[w]
  BY <1>12 DEF Exit, Crash, Gone, Goto, TypeInv, TypeOK
<1>13. CASE UNCHANGED <<pc, hold>>
  BY <1>13
<1>14. CASE \E v \in Workers, b \in HoldSettings :
              Start(v, b) /\ \A w \in Workers \ {v} : pc[w] = "off" => pc'[w] = "off"
  BY <1>1, <1>14
<1>15. CASE \E q \in Procs : hold' = hold /\ pc[q] # "off" /\ \A w \in Workers \ {q} : pc'[w] = pc[w]
  BY <1>5, <1>15
<1> QED
  BY <1>2, <1>3, <1>4, <1>6, <1>7, <1>8, <1>9, <1>10, <1>11, <1>12, <1>13, <1>14, <1>15
  DEF Next, HookStep, WorkerStep, Grow, RequeueErrors

\* Transcripts only grow.
LEMMA SizeGrows ==
  ASSUME TypeInv, [Next]_vars, NEW t, OverLimit(t) PROVE OverLimit(t)'
<1>1. CASE size' = size
  BY <1>1 DEF OverLimit
<1>2. ASSUME NEW p \in Paths, Grow(p) PROVE OverLimit(t)'
  BY <1>2, LedgerAssumption DEF OverLimit, Grow, TypeInv, TypeOK
<1> QED
  BY <1>1, <1>2
  DEF Next, HookStep, WorkerStep, SessionEnd, EnqueueDrop, EnqueueSupersede, EnqueueNoPath,
      SpawnCount, Spawn, TryWorkerLock, Scan, HoldOne, HoldDone, HoldFinish,
      QuarantineLarge, HoldEvent, Recycle, SpawnSuccessor, TakeJob, CaptureNothing,
      CaptureFails, CaptureSlice, WriteOffset, Continue, ContinueTimeout, FinishJob, Release, Rescan,
      Exit, Crash, Drain, RequeueErrors

\* What the command keeps of its arguments.
LEMMA ForceStays ==
  ASSUME BaseInv, ReleaseNext, op'.pc # "idle"
  PROVE  \/ op.pc # "idle" /\ op'.force = op.force
         \/ \E b \in HoldSettings : op'.force \/ ~b
<1>1. ASSUME NEW d \in Dirs, NEW force \in BOOLEAN, NEW b \in HoldSettings, ReleaseList(d, force, b)
      PROVE  op'.force \/ ~b
  BY <1>1 DEF ReleaseList, IdleOp
<1>2. CASE NextEvent /\ op.pc # "idle"
  BY <1>2, IdleOpInv DEF NextEvent, BaseInv, OpInv, OpRecord
<1> QED
  BY <1>1, <1>2, IdleOpInv
  DEF ReleaseNext, ReleaseSnapshot, ReleaseOne, ReleaseSupersede, ReleaseAppend, ReleaseUnlink,
      ReleaseLeaves, ReleaseCrash, OpGoto, BaseInv, OpInv, OpRecord

LEMMA SettingInit == RInit => SettingInv
<1> SUFFICES ASSUME RInit PROVE SettingInv
  OBVIOUS
<1>1. /\ \A h \in Hooks : hold[h] \in HoldSettings
      /\ \A w \in Workers : pc[w] = "off"
  BY LedgerAssumption DEF RInit, Init
<1>2. op.pc = "idle"
  BY IdleOpInv DEF RInit
<1> QED
  BY <1>1, <1>2 DEF SettingInv

\* What a step leaves of the command's process alone.
LEMMA ReleaseLocals ==
  ReleaseNext => UNCHANGED <<dataVars, worldVars, workerLock, localVars, used>>
BY DEF ReleaseNext, ReleaseList, ReleaseSnapshot, ReleaseOne, ReleaseSupersede, ReleaseAppend,
       ReleaseUnlink, ReleaseLeaves, ReleaseCrash

\* A worker parks an event because its hold is on or the transcript too long.
LEMMA SettingStep == BaseInv /\ SettingInv /\ [RNext]_releaseVars => SettingInv'
<1> USE LedgerAssumption
<1>1. ASSUME BaseInv, SettingInv, [Next]_vars, UNCHANGED op PROVE SettingInv'
  <2> USE <1>1 DEF BaseInv
  <2>1. \A h \in Hooks : hold'[h] \in HoldSettings
    BY WhoStarts DEF SettingInv
  <2>2. \A w \in Workers : pc'[w] # "off" => hold'[w] \in HoldSettings
    BY WhoStarts DEF SettingInv
  <2>3. ASSUME NEW w \in Workers, pc[w] # "off" PROVE hold'[w] = hold[w]
    BY <2>3, WhoStarts
  <2>4. ASSUME NEW w \in Workers, pc'[w] = "holding" PROVE hold'[w]
    <3>1. \/ pc'[w] = pc[w]
          \/ Scan(w) \/ HoldOne(w) \/ QuarantineLarge(w) \/ HoldDone(w) \/ HoldFinish(w)
      BY <2>4, WhoHolds DEF HandPCs
    <3>2. CASE pc'[w] = pc[w]
      BY <2>3, <2>4, <3>2 DEF SettingInv
    <3>3. CASE Scan(w) \/ HoldFinish(w)
      BY <2>4, <3>3 DEF Scan, HoldFinish, Goto, TypeInv, TypeOK
    <3>4. CASE HoldOne(w) \/ QuarantineLarge(w) \/ HoldDone(w)
      BY <2>4, <3>4 DEF HoldOne, QuarantineLarge, HoldEvent, HoldDone, Goto, TypeInv, TypeOK
    <3> QED
      BY <3>1, <3>2, <3>3, <3>4
  <2>5. ASSUME NEW w \in Workers, pc'[w] = "park" PROVE hold'[w] \/ OverLimit(cur[w].path)'
    <3>1. \/ pc'[w] = pc[w] /\ cur'[w] = cur[w]
          \/ Scan(w) \/ HoldOne(w) \/ QuarantineLarge(w) \/ HoldDone(w) \/ HoldFinish(w)
      BY <2>5, WhoHolds DEF HandPCs
    <3>2. CASE pc'[w] = pc[w] /\ cur'[w] = cur[w]
      <4>1. hold[w] \/ OverLimit(cur[w].path)
        BY <2>5, <3>2 DEF SettingInv
      <4>2. OverLimit(cur[w].path) => OverLimit(cur[w].path)'
        <5>1. \A t : OverLimit(t) => OverLimit(t)'
          BY SizeGrows
        <5> QED
          BY <3>2, <5>1 DEF OverLimit
      <4> QED
        BY <2>3, <2>5, <3>2, <4>1, <4>2
    <3>3. CASE HoldOne(w)
      BY <3>3 DEF HoldOne, HoldEvent, SettingInv
    <3>4. CASE QuarantineLarge(w)
      BY <3>4 DEF QuarantineLarge, HoldEvent, OverLimit, TypeInv, TypeOK
    <3>5. CASE Scan(w) \/ HoldDone(w)
      BY <2>5, <3>5 DEF Scan, HoldDone, Goto, TypeInv, TypeOK
    <3>6. CASE HoldFinish(w)
      BY <3>6 DEF HoldFinish, SettingInv, OverLimit
    <3> QED
      BY <3>1, <3>2, <3>3, <3>4, <3>5, <3>6
  <2> QED
    BY <2>1, <2>2, <2>4, <2>5 DEF SettingInv
<1>2. ASSUME BaseInv, SettingInv, ReleaseNext PROVE SettingInv'
  BY <1>2, ForceStays, ReleaseLocals DEF SettingInv, OverLimit
<1> QED
  BY <1>1, <1>2 DEF RNext, releaseVars

\* A worker parks an unforced event of those it has.
LEMMA HoldsOne ==
  ASSUME TypeInv, NEW w \in Workers, HoldOne(w) \/ QuarantineLarge(w)
  PROVE  \E e \in todo[w], d \in Dirs :
           HoldEvent(w, e, d) /\ ~e.forced /\ pc[w] \in {"holding", "pick"}
<1>1. PICK S \in SUBSET todo[w], d \in Dirs :
        S # {} /\ HoldEvent(w, Oldest(S), d) /\ (Oldest(S) \in S => ~Oldest(S).forced)
  <2>1. CASE HoldOne(w)
    BY <2>1 DEF HoldOne, Unforced, Dirs
  <2>2. CASE QuarantineLarge(w)
    BY <2>2 DEF QuarantineLarge, Dirs, TypeInv, LocalInv
  <2> QED
    BY <2>1, <2>2
<1>2. Oldest(S) \in S
  BY <1>1, OldestIn DEF TypeInv, TypeOK
<1>3. pc[w] \in {"holding", "pick"}
  BY DEF HoldOne, QuarantineLarge
<1> QED
  BY <1>1, <1>2, <1>3

\* A hook or worker either drops files that have a newer one of the same
\* transcript, or parks a new event or one it has.
LEMMA WhoFiles ==
  ASSUME TypeInv, [Next]_vars
  PROVE  \/ /\ parked' \subseteq parked /\ clock' \in Nat /\ clock <= clock'
            /\ \A f \in parked : f.path \in Paths =>
                 \E g \in parked' : g.path = f.path /\ f.stamp <= g.stamp
         \/ /\ UNCHANGED ledger /\ ledgerLock = Nobody
            /\ \E e \in Event, d \in Dirs :
                 /\ Park(e, d)
                 /\ \/ e.id \notin used
                    \/ \E w \in Workers : pc[w] \in {"holding", "pick"} /\ e \in todo[w]
<1> USE LedgerAssumption
<1> DEFINE Drops == /\ parked' \subseteq parked /\ clock' \in Nat /\ clock <= clock'
                    /\ \A f \in parked : f.path \in Paths =>
                         \E g \in parked' : g.path = f.path /\ f.stamp <= g.stamp
           Parks == /\ UNCHANGED ledger /\ ledgerLock = Nobody
                    /\ \E e \in Event, d \in Dirs :
                         /\ Park(e, d)
                         /\ \/ e.id \notin used
                            \/ \E w \in Workers : pc[w] \in {"holding", "pick"} /\ e \in todo[w]
<1>1. clock \in Nat /\ \A f \in parked : f.stamp \in Nat
  BY DEF TypeInv, TypeOK, File
<1>2. ASSUME UNCHANGED parked, clock' = clock \/ clock' = clock + 1 PROVE Drops
  BY <1>1, <1>2
<1>3. ASSUME NEW t, NEW d, DropOlder(t, d), UNCHANGED clock PROVE Drops
  <2>1. PICK f \in Older(t, d) : parked' = parked \ {f}
    BY <1>3 DEF DropOlder
  <2>2. f \in parked /\ f.path = t /\ \E g \in parked : g.path = t /\ f.stamp < g.stamp
    BY DEF Older
  <2>3. PICK g \in parked : g.path = t /\ f.stamp < g.stamp
    BY <2>2
  <2>4. g \in parked' /\ f.stamp <= g.stamp
    BY <1>1, <2>1, <2>2, <2>3
  <2> QED
    BY <1>1, <1>3, <2>1, <2>2, <2>3, <2>4
<1>4. ASSUME NEW e, NEW s, Append(e, s) PROVE clock' = clock \/ clock' = clock + 1
  BY <1>4 DEF Append
<1>5. ASSUME NEW q \in Procs, NEW e \in Event, e.id \notin used,
             EnqueueHeld(q, e) \/ EnqueueQueued(q, e)
      PROVE  Drops \/ Parks
  <2>1. CASE EnqueueHeld(q, e)
    <3>1. /\ UNCHANGED ledger /\ ledgerLock = Nobody /\ Park(e, "held-all") /\ "held-all" \in Dirs
      BY <2>1 DEF EnqueueHeld, Lock, Dirs
    <3> QED
      BY <1>5, <3>1
  <2>2. CASE EnqueueQueued(q, e)
    BY <1>2, <1>4, <2>2 DEF EnqueueQueued
  <2> QED
    BY <1>5, <2>1, <2>2
<1>6. ASSUME NEW h \in Hooks, NEW t \in Targets, NEW i \in Ids, SessionEnd(h, t, i)
      PROVE  Drops \/ Parks
  <2> DEFINE e == [id |-> i, path |-> t, forced |-> FALSE]
  <2>1. e \in Event /\ e.id \notin used /\ (EnqueueHeld(h, e) \/ EnqueueQueued(h, e))
    BY <1>6 DEF SessionEnd, Event
  <2> HIDE DEF e, Drops, Parks
  <2> QED
    BY <1>5, <2>1
<1>7. ASSUME NEW w \in Workers, NEW i \in Ids, Continue(w, i) PROVE Drops \/ Parks
  <2> DEFINE e == [cur[w] EXCEPT !.id = i]
  <2>1. cur[w] \in Event
    BY <1>7 DEF Continue, TypeInv, LocalInv, EventPCs, JobPCs
  <2>2. e \in Event /\ e.id \notin used /\ (EnqueueHeld(w, e) \/ EnqueueQueued(w, e))
    BY <1>7, <2>1 DEF Continue, Event
  <2> HIDE DEF e, Drops, Parks
  <2> QED
    BY <1>5, <2>2
<1>8. ASSUME NEW w \in Workers, NEW e \in todo[w], NEW d \in Dirs, HoldEvent(w, e, d),
             pc[w] \in {"holding", "pick"}
      PROVE  Parks
  BY <1>8 DEF HoldEvent, Lock, TypeInv, TypeOK
<1>9. ASSUME NEW w \in Workers, HoldOne(w) \/ QuarantineLarge(w) PROVE Parks
  <2> HIDE DEF Parks
  <2> QED
    BY <1>8, <1>9, HoldsOne
<1>10. ASSUME NEW q \in Procs, EnqueueDrop(q) PROVE Drops
  BY <1>2, <1>3, <1>10 DEF EnqueueDrop
<1>11. ASSUME NEW w \in Workers, HoldFinish(w) PROVE Drops
  BY <1>2, <1>3, <1>4, <1>11 DEF HoldFinish
<1>12. ASSUME NEW q \in Procs, EnqueueSupersede(q) \/ EnqueueNoPath(q) PROVE Drops
  BY <1>2, <1>4, <1>12 DEF EnqueueSupersede, EnqueueNoPath
<1>13. ASSUME NEW w \in Workers, TakeJob(w) \/ FinishJob(w) PROVE Drops
  BY <1>2, <1>4, <1>13 DEF TakeJob, FinishJob
<1>14. ASSUME UNCHANGED <<parked, clock>> PROVE Drops
  BY <1>2, <1>14
<1> HIDE DEF Drops, Parks
<1>15. Drops \/ Parks
  BY <1>6, <1>7, <1>9, <1>10, <1>11, <1>12, <1>13, <1>14
  DEF Next, HookStep, WorkerStep, Grow, SpawnCount, Spawn, TryWorkerLock, Scan, HoldDone, Recycle,
      SpawnSuccessor, CaptureNothing, CaptureFails, CaptureSlice, WriteOffset, ContinueTimeout,
      Release, Rescan, Exit, Crash, Drain, RequeueErrors, NoWrite
<1> QED
  BY <1>15 DEF Drops, Parks

\* Hooks and workers keep every listed file, or a newer one of its transcript.
LEMMA FilesNext ==
  BaseInv /\ IdsInv /\ LedgerInv /\ FilesOK /\ [Next]_vars /\ UNCHANGED op => FilesOK'
<1> SUFFICES ASSUME BaseInv, IdsInv, LedgerInv, PathInv, StampInv, ThereInv, [Next]_vars, UNCHANGED op
             PROVE  FilesOK'
  BY DEF FilesOK
<1>1. /\ clock \in Nat /\ \A f \in Known : f.id \in Ids /\ f.stamp \in Nat
      /\ \A r \in op.snapshot : r.id \in Ids
  BY DEF BaseInv, TypeInv, TypeOK, OpInv, OpRecord, Known, File, Event
<1>2. \A i \in Ids : /\ ledger[i].status # "none" =>
                          ledger'[i].path = ledger[i].path /\ ledger'[i].status # "none"
                     /\ ledger[i].status = "none" /\ ledger'[i].status # "none" => i \notin used
  BY RecordsStay DEF BaseInv
<1>3. \A r \in op.snapshot : ledger'[r.id].path = r.path /\ ledger'[r.id].status # "none"
  BY <1>1, <1>2 DEF PathInv
<1>4. \A f \in Known : ledger'[f.id].status # "none" => ledger'[f.id].path = f.path
  <2> SUFFICES ASSUME NEW f \in Known, ledger'[f.id].status # "none"
               PROVE  ledger'[f.id].path = f.path
    OBVIOUS
  <2>1. f.id \in Ids /\ f.id \in used
    BY <1>1 DEF IdsInv
  <2> QED
    BY <1>2, <2>1 DEF PathInv
<1>5. CASE /\ parked' \subseteq parked /\ clock' \in Nat /\ clock <= clock'
           /\ \A f \in parked : f.path \in Paths =>
                \E g \in parked' : g.path = f.path /\ f.stamp <= g.stamp
  <2>1. Known' \subseteq Known
    BY <1>5 DEF Known
  <2>2. PathInv'
    BY <1>3, <1>4, <2>1 DEF PathInv
  <2>3. StampInv'
    BY <1>1, <1>5, <2>1 DEF StampInv
  <2>4. ThereInv'
    <3> SUFFICES ASSUME NEW f \in op.events
                 PROVE  f.path \in Paths /\ \E g \in parked' : g.path = f.path /\ f.stamp <= g.stamp
      BY DEF ThereInv
    <3>1. f.path \in Paths /\ f.stamp \in Nat
      BY <1>1 DEF ThereInv, Known
    <3>2. PICK g \in parked : g.path = f.path /\ f.stamp <= g.stamp
      BY DEF ThereInv
    <3>3. PICK k \in parked' : k.path = g.path /\ g.stamp <= k.stamp
      BY <1>5, <3>1, <3>2
    <3>4. g.stamp \in Nat /\ k.stamp \in Nat
      BY <1>1, <2>1 DEF Known
    <3> QED
      BY <3>1, <3>2, <3>3, <3>4
  <2> QED
    BY <2>2, <2>3, <2>4 DEF FilesOK
<1>6. ASSUME UNCHANGED ledger, NEW e \in Event, NEW d \in Dirs, Park(e, d),
             \/ e.id \notin used
             \/ \E w \in Workers : pc[w] \in {"holding", "pick"} /\ e \in todo[w]
      PROVE  FilesOK'
  <2> DEFINE n == [id |-> e.id, path |-> e.path, dir |-> d, stamp |-> clock + 1]
  <2>1. /\ parked' = parked \cup {n} /\ clock' = clock + 1
        /\ n.id = e.id /\ n.path = e.path /\ n.stamp = clock + 1
    BY <1>6 DEF Park
  <2> HIDE DEF n
  <2>2. Known' = Known \cup {n}
    BY <2>1 DEF Known
  <2>3. ledger[e.id].status # "none" => ledger[e.id].path = e.path
    BY <1>6 DEF Event, IdsInv, IdInv, LedgerInv, MemoryInv
  <2>4. PathInv'
    BY <1>3, <1>4, <1>6, <2>1, <2>2, <2>3 DEF PathInv
  <2>5. StampInv'
    BY <1>1, <2>1, <2>2 DEF StampInv
  <2>6. ThereInv'
    BY <2>1 DEF ThereInv
  <2> QED
    BY <2>4, <2>5, <2>6 DEF FilesOK
<1> QED
  BY <1>5, <1>6, WhoFiles DEF BaseInv

\* While a worker has events in its hand an event becomes neither active nor
\* marked otherwise.
LEMMA MarksStay ==
  ASSUME TypeInv, LockInv, LedgerInv, [Next]_vars, NEW w \in Workers,
         pc[w] \in HandPCs, pc'[w] \in HandPCs,
         NEW i \in Ids, ledger[i].status # "none", ledger[i].path \in Paths, Live(i)'
  PROVE  Live(i) /\ ledger'[i].forced = ledger[i].forced
<1> USE LedgerAssumption
<1>1. i \in used /\ ledger[i].path # NoPath
  BY DEF LedgerInv, IdInv
<1>2. CASE ledger' = ledger
  BY <1>2 DEF Live
<1>3. ASSUME NEW S \in SUBSET Ids, RequeueErrors(S)
      PROVE  Live(i) /\ ledger'[i].forced = ledger[i].forced
  BY <1>3 DEF RequeueErrors, TypeInv, TypeOK, Live
<1>4. ASSUME NEW e \in Event, NEW s \in Statuses \ {"none"}, Append(e, s), Writes(e, s)
      PROVE  Live(i) /\ ledger'[i].forced = ledger[i].forced
  <2>1. /\ ledger'[e.id] = [path |-> e.path, forced |-> e.forced, status |-> s]
        /\ \A j \in Ids \ {e.id} : ledger'[j] = ledger[j]
    BY <1>4, AppendLedger
  <2>2. CASE e.id # i
    BY <2>1, <2>2 DEF Live
  <2>3. CASE e.id = i
    <3>1. s \in Active \cup {"error"}
      BY <2>1, <2>3 DEF Live
    <3>2. s \notin {"superseded", "held", "quarantined"}
      BY <3>1 DEF Active
    <3>3. \A h \in Hooks : pc[h] \in {"run", "fail"} => e # cur[h]
      BY <1>1, <2>3 DEF LedgerInv, NoPathInv
    <3>4. ASSUME NEW v \in Workers, pc[v] \in {"pick", "finish", "fail"}, pc'[v] \in {"capture", "scan"}
          PROVE  FALSE
      <4>1. v = w
        BY <3>4, OneDrains DEF HandPCs, DrainPCs
      <4> QED
        BY <3>4, <4>1 DEF HandPCs
    <3> QED
      BY <1>1, <1>4, <2>3, <3>2, <3>3, <3>4 DEF Writes
  <2> QED
    BY <2>2, <2>3
<1> QED
  BY <1>2, <1>3, <1>4, WhoWrites DEF LedgerWrite

\* No forced event is parked, and what a worker has in its hand keeps its mark.
LEMMA MarksNext == TypeInv /\ LockInv /\ LedgerInv /\ HandMarks /\ [Next]_vars => HandMarks'
<1> SUFFICES ASSUME TypeInv, LockInv, LedgerInv, HandMarks, [Next]_vars,
                    NEW w \in Workers, pc'[w] \in HandPCs
             PROVE  /\ \A e \in todo'[w] :
                         e.path \in Paths /\ Live(e.id)' => ledger'[e.id].forced = e.forced
                    /\ pc'[w] = "park" /\ cur'[w].path \in Paths /\ Live(cur[w].id)'
                         => ~ledger'[cur'[w].id].forced
  BY DEF HandMarks, HandPCs
<1> USE LedgerAssumption
<1>1. \A e \in todo[w] : e.id \in Ids /\ ledger[e.id].path = e.path /\ ledger[e.id].status # "none"
  BY DEF TypeInv, TypeOK, Event, LedgerInv, MemoryInv
<1>2. pc[w] = "park" => /\ cur[w].id \in Ids /\ ledger[cur[w].id].path = cur[w].path
                        /\ ledger[cur[w].id].status # "none"
  BY DEF TypeInv, LocalInv, EventPCs, Event, LedgerInv, MemoryInv
<1>3. CASE /\ pc[w] \in HandPCs /\ cur'[w] = cur[w] /\ todo'[w] = todo[w]
           /\ pc'[w] = "park" => pc[w] = "park"
  <2>1. ASSUME NEW i \in Ids, ledger[i].status # "none", ledger[i].path \in Paths, Live(i)'
        PROVE  Live(i) /\ ledger'[i].forced = ledger[i].forced
    BY <1>3, <2>1, MarksStay
  <2>2. \A e \in todo[w] : e.path \in Paths /\ Live(e.id)' => ledger'[e.id].forced = e.forced
    BY <1>1, <1>3, <2>1 DEF HandMarks
  <2>3. Live(cur[w].id)' /\ cur'[w] = cur[w] => ledger'[cur[w].id].status \in Active \cup {"error"}
    BY DEF Live
  <2>4. (pc'[w] = "park" /\ cur[w].path \in Paths
          /\ ledger'[cur[w].id].status \in Active \cup {"error"})
            => ~ledger'[cur[w].id].forced
    <3> SUFFICES ASSUME pc[w] = "park", cur[w].path \in Paths,
                        ledger'[cur[w].id].status \in Active \cup {"error"}
                 PROVE  ~ledger'[cur[w].id].forced
      BY <1>3
    <3> DEFINE c == cur[w].id
    <3>1. c \in Ids /\ ledger[c].status # "none" /\ ledger[c].path \in Paths
      BY <1>2
    <3>2. HandMarks => (Live(c) => ~ledger[c].forced)
      BY DEF HandMarks
    <3>3. ledger'[c].status \in Active \cup {"error"}
      OBVIOUS
    <3> HIDE DEF c
    <3>4. \A j \in Ids : ledger[j].status # "none" /\ ledger[j].path \in Paths
              /\ ledger'[j].status \in Active \cup {"error"}
                => Live(j) /\ ledger'[j].forced = ledger[j].forced
      BY <2>1 DEF Live
    <3>5. ~ledger'[c].forced
      BY <3>1, <3>2, <3>3, <3>4
    <3> QED
      BY <3>5 DEF c
  <2> QED
    BY <1>3, <2>2, <2>3, <2>4
<1>4. CASE Scan(w)
  <2>1. todo'[w] = Pending /\ ledger' = ledger /\ pc'[w] # "park"
    BY <1>4 DEF Scan, NoWrite, Goto, TypeInv, TypeOK
  <2> QED
    BY <2>1 DEF Pending, Record
<1>5. ASSUME NEW e \in todo[w], ~e.forced, NEW d, HoldEvent(w, e, d), pc[w] \in HandPCs
      PROVE  /\ \A g \in todo'[w] :
                  g.path \in Paths /\ Live(g.id)' => ledger'[g.id].forced = g.forced
             /\ pc'[w] = "park" /\ cur'[w].path \in Paths /\ Live(cur[w].id)'
                  => ~ledger'[cur'[w].id].forced
  <2>1. ledger' = ledger /\ cur'[w] = e /\ todo'[w] \subseteq todo[w]
    BY <1>5 DEF HoldEvent, TypeInv, TypeOK
  <2>2. \A g \in todo[w] : g.path \in Paths /\ Live(g.id) => ledger[g.id].forced = g.forced
    BY <1>5 DEF HandMarks
  <2> QED
    BY <1>5, <2>1, <2>2 DEF Live
<1>6. CASE HoldOne(w) \/ QuarantineLarge(w)
  BY <1>5, <1>6, HoldsOne DEF HandPCs
<1>7. CASE HoldDone(w) \/ HoldFinish(w)
  <2>1. /\ pc[w] \in HandPCs /\ cur'[w] = cur[w] /\ todo'[w] = todo[w]
        /\ pc'[w] = "park" => pc[w] = "park"
    BY <1>7 DEF HoldDone, HoldFinish, HandPCs, Goto, TypeInv, TypeOK
  <2> QED
    BY <1>3, <2>1
<1> QED
  BY <1>3, <1>4, <1>6, <1>7, WhoHolds

\* Hooks and workers leave the move of a file as it is.
LEMMA MoveNext ==
  BaseInv /\ DoneInv /\ faults = 0 /\ ListInv /\ MovesInv /\ StaleInv /\ QueuedInv
  /\ [Next]_vars /\ UNCHANGED op => (ListInv /\ MovesInv /\ StaleInv /\ QueuedInv)'
<1> SUFFICES ASSUME BaseInv, DoneInv, faults = 0, ListInv, MovesInv, StaleInv, QueuedInv,
                    [Next]_vars, UNCHANGED op
             PROVE  (ListInv /\ MovesInv /\ StaleInv /\ QueuedInv)'
  OBVIOUS
<1> USE LedgerAssumption
<1>1. ListInv'
  <2> SUFFICES ASSUME op.pc = "snapshot", ~op.force, NEW f \in op.events,
                      NEW w \in Workers, pc'[w] = "park", cur'[w].id = f.id
               PROVE  FALSE
    BY DEF ListInv, Parking
  <2>1. ~(pc[w] = "park" /\ cur[w].id = f.id)
    BY DEF ListInv, Parking
  <2>2. CASE Scan(w) \/ HoldDone(w) \/ HoldFinish(w)
    BY <2>1, <2>2 DEF Scan, HoldDone, HoldFinish, Goto, BaseInv, TypeInv, TypeOK
  <2>3. CASE HoldOne(w) \/ QuarantineLarge(w)
    <3>1. PICK e \in todo[w], d \in Dirs : HoldEvent(w, e, d) /\ pc[w] \in {"holding", "pick"}
      BY <2>3, HoldsOne DEF BaseInv
    <3>2. cur'[w] = e /\ ledgerLock = Nobody
      BY <3>1 DEF HoldEvent, Lock, BaseInv, TypeInv, TypeOK
    <3>3. Apart(e.id)
      BY <3>1, <3>2, FreeLock DEF DoneInv, HandInv, HandPCs, BaseInv
    <3> QED
      BY <3>2, <3>3 DEF Apart, Known
  <2> QED
    BY <2>1, <2>2, <2>3, WhoHolds DEF BaseInv, HandPCs
<1>2. MovesInv' /\ StaleInv'
  BY DEF MovesInv, StaleInv, Head
<1>3. QueuedInv'
  <2>1. ledgerLock = Operator => UNCHANGED ledger
    BY WhoWrites DEF LedgerWrite, BaseInv
  <2>2. op.pc = "unlink" => ledgerLock = Operator
    BY DEF BaseInv, OpInv, OpLockPCs
  <2> QED
    BY <2>1, <2>2 DEF QueuedInv, Keep, Newest, Head
<1> QED
  BY <1>1, <1>2, <1>3

-----------------------------------------------------------------------------
(* The move of a file *)

\* The file being moved, and whether it is the newest, depend on the list alone.
LEMMA HeadSame ==
  ASSUME op'.events = op.events PROVE Head' = Head /\ (Keep' <=> Keep)
<1>1. Head' = Head
  BY DEF Head
<1>2. \A t : Newest(t)' = Newest(t)
  BY DEF Newest
<1> QED
  BY <1>1, <1>2 DEF Keep

\* Of the listed files of a transcript one is the newest.
LEMMA NewestIn ==
  ASSUME BaseInv, StampInv, NEW t, \E f \in op.events : f.path = t
  PROVE  Newest(t) \in op.events /\ Newest(t).path = t
<1> DEFINE F == {f \in op.events : f.path = t}
           T == {clock - f.stamp : f \in F}
<1>1. clock \in Nat /\ \A f \in op.events : f.stamp \in Nat /\ f.stamp <= clock
  BY DEF BaseInv, TypeInv, TypeOK, OpInv, OpRecord, File, StampInv, Known
<1>2. T \in SUBSET Nat /\ T # {}
  BY <1>1
<1>3. PICK n \in T : \A m \in T : <<m, n>> \notin OpToRel(<, Nat)
  <2> HIDE DEF T
  <2> QED BY <1>2, WFMin, NatLessThanWellFounded, Zenon
<1>4. \A m \in T : n <= m
  <2> HIDE DEF T
  <2>1. \A m \in T : ~(m < n)
    BY <1>2, <1>3, Zenon DEF OpToRel
  <2> QED BY <1>2, <2>1
<1>5. PICK f \in F : n = clock - f.stamp
  OBVIOUS
<1>6. \A g \in F : g.stamp <= f.stamp
  <2> SUFFICES ASSUME NEW g \in F PROVE g.stamp <= f.stamp
    OBVIOUS
  <2>1. n <= clock - g.stamp
    BY <1>4
  <2> QED
    BY <1>1, <1>5, <2>1
<1>7. \E k \in op.events : k.path = t /\ \A g \in op.events : g.path = t => g.stamp <= k.stamp
  BY <1>6
<1> QED
  BY <1>7 DEF Newest

\* A step of the command that leaves the records of jobs, or supersedes one of a
\* transcript that has a file, keeps what the queue promises.
LEMMA ReleaseKeeps ==
  ASSUME BaseInv, QueueOK, ReleaseNext,
         \A i \in Ids :
           \/ ledger'[i] = ledger[i]
           \/ /\ ledgerLock = Operator /\ i \in used /\ ledger'[i].status # "none"
              /\ ledger[i].status # "none" => ledger'[i].path = ledger[i].path,
         \A w \in Workers : pc[w] \in JobPCs =>
           \/ ledger'[cur[w].id] = ledger[cur[w].id]
           \/ ledger'[cur[w].id].status = "superseded" /\ \E f \in parked' : f.path = cur[w].path,
         parked' = parked \/ ledgerLock = Operator,
         \A p \in Paths : \A c :
           (c \in Ids => ledger[c].status \notin {"none", "queued"}) => CoverKept(p, c)
  PROVE  QueueOK'
<1> USE LedgerAssumption
<1>1. UNCHANGED <<dataVars, worldVars, workerLock, localVars, used>>
  BY ReleaseLocals
<1>2. \A i \in Ids :
        /\ ledger[i].status # "none" =>
             ledger'[i].path = ledger[i].path /\ ledger'[i].status # "none"
        /\ ledger'[i].status # "none" => i \in used
        /\ ledgerLock # Operator => ledger'[i] = ledger[i]
  BY DEF QueueOK, LedgerInv, IdInv
<1>3. /\ \A q \in Procs : \A e \in todo[q] : e.id \in Ids
      /\ \A q \in Procs : pc[q] \in EventPCs(q) => cur[q].id \in Ids
  BY DEF BaseInv, TypeInv, TypeOK, LocalInv, Event
<1>4. \A w \in Workers : pc[w] \in JobPCs \cup {"park"} => cur[w].id \in Ids
  BY <1>3 DEF EventPCs
<1>5. IdInv' /\ MemoryInv'
  BY <1>1, <1>2, <1>3, <1>4 DEF QueueOK, LedgerInv, MemoryInv, IdInv
<1>6. JobInv'
  BY <1>1, <1>2, <1>4 DEF QueueOK, LedgerInv, JobInv
<1>7. NoPathInv'
  <2>1. \A h \in Hooks : pc[h] \in {"run", "fail"} => ledgerLock # Operator /\ cur[h].id \in Ids
    BY <1>3 DEF BaseInv, LockInv, HookLockPCs, EventPCs
  <2> QED
    BY <1>1, <1>2, <2>1 DEF QueueOK, LedgerInv, NoPathInv
<1>8. SupersedeInv'
  <2>1. \A q \in Procs : pc[q] = "supersede" => ledgerLock # Operator
    BY NobodySupersedes DEF BaseInv
  <2> QED
    BY <1>1, <1>2, <1>3, <2>1 DEF QueueOK, LedgerInv, SupersedeInv, Record
<1>9. ParkInv'
  <2>1. \A q \in Procs : pc[q] \in {"drop", "park"} => ledgerLock # Operator
    BY DEF BaseInv, LockInv, HookLockPCs, WorkerLockPCs, TypeInv, TypeOK, HookPCs, EnqueuePCs
  <2> QED
    BY <1>1, <2>1 DEF QueueOK, ParkInv, ParkedFor
<1>10. ASSUME NEW w \in Workers, pc[w] \in JobPCs, cur[w].path \in Paths
       PROVE  CoveredBeside(cur[w].path, cur[w].id) => CoveredBeside(cur[w].path, cur[w].id)'
  <2> DEFINE p == cur[w].path
             c == cur[w].id
  <2>1. ledger[c].status \notin {"none", "queued"}
    BY <1>10 DEF QueueOK, LedgerInv, JobInv
  <2>2. cur'[w] = cur[w]
    BY <1>1
  <2> HIDE DEF p, c
  <2>3. p \in Paths
    BY <1>10 DEF p
  <2>4. CoverKept(p, c)
    BY <2>1, <2>3
  <2> QED
    BY <2>2, <2>4 DEF CoverKept, CoveredBeside, ParkedFor, p, c
<1>11. GoalInv'
  <2> SUFFICES ASSUME NEW w \in Workers PROVE GoalOK(w)'
    BY DEF GoalInv
  <2>1. GoalOK(w)
    BY DEF QueueOK, GoalInv
  <2>2. pc[w] \in {"offset", "finish"} => pc[w] \in JobPCs /\ cur[w].path \in Paths
    BY DEF BaseInv, TypeInv, LocalInv, JobPCs, PathPCs
  <2> QED
    BY <1>1, <1>10, <2>1, <2>2 DEF GoalOK
<1>12. BesideInv'
  <2> SUFFICES ASSUME NEW w \in Workers, pc[w] \in JobPCs, cur[w].path \in Paths,
                      ledger'[cur[w].id].status # "running"
               PROVE  CoveredBeside(cur[w].path, cur[w].id)'
    BY <1>1 DEF BesideInv
  <2>1. CASE ledger'[cur[w].id] = ledger[cur[w].id]
    BY <1>10, <2>1 DEF QueueOK, BesideInv
  <2>2. CASE \E f \in parked' : f.path = cur[w].path
    BY <1>1, <2>2 DEF CoveredBeside, ParkedFor
  <2> QED
    BY <2>1, <2>2
<1>13. SizeInv'
  BY <1>1 DEF QueueOK, SizeInv, NoByteSkipped
<1>14. NothingLost'
  <2> SUFFICES ASSUME NEW p \in Paths, offset[p] < owed[p] PROVE Covered(p)'
    BY <1>1 DEF NothingLost
  <2>1. PICK c : c \notin Ids
    BY NoSetContainsEverything
  <2>2. CoveredBeside(p, c)
    BY <2>1 DEF QueueOK, NothingLost, Covered, CoveredBeside, ParkedFor
  <2>3. CoverKept(p, c)
    BY <2>1
  <2> QED
    BY <2>2, <2>3 DEF CoverKept, Covered, CoveredBeside, ParkedFor
<1> QED
  BY <1>5, <1>6, <1>7, <1>8, <1>9, <1>11, <1>12, <1>13, <1>14 DEF QueueOK, LedgerInv

\* A step of the command that writes nothing.
LEMMA ReleaseRests ==
  ASSUME BaseInv, QueueOK, HandMarks, ReleaseNext, UNCHANGED <<ledger, parked>>
  PROVE  QueueOK' /\ HandMarks'
<1>1. \A p : \A c : CoverKept(p, c)
  BY DEF CoverKept, CoveredBeside, ParkedFor
<1>2. QueueOK'
  BY <1>1, ReleaseKeeps
<1>3. HandMarks'
  BY ReleaseLocals DEF HandMarks, Live
<1> QED
  BY <1>2, <1>3

\* Without --force and with the hold off what is listed is within the limit,
\* and nothing within the limit is being parked.
LEMMA MoveList ==
  ASSUME NEW v \in BOOLEAN, HoldSettings = {v}, BaseInv, SettingInv, QueueOK, MoveOK,
         NEW d \in Dirs, NEW force \in BOOLEAN, NEW b \in HoldSettings, ReleaseList(d, force, b)
  PROVE  QueueOK' /\ MoveOK'
<1> USE LedgerAssumption
<1> DEFINE F == {f \in parked : /\ f.dir = d /\ f.path # NoPath
                                /\ force \/ ~OverLimit(f.path)}
<1>1. /\ op' = [IdleOp EXCEPT !.pc = "snapshot", !.force = force, !.events = F]
      /\ UNCHANGED <<ledger, parked, localVars, clock>> /\ (force \/ ~b)
  BY DEF ReleaseList
<1>2. /\ F \subseteq parked /\ \A f \in F : f.path \in Paths /\ f.stamp \in Nat
      /\ ~force => \A f \in F : ~OverLimit(f.path)
  BY DEF BaseInv, TypeInv, TypeOK, File, Targets
<1> HIDE DEF F
<1>3. op'.events = F /\ op'.snapshot = {} /\ op'.pc = "snapshot" /\ op'.force = force
  BY <1>1 DEF IdleOp
<1>4. QueueOK' /\ HandMarks'
  <2>1. ReleaseNext
    BY DEF ReleaseNext
  <2> QED
    BY <1>1, <2>1, ReleaseRests DEF MoveOK
<1>5. FilesOK'
  <2>1. Known' \subseteq Known
    BY <1>1, <1>2, <1>3 DEF Known
  <2>2. PathInv' /\ StampInv'
    BY <1>1, <1>3, <2>1 DEF MoveOK, FilesOK, PathInv, StampInv
  <2>3. ThereInv'
    BY <1>1, <1>2, <1>3 DEF ThereInv
  <2> QED
    BY <2>2, <2>3 DEF FilesOK
<1>6. ListInv'
  <2> SUFFICES ASSUME ~force, NEW f \in F, NEW w \in Workers, pc[w] = "park", cur[w].id = f.id
               PROVE  FALSE
    BY <1>1, <1>3 DEF ListInv, Parking
  <2>1. ledger[f.id].path = cur[w].path /\ ledger[f.id].status # "none"
    BY DEF QueueOK, LedgerInv, MemoryInv
  <2>2. cur[w].path = f.path
    BY <1>2, <2>1 DEF MoveOK, FilesOK, PathInv, Known
  <2>3. hold[w] /\ hold[w] \in HoldSettings
    BY <1>2, <2>2 DEF SettingInv
  <2> QED
    BY <1>1, <2>3
<1>7. MovesInv' /\ StaleInv' /\ QueuedInv'
  BY <1>3 DEF MovesInv, StaleInv, QueuedInv, OpMovePCs, OpLockPCs
<1> QED
  BY <1>4, <1>5, <1>6, <1>7 DEF MoveOK

\* A listed event that is active is being parked.
LEMMA MoveSnapshot ==
  ASSUME BaseInv, DoneInv, faults = 0, QueueOK, MoveOK, ReleaseSnapshot
  PROVE  QueueOK' /\ MoveOK'
<1> USE LedgerAssumption
<1>1. /\ op.pc = "snapshot" /\ UNCHANGED <<ledger, parked, localVars, clock>>
      /\ op' = [op EXCEPT !.pc = "move", !.snapshot = Pending, !.queued = Pending]
  BY DEF ReleaseSnapshot
<1>2. /\ op'.events = op.events /\ op'.snapshot = Pending /\ op'.pc = "move"
      /\ op'.force = op.force
  BY <1>1 DEF BaseInv, OpInv, OpRecord
<1>3. \A r \in Pending : /\ r.id \in Ids /\ ledger[r.id].status \in Active
                         /\ r = Record(r.id) /\ ledger[r.id].status # "none"
  BY DEF Pending, ActiveIds, Record, Active
<1>4. QueueOK' /\ HandMarks'
  <2>1. ReleaseNext
    BY DEF ReleaseNext
  <2> QED
    BY <1>1, <2>1, ReleaseRests DEF MoveOK
<1>5. FilesOK'
  <2>1. \A r \in Pending : ledger[r.id].path = r.path
    BY <1>3 DEF Record
  <2> HIDE DEF Pending
  <2>2. Known' = Known
    BY <1>1, <1>2 DEF Known
  <2> QED
    BY <1>1, <1>2, <1>3, <2>1, <2>2 DEF MoveOK, FilesOK, PathInv, StampInv, ThereInv
<1>6. ASSUME NEW r \in Pending, NEW f \in op.events, r.id = f.id PROVE op.force /\ ~r.forced
  <2>1. f \in Known /\ ledger[f.id].status \in Active /\ f.id \in Ids
    BY <1>3, <1>6 DEF Known
  <2>2. Parking(f.id)
    BY <1>1, <2>1 DEF DoneInv, FileInv, Moved, Active, Quiet
  <2>3. PICK w \in Workers : pc[w] = "park" /\ cur[w].id = f.id
    BY <2>2 DEF Parking
  <2>4. ledger[f.id].path = f.path /\ f.path \in Paths /\ cur[w].path = f.path
    BY <2>1, <2>3 DEF MoveOK, FilesOK, PathInv, ThereInv, QueueOK, LedgerInv, MemoryInv, Active
  <2>5. ~ledger[f.id].forced
    BY <2>1, <2>3, <2>4 DEF MoveOK, HandMarks, Live
  <2>6. r.forced = ledger[r.id].forced
    BY <1>3 DEF Record
  <2> QED
    BY <1>1, <1>6, <2>2, <2>5, <2>6 DEF MoveOK, ListInv
<1>7. ListInv' /\ StaleInv' /\ QueuedInv'
  BY <1>2 DEF ListInv, StaleInv, QueuedInv
<1>8. MovesInv'
  BY <1>2, <1>6 DEF MovesInv
<1> QED
  BY <1>4, <1>5, <1>7, <1>8 DEF MoveOK

\* The newest file of a transcript is not removed before its event is queued.
LEMMA MoveOne ==
  ASSUME BaseInv, QueueOK, MoveOK, ReleaseOne
  PROVE  QueueOK' /\ MoveOK'
<1> DEFINE S == IF Moves /\ Keep THEN Replaces ELSE {}
           l == IF S # {} THEN "supersede" ELSE IF Moves THEN "append" ELSE "unlink"
<1>1. /\ op.pc = "move" /\ UNCHANGED <<ledger, parked, localVars, clock>>
      /\ op'.pc = l /\ op'.stale = S /\ op'.events = op.events
      /\ op'.snapshot = op.snapshot /\ op'.force = op.force
  BY DEF ReleaseOne, BaseInv, OpInv, OpRecord
<1>2. /\ \A r \in S : r.path = Head.path
      /\ l \in OpLockPCs /\ (l = "unlink" => ~Moves)
  BY DEF Replaces, OpLockPCs
<1>3. Keep => Moves
  <2>1. Head \in op.events
    BY <1>1, HeadIn DEF BaseInv, OpMovePCs
  <2>2. \A r \in op.snapshot : r.id = Head.id => op.force /\ ~r.forced
    BY <1>1, <2>1 DEF MoveOK, MovesInv, OpMovePCs
  <2> QED
    BY <2>2 DEF Moves, ActiveThen, MarkedThen
<1> HIDE DEF S, l
<1>4. QueueOK' /\ HandMarks'
  <2>1. ReleaseNext
    BY DEF ReleaseNext
  <2> QED
    BY <1>1, <2>1, ReleaseRests DEF MoveOK
<1>5. FilesOK'
  BY <1>1 DEF MoveOK, FilesOK, PathInv, StampInv, ThereInv, Known
<1>6. MovesInv'
  BY <1>1 DEF MoveOK, MovesInv, OpMovePCs
<1>7. ListInv' /\ StaleInv' /\ QueuedInv'
  BY <1>1, <1>2, <1>3, HeadSame DEF ListInv, StaleInv, QueuedInv, OpLockPCs
<1> QED
  BY <1>4, <1>5, <1>6, <1>7 DEF MoveOK

\* What the command supersedes has a file of its transcript, the one it moves.
LEMMA MoveSupersede ==
  ASSUME BaseInv, IdsInv, QueueOK, MoveOK, ReleaseSupersede
  PROVE  QueueOK' /\ MoveOK'
<1> USE LedgerAssumption
<1> DEFINE r == Oldest(op.stale)
<1>1. r \in op.stale /\ r \in op.snapshot /\ r \in Event /\ r.id \in Ids /\ r.path = Head.path
  <2>1. op.stale \in SUBSET Event /\ op.stale # {} /\ op.stale \subseteq op.snapshot
    BY DEF ReleaseSupersede, BaseInv, OpInv, OpRecord
  <2>2. r \in op.stale
    BY <2>1, OldestIn DEF BaseInv, TypeInv, TypeOK
  <2> HIDE DEF r
  <2> QED
    BY <2>1, <2>2 DEF ReleaseSupersede, MoveOK, StaleInv, Event
<1>2. /\ op.pc = "supersede" /\ UNCHANGED <<parked, localVars, faults>>
      /\ Append(r, "superseded")
      /\ op'.pc \in {"supersede", "append"} /\ op'.stale \subseteq op.stale
      /\ op'.events = op.events /\ op'.snapshot = op.snapshot /\ op'.force = op.force
  BY DEF ReleaseSupersede, BaseInv, OpInv, OpRecord
<1> HIDE DEF r
<1>3. /\ ledger'[r.id] = [path |-> r.path, forced |-> r.forced, status |-> "superseded"]
      /\ \A i \in Ids \ {r.id} : ledger'[i] = ledger[i]
  BY <1>1, <1>2, AppendLedger DEF BaseInv
<1>4. ledgerLock = Operator /\ op.pc \in OpMovePCs
  BY <1>2 DEF BaseInv, OpInv, OpLockPCs, OpMovePCs
<1>5. /\ ledger[r.id].path = r.path /\ ledger[r.id].status # "none" /\ r.id \in used
  BY <1>1 DEF MoveOK, FilesOK, PathInv, IdsInv
<1>6. \E f \in parked' : f.path = r.path
  BY <1>1, <1>2, <1>4, HeadIn DEF BaseInv, MoveOK, FilesOK, ThereInv
<1>7. QueueOK'
  <2>1. \A i \in Ids :
          \/ ledger'[i] = ledger[i]
          \/ /\ ledgerLock = Operator /\ i \in used /\ ledger'[i].status # "none"
             /\ ledger[i].status # "none" => ledger'[i].path = ledger[i].path
    BY <1>3, <1>4, <1>5
  <2>2. ASSUME NEW w \in Workers, pc[w] \in JobPCs
        PROVE  \/ ledger'[cur[w].id] = ledger[cur[w].id]
               \/ ledger'[cur[w].id].status = "superseded" /\ \E f \in parked' : f.path = cur[w].path
    <3>1. cur[w].id \in Ids /\ ledger[cur[w].id].path = cur[w].path
      BY <2>2 DEF BaseInv, TypeInv, LocalInv, EventPCs, Event, QueueOK, LedgerInv, JobInv
    <3> QED
      BY <1>3, <1>5, <1>6, <3>1
  <2>3. ASSUME NEW p \in Paths, NEW c PROVE CoverKept(p, c)
    <3>1. CASE p = r.path
      BY <1>6, <3>1 DEF CoverKept, CoveredBeside, ParkedFor
    <3>2. CASE p # r.path
      BY <1>2, <1>3, <1>5, <3>2 DEF CoverKept, CoveredBeside, ParkedFor
    <3> QED
      BY <3>1, <3>2
  <2>4. ReleaseNext
    BY DEF ReleaseNext
  <2> QED
    BY <1>2, <2>1, <2>2, <2>3, <2>4, ReleaseKeeps
<1>8. FilesOK'
  <2>1. Known' = Known /\ \A f \in Known : f.id \in Ids
    BY <1>2 DEF Known, BaseInv, TypeInv, TypeOK, OpInv, OpRecord, File
  <2>2. \A i \in Ids : ledger[i].status # "none" \/ ledger'[i].status # "none"
          => ledger'[i].path = ledger[i].path /\ ledger'[i].status # "none"
                                              /\ ledger[i].status # "none"
    BY <1>3, <1>5
  <2>3. \A g \in op.snapshot : g.id \in Ids
    BY DEF BaseInv, OpInv, OpRecord, Event
  <2>4. PathInv'
    BY <1>2, <2>1, <2>2, <2>3 DEF MoveOK, FilesOK, PathInv
  <2>5. clock' >= clock /\ clock \in Nat /\ clock' \in Nat
    BY <1>2 DEF Append, BaseInv, TypeInv, TypeOK
  <2>6. StampInv'
    BY <2>1, <2>5 DEF MoveOK, FilesOK, StampInv, Known, BaseInv, TypeInv, TypeOK, OpInv, OpRecord, File
  <2>7. ThereInv'
    BY <1>2 DEF MoveOK, FilesOK, ThereInv
  <2> QED
    BY <2>4, <2>6, <2>7 DEF FilesOK
<1>9. HandMarks'
  <2>1. \A i \in Ids : ledger'[i] = ledger[i] \/ ledger'[i].status \notin Active \cup {"error"}
    BY <1>3 DEF Active
  <2>2. /\ \A q \in Procs : \A e \in todo[q] : e.id \in Ids
        /\ \A w \in Workers : pc[w] = "park" => cur[w].id \in Ids
    BY DEF BaseInv, TypeInv, TypeOK, LocalInv, EventPCs, Event
  <2> QED
    BY <1>2, <2>1, <2>2 DEF MoveOK, HandMarks, Live
<1>10. MovesInv'
  BY <1>2, <1>4 DEF MoveOK, MovesInv
<1>11. StaleInv'
  BY <1>2, HeadSame DEF MoveOK, StaleInv
<1>12. ListInv' /\ QueuedInv'
  BY <1>2 DEF ListInv, QueuedInv
<1> QED
  BY <1>7, <1>8, <1>9, <1>10, <1>11, <1>12 DEF MoveOK

\* What the command appends is an event that nobody works with.
LEMMA MoveAppend ==
  ASSUME BaseInv, IdsInv, DoneInv, faults = 0, QueueOK, MoveOK, ReleaseAppend
  PROVE  QueueOK' /\ MoveOK'
<1> USE LedgerAssumption
<1> DEFINE s == IF Keep THEN "queued" ELSE "superseded"
<1>1. /\ op.pc = "append" /\ UNCHANGED <<parked, localVars, faults>>
      /\ Append(Moving, s)
      /\ op'.pc = "unlink" /\ op'.stale = op.stale
      /\ op'.events = op.events /\ op'.snapshot = op.snapshot /\ op'.force = op.force
  BY DEF ReleaseAppend, OpGoto, Moving, BaseInv, OpInv, OpRecord
<1>2. ledgerLock = Operator /\ op.pc \in OpMovePCs
  BY <1>1 DEF BaseInv, OpInv, OpLockPCs, OpMovePCs
<1>3. /\ Moving \in Event /\ Moving.id = Head.id /\ Moving.path = Head.path
      /\ Head \in op.events /\ Head \in Known /\ Head.id \in Ids
  BY <1>2, MovingEvent, HeadIn DEF BaseInv, Moving, Known
<1>4. (Keep => s = "queued") /\ s # "none"
  OBVIOUS
<1> HIDE DEF s, Moving
<1>5. /\ ledger'[Head.id] = [path |-> Head.path, forced |-> Moving.forced, status |-> s]
      /\ \A i \in Ids \ {Head.id} : ledger'[i] = ledger[i]
  BY <1>1, <1>3, AppendLedger DEF BaseInv
<1>6. /\ \A w \in Workers : pc[w] # "park"
      /\ ledger[Head.id].status \in Quiet /\ Head.id \in used
      /\ ledger[Head.id].status # "none" => ledger[Head.id].path = Head.path
  <2>1. \A w \in Workers : pc[w] # "park"
    BY <1>2 DEF BaseInv, LockInv, WorkerLockPCs
  <2>2. ~Moved(Head.id) /\ ~Parking(Head.id)
    BY <1>1, <2>1 DEF Moved, Parking
  <2> QED
    BY <1>3, <2>1, <2>2 DEF DoneInv, FileInv, IdsInv, MoveOK, FilesOK, PathInv
<1>7. \A w \in Workers : pc[w] \in JobPCs => cur[w].id \in Ids \ {Head.id}
  BY <1>3 DEF DoneInv, JobApart, Apart, BaseInv, TypeInv, LocalInv, EventPCs, Event
<1>8. \A w \in Workers : pc[w] \in HandPCs => \A e \in todo[w] : e.id \in Ids \ {Head.id}
  <2>1. \A i : ~Moved(i)
    BY <1>1 DEF Moved
  <2>2. \A w \in Workers : \A e \in todo[w] : e.id \in Ids
    BY DEF BaseInv, TypeInv, TypeOK, Event
  <2> QED
    BY <1>3, <2>1, <2>2 DEF DoneInv, HandInv, Apart
<1>9. QueueOK'
  <2>1. \A i \in Ids :
          \/ ledger'[i] = ledger[i]
          \/ /\ ledgerLock = Operator /\ i \in used /\ ledger'[i].status # "none"
             /\ ledger[i].status # "none" => ledger'[i].path = ledger[i].path
    BY <1>2, <1>4, <1>5, <1>6
  <2>2. \A w \in Workers : pc[w] \in JobPCs => ledger'[cur[w].id] = ledger[cur[w].id]
    BY <1>5, <1>7
  <2>3. \A p \in Paths : \A c : CoverKept(p, c)
    BY <1>1, <1>5, <1>6 DEF CoverKept, CoveredBeside, ParkedFor, Active, Quiet
  <2>4. ReleaseNext
    BY DEF ReleaseNext
  <2> QED
    BY <1>1, <2>1, <2>2, <2>3, <2>4, ReleaseKeeps
<1>10. FilesOK'
  <2>1. Known' = Known /\ \A f \in Known : f.id \in Ids
    BY <1>1 DEF Known, BaseInv, TypeInv, TypeOK, OpInv, OpRecord, File
  <2>2. \A g \in op.snapshot : /\ g.id \in Ids /\ ledger[g.id].path = g.path
                               /\ ledger[g.id].status # "none"
    BY DEF BaseInv, OpInv, OpRecord, Event, MoveOK, FilesOK, PathInv
  <2>3. \A g \in op.snapshot : ledger'[g.id].path = g.path /\ ledger'[g.id].status # "none"
    BY <1>4, <1>5, <1>6, <2>2
  <2>4. \A f \in Known : ledger'[f.id].status # "none" => ledger'[f.id].path = f.path
    <3> SUFFICES ASSUME NEW f \in Known, ledger'[f.id].status # "none"
                 PROVE  ledger'[f.id].path = f.path
      OBVIOUS
    <3>1. f.id = Head.id => f = Head
      BY <1>3 DEF DoneInv, OneFile
    <3>2. f.id # Head.id => ledger'[f.id] = ledger[f.id]
      BY <1>5, <2>1
    <3>3. ledger[f.id].status # "none" => ledger[f.id].path = f.path
      BY DEF MoveOK, FilesOK, PathInv
    <3> QED
      BY <1>5, <3>1, <3>2, <3>3
  <2>5. PathInv'
    BY <1>1, <2>1, <2>3, <2>4 DEF PathInv
  <2>6. clock' >= clock /\ clock \in Nat /\ clock' \in Nat
    BY <1>1 DEF Append, BaseInv, TypeInv, TypeOK
  <2>7. StampInv'
    BY <2>1, <2>6 DEF MoveOK, FilesOK, StampInv, Known, BaseInv, TypeInv, TypeOK, OpInv, OpRecord, File
  <2>8. ThereInv'
    BY <1>1 DEF MoveOK, FilesOK, ThereInv
  <2> QED
    BY <2>5, <2>7, <2>8 DEF FilesOK
<1>11. HandMarks'
  BY <1>1, <1>5, <1>6, <1>8 DEF MoveOK, HandMarks, Live
<1>12. MovesInv'
  BY <1>1, <1>2 DEF MoveOK, MovesInv
<1>13. QueuedInv'
  BY <1>1, <1>4, <1>5, HeadSame DEF QueuedInv
<1>14. ListInv' /\ StaleInv'
  BY <1>1 DEF ListInv, StaleInv
<1> QED
  BY <1>9, <1>10, <1>11, <1>12, <1>13, <1>14 DEF MoveOK

\* The file that is removed leaves the event it became, or a newer file.
LEMMA MoveUnlink ==
  ASSUME BaseInv, QueueOK, MoveOK, ReleaseUnlink
  PROVE  QueueOK' /\ MoveOK'
<1> USE LedgerAssumption
<1>1. /\ op.pc = "unlink" /\ UNCHANGED <<ledger, localVars, clock>>
      /\ parked' = parked \ {Head} /\ NextEvent
  BY DEF ReleaseUnlink, Unlink
<1>2. ledgerLock = Operator /\ op.pc \in OpMovePCs
  BY <1>1 DEF BaseInv, OpInv, OpLockPCs, OpMovePCs
<1>3. Head \in op.events /\ Head \in Known /\ Head.path \in Paths
  BY <1>2, HeadIn DEF BaseInv, Known, MoveOK, FilesOK, ThereInv
<1>4. /\ op'.events \subseteq op.events \ {Head} /\ op'.pc \in {"idle", "move"} /\ op'.stale = {}
      /\ op'.snapshot \in {{}, op.snapshot}
      /\ op'.pc = "move" => op'.force = op.force
  BY <1>1, <1>2, NextEventInv, IdleOpInv DEF NextEvent, IdleOp, BaseInv, OpInv, OpRecord
<1>5. \A f \in Known : f.stamp \in Nat
  BY DEF Known, BaseInv, TypeInv, TypeOK, OpInv, OpRecord, File
<1>6. \A f \in op.events : Head.stamp <= f.stamp
  <2>1. op.events \in SUBSET File /\ op.events # {}
    BY <1>3 DEF BaseInv, OpInv, OpRecord
  <2> QED
    BY <2>1, FirstIn DEF Head
<1>7. \A f \in op.events \ {Head} : \E g \in parked' : g.path = f.path /\ f.stamp <= g.stamp
  <2> SUFFICES ASSUME NEW f \in op.events, f # Head
               PROVE  \E g \in parked' : g.path = f.path /\ f.stamp <= g.stamp
    OBVIOUS
  <2>1. PICK g \in parked : g.path = f.path /\ f.stamp <= g.stamp
    BY DEF MoveOK, FilesOK, ThereInv
  <2>2. f \in Known /\ g \in Known /\ Head.stamp <= f.stamp
    BY <1>6 DEF Known
  <2>3. g # Head
    BY <1>3, <1>5, <2>1, <2>2 DEF MoveOK, FilesOK, StampInv
  <2> QED
    BY <1>1, <2>1, <2>3
<1>8. ASSUME NEW p \in Paths, NEW c, c \in Ids => ledger[c].status \notin {"none", "queued"}
      PROVE  CoverKept(p, c)
  <2>1. CASE p # Head.path
    BY <1>1, <2>1 DEF CoverKept, CoveredBeside, ParkedFor
  <2>2. CASE p = Head.path /\ Keep
    <3>1. ledger[Head.id].status = "queued" /\ ledger[Head.id].path = p /\ Head.id \in Ids
      BY <1>1, <1>2, <2>2, HeadIn DEF MoveOK, QueuedInv, BaseInv
    <3> QED
      BY <1>1, <1>8, <3>1 DEF CoverKept, CoveredBeside, Active
  <2>3. CASE p = Head.path /\ ~Keep
    <3> DEFINE n == Newest(p)
    <3>1. n \in op.events /\ n.path = p /\ n.id # Head.id
      BY <1>3, <2>3, NewestIn DEF MoveOK, FilesOK, Keep
    <3> HIDE DEF n
    <3>2. \E g \in parked' : g.path = p
      BY <1>7, <3>1
    <3> QED
      BY <3>2 DEF CoverKept, CoveredBeside, ParkedFor
  <2> QED
    BY <2>1, <2>2, <2>3
<1>9. QueueOK'
  <2>1. ReleaseNext
    BY DEF ReleaseNext
  <2> QED
    BY <1>1, <1>2, <1>8, <2>1, ReleaseKeeps
<1>10. FilesOK'
  <2>1. Known' \subseteq Known
    BY <1>1, <1>4 DEF Known
  <2> QED
    BY <1>1, <1>4, <1>7, <2>1 DEF MoveOK, FilesOK, PathInv, StampInv, ThereInv
<1>11. HandMarks'
  BY <1>1 DEF MoveOK, HandMarks, Live
<1>12. MovesInv'
  BY <1>2, <1>4 DEF MoveOK, MovesInv, OpMovePCs, OpLockPCs
<1>13. ListInv' /\ StaleInv' /\ QueuedInv'
  BY <1>4 DEF ListInv, StaleInv, QueuedInv
<1> QED
  BY <1>9, <1>10, <1>11, <1>12, <1>13 DEF MoveOK

-----------------------------------------------------------------------------
(* Until a step fails *)

SafeInv == faults = 0 => QueueOK /\ MoveOK

LEMMA SafeInit == RInit => SafeInv
<1> SUFFICES ASSUME RInit PROVE QueueOK /\ MoveOK
  BY DEF SafeInv
<1>1. Init /\ op = IdleOp
  BY DEF RInit
<1>2. ParkInv /\ GoalInv /\ BesideInv /\ SizeInv /\ NothingLost
  BY <1>1, LedgerAssumption
  DEF Init, ParkInv, GoalInv, GoalOK, BesideInv, JobPCs, SizeInv, NoByteSkipped, NothingLost
<1>3. Known = {} /\ op.pc = "idle" /\ op.events = {} /\ op.snapshot = {}
  BY <1>1 DEF Init, Known, IdleOp
<1>4. \A w \in Workers : pc[w] \notin HandPCs
  BY <1>1, LedgerAssumption DEF Init, HandPCs
<1>5. FilesOK
  BY <1>3 DEF FilesOK, PathInv, StampInv, ThereInv
<1>6. HandMarks /\ ListInv /\ MovesInv /\ StaleInv /\ QueuedInv
  BY <1>3, <1>4 DEF HandMarks, HandPCs, ListInv, MovesInv, StaleInv, QueuedInv, OpMovePCs, OpLockPCs
<1> QED
  BY <1>1, <1>2, <1>5, <1>6, LedgerInit DEF QueueOK, MoveOK

LEMMA SafeStep ==
  ASSUME NEW v \in BOOLEAN, HoldSettings = {v}, BaseInv, IdsInv, DoneInv, SettingInv, SafeInv,
         [RNext]_releaseVars
  PROVE  SafeInv'
<1> SUFFICES ASSUME faults' = 0 PROVE QueueOK' /\ MoveOK'
  BY DEF SafeInv
<1>1. faults = 0
  <2>1. faults \in Nat /\ (faults' = faults \/ faults' = faults + 1)
    <3>1. [Next]_vars => faults' = faults \/ faults' = faults + 1
      BY DEF Next, HookStep, WorkerStep, Grow, SessionEnd, EnqueueDrop, EnqueueSupersede,
             EnqueueNoPath, SpawnCount, Spawn, TryWorkerLock, Scan, HoldOne, HoldDone, HoldFinish,
             QuarantineLarge, HoldEvent, Recycle, SpawnSuccessor, TakeJob, CaptureNothing,
             CaptureFails, CaptureSlice, WriteOffset, Continue, ContinueTimeout, FinishJob, Release,
             Rescan, Exit, Crash, Drain, RequeueErrors
    <3>2. ReleaseNext => faults' = faults \/ faults' = faults + 1
      BY DEF ReleaseNext, ReleaseList, ReleaseSnapshot, ReleaseOne, ReleaseSupersede,
             ReleaseAppend, ReleaseUnlink, ReleaseLeaves, ReleaseCrash
    <3> QED
      BY <3>1, <3>2 DEF RNext, releaseVars, BaseInv, TypeInv, TypeOK
  <2> QED
    BY <2>1
<1>2. QueueOK /\ MoveOK
  BY <1>1 DEF SafeInv
<1>3. CASE [Next]_vars /\ UNCHANGED op
  <2>1. QueueOK'
    BY <1>2, <1>3, LedgerStep, ParkStep, GoalStep, BesideStep, SizeStep, LostStep
    DEF QueueOK, BaseInv
  <2>2. FilesOK' /\ HandMarks'
    BY <1>2, <1>3, FilesNext, MarksNext DEF QueueOK, MoveOK, BaseInv
  <2>3. (ListInv /\ MovesInv /\ StaleInv /\ QueuedInv)'
    BY <1>1, <1>2, <1>3, MoveNext DEF MoveOK
  <2> QED
    BY <2>1, <2>2, <2>3 DEF MoveOK
<1>4. CASE ReleaseNext
  <2>1. ~ReleaseLeaves /\ ~ReleaseCrash
    BY <1>1 DEF ReleaseLeaves, ReleaseCrash
  <2>2. CASE ReleaseSnapshot \/ ReleaseOne \/ ReleaseSupersede \/ ReleaseAppend \/ ReleaseUnlink
    BY <1>1, <1>2, <2>2, MoveSnapshot, MoveOne, MoveSupersede, MoveAppend, MoveUnlink
  <2>3. ASSUME NEW d \in Dirs, NEW force \in BOOLEAN, NEW b \in HoldSettings,
               ReleaseList(d, force, b)
        PROVE  QueueOK' /\ MoveOK'
    BY <1>2, <2>3, MoveList
  <2> QED
    BY <1>4, <2>1, <2>2, <2>3 DEF ReleaseNext
<1> QED
  BY <1>3, <1>4 DEF RNext, releaseVars

\* Until a process dies or a step of a command fails, and if every process was
\* started with the same hold setting, release_held loses no acknowledged
\* SessionEnd: not by its unlocked listing, not by the events it supersedes, and
\* not by the files it removes.
THEOREM ReleasedSafelyUntilAFault ==
  ASSUME NEW v \in BOOLEAN, HoldSettings = {v}
  PROVE  RSpec => [](faults = 0 => ReleasedSafely)
<1> DEFINE I == BaseInv /\ IdsInv /\ DoneInv /\ SettingInv /\ SafeInv
<1>1. RInit => I
  BY BaseInit, IdsInit, DoneInit, SettingInit, SafeInit
<1>2. I /\ [RNext]_releaseVars => I'
  BY BaseStep, IdsStep, DoneStep, SettingStep, SafeStep
<1>3. I => (faults = 0 => ReleasedSafely)
  BY DEF SafeInv, QueueOK, ReleasedSafely, OpTypeOK, BaseInv, OpInv, OpRecord, OpMovePCs, OpLockPCs
<1> QED
  BY <1>1, <1>2, <1>3, PTL DEF RSpec
=============================================================================
