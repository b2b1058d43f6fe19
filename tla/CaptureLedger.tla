---------------------------- MODULE CaptureLedger ----------------------------
(***************************************************************************)
(* The durable queue of SessionEnd captures: capture_queue.py (the ledger  *)
(* half), capture_hold.py, capture_worker.py and the offsets of            *)
(* capture_slices.py.                                                      *)
(*                                                                         *)
(* A SessionEnd hook acknowledges a transcript by appending an event to an *)
(* append-only ledger, or by parking it in held-all/ while the hold is on, *)
(* and then starts a detached worker.  Workers serialise on worker.lock    *)
(* and drain the ledger oldest first; every writer of the ledger holds     *)
(* ledger.lock, its readers hold nothing.  Any process may die between two *)
(* durable writes.                                                         *)
(*                                                                         *)
(* The ledger is modelled by what jobs() computes from the event files:    *)
(* the last record of every capture id, ordered by its first event (rank). *)
(* Transcripts are append-only; their length is counted in units.          *)
(***************************************************************************)
EXTENDS Naturals, FiniteSets

CONSTANTS
  Paths,        \* transcripts
  NoPath,       \* a SessionEnd without transcript_path
  NoEvent,      \* a process that works on no event
  Nobody,       \* a lock that is free
  Ids,          \* capture ids (uuid4); a bound on the events of a behaviour
  Hooks,        \* SessionEnd hook processes, each of which runs once
  Workers,      \* process slots of capture_worker
  Operator,     \* the process of an operator's sm lifecycle command
  Slice,        \* CAPTURE_MAX_MB
  Over,         \* SMARTMEMORY_CAPTURE_HOLD_OVER_MB, 0 is off
  SpawnCap,     \* SMARTMEMORY_CAPTURE_MAX, 0 is no cap
  HoldSettings, \* values SMARTMEMORY_CAPTURE_HOLD has in some process
  MaxSize,      \* bound: length of a transcript
  MaxFaults,    \* bound: crashes and ledger.lock timeouts
  MaxCommands   \* bound: operator commands (drain, requeue)

ASSUME LedgerAssumption ==
  /\ NoPath \notin Paths
  /\ NoEvent \notin [id : Ids, path : Paths \cup {NoPath}, forced : BOOLEAN]
  /\ Nobody \notin Hooks \cup Workers
  /\ Hooks \cap Workers = {} /\ Operator \notin Hooks \cup Workers \cup {Nobody}
  /\ Slice \in Nat \ {0} /\ Over \in Nat /\ SpawnCap \in Nat
  /\ HoldSettings \subseteq BOOLEAN
  /\ MaxSize \in Nat /\ MaxFaults \in Nat /\ MaxCommands \in Nat

VARIABLES
  ledger,     \* last record of each capture id, as jobs() returns it
  rank,       \* stamp of the first event of each id: its place in the FIFO
  parked,     \* files of held-all/ and quarantine-large/
  offset,     \* captures/offsets/: units of a transcript already captured
  imported,   \* units of a transcript already in the memory store
  size,       \* length of the transcript
  owed,       \* its length at the last acknowledged SessionEnd
  ledgerLock, \* holder of ledger.lock
  workerLock, \* holder of worker.lock
  pc,         \* where a process is
  hold,       \* its SMARTMEMORY_CAPTURE_HOLD, inherited from its starter
  cur,        \* the event it works on
  todo,       \* events it read from the ledger and has yet to deal with
  goal,       \* worker: the transcript length it read
  upto,       \* worker: the end of the slice it imports
  fresh,      \* worker: it has not taken an item yet
  used,       \* capture ids given out
  clock,      \* last time stamp given to an event or a parked file
  faults, commands

ledgerVars == <<ledger, rank>>
dataVars   == <<offset, imported>>
worldVars  == <<size, owed>>
lockVars   == <<ledgerLock, workerLock>>
sliceVars  == <<goal, upto, fresh>>
localVars  == <<pc, hold, cur, todo, goal, upto, fresh>>
countVars  == <<faults, commands>>
vars == <<ledger, rank, parked, offset, imported, size, owed, ledgerLock,
          workerLock, pc, hold, cur, todo, goal, upto, fresh, used, clock,
          faults, commands>>

Procs    == Hooks \cup Workers
Targets  == Paths \cup {NoPath}
Dirs     == {"held-all", "quarantine-large"}
Active   == {"queued", "running"}
Statuses == Active \cup {"none", "done", "error", "superseded", "held",
                         "quarantined"}

Event == [id : Ids, path : Targets, forced : BOOLEAN]
File  == [id : Ids, path : Targets, dir : Dirs, stamp : Nat]

EnqueuePCs == {"drop", "supersede"}
HookPCs    == {"ready", "run", "fail", "count", "spawn", "gone"} \cup EnqueuePCs
\* A worker in one of these holds worker.lock.
DrainPCs   == {"scan", "holding", "park", "pick", "capture", "offset",
               "continue", "finish", "fail", "release"} \cup EnqueuePCs
WorkerPCs  == {"off", "start", "successor", "rescan", "exit"} \cup DrainPCs

Record(i)    == [id |-> i, path |-> ledger[i].path, forced |-> ledger[i].forced]
ActiveIds    == {i \in Ids : ledger[i].status \in Active}
Pending      == {Record(i) : i \in ActiveIds}
QueuedFor(t) == {Record(i) : i \in {j \in Ids : /\ ledger[j].status = "queued"
                                                /\ ledger[j].path = t}}
Oldest(S)    == CHOOSE e \in S : \A f \in S : rank[e.id] <= rank[f.id]
MUnforced(S) == {}
Unforced(S)  == {e \in S : ~e.forced}
OverLimit(t) == Over > 0 /\ t \in Paths /\ size[t] > Over
Alive        == {w \in Workers : pc[w] # "off"}

Init ==
  /\ ledger = [i \in Ids |-> [path |-> NoPath, forced |-> FALSE, status |-> "none"]]
  /\ rank = [i \in Ids |-> 0]
  /\ parked = {} /\ used = {} /\ clock = 0
  /\ offset = [p \in Paths |-> 0] /\ imported = [p \in Paths |-> 0]
  /\ size = [p \in Paths |-> 0]   /\ owed = [p \in Paths |-> 0]
  /\ ledgerLock = Nobody /\ workerLock = Nobody
  /\ pc = [q \in Procs |-> IF q \in Hooks THEN "ready" ELSE "off"]
  /\ \E h \in [Hooks -> HoldSettings] :
       hold = [q \in Procs |-> IF q \in Hooks THEN h[q] ELSE FALSE]
  /\ cur = [q \in Procs |-> NoEvent]
  /\ todo = [q \in Procs |-> {}]
  /\ goal = [w \in Workers |-> 0] /\ upto = [w \in Workers |-> 0]
  /\ fresh = [w \in Workers |-> TRUE]
  /\ faults = 0 /\ commands = 0

-----------------------------------------------------------------------------
(* Writing the ledger and the parking lots, always under ledger.lock.  *)

\* _append: the new last record of an id; its first event fixes its place.
Append(e, s) ==
  /\ ledger' = [ledger EXCEPT ![e.id] =
                  [path |-> e.path, forced |-> e.forced, status |-> s]]
  /\ IF rank[e.id] = 0
       THEN clock' = clock + 1 /\ rank' = [rank EXCEPT ![e.id] = clock + 1]
       ELSE UNCHANGED <<clock, rank>>

\* capture_hold.park, first half: publish the file; the mark is not kept.
Park(e, d) ==
  /\ parked' = parked \cup
       {[id |-> e.id, path |-> e.path, dir |-> d, stamp |-> clock + 1]}
  /\ clock' = clock + 1

\* capture_hold.park, second half: the older files of the transcript.
MOlder(t, d) == {f \in parked : f.path = t /\ f.dir = d}
Older(t, d) ==
  {f \in parked : /\ f.path = t /\ t \in Paths /\ f.dir = d
                  /\ \E g \in parked : /\ g.path = t /\ g.dir = d
                                       /\ f.stamp < g.stamp}

DropOlder(t, d) ==
  \E f \in Older(t, d) :
    /\ \A g \in Older(t, d) : f.stamp <= g.stamp
    /\ parked' = parked \ {f}

Goto(q, l)    == pc' = [pc EXCEPT ![q] = l]
Free          == ledgerLock' = Nobody
Lock(q)       == ledgerLock = Nobody /\ ledgerLock' = q
LockBriefly   == ledgerLock = Nobody /\ UNCHANGED ledgerLock

-----------------------------------------------------------------------------
(* enqueue(): called by a SessionEnd hook and, for the continuation of a   *)
(* slice, by a worker.  The returning status decides what the caller does. *)

MAfterQueued(q) == "count"
AfterQueued(q) == IF q \in Hooks THEN "count" ELSE "finish"
AfterHeld(q)   == IF q \in Hooks THEN "gone" ELSE "finish"

\* The hold branch: park instead of queueing.
EnqueueHeld(q, e) ==
  /\ e.path \in Paths /\ hold[q] /\ ~e.forced
  /\ Lock(q) /\ Park(e, "held-all")
  /\ used' = used \cup {e.id}
  /\ Goto(q, "drop")
  /\ UNCHANGED <<ledgerVars, todo>>

EnqueueDrop(q) ==
  /\ pc[q] = "drop"
  /\ LET t == cur[q].path IN
       IF Older(t, "held-all") # {}
         THEN DropOlder(t, "held-all") /\ UNCHANGED <<ledgerLock, pc>>
         ELSE Free /\ Goto(q, AfterHeld(q)) /\ UNCHANGED parked
  /\ UNCHANGED <<ledgerVars, dataVars, worldVars, workerLock, hold, cur, todo,
                 sliceVars, used, clock, countVars>>

MStale(e) == {}
Stale(e)  == IF e.path \in Paths THEN QueuedFor(e.path) ELSE {}
MMark(e)  == e.forced
Mark(e)   == e.forced \/ \E f \in Stale(e) : f.forced

\* The queue branch: the new event first, then the queued ones it replaces,
\* whose forced mark it inherits.
EnqueueQueued(q, e) ==
  LET stale == Stale(e)
  IN /\ ~(e.path \in Paths /\ hold[q] /\ ~e.forced)
     /\ Append([e EXCEPT !.forced = Mark(e)], "queued")
     /\ used' = used \cup {e.id}
     /\ todo' = [todo EXCEPT ![q] = stale]
     /\ IF e.path = NoPath THEN Lock(q) /\ Goto(q, "run")
        ELSE IF stale = {} THEN LockBriefly /\ Goto(q, AfterQueued(q))
        ELSE Lock(q) /\ Goto(q, "supersede")
     /\ UNCHANGED parked

EnqueueSupersede(q) ==
  /\ pc[q] = "supersede"
  /\ LET e == Oldest(todo[q]) IN
       /\ Append(e, "superseded")
       /\ todo' = [todo EXCEPT ![q] = @ \ {e}]
       /\ IF todo[q] = {e} THEN Free /\ Goto(q, AfterQueued(q))
                           ELSE UNCHANGED <<ledgerLock, pc>>
  /\ UNCHANGED <<parked, dataVars, worldVars, workerLock, hold, cur, sliceVars,
                 used, countVars>>

\* A SessionEnd without a transcript is acknowledged as running, then error.
EnqueueNoPath(h) ==
  \/ /\ pc[h] = "run" /\ Append(cur[h], "running")
     /\ Goto(h, "fail") /\ UNCHANGED ledgerLock
     /\ UNCHANGED <<parked, dataVars, worldVars, workerLock, hold, cur, todo,
                    sliceVars, used, countVars>>
  \/ /\ pc[h] = "fail" /\ Append(cur[h], "error")
     /\ Goto(h, "gone") /\ Free
     /\ UNCHANGED <<parked, dataVars, worldVars, workerLock, hold, cur, todo,
                    sliceVars, used, countVars>>

-----------------------------------------------------------------------------
(* The SessionEnd hook: Lifecycle.persist *)

\* The transcript is only ever appended to, by the session that owns it.
Grow(p) ==
  /\ size[p] < MaxSize
  /\ size' = [size EXCEPT ![p] = @ + 1]
  /\ UNCHANGED <<ledgerVars, parked, dataVars, owed, lockVars, localVars, used,
                 clock, countVars>>

\* What is durable after the first write is acknowledged.
SessionEnd(h, t, i) ==
  LET e == [id |-> i, path |-> t, forced |-> FALSE] IN
  /\ pc[h] = "ready" /\ i \notin used
  /\ EnqueueHeld(h, e) \/ EnqueueQueued(h, e)
  /\ cur' = [cur EXCEPT ![h] = e]
  /\ owed' = IF t \in Paths THEN [owed EXCEPT ![t] = size[t]] ELSE owed
  /\ UNCHANGED <<dataVars, size, workerLock, hold, sliceVars, countVars>>

Start(w, withHold) ==
  /\ pc[w] = "off"
  /\ hold' = [hold EXCEPT ![w] = withHold]
  /\ fresh' = [fresh EXCEPT ![w] = TRUE]

\* spawn_worker counts live workers with pgrep, then starts one.
SpawnCount(h) ==
  /\ pc[h] = "count"
  /\ Goto(h, IF SpawnCap = 0 \/ Cardinality(Alive) < SpawnCap
               THEN "spawn" ELSE "gone")
  /\ UNCHANGED <<ledgerVars, parked, dataVars, worldVars, lockVars, hold, cur,
                 todo, sliceVars, used, clock, countVars>>

Spawn(h) ==
  /\ pc[h] = "spawn"
  /\ \E w \in Workers :
       /\ Start(w, hold[h])
       /\ pc' = [pc EXCEPT ![h] = "gone", ![w] = "start"]
  /\ UNCHANGED <<ledgerVars, parked, dataVars, worldVars, lockVars, cur, todo,
                 goal, upto, used, clock, countVars>>

-----------------------------------------------------------------------------
(* The worker: capture_worker.run and _drain *)

NoWrite == UNCHANGED <<ledgerVars, parked, clock>>

MWorkerLockFree == TRUE
WorkerLockFree  == workerLock = Nobody

\* worker.lock with timeout 0: a worker that cannot have it at once exits.
TryWorkerLock(w) ==
  /\ pc[w] = "start"
  /\ IF WorkerLockFree THEN workerLock' = w /\ Goto(w, "scan")
                            ELSE Goto(w, "exit") /\ UNCHANGED workerLock
  /\ NoWrite
  /\ UNCHANGED <<dataVars, worldVars, ledgerLock, hold, cur, todo, sliceVars,
                 used, countVars>>

\* _pending, read without ledger.lock; an empty queue ends _drain.
Scan(w) ==
  /\ pc[w] = "scan"
  /\ todo' = [todo EXCEPT ![w] = Pending]
  /\ Goto(w, IF Pending = {} THEN "release" ELSE IF hold[w] THEN "holding" ELSE "pick")
  /\ NoWrite
  /\ UNCHANGED <<dataVars, worldVars, lockVars, hold, cur, sliceVars, used,
                 countVars>>

\* hold_event, first half, with the record read by Scan.
HoldEvent(w, e, d) ==
  /\ Lock(w) /\ Park(e, d)
  /\ cur' = [cur EXCEPT ![w] = e]
  /\ todo' = [todo EXCEPT ![w] = @ \ {e}]
  /\ Goto(w, "park")
  /\ UNCHANGED <<ledgerVars, dataVars, worldVars, workerLock, hold, sliceVars,
                 used, countVars>>

\* With the hold on every unforced pending event is parked before anything is
\* imported; the forced ones go on.
HoldOne(w) ==
  /\ pc[w] = "holding" /\ Unforced(todo[w]) # {}
  /\ HoldEvent(w, Oldest(Unforced(todo[w])), "held-all")

HoldDone(w) ==
  /\ pc[w] = "holding" /\ Unforced(todo[w]) = {}
  /\ Goto(w, IF todo[w] = {} THEN "release" ELSE "pick")
  /\ NoWrite
  /\ UNCHANGED <<dataVars, worldVars, lockVars, hold, cur, todo, sliceVars,
                 used, countVars>>

\* hold_event, second half: drop the older files, then record the parking.
\* In a hold the loop goes on; a quarantined event leads to a new scan.
HoldFinish(w) ==
  LET d == IF hold[w] THEN "held-all" ELSE "quarantine-large"
      e == cur[w]
  IN
  /\ pc[w] = "park"
  /\ IF Older(e.path, d) # {}
       THEN /\ DropOlder(e.path, d)
            /\ UNCHANGED <<ledgerVars, clock, ledgerLock, pc>>
       ELSE /\ Append(e, IF hold[w] THEN "held" ELSE "quarantined")
            /\ Free /\ Goto(w, IF hold[w] THEN "holding" ELSE "scan")
            /\ UNCHANGED parked
  /\ UNCHANGED <<dataVars, worldVars, workerLock, hold, cur, todo, sliceVars,
                 used, countVars>>

QuarantineLarge(w) ==
  LET e == Oldest(todo[w]) IN
  /\ pc[w] = "pick" /\ OverLimit(e.path) /\ ~e.forced
  /\ HoldEvent(w, e, "quarantine-large")

\* A worker whose RSS passed the limit leaves the item and starts a successor.
Recycle(w) ==
  LET e == Oldest(todo[w]) IN
  /\ pc[w] = "pick" /\ ~fresh[w]
  /\ ~OverLimit(e.path) \/ e.forced
  /\ workerLock' = Nobody /\ Goto(w, "successor")
  /\ NoWrite
  /\ UNCHANGED <<dataVars, worldVars, ledgerLock, hold, cur, todo, sliceVars,
                 used, countVars>>

SpawnSuccessor(w) ==
  /\ pc[w] = "successor"
  /\ \E v \in Workers :
       /\ Start(v, hold[w])
       /\ pc' = [pc EXCEPT ![w] = "exit", ![v] = "start"]
  /\ UNCHANGED <<ledgerVars, parked, dataVars, worldVars, lockVars, cur, todo,
                 goal, upto, used, clock, countVars>>

\* transition(job, "running") with the record read by Scan.
TakeJob(w) ==
  LET e == Oldest(todo[w]) IN
  /\ pc[w] = "pick"
  /\ ~OverLimit(e.path) \/ e.forced
  /\ LockBriefly /\ Append(e, "running")
  /\ cur' = [cur EXCEPT ![w] = e]
  /\ todo' = [todo EXCEPT ![w] = {}]
  /\ fresh' = [fresh EXCEPT ![w] = FALSE]
  /\ Goto(w, "capture")
  /\ UNCHANGED <<parked, dataVars, worldVars, workerLock, hold, goal, upto,
                 used, countVars>>

-----------------------------------------------------------------------------
(* capture_transcript: one slice of what the transcript gained *)

\* Where the capture starts: the stored offset, or the first byte of a file
\* shorter than that (an append-only transcript never is).
From(t)       == IF size[t] < offset[t] THEN 0 ELSE offset[t]
NothingNew(t) == t \in Paths /\ From(t) > 0 /\ From(t) = size[t]

CaptureNothing(w) ==
  /\ pc[w] = "capture" /\ NothingNew(cur[w].path)
  /\ Goto(w, "finish")
  /\ NoWrite
  /\ UNCHANGED <<dataVars, worldVars, lockVars, hold, cur, todo, sliceVars,
                 used, countVars>>

\* A missing or empty transcript, or an import that raises.
CaptureFails(w) ==
  /\ pc[w] = "capture" /\ ~NothingNew(cur[w].path)
  /\ Goto(w, "fail")
  /\ NoWrite
  /\ UNCHANGED <<dataVars, worldVars, lockVars, hold, cur, todo, sliceVars,
                 used, countVars>>

\* A transcript within the cap that was never captured goes in whole, any
\* other range one slice at a time, cut at the end of a line.
CaptureSlice(w) ==
  LET t == cur[w].path
      start == From(t)
  IN
  /\ pc[w] = "capture" /\ t \in Paths /\ start < size[t]
  /\ \E end \in (start + 1)..size[t] :
       /\ end <= start + Slice
       /\ start = 0 /\ size[t] <= Slice => end = size[t]
       /\ imported' = [imported EXCEPT ![t] = IF @ < end THEN end ELSE @]
       /\ upto' = [upto EXCEPT ![w] = end]
  /\ goal' = [goal EXCEPT ![w] = size[t]]
  /\ Goto(w, "offset")
  /\ NoWrite
  /\ UNCHANGED <<offset, worldVars, lockVars, hold, cur, todo, fresh, used,
                 countVars>>

MNewOffset(w) == goal[w]
NewOffset(w)  == upto[w]
MAfterSlice(w) == "finish"
AfterSlice(w)  == IF upto[w] < goal[w] THEN "continue" ELSE "finish"

WriteOffset(w) ==
  /\ pc[w] = "offset"
  /\ offset' = [offset EXCEPT ![cur[w].path] = NewOffset(w)]
  /\ Goto(w, AfterSlice(w))
  /\ NoWrite
  /\ UNCHANGED <<imported, worldVars, lockVars, hold, cur, todo, sliceVars,
                 used, countVars>>

\* The rest of the range is queued behind every other waiting session.
Continue(w, i) ==
  LET e == [cur[w] EXCEPT !.id = i] IN
  /\ pc[w] = "continue" /\ i \notin used
  /\ EnqueueHeld(w, e) \/ EnqueueQueued(w, e)
  /\ UNCHANGED <<dataVars, worldVars, workerLock, hold, cur, sliceVars,
                 countVars>>

\* ledger.lock times out in that enqueue: the exception fails the job.
ContinueTimeout(w) ==
  /\ pc[w] = "continue" /\ ledgerLock # Nobody
  /\ faults < MaxFaults /\ faults' = faults + 1
  /\ Goto(w, "fail")
  /\ NoWrite
  /\ UNCHANGED <<dataVars, worldVars, lockVars, hold, cur, todo, sliceVars,
                 used, commands>>

FinishJob(w) ==
  /\ pc[w] \in {"finish", "fail"}
  /\ LockBriefly
  /\ Append(cur[w], IF pc[w] = "finish" THEN "done" ELSE "error")
  /\ cur' = [cur EXCEPT ![w] = NoEvent]
  /\ goal' = [goal EXCEPT ![w] = 0] /\ upto' = [upto EXCEPT ![w] = 0]
  /\ Goto(w, "scan")
  /\ UNCHANGED <<parked, dataVars, worldVars, workerLock, hold, todo, fresh,
                 used, countVars>>

MMoreWork == FALSE
MoreWork  == Pending # {}

\* _drain returned because the queue it read was empty: work that arrives from
\* here on is seen only after worker.lock is free again.
Release(w) ==
  /\ pc[w] = "release"
  /\ workerLock' = Nobody /\ Goto(w, "rescan")
  /\ NoWrite
  /\ UNCHANGED <<dataVars, worldVars, ledgerLock, hold, cur, todo, sliceVars,
                 used, countVars>>

\* After worker.lock is released: look once more, then leave.
Rescan(w) ==
  /\ pc[w] = "rescan"
  /\ IF MoreWork THEN Goto(w, "start") /\ fresh' = [fresh EXCEPT ![w] = FALSE]
                 ELSE Goto(w, "exit") /\ UNCHANGED fresh
  /\ NoWrite
  /\ UNCHANGED <<dataVars, worldVars, lockVars, hold, cur, todo, goal, upto,
                 used, countVars>>

Gone(q) ==
  /\ Goto(q, IF q \in Hooks THEN "gone" ELSE "off")
  /\ cur' = [cur EXCEPT ![q] = NoEvent]
  /\ todo' = [todo EXCEPT ![q] = {}]
  /\ goal' = [w \in Workers |-> IF w = q THEN 0 ELSE goal[w]]
  /\ upto' = [w \in Workers |-> IF w = q THEN 0 ELSE upto[w]]

Exit(w) ==
  /\ pc[w] = "exit" /\ Gone(w)
  /\ NoWrite
  /\ UNCHANGED <<dataVars, worldVars, lockVars, hold, fresh, used, countVars>>

-----------------------------------------------------------------------------
(* Crashes and operator commands *)

\* The operating system releases the locks of a process that dies.  A timeout
\* of ledger.lock in _drain is the same: it ends the worker.
Crash(q) ==
  /\ pc[q] \notin {"ready", "gone", "off"}
  /\ faults < MaxFaults /\ faults' = faults + 1
  /\ Gone(q)
  /\ ledgerLock' = IF ledgerLock = q THEN Nobody ELSE ledgerLock
  /\ workerLock' = IF workerLock = q THEN Nobody ELSE workerLock
  /\ NoWrite
  /\ UNCHANGED <<dataVars, worldVars, hold, fresh, used, commands>>

\* sm lifecycle drain starts a worker when the queue is not empty.
Drain(w, withHold) ==
  /\ commands < MaxCommands /\ commands' = commands + 1
  /\ Pending # {} /\ (SpawnCap = 0 \/ Cardinality(Alive) < SpawnCap)
  /\ Start(w, withHold) /\ Goto(w, "start")
  /\ NoWrite
  /\ UNCHANGED <<dataVars, worldVars, lockVars, cur, todo, goal, upto, used,
                 faults>>

\* requeue_errors: one pass over failed jobs under ledger.lock.
RequeueErrors(S) ==
  /\ commands < MaxCommands /\ commands' = commands + 1
  /\ S # {} /\ \A i \in S : ledger[i].status = "error"
  /\ LockBriefly
  /\ ledger' = [i \in Ids |-> IF i \in S
                  THEN [ledger[i] EXCEPT !.status = "queued"] ELSE ledger[i]]
  /\ UNCHANGED <<rank, parked, dataVars, worldVars, workerLock, localVars,
                 used, clock, faults>>

HookStep(h) ==
  \/ EnqueueDrop(h) \/ EnqueueSupersede(h) \/ EnqueueNoPath(h)
  \/ SpawnCount(h) \/ Spawn(h)

WorkerStep(w) ==
  \/ TryWorkerLock(w) \/ Scan(w) \/ HoldOne(w) \/ HoldDone(w) \/ HoldFinish(w)
  \/ QuarantineLarge(w) \/ Recycle(w) \/ SpawnSuccessor(w) \/ TakeJob(w)
  \/ CaptureNothing(w) \/ CaptureFails(w) \/ CaptureSlice(w) \/ WriteOffset(w)
  \/ \E i \in Ids : Continue(w, i)
  \/ EnqueueDrop(w) \/ EnqueueSupersede(w) \/ FinishJob(w) \/ Release(w)
  \/ Rescan(w) \/ Exit(w)

Next ==
  \/ \E p \in Paths : Grow(p)
  \/ \E h \in Hooks, t \in Targets, i \in Ids : SessionEnd(h, t, i)
  \/ \E h \in Hooks : HookStep(h)
  \/ \E w \in Workers : WorkerStep(w) \/ ContinueTimeout(w)
  \/ \E q \in Procs : Crash(q)
  \/ \E w \in Workers, b \in HoldSettings : Drain(w, b)
  \/ \E S \in SUBSET Ids : RequeueErrors(S)

Spec == Init /\ [][Next]_vars

\* Detached processes are scheduled; nobody has to end a session, to grow a
\* transcript, to crash or to type a command.
Fairness == /\ \A h \in Hooks : WF_vars(HookStep(h))
            /\ \A w \in Workers : WF_vars(WorkerStep(w))

FairSpec == Spec /\ Fairness

-----------------------------------------------------------------------------
(* Properties *)

\* Every variable has its type.
TypeOK ==
  /\ ledger \in [Ids -> [path : Targets, forced : BOOLEAN, status : Statuses]]
  /\ rank \in [Ids -> Nat] /\ clock \in Nat
  /\ parked \subseteq File
  /\ offset \in [Paths -> Nat] /\ imported \in [Paths -> Nat]
  /\ size \in [Paths -> Nat] /\ owed \in [Paths -> Nat]
  /\ ledgerLock \in Procs \cup {Operator, Nobody} /\ workerLock \in Workers \cup {Nobody}
  /\ pc \in [Procs -> HookPCs \cup WorkerPCs]
  /\ \A h \in Hooks : pc[h] \in HookPCs
  /\ \A w \in Workers : pc[w] \in WorkerPCs
  /\ hold \in [Procs -> BOOLEAN]
  /\ cur \in [Procs -> Event \cup {NoEvent}]
  /\ todo \in [Procs -> SUBSET Event]
  /\ goal \in [Workers -> Nat] /\ upto \in [Workers -> Nat]
  /\ fresh \in [Workers -> BOOLEAN]
  /\ used \subseteq Ids
  /\ faults \in Nat /\ commands \in Nat

\* Something durable will still lead to a capture of transcript p: a ledger
\* event that waits, runs or failed (requeue), or a parked file (release).
Covered(p) ==
  \/ \E i \in Ids : /\ ledger[i].path = p
                    /\ ledger[i].status \in Active \cup {"error"}
  \/ \E f \in parked : f.path = p

\* An acknowledged SessionEnd is never lost: until its transcript is captured
\* as far as it reached, the queue or a parking lot holds an event for it,
\* whatever dies between two writes ("a duplicate, never a gap").
NothingLost == \A p \in Paths : offset[p] < owed[p] => Covered(p)

\* The queue implements CaptureService: crashes, races and duplicates included,
\* it gives up its hold on a transcript only when it has captured what it
\* acknowledged.
Service == INSTANCE CaptureService
             WITH captured <- offset, pledged <- {p \in Paths : Covered(p)}
ImplementsService == Service!ServiceSpec

\* The offset never passes what is in the store: no byte range is marked as
\* captured before its import succeeded.
NoByteSkipped == \A p \in Paths : offset[p] <= imported[p] /\ imported[p] <= size[p]

\* Without a crash no byte is imported twice: whoever is about to import a
\* transcript finds the offset at the end of what was imported.
NoByteTwice ==
  faults = 0 => \A w \in Workers :
    pc[w] = "capture" /\ cur[w].path \in Paths
      => imported[cur[w].path] = offset[cur[w].path]

\* "At most one queued event per transcript: a newer one replaces it": until a
\* process dies between the two writes, or an operator requeues failed jobs.
OneQueuedPerTranscript ==
  faults = 0 /\ commands = 0 /\ ledgerLock = Nobody =>
    \A p \in Paths : Cardinality(QueuedFor(p)) <= 1

\* "an enqueue racing its last scan is picked up by the holder (or by whoever
\* takes the lock next), never stranded": unless a process died, or an operator
\* requeued failed jobs, work waits only while a worker is alive or a hook is
\* about to start one.
NeverStranded ==
  faults = 0 /\ commands = 0 /\ ActiveIds # {} =>
    \/ Alive # {}
    \/ \E h \in Hooks : pc[h] \in {"run", "fail", "supersede", "count", "spawn"}

\* Under the hold nothing but a forced event is imported.
HoldImportsNothing ==
  [][\A p \in Paths : imported'[p] # imported[p] =>
       \E w \in Workers : /\ pc[w] = "capture" /\ cur[w].path = p
                          /\ hold[w] => cur[w].forced]_vars

\* What a SessionEnd acknowledged is captured, parked or reported as an error
\* in the end, however the hooks, workers and continuations interleave.
EveryEndSettles ==
  \A p \in Paths :
    offset[p] < owed[p] ~>
      \/ offset[p] >= owed[p]
      \/ \E f \in parked : f.path = p
      \/ \E i \in Ids : ledger[i].path = p /\ ledger[i].status = "error"
=============================================================================
