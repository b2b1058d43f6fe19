------------------------- MODULE CaptureLedgerProofs -------------------------
(***************************************************************************)
(* Proofs about CaptureLedger for every number of transcripts, hooks,      *)
(* workers, capture ids and faults.  NothingLost is not inductive.  The    *)
(* inductive invariant adds, in layers that are proved one after another:  *)
(*   TypeInv   the types, and what a program counter says of the locals    *)
(*   LockInv   who holds which lock                                        *)
(*   LedgerInv what a process remembers of the ledger is still so          *)
(*   ParkInv   a parking lot that is being cleaned up still holds a file   *)
(*   GoalInv   what a worker about to give up an event still owes          *)
(*   BesideInv what a job that is no longer running leaves covered         *)
(* The layers are stated so that they survive release_held as well (a job  *)
(* may have been superseded): CaptureReleaseProofs builds on them.         *)
(***************************************************************************)
EXTENDS CaptureLedger, TLAPS, WellFoundedInduction, FiniteSetTheorems

HookLockPCs   == {"drop", "supersede", "run", "fail"}
WorkerLockPCs == {"drop", "supersede", "park"}
JobPCs        == {"capture", "offset", "continue", "drop", "supersede",
                  "finish", "fail"}
PathPCs       == {"offset", "continue", "drop", "supersede", "finish"}
EventPCs(q)   == IF q \in Hooks THEN HookLockPCs ELSE JobPCs \cup {"park"}

PcOK == /\ pc \in [Procs -> HookPCs \cup WorkerPCs]
        /\ \A h \in Hooks : pc[h] \in HookPCs
        /\ \A w \in Workers : pc[w] \in WorkerPCs

LedgerOK ==
  /\ ledger \in [Ids -> [path : Targets, forced : BOOLEAN, status : Statuses]]
  /\ rank \in [Ids -> Nat] /\ clock \in Nat

\* A process picks from events it has, works on an event, and a worker past
\* the import works on one with a transcript.
LocalInv ==
  /\ \A q \in Procs : pc[q] \in {"pick", "supersede"} => todo[q] # {}
  /\ \A q \in Procs : pc[q] \in EventPCs(q) => cur[q] \in Event
  /\ \A w \in Workers : pc[w] \in PathPCs => cur[w].path \in Paths

TypeInv == TypeOK /\ LocalInv

USE DEF Procs, vars, ledgerVars, dataVars, worldVars, lockVars, localVars,
        sliceVars, countVars

-----------------------------------------------------------------------------
(* Lemmas about the operators of CaptureLedger *)

\* A non-empty set of events has an oldest one.
LEMMA OldestIn ==
  ASSUME rank \in [Ids -> Nat], NEW S \in SUBSET Event, S # {}
  PROVE  Oldest(S) \in S
<1> DEFINE T == {rank[e.id] : e \in S}
<1>1. T \in SUBSET Nat /\ T # {}
  BY DEF Event
<1>2. PICK n \in T : \A m \in T : <<m, n>> \notin OpToRel(<, Nat)
  <2> HIDE DEF T
  <2> QED BY <1>1, WFMin, NatLessThanWellFounded, Zenon
<1>3. \A m \in T : n <= m
  <2> HIDE DEF T
  <2>1. \A m \in T : ~(m < n)
    BY <1>1, <1>2, Zenon DEF OpToRel
  <2> QED BY <1>1, <2>1
<1>4. \E e \in S : \A f \in S : rank[e.id] <= rank[f.id]
  BY <1>3
<1> QED
  BY <1>4 DEF Oldest

\* An append keeps the types of the ledger.
LEMMA AppendType ==
  ASSUME TypeOK, NEW e \in Event, NEW s \in Statuses, Append(e, s)
  PROVE  LedgerOK'
  BY DEF TypeOK, LedgerOK, Append, Event

\* A step of q alone that goes to l keeps LocalInv if the locals of q fit l.
LEMMA GotoLocal ==
  ASSUME TypeInv, NEW q \in Procs, NEW l, Goto(q, l),
         q \in Hooks => l \in HookPCs,
         q \in Workers => l \in WorkerPCs,
         l \in {"pick", "supersede"} => todo'[q] # {},
         l \in EventPCs(q) => cur'[q] \in Event,
         q \in Workers /\ l \in PathPCs => cur'[q].path \in Paths,
         \A r \in Procs \ {q} : todo'[r] = todo[r] /\ cur'[r] = cur[r]
  PROVE  PcOK' /\ LocalInv'
  BY DEF TypeInv, TypeOK, PcOK, LocalInv, Goto, EventPCs

\* Cleaning a parking lot up leaves a file for every transcript that had one.
LEMMA DropOlderKeeps ==
  ASSUME TypeOK, NEW t, NEW d, DropOlder(t, d), NEW p, \E f \in parked : f.path = p
  PROVE  \E f \in parked' : f.path = p
  BY DEF TypeOK, DropOlder, Older, File

-----------------------------------------------------------------------------
(* Types *)

\* Parking a new event keeps the types.
LEMMA HeldType ==
  ASSUME TypeInv, NEW q \in Procs, NEW e \in Event, EnqueueHeld(q, e),
         cur'[q] \in Event, cur'[q].path = e.path,
         \A r \in Procs \ {q} : cur'[r] = cur[r]
  PROVE  /\ LedgerOK' /\ PcOK' /\ LocalInv'
         /\ parked' \subseteq File /\ used' \subseteq Ids
         /\ ledgerLock' \in Procs \cup {Operator, Nobody}
         /\ todo' \in [Procs -> SUBSET Event]
<1>1. PcOK' /\ LocalInv'
  <2>1. Goto(q, "drop") /\ todo' = todo /\ e.path \in Paths
    BY DEF EnqueueHeld
  <2> QED
    BY <2>1, GotoLocal DEF HookPCs, WorkerPCs, DrainPCs, EnqueuePCs
<1>2. parked' \subseteq File /\ LedgerOK'
  BY DEF EnqueueHeld, Park, File, Event, Dirs, TypeInv, TypeOK, LedgerOK
<1> QED
  BY <1>1, <1>2 DEF EnqueueHeld, Lock, TypeInv, TypeOK, Event

\* Queueing a new event keeps the types; only a hook ends one without a transcript.
LEMMA QueuedType ==
  ASSUME TypeInv, NEW q \in Procs, NEW e \in Event, EnqueueQueued(q, e),
         e.path = NoPath => q \in Hooks,
         cur'[q] \in Event, cur'[q].path = e.path,
         \A r \in Procs \ {q} : cur'[r] = cur[r]
  PROVE  /\ LedgerOK' /\ PcOK' /\ LocalInv'
         /\ parked' \subseteq File /\ used' \subseteq Ids
         /\ ledgerLock' \in Procs \cup {Operator, Nobody}
         /\ todo' \in [Procs -> SUBSET Event]
<1> DEFINE f == [e EXCEPT !.forced = Mark(e)]
<1>1. Stale(e) \in SUBSET Event
  BY DEF Stale, QueuedFor, Record, TypeInv, TypeOK, Event
<1>2. f \in Event
  BY DEF Event, Mark
<1>3. /\ Append(f, "queued") /\ todo' = [todo EXCEPT ![q] = Stale(e)]
      /\ used' = used \cup {e.id} /\ parked' = parked
  BY DEF EnqueueQueued
<1>4. LedgerOK'
  BY <1>2, <1>3, AppendType DEF TypeInv, Statuses, Active
<1>5. PICK l \in {"run", "count", "finish", "supersede"} :
        /\ Goto(q, l) /\ ledgerLock' \in {q, ledgerLock}
        /\ l \in {"run", "count"} => q \in Hooks
        /\ l = "finish" => q \in Workers
        /\ l = "supersede" => Stale(e) # {}
  BY DEF EnqueueQueued, AfterQueued, Lock, LockBriefly
<1>6. e.path \in Paths \/ q \in Hooks
  BY DEF Event, Targets
<1>7. PcOK' /\ LocalInv'
  <2>1. l \in {"pick", "supersede"} => todo'[q] # {}
    BY <1>3, <1>5 DEF TypeInv, TypeOK
  <2>2. \A r \in Procs \ {q} : todo'[r] = todo[r]
    BY <1>3 DEF TypeInv, TypeOK
  <2> QED
    BY <1>5, <1>6, <2>1, <2>2, GotoLocal, LedgerAssumption
    DEF HookPCs, WorkerPCs, DrainPCs, EnqueuePCs
<1>8. ledgerLock' \in Procs \cup {Operator, Nobody} /\ used' \subseteq Ids
  BY <1>3, <1>5 DEF TypeInv, TypeOK, Event
<1> QED
  BY <1>1, <1>3, <1>4, <1>7, <1>8 DEF TypeInv, TypeOK

\* Every step keeps the types and what a program counter says of the locals.
LEMMA TypeStep == TypeInv /\ [Next]_vars => TypeInv'
<1> SUFFICES ASSUME TypeInv, [Next]_vars PROVE TypeInv'
  OBVIOUS
<1> USE LedgerAssumption
<1>1. ASSUME NEW p \in Paths, Grow(p) PROVE TypeInv'
  BY <1>1 DEF Grow, TypeInv, TypeOK, LocalInv, EventPCs
<1>2. ASSUME NEW h \in Hooks, NEW t \in Targets, NEW i \in Ids, SessionEnd(h, t, i)
      PROVE  TypeInv'
  <2> DEFINE e == [id |-> i, path |-> t, forced |-> FALSE]
  <2>1. e \in Event /\ e.path = t
    BY DEF Event
  <2>2. EnqueueHeld(h, e) \/ EnqueueQueued(h, e)
    BY <1>2 DEF SessionEnd
  <2>3. cur' = [cur EXCEPT ![h] = e]
    BY <1>2 DEF SessionEnd
  <2> HIDE DEF e
  <2>4. /\ cur'[h] = e /\ \A r \in Procs \ {h} : cur'[r] = cur[r]
        /\ cur' \in [Procs -> Event \cup {NoEvent}]
    BY <2>1, <2>3 DEF TypeInv, TypeOK
  <2>5. /\ LedgerOK' /\ PcOK' /\ LocalInv'
        /\ parked' \subseteq File /\ used' \subseteq Ids
        /\ ledgerLock' \in Procs \cup {Operator, Nobody}
        /\ todo' \in [Procs -> SUBSET Event]
    BY <2>1, <2>2, <2>4, HeldType, QueuedType
  <2>6. owed' \in [Paths -> Nat]
    BY <1>2 DEF SessionEnd, TypeInv, TypeOK
  <2> QED
    BY <1>2, <2>4, <2>5, <2>6 DEF SessionEnd, TypeInv, TypeOK, LedgerOK, PcOK
<1>3. ASSUME NEW q \in Procs, EnqueueDrop(q) PROVE TypeInv'
  <2>1. CASE Older(cur[q].path, "held-all") # {}
    BY <1>3, <2>1 DEF EnqueueDrop, DropOlder, Older, TypeInv, TypeOK, LocalInv, EventPCs
  <2>2. CASE Older(cur[q].path, "held-all") = {}
    <3>1. Goto(q, AfterHeld(q)) /\ Free /\ UNCHANGED <<todo, cur, parked>>
      BY <1>3, <2>2 DEF EnqueueDrop
    <3>2. q \in Workers => cur[q] \in Event /\ cur[q].path \in Paths
      BY <1>3 DEF EnqueueDrop, TypeInv, LocalInv, EventPCs, JobPCs, PathPCs
    <3>3. PcOK' /\ LocalInv'
      BY <3>1, <3>2, GotoLocal
      DEF AfterHeld, HookPCs, WorkerPCs, DrainPCs, EventPCs, HookLockPCs
    <3> QED
      BY <1>3, <3>1, <3>3 DEF EnqueueDrop, Free, TypeInv, TypeOK, PcOK
  <2> QED
    BY <2>1, <2>2
<1>4. ASSUME NEW q \in Procs, EnqueueSupersede(q) PROVE TypeInv'
  <2> DEFINE e == Oldest(todo[q])
  <2>1. e \in Event /\ cur[q] \in Event /\ (q \in Workers => cur[q].path \in Paths)
    BY <1>4, OldestIn
    DEF EnqueueSupersede, TypeInv, TypeOK, LocalInv, EventPCs, HookLockPCs, JobPCs, PathPCs
  <2>2. Append(e, "superseded") /\ todo' = [todo EXCEPT ![q] = @ \ {e}] /\ cur' = cur
    BY <1>4 DEF EnqueueSupersede
  <2>3. LedgerOK'
    BY <2>1, <2>2, AppendType DEF TypeInv, Statuses
  <2>4. CASE todo[q] = {e}
    <3>1. Goto(q, AfterQueued(q)) /\ Free
      BY <1>4, <2>4 DEF EnqueueSupersede
    <3>2. \A r \in Procs \ {q} : todo'[r] = todo[r]
      BY <2>2 DEF TypeInv, TypeOK
    <3>3. PcOK' /\ LocalInv'
      BY <2>1, <2>2, <3>1, <3>2, GotoLocal
      DEF AfterQueued, HookPCs, WorkerPCs, DrainPCs, EventPCs, HookLockPCs
    <3> QED
      BY <1>4, <2>2, <2>3, <3>1, <3>3
      DEF EnqueueSupersede, Free, TypeInv, TypeOK, PcOK, LedgerOK
  <2>5. CASE todo[q] # {e}
    <3>1. UNCHANGED <<ledgerLock, pc>>
      BY <1>4, <2>5 DEF EnqueueSupersede
    <3>2. LocalInv'
      BY <2>2, <2>5, <3>1 DEF TypeInv, TypeOK, LocalInv, EventPCs
    <3> QED
      BY <1>4, <2>2, <2>3, <3>1, <3>2 DEF EnqueueSupersede, TypeInv, TypeOK, LedgerOK
  <2> QED
    BY <2>4, <2>5
<1>5. ASSUME NEW h \in Hooks, EnqueueNoPath(h) PROVE TypeInv'
  <2>1. PICK l \in {"fail", "gone"}, s \in {"running", "error"} :
          Goto(h, l) /\ Append(cur[h], s)
    BY <1>5 DEF EnqueueNoPath
  <2>2. cur[h] \in Event
    BY <1>5 DEF EnqueueNoPath, TypeInv, LocalInv, EventPCs, HookLockPCs
  <2>3. LedgerOK'
    BY <2>1, <2>2, AppendType DEF TypeInv, Statuses, Active
  <2>4. PcOK' /\ LocalInv'
    <3>1. UNCHANGED <<todo, cur>>
      BY <1>5 DEF EnqueueNoPath
    <3> QED
      BY <2>1, <2>2, <3>1, GotoLocal DEF HookPCs
  <2>5. ledgerLock' \in {ledgerLock, Nobody}
    BY <1>5 DEF EnqueueNoPath, Free
  <2> QED
    BY <1>5, <2>3, <2>4, <2>5 DEF EnqueueNoPath, TypeInv, TypeOK, LedgerOK, PcOK
<1>6. ASSUME NEW h \in Hooks, SpawnCount(h) PROVE TypeInv'
  BY <1>6 DEF SpawnCount, Goto, TypeInv, TypeOK, LocalInv, EventPCs, HookLockPCs, HookPCs
<1>7. ASSUME NEW h \in Hooks, Spawn(h) PROVE TypeInv'
  <2>1. PICK v \in Workers :
          Start(v, hold[h]) /\ pc' = [pc EXCEPT ![h] = "gone", ![v] = "start"]
    BY <1>7 DEF Spawn
  <2>2. PcOK'
    BY <2>1 DEF Start, PcOK, TypeInv, TypeOK, HookPCs, WorkerPCs
  <2>3. LocalInv'
    BY <1>7, <2>1 DEF Spawn, TypeInv, TypeOK, LocalInv, EventPCs, HookLockPCs, JobPCs, PathPCs
  <2> QED
    BY <1>7, <2>1, <2>2, <2>3 DEF Spawn, Start, TypeInv, TypeOK, PcOK
<1>8. ASSUME NEW w \in Workers, TryWorkerLock(w) PROVE TypeInv'
  <2>1. PICK l \in {"scan", "exit"} : Goto(w, l) /\ workerLock' \in {w, workerLock}
    BY <1>8 DEF TryWorkerLock
  <2>2. PcOK' /\ LocalInv'
    BY <1>8, <2>1, GotoLocal DEF TryWorkerLock, WorkerPCs, DrainPCs, EventPCs, JobPCs, PathPCs
  <2> QED
    BY <1>8, <2>1, <2>2 DEF TryWorkerLock, NoWrite, TypeInv, TypeOK, PcOK
<1>9. ASSUME NEW w \in Workers, Scan(w) PROVE TypeInv'
  <2>1. Pending \in SUBSET Event
    BY DEF Pending, ActiveIds, Record, Event, TypeInv, TypeOK
  <2>2. PICK l \in {"release", "holding", "pick"} :
          Goto(w, l) /\ (l = "pick" => Pending # {})
    BY <1>9 DEF Scan
  <2> HIDE DEF Pending
  <2>3. todo' = [todo EXCEPT ![w] = Pending] /\ cur' = cur
    BY <1>9 DEF Scan
  <2>4. todo'[w] = Pending /\ (\A r \in Procs \ {w} : todo'[r] = todo[r])
    BY <2>3 DEF TypeInv, TypeOK
  <2>5. PcOK' /\ LocalInv'
    BY <2>2, <2>3, <2>4, GotoLocal DEF WorkerPCs, DrainPCs, EventPCs, JobPCs, PathPCs
  <2> QED
    BY <1>9, <2>1, <2>2, <2>3, <2>5 DEF Scan, NoWrite, TypeInv, TypeOK, PcOK
<1>10. ASSUME NEW w \in Workers, NEW e \in todo[w], NEW d \in Dirs, HoldEvent(w, e, d)
       PROVE  TypeInv'
  <2>1. e \in Event
    BY DEF TypeInv, TypeOK
  <2>2. /\ Goto(w, "park") /\ cur' = [cur EXCEPT ![w] = e]
        /\ todo' = [todo EXCEPT ![w] = @ \ {e}]
    BY <1>10 DEF HoldEvent
  <2>3. /\ cur'[w] = e
        /\ \A r \in Procs \ {w} : todo'[r] = todo[r] /\ cur'[r] = cur[r]
    BY <2>2 DEF TypeInv, TypeOK
  <2>4. PcOK' /\ LocalInv'
    BY <2>1, <2>2, <2>3, GotoLocal DEF WorkerPCs, DrainPCs, PathPCs
  <2>5. parked' \subseteq File /\ clock' \in Nat
    BY <1>10, <2>1 DEF HoldEvent, Park, File, Event, TypeInv, TypeOK
  <2> QED
    BY <1>10, <2>1, <2>2, <2>4, <2>5 DEF HoldEvent, Lock, TypeInv, TypeOK, PcOK
<1>11. ASSUME NEW w \in Workers, HoldOne(w) PROVE TypeInv'
  <2>1. Unforced(todo[w]) \in SUBSET todo[w] /\ todo[w] \in SUBSET Event
    BY DEF Unforced, TypeInv, TypeOK
  <2>2. Oldest(Unforced(todo[w])) \in todo[w]
    BY <1>11, <2>1, OldestIn DEF HoldOne, TypeInv, TypeOK
  <2> QED
    BY <1>10, <1>11, <2>2 DEF HoldOne, Dirs
<1>12. ASSUME NEW w \in Workers, HoldDone(w) PROVE TypeInv'
  <2>1. PICK l \in {"pick", "release"} : Goto(w, l) /\ (l = "pick" => todo[w] # {})
    BY <1>12 DEF HoldDone
  <2>2. PcOK' /\ LocalInv'
    BY <1>12, <2>1, GotoLocal DEF HoldDone, WorkerPCs, DrainPCs, EventPCs, JobPCs, PathPCs
  <2> QED
    BY <1>12, <2>1, <2>2 DEF HoldDone, NoWrite, TypeInv, TypeOK, PcOK
<1>13. ASSUME NEW w \in Workers, HoldFinish(w) PROVE TypeInv'
  <2> DEFINE d == IF hold[w] THEN "held-all" ELSE "quarantine-large"
  <2>1. CASE Older(cur[w].path, d) # {}
    BY <1>13, <2>1 DEF HoldFinish, DropOlder, Older, TypeInv, TypeOK, LocalInv, EventPCs
  <2>2. CASE Older(cur[w].path, d) = {}
    <3>1. PICK l \in {"holding", "scan"}, s \in {"held", "quarantined"} :
            Goto(w, l) /\ Append(cur[w], s)
      BY <1>13, <2>2 DEF HoldFinish
    <3>2. Free /\ UNCHANGED <<todo, cur, parked>>
      BY <1>13, <2>2 DEF HoldFinish
    <3>3. cur[w] \in Event
      BY <1>13, LedgerAssumption DEF HoldFinish, TypeInv, LocalInv, EventPCs
    <3>4. LedgerOK'
      BY <3>1, <3>3, AppendType DEF TypeInv, Statuses
    <3>5. PcOK' /\ LocalInv'
      BY <3>1, <3>2, GotoLocal DEF WorkerPCs, DrainPCs, EventPCs, JobPCs, PathPCs
    <3> QED
      BY <1>13, <3>2, <3>4, <3>5 DEF HoldFinish, Free, TypeInv, TypeOK, LedgerOK, PcOK
  <2> QED
    BY <2>1, <2>2
<1>14. ASSUME NEW w \in Workers, QuarantineLarge(w) PROVE TypeInv'
  <2>1. Oldest(todo[w]) \in todo[w]
    BY <1>14, OldestIn DEF QuarantineLarge, TypeInv, TypeOK, LocalInv
  <2> QED
    BY <1>10, <1>14, <2>1 DEF QuarantineLarge, Dirs
<1>15. ASSUME NEW w \in Workers, Recycle(w) PROVE TypeInv'
  BY <1>15 DEF Recycle, NoWrite, Goto, TypeInv, TypeOK, LocalInv, EventPCs, JobPCs,
               PathPCs, WorkerPCs
<1>16. ASSUME NEW w \in Workers, SpawnSuccessor(w) PROVE TypeInv'
  <2>1. PICK v \in Workers :
          Start(v, hold[w]) /\ pc' = [pc EXCEPT ![w] = "exit", ![v] = "start"]
    BY <1>16 DEF SpawnSuccessor
  <2>2. PcOK'
    BY <2>1 DEF Start, PcOK, TypeInv, TypeOK, WorkerPCs
  <2>3. LocalInv'
    BY <1>16, <2>1 DEF SpawnSuccessor, TypeInv, TypeOK, LocalInv, EventPCs, JobPCs, PathPCs
  <2> QED
    BY <1>16, <2>1, <2>2, <2>3 DEF SpawnSuccessor, Start, TypeInv, TypeOK, PcOK
<1>17. ASSUME NEW w \in Workers, TakeJob(w) PROVE TypeInv'
  <2> DEFINE e == Oldest(todo[w])
  <2>1. e \in Event
    BY <1>17, OldestIn DEF TakeJob, TypeInv, TypeOK, LocalInv
  <2>2. /\ Append(e, "running") /\ Goto(w, "capture")
        /\ cur' = [cur EXCEPT ![w] = e] /\ todo' = [todo EXCEPT ![w] = {}]
    BY <1>17 DEF TakeJob
  <2> HIDE DEF e
  <2>3. LedgerOK'
    BY <2>1, <2>2, AppendType DEF TypeInv, Statuses, Active
  <2>4. /\ cur'[w] = e
        /\ \A r \in Procs \ {w} : todo'[r] = todo[r] /\ cur'[r] = cur[r]
    BY <2>2 DEF TypeInv, TypeOK
  <2>5. PcOK' /\ LocalInv'
    BY <2>1, <2>2, <2>4, GotoLocal DEF WorkerPCs, DrainPCs, PathPCs
  <2>6. /\ cur' \in [Procs -> Event \cup {NoEvent}]
        /\ todo' \in [Procs -> SUBSET Event]
    BY <2>1, <2>2 DEF TypeInv, TypeOK
  <2>7. UNCHANGED ledgerLock /\ fresh' = [fresh EXCEPT ![w] = FALSE]
    BY <1>17 DEF TakeJob, LockBriefly
  <2> QED
    BY <1>17, <2>3, <2>5, <2>6, <2>7
    DEF TakeJob, TypeInv, TypeOK, LedgerOK, PcOK
<1>18. ASSUME NEW w \in Workers, CaptureNothing(w) PROVE TypeInv'
  BY <1>18 DEF CaptureNothing, NothingNew, NoWrite, Goto, TypeInv, TypeOK, LocalInv,
               EventPCs, JobPCs, WorkerPCs, DrainPCs
<1>19. ASSUME NEW w \in Workers, CaptureFails(w) PROVE TypeInv'
  BY <1>19 DEF CaptureFails, NoWrite, Goto, TypeInv, TypeOK, LocalInv, EventPCs,
               JobPCs, PathPCs, WorkerPCs, DrainPCs
<1>20. ASSUME NEW w \in Workers, CaptureSlice(w) PROVE TypeInv'
  BY <1>20 DEF CaptureSlice, From, NoWrite, Goto, TypeInv, TypeOK, LocalInv, EventPCs,
               JobPCs, WorkerPCs, DrainPCs
<1>21. ASSUME NEW w \in Workers, WriteOffset(w) PROVE TypeInv'
  BY <1>21 DEF WriteOffset, NewOffset, AfterSlice, NoWrite, Goto, TypeInv, TypeOK,
               LocalInv, EventPCs, JobPCs, PathPCs, WorkerPCs, DrainPCs
<1>22. ASSUME NEW w \in Workers, NEW i \in Ids, Continue(w, i) PROVE TypeInv'
  <2> DEFINE e == [cur[w] EXCEPT !.id = i]
  <2>1. cur[w] \in Event /\ cur[w].path \in Paths
    BY <1>22 DEF Continue, TypeInv, LocalInv, EventPCs, JobPCs, PathPCs
  <2>2. e \in Event /\ e.path = cur[w].path /\ e.path # NoPath
    BY <2>1 DEF Event
  <2>3. EnqueueHeld(w, e) \/ EnqueueQueued(w, e)
    BY <1>22 DEF Continue
  <2>4. cur' = cur
    BY <1>22 DEF Continue
  <2> HIDE DEF e
  <2>5. /\ LedgerOK' /\ PcOK' /\ LocalInv'
        /\ parked' \subseteq File /\ used' \subseteq Ids
        /\ ledgerLock' \in Procs \cup {Operator, Nobody}
        /\ todo' \in [Procs -> SUBSET Event]
    BY <2>1, <2>2, <2>3, <2>4, HeldType, QueuedType
  <2> QED
    BY <1>22, <2>5 DEF Continue, TypeInv, TypeOK, LedgerOK, PcOK
<1>23. ASSUME NEW w \in Workers, ContinueTimeout(w) PROVE TypeInv'
  BY <1>23 DEF ContinueTimeout, NoWrite, Goto, TypeInv, TypeOK, LocalInv, EventPCs,
               JobPCs, PathPCs, WorkerPCs, DrainPCs
<1>24. ASSUME NEW w \in Workers, FinishJob(w) PROVE TypeInv'
  <2>1. PICK s \in {"done", "error"} : Append(cur[w], s)
    BY <1>24 DEF FinishJob
  <2>2. Goto(w, "scan") /\ cur' = [cur EXCEPT ![w] = NoEvent] /\ todo' = todo
    BY <1>24 DEF FinishJob
  <2>3. cur[w] \in Event
    BY <1>24 DEF FinishJob, TypeInv, LocalInv, EventPCs, JobPCs
  <2>4. LedgerOK'
    BY <2>1, <2>3, AppendType DEF TypeInv, Statuses
  <2>5. PcOK' /\ LocalInv'
    <3>1. \A r \in Procs \ {w} : cur'[r] = cur[r]
      BY <2>2 DEF TypeInv, TypeOK
    <3> QED
      BY <2>2, <3>1, GotoLocal DEF WorkerPCs, DrainPCs, EventPCs, JobPCs, PathPCs
  <2> QED
    BY <1>24, <2>2, <2>4, <2>5 DEF FinishJob, LockBriefly, TypeInv, TypeOK, LedgerOK, PcOK
<1>25. ASSUME NEW w \in Workers, Release(w) PROVE TypeInv'
  BY <1>25 DEF Release, NoWrite, Goto, TypeInv, TypeOK, LocalInv, EventPCs, JobPCs,
               PathPCs, WorkerPCs
<1>26. ASSUME NEW w \in Workers, Rescan(w) PROVE TypeInv'
  <2>1. PICK l \in {"start", "exit"} : Goto(w, l) /\ fresh' \in [Workers -> BOOLEAN]
    BY <1>26 DEF Rescan, TypeInv, TypeOK
  <2>2. PcOK' /\ LocalInv'
    BY <1>26, <2>1, GotoLocal DEF Rescan, WorkerPCs, EventPCs, JobPCs, PathPCs
  <2> QED
    BY <1>26, <2>1, <2>2 DEF Rescan, NoWrite, TypeInv, TypeOK, PcOK
<1>27. ASSUME NEW w \in Workers, Exit(w) PROVE TypeInv'
  BY <1>27 DEF Exit, Gone, NoWrite, Goto, TypeInv, TypeOK, LocalInv, EventPCs, JobPCs,
               PathPCs, WorkerPCs
<1>28. ASSUME NEW q \in Procs, Crash(q) PROVE TypeInv'
  BY <1>28 DEF Crash, Gone, NoWrite, Goto, TypeInv, TypeOK, LocalInv, EventPCs,
               HookLockPCs, JobPCs, PathPCs, HookPCs, WorkerPCs
<1>29. ASSUME NEW w \in Workers, NEW b \in HoldSettings, Drain(w, b) PROVE TypeInv'
  <2>1. Start(w, b) /\ Goto(w, "start") /\ b \in BOOLEAN
    BY <1>29 DEF Drain
  <2>2. PcOK' /\ LocalInv'
    BY <1>29, <2>1, GotoLocal DEF Drain, WorkerPCs, EventPCs, JobPCs, PathPCs
  <2>3. hold' \in [Procs -> BOOLEAN] /\ fresh' \in [Workers -> BOOLEAN]
    BY <2>1 DEF Start, TypeInv, TypeOK
  <2> QED
    BY <1>29, <2>2, <2>3 DEF Drain, NoWrite, TypeInv, TypeOK, PcOK
<1>30. ASSUME NEW S \in SUBSET Ids, RequeueErrors(S) PROVE TypeInv'
  <2>1. ledger' \in [Ids -> [path : Targets, forced : BOOLEAN, status : Statuses]]
    BY <1>30 DEF RequeueErrors, TypeInv, TypeOK, Statuses, Active
  <2> QED
    BY <1>30, <2>1 DEF RequeueErrors, LockBriefly, TypeInv, TypeOK, LocalInv, EventPCs
<1>31. CASE UNCHANGED vars
  BY <1>31 DEF TypeInv, TypeOK, LocalInv, EventPCs
<1> QED
  BY <1>1, <1>2, <1>3, <1>4, <1>5, <1>6, <1>7, <1>8, <1>9, <1>11, <1>12, <1>13,
     <1>14, <1>15, <1>16, <1>17, <1>18, <1>19, <1>20, <1>21, <1>22, <1>23, <1>24,
     <1>25, <1>26, <1>27, <1>28, <1>29, <1>30, <1>31
  DEF Next, HookStep, WorkerStep

\* The types hold at the start.
LEMMA TypeInit == Init => TypeInv
<1> SUFFICES ASSUME Init PROVE TypeInv
  OBVIOUS
<1> USE LedgerAssumption
<1>1. PcOK
  BY DEF Init, PcOK, HookPCs, WorkerPCs
<1>2. hold \in [Procs -> BOOLEAN]
  BY DEF Init
<1>3. LocalInv
  BY DEF Init, LocalInv, EventPCs, HookLockPCs, JobPCs, PathPCs
<1>4. ledger \in [Ids -> [path : Targets, forced : BOOLEAN, status : Statuses]]
  BY DEF Init, Targets, Statuses, Active
<1> QED
  BY <1>1, <1>2, <1>3, <1>4 DEF Init, TypeInv, TypeOK, PcOK

\* Every reachable state is well typed.
THEOREM TypeCorrect == Spec => []TypeOK
<1>1. TypeInv => TypeOK
  BY DEF TypeInv
<1> QED
  BY <1>1, TypeInit, TypeStep, PTL DEF Spec

-----------------------------------------------------------------------------
(* Locks *)

\* Locks are held exactly where the program counters say.
LockInv ==
  /\ \A w \in Workers : workerLock = w <=> pc[w] \in DrainPCs
  /\ \A h \in Hooks : ledgerLock = h <=> pc[h] \in HookLockPCs
  /\ \A w \in Workers : ledgerLock = w <=> pc[w] \in WorkerLockPCs

\* Every step keeps worker.lock and ledger.lock where the program counters say.
LEMMA LockStep == TypeInv /\ LockInv /\ [Next]_vars => LockInv'
<1> SUFFICES ASSUME TypeInv, LockInv, [Next]_vars PROVE LockInv'
  OBVIOUS
<1> USE LedgerAssumption
<1>1. ASSUME NEW p \in Paths, Grow(p) PROVE LockInv'
  BY <1>1
  DEF Grow, LockInv, HookLockPCs, WorkerLockPCs, DrainPCs, EnqueuePCs, TypeInv,
      TypeOK, HookPCs, WorkerPCs
<1>2. ASSUME NEW h \in Hooks, NEW t \in Targets, NEW i \in Ids, SessionEnd(h, t, i) PROVE LockInv'
  <2> DEFINE e == [id |-> i, path |-> t, forced |-> FALSE]
  <2>1. CASE EnqueueHeld(h, e)
    BY <1>2, <2>1 DEF SessionEnd, EnqueueHeld, Goto, Lock, LockInv, HookLockPCs, WorkerLockPCs, DrainPCs, EnqueuePCs, TypeInv, TypeOK
  <2>2. CASE EnqueueQueued(h, e)
    <3>1. PICK l \in {"run", "count", "finish", "supersede"} :
            /\ Goto(h, l)
            /\ l = "run" => h \in Hooks
            /\ l = "count" => h \in Hooks
            /\ l = "finish" => h \in Workers
            /\ ledgerLock = Nobody
            /\ ledgerLock' = IF l \in {"run", "supersede"} THEN h ELSE Nobody
      BY <1>2, <2>2 DEF EnqueueQueued, AfterQueued, Lock, LockBriefly
    <3> QED
      BY <1>2, <3>1 DEF SessionEnd, Goto, LockInv, HookLockPCs, WorkerLockPCs, DrainPCs, EnqueuePCs, TypeInv, TypeOK
  <2> QED
    BY <1>2, <2>1, <2>2 DEF SessionEnd
<1>3. ASSUME NEW q \in Procs, EnqueueDrop(q) PROVE LockInv'
  BY <1>3
  DEF EnqueueDrop, DropOlder, Older, AfterHeld, Goto, Free, LockInv, HookLockPCs,
      WorkerLockPCs, DrainPCs, EnqueuePCs, TypeInv, TypeOK, HookPCs, WorkerPCs
<1>4. ASSUME NEW q \in Procs, EnqueueSupersede(q) PROVE LockInv'
  BY <1>4
  DEF EnqueueSupersede, AfterQueued, Goto, Free, LockInv, HookLockPCs,
      WorkerLockPCs, DrainPCs, EnqueuePCs, TypeInv, TypeOK, HookPCs, WorkerPCs
<1>5. ASSUME NEW h \in Hooks, EnqueueNoPath(h) PROVE LockInv'
  BY <1>5
  DEF EnqueueNoPath, Goto, Free, LockInv, HookLockPCs, WorkerLockPCs, DrainPCs,
      EnqueuePCs, TypeInv, TypeOK, HookPCs, WorkerPCs
<1>6. ASSUME NEW h \in Hooks, SpawnCount(h) PROVE LockInv'
  BY <1>6
  DEF SpawnCount, Goto, LockInv, HookLockPCs, WorkerLockPCs, DrainPCs, EnqueuePCs,
      TypeInv, TypeOK, HookPCs, WorkerPCs
<1>7. ASSUME NEW h \in Hooks, Spawn(h) PROVE LockInv'
  BY <1>7
  DEF Spawn, Start, LockInv, HookLockPCs, WorkerLockPCs, DrainPCs, EnqueuePCs,
      TypeInv, TypeOK, HookPCs, WorkerPCs
<1>8. ASSUME NEW w \in Workers, TryWorkerLock(w) PROVE LockInv'
  BY <1>8
  DEF TryWorkerLock, WorkerLockFree, Goto, LockInv, HookLockPCs, WorkerLockPCs,
      DrainPCs, EnqueuePCs, TypeInv, TypeOK, HookPCs, WorkerPCs
<1>9. ASSUME NEW w \in Workers, Scan(w) PROVE LockInv'
  BY <1>9
  DEF Scan, Goto, LockInv, HookLockPCs, WorkerLockPCs, DrainPCs, EnqueuePCs,
      TypeInv, TypeOK, HookPCs, WorkerPCs
<1>10. ASSUME NEW w \in Workers, HoldOne(w) PROVE LockInv'
  BY <1>10
  DEF HoldOne, HoldEvent, Goto, Lock, LockInv, HookLockPCs, WorkerLockPCs, DrainPCs,
      EnqueuePCs, TypeInv, TypeOK, HookPCs, WorkerPCs
<1>11. ASSUME NEW w \in Workers, HoldDone(w) PROVE LockInv'
  BY <1>11
  DEF HoldDone, Goto, LockInv, HookLockPCs, WorkerLockPCs, DrainPCs, EnqueuePCs,
      TypeInv, TypeOK, HookPCs, WorkerPCs
<1>12. ASSUME NEW w \in Workers, HoldFinish(w) PROVE LockInv'
  <2>1. CASE UNCHANGED <<ledgerLock, pc>>
    BY <1>12, <2>1 DEF HoldFinish, LockInv
  <2>2. CASE Free /\ \E l \in {"holding", "scan"} : Goto(w, l)
    BY <1>12, <2>2 DEF HoldFinish, Goto, Free, LockInv, HookLockPCs, WorkerLockPCs, DrainPCs,
                    TypeInv, TypeOK
  <2> QED
    BY <1>12, <2>1, <2>2 DEF HoldFinish
<1>13. ASSUME NEW w \in Workers, QuarantineLarge(w) PROVE LockInv'
  BY <1>13
  DEF QuarantineLarge, HoldEvent, Goto, Lock, LockInv, HookLockPCs, WorkerLockPCs,
      DrainPCs, EnqueuePCs, TypeInv, TypeOK, HookPCs, WorkerPCs
<1>14. ASSUME NEW w \in Workers, Recycle(w) PROVE LockInv'
  BY <1>14
  DEF Recycle, Goto, LockInv, HookLockPCs, WorkerLockPCs, DrainPCs, EnqueuePCs,
      TypeInv, TypeOK, HookPCs, WorkerPCs
<1>15. ASSUME NEW w \in Workers, SpawnSuccessor(w) PROVE LockInv'
  BY <1>15
  DEF SpawnSuccessor, Start, LockInv, HookLockPCs, WorkerLockPCs, DrainPCs,
      EnqueuePCs, TypeInv, TypeOK, HookPCs, WorkerPCs
<1>16. ASSUME NEW w \in Workers, TakeJob(w) PROVE LockInv'
  BY <1>16
  DEF TakeJob, LockBriefly, Goto, LockInv, HookLockPCs, WorkerLockPCs, DrainPCs,
      EnqueuePCs, TypeInv, TypeOK, HookPCs, WorkerPCs
<1>17. ASSUME NEW w \in Workers, CaptureNothing(w) PROVE LockInv'
  BY <1>17
  DEF CaptureNothing, Goto, LockInv, HookLockPCs, WorkerLockPCs, DrainPCs,
      EnqueuePCs, TypeInv, TypeOK, HookPCs, WorkerPCs
<1>18. ASSUME NEW w \in Workers, CaptureFails(w) PROVE LockInv'
  BY <1>18
  DEF CaptureFails, Goto, LockInv, HookLockPCs, WorkerLockPCs, DrainPCs, EnqueuePCs,
      TypeInv, TypeOK, HookPCs, WorkerPCs
<1>19. ASSUME NEW w \in Workers, CaptureSlice(w) PROVE LockInv'
  BY <1>19
  DEF CaptureSlice, From, Goto, LockInv, HookLockPCs, WorkerLockPCs, DrainPCs,
      EnqueuePCs, TypeInv, TypeOK, HookPCs, WorkerPCs
<1>20. ASSUME NEW w \in Workers, WriteOffset(w) PROVE LockInv'
  BY <1>20
  DEF WriteOffset, NewOffset, AfterSlice, Goto, LockInv, HookLockPCs, WorkerLockPCs,
      DrainPCs, EnqueuePCs, TypeInv, TypeOK, HookPCs, WorkerPCs
<1>21. ASSUME NEW w \in Workers, NEW i \in Ids, Continue(w, i) PROVE LockInv'
  <2> DEFINE e == [cur[w] EXCEPT !.id = i]
  <2>1. CASE EnqueueHeld(w, e)
    BY <1>21, <2>1 DEF Continue, EnqueueHeld, Goto, Lock, LockInv, HookLockPCs, WorkerLockPCs, DrainPCs, EnqueuePCs, TypeInv, TypeOK
  <2>2. CASE EnqueueQueued(w, e)
    <3>1. PICK l \in {"run", "count", "finish", "supersede"} :
            /\ Goto(w, l)
            /\ l = "run" => w \in Hooks
            /\ l = "count" => w \in Hooks
            /\ l = "finish" => w \in Workers
            /\ ledgerLock = Nobody
            /\ ledgerLock' = IF l \in {"run", "supersede"} THEN w ELSE Nobody
      BY <1>21, <2>2 DEF Continue, TypeInv, LocalInv, PathPCs, EnqueueQueued, AfterQueued, Lock, LockBriefly
    <3> QED
      BY <1>21, <3>1 DEF Continue, Goto, LockInv, HookLockPCs, WorkerLockPCs, DrainPCs, EnqueuePCs, TypeInv, TypeOK
  <2> QED
    BY <1>21, <2>1, <2>2 DEF Continue
<1>22. ASSUME NEW w \in Workers, ContinueTimeout(w) PROVE LockInv'
  BY <1>22
  DEF ContinueTimeout, Goto, LockInv, HookLockPCs, WorkerLockPCs, DrainPCs,
      EnqueuePCs, TypeInv, TypeOK, HookPCs, WorkerPCs
<1>23. ASSUME NEW w \in Workers, FinishJob(w) PROVE LockInv'
  BY <1>23
  DEF FinishJob, LockBriefly, Goto, LockInv, HookLockPCs, WorkerLockPCs, DrainPCs,
      EnqueuePCs, TypeInv, TypeOK, HookPCs, WorkerPCs
<1>24. ASSUME NEW w \in Workers, Release(w) PROVE LockInv'
  BY <1>24
  DEF Release, Goto, LockInv, HookLockPCs, WorkerLockPCs, DrainPCs, EnqueuePCs,
      TypeInv, TypeOK, HookPCs, WorkerPCs
<1>25. ASSUME NEW w \in Workers, Rescan(w) PROVE LockInv'
  BY <1>25
  DEF Rescan, Goto, LockInv, HookLockPCs, WorkerLockPCs, DrainPCs, EnqueuePCs,
      TypeInv, TypeOK, HookPCs, WorkerPCs
<1>26. ASSUME NEW w \in Workers, Exit(w) PROVE LockInv'
  BY <1>26
  DEF Exit, Gone, Goto, LockInv, HookLockPCs, WorkerLockPCs, DrainPCs, EnqueuePCs,
      TypeInv, TypeOK, HookPCs, WorkerPCs
<1>27. ASSUME NEW q \in Procs, Crash(q) PROVE LockInv'
  BY <1>27
  DEF Crash, Gone, Goto, LockInv, HookLockPCs, WorkerLockPCs, DrainPCs, EnqueuePCs,
      TypeInv, TypeOK, HookPCs, WorkerPCs
<1>28. ASSUME NEW w \in Workers, NEW b \in HoldSettings, Drain(w, b) PROVE LockInv'
  BY <1>28
  DEF Drain, Start, Goto, LockInv, HookLockPCs, WorkerLockPCs, DrainPCs, EnqueuePCs,
      TypeInv, TypeOK, HookPCs, WorkerPCs
<1>29. ASSUME NEW S \in SUBSET Ids, RequeueErrors(S) PROVE LockInv'
  BY <1>29
  DEF RequeueErrors, LockBriefly, LockInv, HookLockPCs, WorkerLockPCs, DrainPCs,
      EnqueuePCs, TypeInv, TypeOK, HookPCs, WorkerPCs
<1>30. CASE UNCHANGED vars
  BY <1>30 DEF LockInv
<1> QED
  BY <1>1, <1>2, <1>3, <1>4, <1>5, <1>6, <1>7, <1>8, <1>9, <1>10, <1>11,
     <1>12, <1>13, <1>14, <1>15, <1>16, <1>17, <1>18, <1>19, <1>20, <1>21,
     <1>22, <1>23, <1>24, <1>25, <1>26, <1>27, <1>28, <1>29, <1>30
  DEF Next, HookStep, WorkerStep

\* At the start nobody holds a lock.
LEMMA LockInit == Init => LockInv
  BY LedgerAssumption DEF Init, LockInv, HookLockPCs, WorkerLockPCs, DrainPCs, EnqueuePCs

-----------------------------------------------------------------------------
(* The ledger and what processes remember of it *)

\* An id has no event before it is given out.
IdInv == \A i \in Ids : ledger[i].status # "none" => i \in used

\* An event read from the ledger keeps its id and transcript there.
MemoryInv ==
  /\ \A q \in Procs : \A e \in todo[q] :
       ledger[e.id].path = e.path /\ ledger[e.id].status # "none"
  /\ \A w \in Workers : pc[w] = "park" =>
       ledger[cur[w].id].path = cur[w].path /\ ledger[cur[w].id].status # "none"

\* The event a worker captures is running, unless release_held superseded it.
JobInv ==
  \A w \in Workers : pc[w] \in JobPCs =>
    /\ ledger[cur[w].id].status \in {"running", "superseded"}
    /\ ledger[cur[w].id].path = cur[w].path

\* No worker can take the event of a SessionEnd without a transcript before
\* the hook has recorded its error.
NoPathInv ==
  \A h \in Hooks : pc[h] \in {"run", "fail"} =>
    /\ cur[h].path = NoPath /\ ledger[cur[h].id].path = NoPath
    /\ ledger[cur[h].id].status # "none"
    /\ pc[h] = "run" => ledger[cur[h].id].status = "queued"
    /\ \A w \in Workers : pc[w] \in JobPCs \cup {"park"} => cur[w].id # cur[h].id

\* While events are superseded they are queued, and so is their replacement.
SupersedeInv ==
  \A q \in Procs : pc[q] = "supersede" =>
    /\ \A e \in todo[q] : /\ e = Record(e.id) /\ ledger[e.id].status = "queued"
                          /\ e.path = cur[q].path
    /\ \E i \in Ids : /\ ledger[i].status = "queued"
                      /\ ledger[i].path = cur[q].path
                      /\ \A e \in todo[q] : e.id # i

LedgerInv == IdInv /\ MemoryInv /\ JobInv /\ NoPathInv /\ SupersedeInv

\* An append writes the record of its own event and no other.
LEMMA AppendLedger ==
  ASSUME TypeInv, NEW e \in Event, NEW s, Append(e, s)
  PROVE  /\ ledger'[e.id] = [path |-> e.path, forced |-> e.forced, status |-> s]
         /\ \A i \in Ids \ {e.id} : ledger'[i] = ledger[i]
  BY DEF TypeInv, TypeOK, Append, Event

\* An enqueue by q, of a new event for the transcript q works on.
LEMMA EnqueueLedger ==
  ASSUME TypeInv, LockInv, LedgerInv, NEW q \in Procs, NEW e \in Event,
         e.id \notin used, EnqueueHeld(q, e) \/ EnqueueQueued(q, e),
         q \in Hooks => cur'[q] = e,
         q \in Workers => pc[q] = "continue" /\ cur'[q] = cur[q],
         cur'[q].path = e.path,
         \A r \in Procs \ {q} : cur'[r] = cur[r]
  PROVE  LedgerInv'
<1> USE LedgerAssumption
<1>1. ledger[e.id].status = "none" /\ e.id \in Ids
  BY DEF LedgerInv, IdInv, Event
<1>2. CASE EnqueueHeld(q, e)
  BY <1>2 DEF EnqueueHeld, Goto, TypeInv, TypeOK, LedgerInv, IdInv, MemoryInv, JobInv,
              NoPathInv, SupersedeInv, Record, JobPCs
<1>3. CASE EnqueueQueued(q, e)
  <2> DEFINE f == [e EXCEPT !.forced = Mark(e)]
  <2>1. f \in Event /\ f.id = e.id /\ f.path = e.path
    BY DEF Event, Mark
  <2>2. /\ ledger'[e.id].path = e.path /\ ledger'[e.id].status = "queued"
        /\ \A i \in Ids \ {e.id} : ledger'[i] = ledger[i]
    <3>1. Append(f, "queued")
      BY <1>3 DEF EnqueueQueued
    <3> HIDE DEF f
    <3>2. /\ ledger'[f.id] = [path |-> f.path, forced |-> f.forced, status |-> "queued"]
          /\ \A i \in Ids \ {f.id} : ledger'[i] = ledger[i]
      BY <2>1, <3>1, AppendLedger
    <3> QED
      BY <2>1, <3>2
  <2>3. /\ used' = used \cup {e.id} /\ todo'[q] = Stale(e)
        /\ \A r \in Procs \ {q} : todo'[r] = todo[r]
    BY <1>3 DEF EnqueueQueued, TypeInv, TypeOK
  <2>4. \A r \in Procs : pc[r] \notin {"supersede"} /\ (r \in Hooks => pc[r] \notin HookLockPCs)
    BY <1>3 DEF EnqueueQueued, Lock, LockBriefly, LockInv, HookLockPCs, WorkerLockPCs
  <2>5. PICK l \in {"run", "count", "finish", "supersede"} :
          /\ Goto(q, l)
          /\ l = "run" => e.path = NoPath
    <3>1. CASE e.path = NoPath
      BY <1>3, <3>1 DEF EnqueueQueued
    <3>2. CASE e.path # NoPath
      BY <1>3, <3>2 DEF EnqueueQueued, AfterQueued
    <3> QED
      BY <3>1, <3>2
  <2>6. /\ pc'[q] = l /\ \A r \in Procs \ {q} : pc'[r] = pc[r]
    BY <2>5 DEF Goto, TypeInv, TypeOK
  <2>7. \A g \in Stale(e) : /\ g.id \in Ids \ {e.id} /\ g = Record(g.id)
                            /\ ledger[g.id].status = "queued"
                            /\ g.path = e.path /\ ledger[g.id].path = g.path
    BY <1>1 DEF Stale, QueuedFor, Record
  <2>8. IdInv'
    BY <2>2, <2>3 DEF LedgerInv, IdInv
  <2>9. MemoryInv'
    <3>1. \A r \in Procs : \A g \in todo'[r] :
            ledger'[g.id].path = g.path /\ ledger'[g.id].status # "none"
      <4> SUFFICES ASSUME NEW r \in Procs, NEW g \in todo'[r]
                   PROVE  ledger'[g.id].path = g.path /\ ledger'[g.id].status # "none"
        OBVIOUS
      <4>1. CASE r = q
        BY <2>2, <2>3, <2>7, <4>1
      <4>2. CASE r # q
        <5>1. /\ g \in todo[r] /\ g.id \in Ids
              /\ ledger[g.id].path = g.path /\ ledger[g.id].status # "none"
          BY <2>3, <4>2 DEF LedgerInv, MemoryInv, TypeInv, TypeOK, Event
        <5> QED
          BY <1>1, <2>2, <5>1
      <4> QED
        BY <4>1, <4>2
    <3>2. \A w \in Workers : pc'[w] = "park" =>
            ledger'[cur'[w].id].path = cur'[w].path /\ ledger'[cur'[w].id].status # "none"
      <4> SUFFICES ASSUME NEW w \in Workers, pc'[w] = "park"
                   PROVE  ledger'[cur'[w].id].path = cur'[w].path
                          /\ ledger'[cur'[w].id].status # "none"
        OBVIOUS
      <4>1. w # q /\ pc[w] = "park" /\ cur'[w] = cur[w] /\ cur[w] \in Event
        BY <2>5, <2>6 DEF TypeInv, LocalInv, EventPCs
      <4> QED
        BY <1>1, <2>2, <4>1 DEF LedgerInv, MemoryInv, Event
    <3> QED
      BY <3>1, <3>2 DEF MemoryInv
  <2>10. ASSUME NEW w \in Workers, pc'[w] \in JobPCs
         PROVE  /\ cur'[w] = cur[w] /\ cur[w] \in Event /\ cur[w].id # e.id
                /\ ledger[cur[w].id].status \in {"running", "superseded"}
                /\ ledger[cur[w].id].path = cur[w].path
    <3>1. cur'[w] = cur[w] /\ pc[w] \in JobPCs
      BY <2>6, <2>10 DEF JobPCs
    <3> QED
      BY <1>1, <3>1 DEF TypeInv, LocalInv, EventPCs, LedgerInv, JobInv
  <2>11. JobInv'
    BY <2>2, <2>10 DEF JobInv, Event
  <2>12. NoPathInv'
    <3> SUFFICES ASSUME NEW h \in Hooks, pc'[h] \in {"run", "fail"}
                 PROVE  /\ cur'[h].path = NoPath /\ ledger'[cur'[h].id].path = NoPath
                        /\ ledger'[cur'[h].id].status = "queued" /\ pc'[h] = "run"
                        /\ \A w \in Workers :
                             pc'[w] \in JobPCs \cup {"park"} => cur'[w].id # cur'[h].id
      BY DEF NoPathInv
    <3>1. h = q /\ l = "run" /\ cur'[h] = e /\ e.path = NoPath
      BY <2>4, <2>5, <2>6 DEF HookLockPCs
    <3>2. \A w \in Workers : pc'[w] = "park" => cur'[w].id # e.id
      BY <1>1, <2>5, <2>6, <3>1 DEF LedgerInv, MemoryInv
    <3> QED
      BY <2>2, <2>6, <2>10, <3>1, <3>2
  <2>13. SupersedeInv'
    <3> SUFFICES ASSUME NEW r \in Procs, pc'[r] = "supersede"
                 PROVE  /\ \A g \in todo'[r] :
                             /\ g = Record(g.id)' /\ ledger'[g.id].status = "queued"
                             /\ g.path = cur'[r].path
                        /\ \E i \in Ids : /\ ledger'[i].status = "queued"
                                          /\ ledger'[i].path = cur'[r].path
                                          /\ \A g \in todo'[r] : g.id # i
      BY DEF SupersedeInv
    <3>1. r = q
      BY <2>4, <2>6
    <3>2. \A g \in Stale(e) : g = Record(g.id)' /\ ledger'[g.id].status = "queued"
      BY <2>2, <2>7 DEF Record
    <3> QED
      BY <1>1, <2>2, <2>3, <2>7, <3>1, <3>2
  <2> QED
    BY <2>8, <2>9, <2>11, <2>12, <2>13 DEF LedgerInv
<1> QED
  BY <1>2, <1>3

\* Events read earlier stay valid while the ledger keeps its ids and transcripts.
LEMMA MemoryKeeps ==
  ASSUME TypeInv, LedgerInv,
         \A i \in Ids : /\ ledger'[i].path = ledger[i].path
                        /\ ledger[i].status # "none" => ledger'[i].status # "none",
         \A r \in Procs : todo'[r] \subseteq todo[r],
         \A w \in Workers : pc'[w] = "park" => pc[w] = "park" /\ cur'[w] = cur[w]
  PROVE  MemoryInv'
<1>1. ASSUME NEW r \in Procs, NEW e \in todo'[r]
      PROVE  ledger'[e.id].path = e.path /\ ledger'[e.id].status # "none"
  <2>1. e \in todo[r] /\ e.id \in Ids
    BY DEF TypeInv, TypeOK, Event
  <2> QED
    BY <2>1 DEF LedgerInv, MemoryInv
<1>2. ASSUME NEW w \in Workers, pc'[w] = "park"
      PROVE  ledger'[cur'[w].id].path = cur'[w].path /\ ledger'[cur'[w].id].status # "none"
  <2>1. pc[w] = "park" /\ cur'[w] = cur[w] /\ cur[w].id \in Ids
    BY <1>2, LedgerAssumption DEF TypeInv, LocalInv, EventPCs, Event
  <2> QED
    BY <2>1 DEF LedgerInv, MemoryInv
<1> QED
  BY <1>1, <1>2 DEF MemoryInv

\* A new record of an event it already has leaves what was read valid.
LEMMA AppendKeeps ==
  ASSUME TypeInv, LedgerInv, NEW e \in Event, NEW s \in Statuses \ {"none"},
         Append(e, s), ledger[e.id].path = e.path, ledger[e.id].status # "none",
         used' = used
  PROVE  /\ IdInv'
         /\ \A i \in Ids : /\ ledger'[i].path = ledger[i].path
                           /\ ledger[i].status # "none" => ledger'[i].status # "none"
         /\ \A i \in Ids \ {e.id} : ledger'[i] = ledger[i]
         /\ ledger'[e.id].status = s
<1>1. /\ ledger'[e.id] = [path |-> e.path, forced |-> e.forced, status |-> s]
      /\ \A i \in Ids \ {e.id} : ledger'[i] = ledger[i]
  BY AppendLedger
<1>2. e.id \in Ids
  BY DEF Event
<1> QED
  BY <1>1, <1>2 DEF LedgerInv, IdInv

\* Superseding the replaced events one by one keeps LedgerInv.
LEMMA LedgerSupersede ==
  ASSUME TypeInv, LockInv, LedgerInv, NEW q \in Procs, EnqueueSupersede(q)
  PROVE  LedgerInv'
<1> USE LedgerAssumption
<1> DEFINE e == Oldest(todo[q])
<1>1. e \in todo[q] /\ e \in Event
  BY OldestIn DEF EnqueueSupersede, TypeInv, TypeOK, LocalInv
<1>2. /\ e = Record(e.id) /\ ledger[e.id].status = "queued" /\ e.path = cur[q].path
      /\ ledger[e.id].path = e.path
  BY <1>1 DEF EnqueueSupersede, LedgerInv, SupersedeInv, MemoryInv
<1>3. Append(e, "superseded") /\ UNCHANGED <<used, cur>>
  BY DEF EnqueueSupersede
<1>4. todo'[q] = todo[q] \ {e} /\ \A r \in Procs \ {q} : todo'[r] = todo[r]
  BY DEF EnqueueSupersede, TypeInv, TypeOK
<1>5. /\ pc[q] = "supersede" /\ \A r \in Procs \ {q} : pc'[r] = pc[r]
      /\ pc'[q] \in {"supersede", "count", "finish"}
  BY DEF EnqueueSupersede, AfterQueued, Goto, TypeInv, TypeOK
<1>6. /\ ledgerLock = q /\ \A r \in Procs \ {q} : pc[r] # "supersede"
      /\ \A h \in Hooks : pc[h] \notin {"run", "fail"}
  BY <1>5 DEF LockInv, HookLockPCs, WorkerLockPCs
<1> HIDE DEF e
<1>7. /\ IdInv'
      /\ \A i \in Ids : /\ ledger'[i].path = ledger[i].path
                        /\ ledger[i].status # "none" => ledger'[i].status # "none"
      /\ \A i \in Ids \ {e.id} : ledger'[i] = ledger[i]
  BY <1>1, <1>2, <1>3, AppendKeeps DEF Statuses
<1>8. MemoryInv'
  BY <1>3, <1>4, <1>5, <1>7, MemoryKeeps
<1>9. JobInv'
  <2>1. ASSUME NEW w \in Workers, pc'[w] \in JobPCs PROVE pc[w] \in JobPCs
    BY <1>5, <2>1 DEF JobPCs
  <2> QED
    BY <1>2, <1>3, <1>7, <2>1 DEF LedgerInv, JobInv, TypeInv, LocalInv, EventPCs, Event
<1>10. NoPathInv'
  BY <1>5, <1>6 DEF NoPathInv
<1>11. SupersedeInv'
  <2> SUFFICES ASSUME pc'[q] = "supersede"
               PROVE  /\ \A g \in todo'[q] :
                           /\ g = Record(g.id)' /\ ledger'[g.id].status = "queued"
                           /\ g.path = cur'[q].path
                      /\ \E i \in Ids : /\ ledger'[i].status = "queued"
                                        /\ ledger'[i].path = cur'[q].path
                                        /\ \A g \in todo'[q] : g.id # i
    BY <1>5, <1>6 DEF SupersedeInv
  <2>1. ASSUME NEW g \in todo'[q]
        PROVE  g = Record(g.id)' /\ ledger'[g.id].status = "queued" /\ g.path = cur'[q].path
    <3>1. /\ g \in todo[q] /\ g # e /\ g.id \in Ids
          /\ g = Record(g.id) /\ ledger[g.id].status = "queued" /\ g.path = cur[q].path
      BY <1>4, <1>5, <2>1 DEF LedgerInv, SupersedeInv, TypeInv, TypeOK, Event
    <3>2. g.id # e.id
      BY <1>2, <3>1
    <3> QED
      BY <1>3, <1>7, <3>1, <3>2 DEF Record
  <2>2. PICK i \in Ids : /\ ledger[i].status = "queued" /\ ledger[i].path = cur[q].path
                         /\ \A g \in todo[q] : g.id # i
    BY <1>5 DEF LedgerInv, SupersedeInv
  <2> QED
    BY <1>1, <1>3, <1>4, <1>7, <2>1, <2>2
<1> QED
  BY <1>7, <1>8, <1>9, <1>10, <1>11 DEF LedgerInv

\* Recording the error of a SessionEnd without a transcript keeps LedgerInv.
LEMMA LedgerNoPath ==
  ASSUME TypeInv, LockInv, LedgerInv, NEW h \in Hooks, EnqueueNoPath(h)
  PROVE  LedgerInv'
<1> USE LedgerAssumption
<1>1. /\ cur[h] \in Event /\ ledger[cur[h].id].path = cur[h].path
      /\ ledger[cur[h].id].status # "none"
      /\ \A w \in Workers : pc[w] \in JobPCs \cup {"park"} => cur[w].id # cur[h].id
      /\ cur[h].path = NoPath
  BY DEF EnqueueNoPath, TypeInv, LocalInv, EventPCs, HookLockPCs, LedgerInv, NoPathInv
<1>2. UNCHANGED <<used, cur, todo>>
  BY DEF EnqueueNoPath
<1>3. PICK s \in {"running", "error"} :
        /\ Append(cur[h], s)
        /\ pc' = [pc EXCEPT ![h] = IF s = "running" THEN "fail" ELSE "gone"]
  BY DEF EnqueueNoPath, Goto
<1>4. /\ pc[h] \in HookLockPCs \ {"supersede"} /\ \A r \in Procs \ {h} : pc'[r] = pc[r]
      /\ pc'[h] = IF s = "running" THEN "fail" ELSE "gone"
  BY <1>3 DEF EnqueueNoPath, HookLockPCs, TypeInv, TypeOK
<1>5. /\ \A r \in Procs : pc[r] # "supersede"
      /\ \A g \in Hooks \ {h} : pc[g] \notin {"run", "fail"}
  BY <1>4 DEF LockInv, HookLockPCs, WorkerLockPCs
<1>6. /\ IdInv'
      /\ \A i \in Ids : /\ ledger'[i].path = ledger[i].path
                        /\ ledger[i].status # "none" => ledger'[i].status # "none"
      /\ \A i \in Ids \ {cur[h].id} : ledger'[i] = ledger[i]
      /\ ledger'[cur[h].id].status = s
  BY <1>1, <1>2, <1>3, AppendKeeps DEF Statuses, Active
<1>7. MemoryInv'
  BY <1>2, <1>4, <1>6, MemoryKeeps
<1>8. JobInv'
  BY <1>1, <1>2, <1>4, <1>6 DEF LedgerInv, JobInv, TypeInv, LocalInv, EventPCs, Event
<1>9. NoPathInv'
  <2>1. pc'[h] # "run" /\ (pc'[h] = "fail" => s = "running")
    BY <1>4
  <2>2. ledger'[cur[h].id].path = NoPath /\ ledger'[cur[h].id].status # "none"
    BY <1>1, <1>6 DEF Event
  <2> QED
    BY <1>1, <1>2, <1>4, <1>5, <2>1, <2>2 DEF NoPathInv
<1>10. SupersedeInv'
  BY <1>4, <1>5 DEF SupersedeInv
<1> QED
  BY <1>6, <1>7, <1>8, <1>9, <1>10 DEF LedgerInv

\* Taking the oldest event, with a record read without the lock, keeps LedgerInv.
LEMMA LedgerTakeJob ==
  ASSUME TypeInv, LockInv, LedgerInv, NEW w \in Workers, TakeJob(w)
  PROVE  LedgerInv'
<1> USE LedgerAssumption
<1> DEFINE e == Oldest(todo[w])
<1>1. e \in todo[w] /\ e \in Event
  BY OldestIn DEF TakeJob, TypeInv, TypeOK, LocalInv
<1>2. ledger[e.id].path = e.path /\ ledger[e.id].status # "none"
  BY <1>1 DEF LedgerInv, MemoryInv
<1>3. Append(e, "running") /\ used' = used
  BY DEF TakeJob
<1>4. /\ cur'[w] = e /\ todo'[w] = {} /\ pc'[w] = "capture" /\ pc[w] = "pick"
      /\ \A r \in Procs \ {w} : cur'[r] = cur[r] /\ todo'[r] = todo[r] /\ pc'[r] = pc[r]
  BY DEF TakeJob, Goto, TypeInv, TypeOK
<1>5. \A r \in Procs : pc[r] # "supersede" /\ (r \in Hooks => pc[r] \notin HookLockPCs)
  BY DEF TakeJob, LockBriefly, LockInv, HookLockPCs, WorkerLockPCs
<1>6. \A v \in Workers \ {w} : pc[v] \notin DrainPCs
  BY <1>4 DEF LockInv, DrainPCs
<1> HIDE DEF e
<1>7. /\ IdInv'
      /\ \A i \in Ids : /\ ledger'[i].path = ledger[i].path
                        /\ ledger[i].status # "none" => ledger'[i].status # "none"
      /\ ledger'[e.id].status = "running"
  BY <1>1, <1>2, <1>3, AppendKeeps DEF Statuses, Active
<1>8. MemoryInv'
  BY <1>4, <1>7, MemoryKeeps
<1>9. JobInv'
  BY <1>1, <1>2, <1>4, <1>6, <1>7 DEF JobInv, JobPCs, DrainPCs, EnqueuePCs, Event
<1>10. NoPathInv' /\ SupersedeInv'
  BY <1>4, <1>5 DEF NoPathInv, SupersedeInv, HookLockPCs
<1> QED
  BY <1>7, <1>8, <1>9, <1>10 DEF LedgerInv

\* Publishing a parked file leaves the ledger as it was.
LEMMA LedgerHoldEvent ==
  ASSUME TypeInv, LockInv, LedgerInv, NEW w \in Workers, NEW e \in todo[w], NEW d,
         HoldEvent(w, e, d)
  PROVE  LedgerInv'
<1> USE LedgerAssumption
<1>1. /\ e \in Event /\ ledger[e.id].path = e.path /\ ledger[e.id].status # "none"
  BY DEF LedgerInv, MemoryInv, TypeInv, TypeOK
<1>2. UNCHANGED <<used, ledger>> /\ ledgerLock = Nobody
  BY DEF HoldEvent, Lock
<1>3. /\ cur'[w] = e /\ todo'[w] = todo[w] \ {e} /\ pc'[w] = "park"
      /\ \A r \in Procs \ {w} : cur'[r] = cur[r] /\ todo'[r] = todo[r] /\ pc'[r] = pc[r]
  BY DEF HoldEvent, Goto, TypeInv, TypeOK
<1>4. \A r \in Procs : pc[r] # "supersede" /\ (r \in Hooks => pc[r] \notin HookLockPCs)
  BY <1>2 DEF LockInv, HookLockPCs, WorkerLockPCs
<1>5. MemoryInv'
  BY <1>1, <1>2, <1>3 DEF LedgerInv, MemoryInv
<1>6. IdInv' /\ JobInv'
  BY <1>2, <1>3 DEF LedgerInv, IdInv, JobInv, JobPCs
<1>7. NoPathInv' /\ SupersedeInv'
  BY <1>3, <1>4 DEF NoPathInv, SupersedeInv, HookLockPCs
<1> QED
  BY <1>5, <1>6, <1>7 DEF LedgerInv

\* Recording that an event was parked keeps LedgerInv.
LEMMA LedgerHoldFinish ==
  ASSUME TypeInv, LockInv, LedgerInv, NEW w \in Workers, HoldFinish(w)
  PROVE  LedgerInv'
<1> USE LedgerAssumption
<1> DEFINE d == IF hold[w] THEN "held-all" ELSE "quarantine-large"
<1>1. CASE Older(cur[w].path, d) # {}
  BY <1>1 DEF HoldFinish, LedgerInv, IdInv, MemoryInv, JobInv, NoPathInv, SupersedeInv, Record
<1>2. CASE Older(cur[w].path, d) = {}
  <2>1. PICK l \in {"holding", "scan"}, s \in {"held", "quarantined"} :
          Goto(w, l) /\ Append(cur[w], s)
    BY <1>2 DEF HoldFinish
  <2>2. pc[w] = "park" /\ UNCHANGED <<used, cur, todo>>
    BY DEF HoldFinish
  <2>3. /\ cur[w] \in Event /\ ledger[cur[w].id].path = cur[w].path
        /\ ledger[cur[w].id].status # "none"
    BY <2>2 DEF TypeInv, LocalInv, EventPCs, LedgerInv, MemoryInv
  <2>4. /\ pc'[w] = l /\ \A r \in Procs \ {w} : pc'[r] = pc[r]
    BY <2>1 DEF Goto, TypeInv, TypeOK
  <2>5. \A r \in Procs : pc[r] # "supersede" /\ (r \in Hooks => pc[r] \notin HookLockPCs)
    BY <2>2 DEF LockInv, HookLockPCs, WorkerLockPCs
  <2>6. \A v \in Workers \ {w} : pc[v] \notin DrainPCs
    BY <2>2 DEF LockInv, DrainPCs
  <2>7. /\ IdInv'
        /\ \A i \in Ids : /\ ledger'[i].path = ledger[i].path
                          /\ ledger[i].status # "none" => ledger'[i].status # "none"
    BY <2>1, <2>2, <2>3, AppendKeeps DEF Statuses
  <2>8. MemoryInv'
    BY <2>2, <2>4, <2>7, MemoryKeeps
  <2>9. JobInv'
    BY <2>4, <2>6 DEF JobInv, JobPCs, DrainPCs, EnqueuePCs
  <2>10. NoPathInv' /\ SupersedeInv'
    BY <2>4, <2>5 DEF NoPathInv, SupersedeInv, HookLockPCs
  <2> QED
    BY <2>7, <2>8, <2>9, <2>10 DEF LedgerInv
<1> QED
  BY <1>1, <1>2

\* A process that leaves its event, or has none, keeps LedgerInv.
LEMMA LedgerLeave ==
  ASSUME LedgerInv, UNCHANGED <<ledger, used>>, NEW q \in Procs,
         pc'[q] \in {"gone", "off", "start", "exit"}, todo'[q] \subseteq todo[q],
         \A r \in Procs \ {q} : pc'[r] = pc[r] /\ todo'[r] = todo[r] /\ cur'[r] = cur[r]
  PROVE  LedgerInv'
<1>1. IdInv' /\ MemoryInv' /\ JobInv'
  BY DEF LedgerInv, IdInv, MemoryInv, JobInv, JobPCs
<1>2. NoPathInv'
  BY DEF LedgerInv, NoPathInv, JobPCs
<1>3. SupersedeInv'
  BY DEF LedgerInv, SupersedeInv, Record
<1> QED
  BY <1>1, <1>2, <1>3 DEF LedgerInv

\* Every step keeps LedgerInv.
LEMMA LedgerStep == TypeInv /\ LockInv /\ LedgerInv /\ [Next]_vars => LedgerInv'
<1> SUFFICES ASSUME TypeInv, LockInv, LedgerInv, [Next]_vars PROVE LedgerInv'
  OBVIOUS
<1> USE LedgerAssumption
<1>1. ASSUME NEW p \in Paths, Grow(p) PROVE LedgerInv'
  BY <1>1
  DEF Grow, TypeInv, TypeOK, LedgerInv, IdInv, MemoryInv, JobInv, NoPathInv,
      SupersedeInv, Record, JobPCs
<1>2. ASSUME NEW h \in Hooks, NEW t \in Targets, NEW i \in Ids, SessionEnd(h, t, i) PROVE LedgerInv'
  <2> DEFINE e == [id |-> i, path |-> t, forced |-> FALSE]
  <2>1. /\ e \in Event /\ e.id \notin used
        /\ EnqueueHeld(h, e) \/ EnqueueQueued(h, e)
    BY <1>2 DEF SessionEnd, Event
  <2>2. cur'[h] = e /\ \A r \in Procs \ {h} : cur'[r] = cur[r]
    BY <1>2 DEF SessionEnd, TypeInv, TypeOK
  <2> HIDE DEF e
  <2> QED
    BY <2>1, <2>2, EnqueueLedger
<1>3. ASSUME NEW q \in Procs, EnqueueDrop(q) PROVE LedgerInv'
  BY <1>3
  DEF EnqueueDrop, DropOlder, Older, AfterHeld, Goto, Free, TypeInv, TypeOK,
      LedgerInv, IdInv, MemoryInv, JobInv, NoPathInv, SupersedeInv, Record, JobPCs
<1>4. ASSUME NEW q \in Procs, EnqueueSupersede(q) PROVE LedgerInv'
  BY <1>4, LedgerSupersede
<1>5. ASSUME NEW h \in Hooks, EnqueueNoPath(h) PROVE LedgerInv'
  BY <1>5, LedgerNoPath
<1>6. ASSUME NEW h \in Hooks, SpawnCount(h) PROVE LedgerInv'
  BY <1>6
  DEF SpawnCount, Goto, TypeInv, TypeOK, LedgerInv, IdInv, MemoryInv, JobInv,
      NoPathInv, SupersedeInv, Record, JobPCs
<1>7. ASSUME NEW h \in Hooks, Spawn(h) PROVE LedgerInv'
  <2>1. PICK v \in Workers :
          /\ pc[v] = "off" /\ pc' = [pc EXCEPT ![h] = "gone", ![v] = "start"]
    BY <1>7 DEF Spawn, Start
  <2>2. /\ pc'[h] = "gone" /\ pc'[v] = "start"
        /\ \A r \in Procs \ {h, v} : pc'[r] = pc[r]
    BY <2>1 DEF TypeInv, TypeOK
  <2>3. UNCHANGED <<ledger, used, cur, todo>>
    BY <1>7 DEF Spawn
  <2> QED
    BY <2>2, <2>3 DEF LedgerInv, IdInv, MemoryInv, JobInv, NoPathInv, SupersedeInv,
                      Record, JobPCs
<1>8. ASSUME NEW w \in Workers, TryWorkerLock(w) PROVE LedgerInv'
  BY <1>8
  DEF TryWorkerLock, WorkerLockFree, Goto, NoWrite, TypeInv, TypeOK, LedgerInv, IdInv,
      MemoryInv, JobInv, NoPathInv, SupersedeInv, Record, JobPCs
<1>9. ASSUME NEW w \in Workers, Scan(w) PROVE LedgerInv'
  <2>1. /\ UNCHANGED <<ledger, used, cur>> /\ todo'[w] = Pending /\ pc[w] = "scan"
        /\ pc'[w] \in {"release", "holding", "pick"}
        /\ \A r \in Procs \ {w} : todo'[r] = todo[r] /\ pc'[r] = pc[r]
    BY <1>9 DEF Scan, NoWrite, Goto, TypeInv, TypeOK
  <2>2. \A e \in Pending : ledger[e.id].path = e.path /\ ledger[e.id].status # "none"
    BY DEF Pending, ActiveIds, Active, Record
  <2> HIDE DEF Pending
  <2>3. MemoryInv'
    BY <2>1, <2>2 DEF LedgerInv, MemoryInv
  <2>4. SupersedeInv'
    BY <2>1 DEF LedgerInv, SupersedeInv, Record
  <2> QED
    BY <2>1, <2>3, <2>4 DEF LedgerInv, IdInv, JobInv, NoPathInv, JobPCs
<1>10. ASSUME NEW w \in Workers, HoldOne(w) PROVE LedgerInv'
  <2>1. Unforced(todo[w]) \in SUBSET todo[w] /\ todo[w] \in SUBSET Event
    BY DEF Unforced, TypeInv, TypeOK
  <2>2. Oldest(Unforced(todo[w])) \in todo[w]
    BY <1>10, <2>1, OldestIn DEF HoldOne, TypeInv, TypeOK
  <2> QED
    BY <1>10, <2>2, LedgerHoldEvent DEF HoldOne
<1>11. ASSUME NEW w \in Workers, HoldDone(w) PROVE LedgerInv'
  BY <1>11
  DEF HoldDone, Goto, NoWrite, TypeInv, TypeOK, LedgerInv, IdInv, MemoryInv, JobInv,
      NoPathInv, SupersedeInv, Record, JobPCs
<1>12. ASSUME NEW w \in Workers, HoldFinish(w) PROVE LedgerInv'
  BY <1>12, LedgerHoldFinish
<1>13. ASSUME NEW w \in Workers, QuarantineLarge(w) PROVE LedgerInv'
  <2>1. Oldest(todo[w]) \in todo[w]
    BY <1>13, OldestIn DEF QuarantineLarge, TypeInv, TypeOK, LocalInv
  <2> QED
    BY <1>13, <2>1, LedgerHoldEvent DEF QuarantineLarge
<1>14. ASSUME NEW w \in Workers, Recycle(w) PROVE LedgerInv'
  BY <1>14
  DEF Recycle, Goto, NoWrite, TypeInv, TypeOK, LedgerInv, IdInv, MemoryInv, JobInv,
      NoPathInv, SupersedeInv, Record, JobPCs
<1>15. ASSUME NEW w \in Workers, SpawnSuccessor(w) PROVE LedgerInv'
  <2>1. PICK v \in Workers :
          /\ pc[v] = "off" /\ pc' = [pc EXCEPT ![w] = "exit", ![v] = "start"]
    BY <1>15 DEF SpawnSuccessor, Start
  <2>2. /\ pc'[w] \in {"exit", "start"} /\ pc'[v] = "start"
        /\ \A r \in Procs \ {w, v} : pc'[r] = pc[r]
    BY <2>1 DEF TypeInv, TypeOK
  <2>3. UNCHANGED <<ledger, used, cur, todo>>
    BY <1>15 DEF SpawnSuccessor
  <2> QED
    BY <2>2, <2>3 DEF LedgerInv, IdInv, MemoryInv, JobInv, NoPathInv, SupersedeInv,
                      Record, JobPCs
<1>16. ASSUME NEW w \in Workers, TakeJob(w) PROVE LedgerInv'
  BY <1>16, LedgerTakeJob
<1>17. ASSUME NEW w \in Workers, CaptureNothing(w) PROVE LedgerInv'
  BY <1>17
  DEF CaptureNothing, Goto, NoWrite, TypeInv, TypeOK, LedgerInv, IdInv, MemoryInv, JobInv,
      NoPathInv, SupersedeInv, Record, JobPCs
<1>18. ASSUME NEW w \in Workers, CaptureFails(w) PROVE LedgerInv'
  BY <1>18
  DEF CaptureFails, Goto, NoWrite, TypeInv, TypeOK, LedgerInv, IdInv, MemoryInv, JobInv,
      NoPathInv, SupersedeInv, Record, JobPCs
<1>19. ASSUME NEW w \in Workers, CaptureSlice(w) PROVE LedgerInv'
  BY <1>19
  DEF CaptureSlice, From, Goto, NoWrite, TypeInv, TypeOK, LedgerInv, IdInv, MemoryInv,
      JobInv, NoPathInv, SupersedeInv, Record, JobPCs
<1>20. ASSUME NEW w \in Workers, WriteOffset(w) PROVE LedgerInv'
  BY <1>20
  DEF WriteOffset, NewOffset, AfterSlice, Goto, NoWrite, TypeInv, TypeOK, LedgerInv, IdInv,
      MemoryInv, JobInv, NoPathInv, SupersedeInv, Record, JobPCs
<1>21. ASSUME NEW w \in Workers, NEW i \in Ids, Continue(w, i) PROVE LedgerInv'
  <2> DEFINE e == [cur[w] EXCEPT !.id = i]
  <2>1. cur[w] \in Event
    BY <1>21 DEF Continue, TypeInv, LocalInv, EventPCs, JobPCs
  <2>2. /\ e \in Event /\ e.id \notin used /\ e.path = cur[w].path
        /\ EnqueueHeld(w, e) \/ EnqueueQueued(w, e)
        /\ pc[w] = "continue" /\ cur' = cur
    BY <1>21, <2>1 DEF Continue, Event
  <2> HIDE DEF e
  <2> QED
    BY <2>2, EnqueueLedger
<1>22. ASSUME NEW w \in Workers, ContinueTimeout(w) PROVE LedgerInv'
  BY <1>22
  DEF ContinueTimeout, Goto, NoWrite, TypeInv, TypeOK, LedgerInv, IdInv, MemoryInv, JobInv,
      NoPathInv, SupersedeInv, Record, JobPCs
<1>23. ASSUME NEW w \in Workers, FinishJob(w) PROVE LedgerInv'
  BY <1>23
  DEF FinishJob, LockBriefly, Goto, LockInv, HookLockPCs, WorkerLockPCs, DrainPCs,
      EnqueuePCs, EventPCs, LocalInv, Event, Append, LedgerInv, IdInv, MemoryInv,
      JobInv, NoPathInv, SupersedeInv, Record, JobPCs, TypeInv, TypeOK
<1>24. ASSUME NEW w \in Workers, Release(w) PROVE LedgerInv'
  BY <1>24
  DEF Release, Goto, NoWrite, TypeInv, TypeOK, LedgerInv, IdInv, MemoryInv, JobInv,
      NoPathInv, SupersedeInv, Record, JobPCs
<1>25. ASSUME NEW w \in Workers, Rescan(w) PROVE LedgerInv'
  <2>1. /\ pc'[w] \in {"start", "exit"} /\ UNCHANGED <<ledger, used, todo, cur>>
        /\ \A r \in Procs \ {w} : pc'[r] = pc[r]
    BY <1>25 DEF Rescan, Goto, NoWrite, TypeInv, TypeOK
  <2> QED
    BY <2>1, LedgerLeave
<1>26. ASSUME NEW w \in Workers, Exit(w) PROVE LedgerInv'
  <2>1. /\ pc'[w] = "off" /\ todo'[w] = {} /\ UNCHANGED <<ledger, used>>
        /\ \A r \in Procs \ {w} : pc'[r] = pc[r] /\ todo'[r] = todo[r] /\ cur'[r] = cur[r]
    BY <1>26 DEF Exit, Gone, Goto, NoWrite, TypeInv, TypeOK
  <2> QED
    BY <2>1, LedgerLeave
<1>27. ASSUME NEW q \in Procs, Crash(q) PROVE LedgerInv'
  <2>1. /\ pc'[q] \in {"gone", "off"} /\ todo'[q] = {} /\ UNCHANGED <<ledger, used>>
        /\ \A r \in Procs \ {q} : pc'[r] = pc[r] /\ todo'[r] = todo[r] /\ cur'[r] = cur[r]
    BY <1>27 DEF Crash, Gone, Goto, NoWrite, TypeInv, TypeOK
  <2> QED
    BY <2>1, LedgerLeave
<1>28. ASSUME NEW w \in Workers, NEW b \in HoldSettings, Drain(w, b) PROVE LedgerInv'
  BY <1>28
  DEF Drain, Start, Goto, NoWrite, TypeInv, TypeOK, LedgerInv, IdInv, MemoryInv, JobInv,
      NoPathInv, SupersedeInv, Record, JobPCs
<1>29. ASSUME NEW S \in SUBSET Ids, RequeueErrors(S) PROVE LedgerInv'
  <2>1. /\ \A i \in Ids : ledger'[i].path = ledger[i].path
        /\ \A i \in Ids : IF i \in S THEN /\ ledger[i].status = "error"
                                          /\ ledger'[i].status = "queued"
                                     ELSE ledger'[i] = ledger[i]
        /\ UNCHANGED <<used, cur, todo, pc>>
    BY <1>29 DEF RequeueErrors, TypeInv, TypeOK
  <2>2. IdInv' /\ MemoryInv'
    <3>1. IdInv'
      BY <2>1 DEF LedgerInv, IdInv
    <3> QED
      BY <2>1, <3>1, MemoryKeeps
  <2>3. JobInv'
    BY <2>1 DEF LedgerInv, JobInv, TypeInv, LocalInv, EventPCs, Event
  <2>4. \A r \in Procs : pc[r] # "supersede" /\ (r \in Hooks => pc[r] \notin HookLockPCs)
    BY <1>29 DEF RequeueErrors, LockBriefly, LockInv, HookLockPCs, WorkerLockPCs
  <2>5. NoPathInv' /\ SupersedeInv'
    BY <2>1, <2>4 DEF NoPathInv, SupersedeInv, HookLockPCs
  <2> QED
    BY <2>2, <2>3, <2>5 DEF LedgerInv
<1>30. CASE UNCHANGED vars
  BY <1>30 DEF LedgerInv, IdInv, MemoryInv, JobInv, NoPathInv, SupersedeInv, Record
<1> QED
  BY <1>1, <1>2, <1>3, <1>4, <1>5, <1>6, <1>7, <1>8, <1>9, <1>10, <1>11,
     <1>12, <1>13, <1>14, <1>15, <1>16, <1>17, <1>18, <1>19, <1>20, <1>21,
     <1>22, <1>23, <1>24, <1>25, <1>26, <1>27, <1>28, <1>29, <1>30
  DEF Next, HookStep, WorkerStep

\* LedgerInv holds of the empty ledger.
LEMMA LedgerInit == Init => LedgerInv
  BY LedgerAssumption
  DEF Init, LedgerInv, IdInv, MemoryInv, JobInv, NoPathInv, SupersedeInv, JobPCs

-----------------------------------------------------------------------------
(* Who writes the ledger, and who works on an event of it *)

\* Whose record e a step writes, and what it says.
Writes(e, s) ==
  \/ e.id \notin used /\ s = "queued"
  \/ \E q \in Procs : pc[q] = "supersede" /\ e \in todo[q] /\ s = "superseded"
  \/ \E h \in Hooks : pc[h] \in {"run", "fail"} /\ e = cur[h] /\ s \in {"running", "error"}
  \/ \E w \in Workers : pc[w] = "park" /\ e = cur[w] /\ s \in {"held", "quarantined"}
  \/ \E w \in Workers : /\ pc[w] = "pick" /\ e \in todo[w] /\ s = "running"
                        /\ pc'[w] = "capture" /\ cur'[w] = e
  \/ \E w \in Workers : /\ pc[w] \in {"finish", "fail"} /\ e = cur[w]
                        /\ s \in {"done", "error"} /\ pc'[w] = "scan"

\* A step writes nothing, one record of an event somebody has, or the requeue
\* of failed jobs, and nothing while the operator's command holds the lock.
LedgerWrite ==
  \/ ledger' = ledger
  \/ /\ ledgerLock # Operator
     /\ \E e \in Event, s \in Statuses \ {"none"} : Append(e, s) /\ Writes(e, s)
  \/ ledgerLock = Nobody /\ \E S \in SUBSET Ids : RequeueErrors(S)

LEMMA WhoWrites == TypeInv /\ LockInv /\ [Next]_vars => LedgerWrite
<1> SUFFICES ASSUME TypeInv, LockInv, [Next]_vars PROVE LedgerWrite
  OBVIOUS
<1> USE LedgerAssumption
<1>1. CASE ledger' = ledger
  BY <1>1 DEF LedgerWrite
<1>2. ASSUME NEW e \in Event, NEW s \in Statuses \ {"none"}, Append(e, s), Writes(e, s),
             ledgerLock # Operator
      PROVE  LedgerWrite
  BY <1>2 DEF LedgerWrite
<1>3. /\ {"queued", "superseded", "running", "error", "held", "quarantined", "done"}
             \subseteq Statuses \ {"none"}
      /\ \A q \in Procs : pc[q] \in {"supersede", "park", "run"} \/ (pc[q] = "fail" /\ q \in Hooks)
           => ledgerLock # Operator
  BY DEF Statuses, Active, LockInv, HookLockPCs, WorkerLockPCs, TypeInv, TypeOK, HookPCs,
         WorkerPCs, DrainPCs, EnqueuePCs
<1>4. ASSUME NEW q \in Procs, NEW e \in Event, e.id \notin used, EnqueueQueued(q, e)
      PROVE  LedgerWrite
  <2> DEFINE f == [e EXCEPT !.forced = Mark(e)]
  <2>1. f \in Event /\ f.id \notin used
    BY <1>4 DEF Event, Mark
  <2>2. Append(f, "queued") /\ ledgerLock = Nobody
    BY <1>4 DEF EnqueueQueued, Lock, LockBriefly
  <2> HIDE DEF f
  <2> QED
    BY <1>2, <1>3, <2>1, <2>2 DEF Writes
<1>5. ASSUME NEW h \in Hooks, NEW t \in Targets, NEW i \in Ids, SessionEnd(h, t, i)
      PROVE  LedgerWrite
  <2> DEFINE e == [id |-> i, path |-> t, forced |-> FALSE]
  <2>1. e \in Event /\ e.id \notin used /\ (EnqueueHeld(h, e) \/ EnqueueQueued(h, e))
    BY <1>5 DEF SessionEnd, Event
  <2> HIDE DEF e
  <2> QED
    BY <1>1, <1>4, <2>1 DEF EnqueueHeld
<1>6. ASSUME NEW w \in Workers, NEW i \in Ids, Continue(w, i) PROVE LedgerWrite
  <2> DEFINE e == [cur[w] EXCEPT !.id = i]
  <2>1. cur[w] \in Event
    BY <1>6 DEF Continue, TypeInv, LocalInv, EventPCs, JobPCs
  <2>2. e \in Event /\ e.id \notin used /\ (EnqueueHeld(w, e) \/ EnqueueQueued(w, e))
    BY <1>6, <2>1 DEF Continue, Event
  <2> HIDE DEF e
  <2> QED
    BY <1>1, <1>4, <2>2 DEF EnqueueHeld
<1>7. ASSUME NEW q \in Procs, EnqueueSupersede(q) PROVE LedgerWrite
  <2> DEFINE e == Oldest(todo[q])
  <2>1. e \in todo[q] /\ e \in Event
    BY <1>7, OldestIn DEF EnqueueSupersede, TypeInv, TypeOK, LocalInv
  <2>2. Append(e, "superseded") /\ pc[q] = "supersede"
    BY <1>7 DEF EnqueueSupersede
  <2> HIDE DEF e
  <2> QED
    BY <1>2, <1>3, <2>1, <2>2 DEF Writes
<1>8. ASSUME NEW h \in Hooks, EnqueueNoPath(h) PROVE LedgerWrite
  <2>1. PICK s \in {"running", "error"} : Append(cur[h], s)
    BY <1>8 DEF EnqueueNoPath
  <2>2. cur[h] \in Event /\ pc[h] \in {"run", "fail"}
    BY <1>8 DEF EnqueueNoPath, TypeInv, LocalInv, EventPCs, HookLockPCs
  <2> QED
    BY <1>2, <1>3, <2>1, <2>2 DEF Writes
<1>9. ASSUME NEW w \in Workers, HoldFinish(w) PROVE LedgerWrite
  <2>1. CASE \E s \in {"held", "quarantined"} : Append(cur[w], s)
    <3>1. PICK s \in {"held", "quarantined"} : Append(cur[w], s)
      BY <2>1
    <3>2. cur[w] \in Event /\ pc[w] = "park"
      BY <1>9 DEF HoldFinish, TypeInv, LocalInv, EventPCs
    <3> QED
      BY <1>2, <1>3, <3>1, <3>2 DEF Writes
  <2> QED
    BY <1>1, <1>9, <2>1 DEF HoldFinish
<1>10. ASSUME NEW w \in Workers, TakeJob(w) PROVE LedgerWrite
  <2> DEFINE e == Oldest(todo[w])
  <2>1. e \in todo[w] /\ e \in Event
    BY <1>10, OldestIn DEF TakeJob, TypeInv, TypeOK, LocalInv
  <2>2. /\ Append(e, "running") /\ ledgerLock = Nobody /\ pc[w] = "pick"
        /\ pc'[w] = "capture" /\ cur'[w] = e
    BY <1>10 DEF TakeJob, LockBriefly, Goto, TypeInv, TypeOK
  <2> HIDE DEF e
  <2> QED
    BY <1>2, <1>3, <2>1, <2>2 DEF Writes
<1>11. ASSUME NEW w \in Workers, FinishJob(w) PROVE LedgerWrite
  <2>1. PICK s \in {"done", "error"} : Append(cur[w], s)
    BY <1>11 DEF FinishJob
  <2>2. /\ cur[w] \in Event /\ pc[w] \in {"finish", "fail"} /\ pc'[w] = "scan"
        /\ ledgerLock = Nobody
    BY <1>11 DEF FinishJob, LockBriefly, Goto, TypeInv, TypeOK, LocalInv, EventPCs, JobPCs
  <2> QED
    BY <1>2, <1>3, <2>1, <2>2 DEF Writes
<1>12. ASSUME NEW S \in SUBSET Ids, RequeueErrors(S) PROVE LedgerWrite
  BY <1>12 DEF RequeueErrors, LockBriefly, LedgerWrite
<1> QED
  BY <1>1, <1>5, <1>6, <1>7, <1>8, <1>9, <1>10, <1>11, <1>12
  DEF Next, HookStep, WorkerStep, Grow, EnqueueDrop, SpawnCount, Spawn, TryWorkerLock,
      Scan, HoldOne, HoldDone, QuarantineLarge, HoldEvent, Recycle, SpawnSuccessor,
      CaptureNothing, CaptureFails, CaptureSlice, WriteOffset, ContinueTimeout, Release, Rescan,
      Exit, Crash, Drain, NoWrite

\* A worker that captures an event had it before, or has just taken it.
LEMMA WhoWorks ==
  ASSUME TypeInv, [Next]_vars, NEW w \in Workers, pc'[w] \in JobPCs
  PROVE  \/ /\ pc[w] \in JobPCs /\ cur'[w] = cur[w]
            /\ ~FinishJob(w)
         \/ TakeJob(w)
<1> USE LedgerAssumption
<1>1. ASSUME pc'[w] = pc[w] \/ pc[w] \in JobPCs, cur'[w] = cur[w], pc'[w] # "scan"
      PROVE  pc[w] \in JobPCs /\ cur'[w] = cur[w] /\ ~FinishJob(w)
  BY <1>1 DEF FinishJob, Goto, TypeInv, TypeOK
<1>2. pc'[w] \notin {"scan", "start", "off", "exit", "rescan", "release", "pick", "holding", "park",
                     "successor"}
  BY DEF JobPCs
<1>3. ASSUME NEW h \in Hooks, NEW t \in Targets, NEW i \in Ids, SessionEnd(h, t, i)
      PROVE  pc'[w] = pc[w] /\ cur'[w] = cur[w]
  BY <1>3 DEF SessionEnd, EnqueueHeld, EnqueueQueued, Goto, TypeInv, TypeOK
<1>4. ASSUME NEW q \in Procs, EnqueueDrop(q) \/ EnqueueSupersede(q)
      PROVE  (pc'[w] = pc[w] \/ pc[w] \in JobPCs) /\ cur'[w] = cur[w]
  BY <1>4 DEF EnqueueDrop, EnqueueSupersede, Goto, TypeInv, TypeOK, JobPCs
<1>5. ASSUME NEW h \in Hooks, EnqueueNoPath(h) \/ SpawnCount(h) \/ Spawn(h)
      PROVE  (pc'[w] = pc[w] \/ pc'[w] = "start") /\ cur'[w] = cur[w]
  BY <1>5 DEF EnqueueNoPath, SpawnCount, Spawn, Goto, TypeInv, TypeOK
<1>6. ASSUME NEW v \in Workers,
             \/ TryWorkerLock(v) \/ Scan(v) \/ HoldDone(v) \/ HoldFinish(v) \/ Recycle(v)
             \/ SpawnSuccessor(v) \/ Release(v) \/ Rescan(v)
      PROVE  (pc'[w] = pc[w] /\ cur'[w] = cur[w]) \/ pc'[w] \notin JobPCs
  BY <1>2, <1>6
  DEF TryWorkerLock, Scan, HoldDone, HoldFinish, Recycle, SpawnSuccessor, Release, Rescan, Goto,
      TypeInv, TypeOK
<1>7. ASSUME NEW v \in Workers, NEW e, NEW d, HoldEvent(v, e, d)
      PROVE  pc'[w] = pc[w] /\ cur'[w] = cur[w]
  BY <1>2, <1>7 DEF HoldEvent, Goto, TypeInv, TypeOK
<1>8. ASSUME NEW v \in Workers, FinishJob(v) PROVE pc'[w] = pc[w] /\ cur'[w] = cur[w]
  BY <1>2, <1>8 DEF FinishJob, Goto, TypeInv, TypeOK
<1>9. ASSUME NEW v \in Workers, TakeJob(v), v # w PROVE pc'[w] = pc[w] /\ cur'[w] = cur[w]
  BY <1>9 DEF TakeJob, Goto, TypeInv, TypeOK
<1>10. ASSUME NEW v \in Workers,
              CaptureNothing(v) \/ CaptureFails(v) \/ CaptureSlice(v) \/ WriteOffset(v)
                \/ ContinueTimeout(v)
       PROVE  (pc'[w] = pc[w] \/ pc[w] \in JobPCs) /\ cur'[w] = cur[w]
  BY <1>10 DEF CaptureNothing, CaptureFails, CaptureSlice, WriteOffset, ContinueTimeout, Goto,
               TypeInv, TypeOK, JobPCs
<1>11. ASSUME NEW v \in Workers, NEW i \in Ids, Continue(v, i)
       PROVE  (pc'[w] = pc[w] \/ pc[w] \in JobPCs) /\ cur'[w] = cur[w]
  BY <1>11 DEF Continue, EnqueueHeld, EnqueueQueued, Goto, TypeInv, TypeOK, JobPCs
<1>12. ASSUME NEW q \in Procs, Exit(q) \/ Crash(q) PROVE pc'[w] = pc[w] /\ cur'[w] = cur[w]
  BY <1>2, <1>12 DEF Exit, Crash, Gone, Goto, TypeInv, TypeOK
<1>13. ASSUME NEW v \in Workers, NEW b \in HoldSettings, Drain(v, b)
       PROVE  pc'[w] = pc[w] /\ cur'[w] = cur[w]
  BY <1>2, <1>13 DEF Drain, Goto, TypeInv, TypeOK
<1>14. CASE UNCHANGED <<pc, cur>>
  BY <1>1, <1>2, <1>14
<1> QED
  BY <1>1, <1>2, <1>3, <1>4, <1>5, <1>6, <1>7, <1>8, <1>9, <1>10, <1>11, <1>12, <1>13, <1>14
  DEF Next, HookStep, WorkerStep, HoldOne, QuarantineLarge, Grow, RequeueErrors

\* The record of an event keeps its transcript, and one that has none is
\* written only for an id that was not given out.
LEMMA RecordsStay ==
  ASSUME TypeInv, LockInv, LedgerInv, [Next]_vars, NEW i \in Ids
  PROVE  /\ ledger[i].status # "none" =>
              ledger'[i].path = ledger[i].path /\ ledger'[i].status # "none"
         /\ ledger[i].status = "none" /\ ledger'[i].status # "none" => i \notin used
<1> USE LedgerAssumption
<1>1. CASE ledger' = ledger
  BY <1>1
<1>2. ASSUME NEW S \in SUBSET Ids, RequeueErrors(S)
      PROVE  IF i \in S THEN /\ ledger[i].status = "error" /\ ledger'[i].status = "queued"
                             /\ ledger'[i].path = ledger[i].path
                        ELSE ledger'[i] = ledger[i]
  BY <1>2 DEF RequeueErrors, TypeInv, TypeOK
<1>3. ASSUME NEW e \in Event, NEW s \in Statuses \ {"none"}, Append(e, s), Writes(e, s)
      PROVE  /\ ledger[i].status # "none" =>
                  ledger'[i].path = ledger[i].path /\ ledger'[i].status # "none"
             /\ ledger[i].status = "none" /\ ledger'[i].status # "none" => i \notin used
  <2>1. /\ ledger'[e.id] = [path |-> e.path, forced |-> e.forced, status |-> s]
        /\ \A j \in Ids \ {e.id} : ledger'[j] = ledger[j]
    BY <1>3, AppendLedger
  <2>2. CASE e.id \notin used
    BY <2>1, <2>2 DEF LedgerInv, IdInv
  <2>3. CASE ledger[e.id].path = e.path /\ ledger[e.id].status # "none"
    BY <1>3, <2>1, <2>3
  <2>4. e.id \in used => ledger[e.id].path = e.path /\ ledger[e.id].status # "none"
    BY <1>3 DEF Writes, LedgerInv, MemoryInv, NoPathInv, JobInv, JobPCs
  <2> QED
    BY <2>2, <2>3, <2>4
<1> QED
  BY <1>1, <1>2, <1>3, WhoWrites DEF LedgerWrite

\* The record of an event that a worker captures is written by nobody else.
LEMMA JobRecord ==
  ASSUME TypeInv, LockInv, LedgerInv, [Next]_vars, NEW w \in Workers, pc'[w] \in JobPCs
  PROVE  \/ ledger'[cur'[w].id].status = "running"
         \/ /\ pc[w] \in JobPCs /\ cur'[w] = cur[w] /\ cur[w] \in Event
            /\ ledger'[cur[w].id] = ledger[cur[w].id]
<1> USE LedgerAssumption
<1>1. CASE TakeJob(w)
  <2> DEFINE e == Oldest(todo[w])
  <2>1. e \in todo[w] /\ e \in Event
    BY <1>1, OldestIn DEF TakeJob, TypeInv, TypeOK, LocalInv
  <2>2. Append(e, "running") /\ cur'[w] = e
    BY <1>1 DEF TakeJob, TypeInv, TypeOK
  <2> HIDE DEF e
  <2>3. ledger'[e.id] = [path |-> e.path, forced |-> e.forced, status |-> "running"]
    BY <2>1, <2>2, AppendLedger
  <2> QED
    BY <2>2, <2>3
<1>2. CASE pc[w] \in JobPCs /\ cur'[w] = cur[w] /\ ~FinishJob(w)
  <2> DEFINE c == cur[w].id
  <2>1. cur[w] \in Event /\ c \in Ids /\ ledger[c].status \in {"running", "superseded"} /\ c \in used
    BY <1>2 DEF TypeInv, LocalInv, EventPCs, Event, LedgerInv, JobInv, IdInv
  <2>2. pc[w] \in DrainPCs \ {"scan", "pick", "holding", "park", "release"} /\ pc'[w] # "scan"
    BY <1>2 DEF JobPCs, DrainPCs, EnqueuePCs
  <2>3. \A v \in Workers \ {w} : pc[v] \notin DrainPCs
    BY <2>2 DEF LockInv
  <2>4. CASE ledger' = ledger
    BY <1>2, <2>1, <2>4
  <2>5. ASSUME NEW S \in SUBSET Ids, RequeueErrors(S) PROVE ledger'[c] = ledger[c]
    BY <2>1, <2>5 DEF RequeueErrors, TypeInv, TypeOK
  <2>6. ASSUME NEW e \in Event, NEW s \in Statuses \ {"none"}, Append(e, s), Writes(e, s)
        PROVE  ledger'[c] = ledger[c]
    <3>1. \A j \in Ids \ {e.id} : ledger'[j] = ledger[j]
      BY <2>6, AppendLedger
    <3>2. CASE e.id \notin used
      BY <2>1, <3>1, <3>2
    <3>3. ASSUME NEW q \in Procs, pc[q] = "supersede", e \in todo[q] PROVE e.id # c
      BY <2>1, <3>3 DEF LedgerInv, SupersedeInv
    <3>4. ASSUME NEW h \in Hooks, pc[h] \in {"run", "fail"}, e = cur[h] PROVE e.id # c
      BY <1>2, <3>4 DEF LedgerInv, NoPathInv
    <3>5. ASSUME NEW v \in Workers, pc[v] \in {"park", "pick"} PROVE FALSE
      BY <2>2, <2>3, <3>5 DEF DrainPCs
    <3>6. ASSUME NEW v \in Workers, pc[v] \in {"finish", "fail"}, pc'[v] = "scan" PROVE FALSE
      BY <2>2, <2>3, <3>6 DEF DrainPCs
    <3> QED
      BY <2>1, <2>6, <3>1, <3>2, <3>3, <3>4, <3>5, <3>6 DEF Writes
  <2> QED
    BY <1>2, <2>1, <2>4, <2>5, <2>6, WhoWrites DEF LedgerWrite
<1> QED
  BY <1>1, <1>2, WhoWorks

-----------------------------------------------------------------------------
(* What is owed stays covered *)

ParkedFor(p) == \E f \in parked : f.path = p

\* Some event other than c will lead to a capture of p.
CoveredBeside(p, c) ==
  \/ \E j \in Ids \ {c} : /\ ledger[j].path = p
                          /\ ledger[j].status \in Active \cup {"error"}
  \/ ParkedFor(p)

\* A parking lot that is being cleaned up still holds a file.
ParkInv ==
  \A q \in Procs : pc[q] \in {"drop", "park"} /\ cur[q].path \in Paths =>
    ParkedFor(cur[q].path)

\* A worker about to give its event up knows the whole of what was acknowledged,
\* or somebody else will.
GoalOK(w) ==
  /\ pc[w] = "offset" =>
       /\ upto[w] <= goal[w]
       /\ upto[w] <= imported[cur[w].path]
       /\ offset[cur[w].path] < upto[w]
       /\ owed[cur[w].path] <= goal[w] \/ CoveredBeside(cur[w].path, cur[w].id)
  /\ pc[w] = "finish" =>
       owed[cur[w].path] <= offset[cur[w].path] \/ CoveredBeside(cur[w].path, cur[w].id)

GoalInv == \A w \in Workers : GoalOK(w)

\* What a worker captures is running, or something else covers its transcript.
BesideInv ==
  \A w \in Workers : pc[w] \in JobPCs /\ cur[w].path \in Paths =>
    \/ ledger[cur[w].id].status = "running"
    \/ CoveredBeside(cur[w].path, cur[w].id)

\* A transcript is acknowledged and captured only as far as it exists.
SizeInv == (\A p \in Paths : owed[p] <= size[p]) /\ NoByteSkipped

\* Files are only removed beside a newer one of the same transcript.
LEMMA ParkedStays ==
  ASSUME TypeInv, [Next]_vars, NEW p, ParkedFor(p) PROVE ParkedFor(p)'
<1>1. CASE parked \subseteq parked'
  BY <1>1 DEF ParkedFor
<1>2. CASE \E t, d : DropOlder(t, d)
  BY <1>2, DropOlderKeeps DEF ParkedFor, TypeInv
<1>3. parked \subseteq parked' \/ \E t, d : DropOlder(t, d)
  <2>1. CASE UNCHANGED vars
    BY <2>1
  <2>2. ASSUME NEW q \in Procs, NEW e, EnqueueHeld(q, e) \/ EnqueueQueued(q, e)
        PROVE  parked \subseteq parked'
    BY <2>2 DEF EnqueueHeld, EnqueueQueued, Park
  <2>3. ASSUME NEW w \in Workers, HoldOne(w) \/ QuarantineLarge(w)
        PROVE  parked \subseteq parked'
    BY <2>3 DEF HoldOne, QuarantineLarge, HoldEvent, Park
  <2>4. ASSUME NEW q \in Procs, EnqueueDrop(q)
        PROVE  parked \subseteq parked' \/ \E t, d : DropOlder(t, d)
    BY <2>4 DEF EnqueueDrop
  <2>5. ASSUME NEW w \in Workers, HoldFinish(w)
        PROVE  parked \subseteq parked' \/ \E t, d : DropOlder(t, d)
    BY <2>5 DEF HoldFinish
  <2>6. CASE UNCHANGED parked
    BY <2>6
  <2> QED
    BY <2>1, <2>2, <2>3, <2>4, <2>5, <2>6
    DEF Next, HookStep, WorkerStep, Grow, SessionEnd, EnqueueSupersede, EnqueueNoPath,
        SpawnCount, Spawn, TryWorkerLock, Scan, HoldDone, Recycle, SpawnSuccessor,
        TakeJob, CaptureNothing, CaptureFails, CaptureSlice, WriteOffset, Continue,
        ContinueTimeout, FinishJob, Release, Rescan, Exit, Crash, Drain, RequeueErrors, NoWrite
<1> QED
  BY <1>1, <1>2, <1>3

\* What covers p beside c, an id no enqueue replaces, is not taken away by
\* any step but the end of a capture.
CoverKept(p, c) == CoveredBeside(p, c) => CoveredBeside(p, c)'

\* A step that writes one record keeps p covered if the old record did not cover
\* it, or the new one does, or something else does.
LEMMA AppendCover ==
  ASSUME TypeInv, LedgerInv, [Next]_vars, NEW e \in Event, NEW s, Append(e, s),
         NEW p, NEW c,
         \/ ledger[e.id].path # p
         \/ ledger[e.id].status \notin Active \cup {"error"}
         \/ e.path = p /\ s \in Active \cup {"error"}
         \/ ParkedFor(p)
         \/ \E j \in Ids \ {c, e.id} : /\ ledger[j].path = p
                                       /\ ledger[j].status \in Active \cup {"error"}
  PROVE  CoverKept(p, c)
<1>1. /\ ledger'[e.id] = [path |-> e.path, forced |-> e.forced, status |-> s]
      /\ \A i \in Ids \ {e.id} : ledger'[i] = ledger[i]
  BY AppendLedger
<1>2. ParkedFor(p) => ParkedFor(p)'
  BY ParkedStays
<1> QED
  BY <1>1, <1>2 DEF CoverKept, CoveredBeside

\* No step but a successful end of a capture uncovers a transcript: a replaced
\* event leaves its replacement, a parked one its file.
LEMMA CoverStep ==
  ASSUME TypeInv, LockInv, LedgerInv, ParkInv, [Next]_vars,
         NEW p \in Paths, NEW c, c \in Ids => ledger[c].status \notin {"none", "queued"},
         \A w \in Workers : ~(FinishJob(w) /\ pc[w] = "finish")
  PROVE  CoverKept(p, c)
<1> USE LedgerAssumption
<1>1. CASE UNCHANGED ledger
  BY <1>1, ParkedStays DEF CoverKept, CoveredBeside
<1>2. ASSUME NEW q \in Procs, NEW e \in Event, e.id \notin used, EnqueueQueued(q, e)
      PROVE  CoverKept(p, c)
  <2> DEFINE f == [e EXCEPT !.forced = Mark(e)]
  <2>1. f \in Event /\ f.id = e.id
    BY DEF Event, Mark
  <2>2. Append(f, "queued")
    BY <1>2 DEF EnqueueQueued
  <2> HIDE DEF f
  <2>3. ledger[f.id].status = "none"
    BY <1>2, <2>1 DEF LedgerInv, IdInv, Event
  <2> QED
    BY <2>1, <2>2, <2>3, AppendCover DEF Active
<1>3. ASSUME NEW h \in Hooks, NEW t \in Targets, NEW i \in Ids, SessionEnd(h, t, i)
      PROVE  CoverKept(p, c)
  <2> DEFINE e == [id |-> i, path |-> t, forced |-> FALSE]
  <2>1. e \in Event /\ e.id \notin used /\ (EnqueueHeld(h, e) \/ EnqueueQueued(h, e))
    BY <1>3 DEF SessionEnd, Event
  <2> HIDE DEF e
  <2> QED
    BY <1>1, <1>2, <2>1 DEF EnqueueHeld
<1>4. ASSUME NEW w \in Workers, NEW i \in Ids, Continue(w, i) PROVE CoverKept(p, c)
  <2> DEFINE e == [cur[w] EXCEPT !.id = i]
  <2>1. cur[w] \in Event
    BY <1>4 DEF Continue, TypeInv, LocalInv, EventPCs, JobPCs
  <2>2. e \in Event /\ e.id \notin used /\ (EnqueueHeld(w, e) \/ EnqueueQueued(w, e))
    BY <1>4, <2>1 DEF Continue, Event
  <2> HIDE DEF e
  <2> QED
    BY <1>1, <1>2, <2>2 DEF EnqueueHeld
<1>5. ASSUME NEW q \in Procs, EnqueueSupersede(q) PROVE CoverKept(p, c)
  <2> DEFINE e == Oldest(todo[q])
  <2>1. e \in todo[q] /\ e \in Event
    BY <1>5, OldestIn DEF EnqueueSupersede, TypeInv, TypeOK, LocalInv
  <2>2. Append(e, "superseded") /\ pc[q] = "supersede"
    BY <1>5 DEF EnqueueSupersede
  <2> HIDE DEF e
  <2>3. PICK i \in Ids : /\ ledger[i].status = "queued" /\ ledger[i].path = cur[q].path
                         /\ i # e.id
    BY <2>1, <2>2 DEF LedgerInv, SupersedeInv
  <2>4. e.path = cur[q].path /\ ledger[e.id].path = e.path
    BY <2>1, <2>2 DEF LedgerInv, SupersedeInv, MemoryInv
  <2>5. i # c
    BY <2>3
  <2> QED
    BY <2>1, <2>2, <2>3, <2>4, <2>5, AppendCover DEF Active
<1>6. ASSUME NEW h \in Hooks, EnqueueNoPath(h) PROVE CoverKept(p, c)
  <2>1. PICK s : Append(cur[h], s)
    BY <1>6 DEF EnqueueNoPath
  <2>2. cur[h] \in Event /\ ledger[cur[h].id].path = NoPath /\ p # NoPath
    BY <1>6 DEF EnqueueNoPath, TypeInv, LocalInv, EventPCs, HookLockPCs, LedgerInv, NoPathInv
  <2> QED
    BY <2>1, <2>2, AppendCover
<1>7. ASSUME NEW w \in Workers, HoldFinish(w) PROVE CoverKept(p, c)
  <2>1. CASE \E s : Append(cur[w], s)
    <3>1. PICK s : Append(cur[w], s)
      BY <2>1
    <3>2. /\ cur[w] \in Event /\ ledger[cur[w].id].path = cur[w].path
          /\ cur[w].path = p => ParkedFor(p)
      BY <1>7 DEF HoldFinish, TypeInv, LocalInv, EventPCs, LedgerInv, MemoryInv, ParkInv
    <3> QED
      BY <3>1, <3>2, AppendCover
  <2> QED
    BY <1>1, <1>7, <2>1 DEF HoldFinish
<1>8. ASSUME NEW w \in Workers, TakeJob(w) PROVE CoverKept(p, c)
  <2> DEFINE e == Oldest(todo[w])
  <2>1. e \in todo[w] /\ e \in Event
    BY <1>8, OldestIn DEF TakeJob, TypeInv, TypeOK, LocalInv
  <2>2. Append(e, "running")
    BY <1>8 DEF TakeJob
  <2> HIDE DEF e
  <2>3. ledger[e.id].path = e.path
    BY <2>1 DEF LedgerInv, MemoryInv
  <2> QED
    BY <2>1, <2>2, <2>3, AppendCover DEF Active
<1>9. ASSUME NEW w \in Workers, FinishJob(w) PROVE CoverKept(p, c)
  <2>1. Append(cur[w], "error")
    BY <1>9 DEF FinishJob
  <2>2. cur[w] \in Event /\ ledger[cur[w].id].path = cur[w].path
    BY <1>9 DEF FinishJob, TypeInv, LocalInv, EventPCs, JobPCs, LedgerInv, JobInv
  <2> QED
    BY <2>1, <2>2, AppendCover
<1>10. ASSUME NEW S \in SUBSET Ids, RequeueErrors(S) PROVE CoverKept(p, c)
  <2>1. \A i \in Ids : /\ ledger'[i].path = ledger[i].path
                       /\ ledger[i].status \in Active \cup {"error"}
                            => ledger'[i].status \in Active \cup {"error"}
    BY <1>10 DEF RequeueErrors, TypeInv, TypeOK, Active
  <2> QED
    BY <2>1, ParkedStays DEF CoverKept, CoveredBeside
<1> QED
  BY <1>1, <1>3, <1>4, <1>5, <1>6, <1>7, <1>8, <1>9, <1>10
  DEF Next, HookStep, WorkerStep, Grow, EnqueueDrop, SpawnCount, Spawn, TryWorkerLock,
      Scan, HoldOne, HoldDone, QuarantineLarge, HoldEvent, Recycle, SpawnSuccessor,
      CaptureNothing, CaptureFails, CaptureSlice, WriteOffset, ContinueTimeout, Release, Rescan,
      Exit, Crash, Drain, NoWrite

\* A job that release_held superseded meanwhile is not what its transcript
\* depends on.
LEMMA BesideStep ==
  TypeInv /\ LockInv /\ LedgerInv /\ ParkInv /\ BesideInv /\ [Next]_vars => BesideInv'
<1> SUFFICES ASSUME TypeInv, LockInv, LedgerInv, ParkInv, BesideInv, [Next]_vars,
                    NEW w \in Workers, pc'[w] \in JobPCs, cur'[w].path \in Paths,
                    ledger'[cur'[w].id].status # "running"
             PROVE  CoveredBeside(cur[w].path, cur[w].id)' /\ cur'[w] = cur[w]
  BY DEF BesideInv, CoveredBeside, ParkedFor
<1>1. /\ pc[w] \in JobPCs /\ cur'[w] = cur[w] /\ cur[w] \in Event /\ ~FinishJob(w)
      /\ ledger'[cur[w].id] = ledger[cur[w].id]
  <2>1. ~TakeJob(w)
    BY JobRecord DEF TakeJob, JobPCs
  <2> QED
    BY <2>1, JobRecord, WhoWorks
<1>2. CoveredBeside(cur[w].path, cur[w].id) /\ ledger[cur[w].id].status \in {"running", "superseded"}
  BY <1>1 DEF BesideInv, LedgerInv, JobInv
<1>3. \A v \in Workers : ~(FinishJob(v) /\ pc[v] = "finish")
  <2>1. \A v \in Workers \ {w} : pc[v] \notin DrainPCs
    BY <1>1 DEF LockInv, JobPCs, DrainPCs, EnqueuePCs
  <2> QED
    BY <1>1, <2>1 DEF DrainPCs
<1>4. \A p \in Paths : CoverKept(p, cur[w].id)
  BY <1>2, <1>3, CoverStep
<1> QED
  BY <1>1, <1>2, <1>4 DEF CoverKept, CoveredBeside, ParkedFor

\* Every step keeps ParkInv.
LEMMA ParkStep == TypeInv /\ LedgerInv /\ ParkInv /\ [Next]_vars => ParkInv'
<1> SUFFICES ASSUME TypeInv, LedgerInv, ParkInv, [Next]_vars PROVE ParkInv'
  OBVIOUS
<1> USE LedgerAssumption
<1>1. ASSUME NEW q \in Procs, NEW e, EnqueueHeld(q, e)
      PROVE  \E f \in parked' : f.path = e.path
  <2> DEFINE f == [id |-> e.id, path |-> e.path, dir |-> "held-all", stamp |-> clock + 1]
  <2>1. f \in parked' /\ f.path = e.path
    BY <1>1 DEF EnqueueHeld, Park
  <2> QED
    BY <2>1
<1>2. ASSUME \A q \in Procs : pc'[q] \in {"drop", "park"} =>
               \/ pc[q] \in {"drop", "park"} /\ cur'[q] = cur[q]
               \/ \E f \in parked' : f.path = cur'[q].path
      PROVE  ParkInv'
  <2> SUFFICES ASSUME NEW q \in Procs, pc'[q] \in {"drop", "park"}, cur'[q].path \in Paths
               PROVE  \E f \in parked' : f.path = cur'[q].path
    BY DEF ParkInv, ParkedFor
  <2>1. ASSUME NEW p, ParkedFor(p) PROVE \E f \in parked' : f.path = p
    BY <2>1, ParkedStays DEF ParkedFor
  <2>2. CASE pc[q] \in {"drop", "park"} /\ cur'[q] = cur[q]
    BY <2>1, <2>2 DEF ParkInv
  <2> QED
    BY <1>2, <2>2
<1>3. ASSUME NEW h \in Hooks, NEW t \in Targets, NEW i \in Ids, SessionEnd(h, t, i)
      PROVE  ParkInv'
  <2> DEFINE e == [id |-> i, path |-> t, forced |-> FALSE]
  <2>1. EnqueueHeld(h, e) \/ EnqueueQueued(h, e)
    BY <1>3 DEF SessionEnd
  <2>2. /\ cur'[h] = e /\ \A r \in Procs \ {h} : cur'[r] = cur[r]
    BY <1>3 DEF SessionEnd, TypeInv, TypeOK
  <2> HIDE DEF e
  <2>3. \A r \in Procs \ {h} : pc'[r] = pc[r]
    BY <2>1 DEF EnqueueHeld, EnqueueQueued, Goto, TypeInv, TypeOK
  <2>4. EnqueueQueued(h, e) => pc'[h] \notin {"drop", "park"}
    BY DEF EnqueueQueued, AfterQueued, Goto, TypeInv, TypeOK
  <2> QED
    BY <1>1, <1>2, <2>1, <2>2, <2>3, <2>4
<1>4. ASSUME NEW w \in Workers, NEW i \in Ids, Continue(w, i) PROVE ParkInv'
  <2> DEFINE e == [cur[w] EXCEPT !.id = i]
  <2>1. (EnqueueHeld(w, e) \/ EnqueueQueued(w, e)) /\ cur' = cur
    BY <1>4 DEF Continue
  <2>2. e.path = cur[w].path
    BY <1>4 DEF Continue, TypeInv, LocalInv, EventPCs, JobPCs, Event
  <2> HIDE DEF e
  <2>3. \A r \in Procs \ {w} : pc'[r] = pc[r]
    BY <2>1 DEF EnqueueHeld, EnqueueQueued, Goto, TypeInv, TypeOK
  <2>4. EnqueueQueued(w, e) => pc'[w] \notin {"drop", "park"}
    BY DEF EnqueueQueued, AfterQueued, Goto, TypeInv, TypeOK
  <2> QED
    BY <1>1, <1>2, <2>1, <2>2, <2>3, <2>4
<1>5. ASSUME NEW w \in Workers, NEW e, NEW d, HoldEvent(w, e, d) PROVE ParkInv'
  <2>1. \E f \in parked' : f.path = e.path
    <3> DEFINE f == [id |-> e.id, path |-> e.path, dir |-> d, stamp |-> clock + 1]
    <3>1. f \in parked' /\ f.path = e.path
      BY <1>5 DEF HoldEvent, Park
    <3> QED
      BY <3>1
  <2>2. /\ cur'[w] = e
        /\ \A r \in Procs \ {w} : pc'[r] = pc[r] /\ cur'[r] = cur[r]
    BY <1>5 DEF HoldEvent, Goto, TypeInv, TypeOK
  <2> QED
    BY <1>2, <2>1, <2>2
<1>6. CASE \A q \in Procs : pc'[q] \in {"drop", "park"} => pc'[q] = pc[q] /\ cur'[q] = cur[q]
  BY <1>2, <1>6
<1>7. ASSUME NEW p \in Paths, Grow(p) PROVE ParkInv'
  BY <1>6, <1>7 DEF Grow, TypeInv, TypeOK
<1>8. ASSUME NEW q \in Procs, EnqueueDrop(q) PROVE ParkInv'
  BY <1>6, <1>8 DEF EnqueueDrop, AfterHeld, Goto, TypeInv, TypeOK
<1>9. ASSUME NEW q \in Procs, EnqueueSupersede(q) PROVE ParkInv'
  BY <1>6, <1>9 DEF EnqueueSupersede, AfterQueued, Goto, TypeInv, TypeOK
<1>10. ASSUME NEW h \in Hooks, EnqueueNoPath(h) PROVE ParkInv'
  BY <1>6, <1>10 DEF EnqueueNoPath, Goto, TypeInv, TypeOK
<1>11. ASSUME NEW h \in Hooks, SpawnCount(h) PROVE ParkInv'
  BY <1>6, <1>11 DEF SpawnCount, Goto, TypeInv, TypeOK
<1>12. ASSUME NEW h \in Hooks, Spawn(h) PROVE ParkInv'
  BY <1>6, <1>12 DEF Spawn, Start, TypeInv, TypeOK
<1>13. ASSUME NEW w \in Workers, TryWorkerLock(w) PROVE ParkInv'
  BY <1>6, <1>13 DEF TryWorkerLock, Goto, TypeInv, TypeOK
<1>14. ASSUME NEW w \in Workers, Scan(w) PROVE ParkInv'
  BY <1>6, <1>14 DEF Scan, Goto, TypeInv, TypeOK
<1>15. ASSUME NEW w \in Workers, HoldDone(w) PROVE ParkInv'
  BY <1>6, <1>15 DEF HoldDone, Goto, TypeInv, TypeOK
<1>16. ASSUME NEW w \in Workers, HoldFinish(w) PROVE ParkInv'
  BY <1>6, <1>16 DEF HoldFinish, Goto, TypeInv, TypeOK
<1>17. ASSUME NEW w \in Workers, Recycle(w) PROVE ParkInv'
  BY <1>6, <1>17 DEF Recycle, Goto, TypeInv, TypeOK
<1>18. ASSUME NEW w \in Workers, SpawnSuccessor(w) PROVE ParkInv'
  BY <1>6, <1>18 DEF SpawnSuccessor, Start, TypeInv, TypeOK
<1>19. ASSUME NEW w \in Workers, TakeJob(w) PROVE ParkInv'
  BY <1>6, <1>19 DEF TakeJob, Goto, TypeInv, TypeOK
<1>20. ASSUME NEW w \in Workers, CaptureNothing(w) PROVE ParkInv'
  BY <1>6, <1>20 DEF CaptureNothing, Goto, TypeInv, TypeOK
<1>21. ASSUME NEW w \in Workers, CaptureFails(w) PROVE ParkInv'
  BY <1>6, <1>21 DEF CaptureFails, Goto, TypeInv, TypeOK
<1>22. ASSUME NEW w \in Workers, CaptureSlice(w) PROVE ParkInv'
  BY <1>6, <1>22 DEF CaptureSlice, Goto, TypeInv, TypeOK
<1>23. ASSUME NEW w \in Workers, WriteOffset(w) PROVE ParkInv'
  BY <1>6, <1>23 DEF WriteOffset, NewOffset, AfterSlice, Goto, TypeInv, TypeOK
<1>24. ASSUME NEW w \in Workers, ContinueTimeout(w) PROVE ParkInv'
  BY <1>6, <1>24 DEF ContinueTimeout, Goto, TypeInv, TypeOK
<1>25. ASSUME NEW w \in Workers, FinishJob(w) PROVE ParkInv'
  BY <1>6, <1>25 DEF FinishJob, Goto, TypeInv, TypeOK
<1>26. ASSUME NEW w \in Workers, Release(w) PROVE ParkInv'
  BY <1>6, <1>26 DEF Release, Goto, TypeInv, TypeOK
<1>27. ASSUME NEW w \in Workers, Rescan(w) PROVE ParkInv'
  BY <1>6, <1>27 DEF Rescan, Goto, TypeInv, TypeOK
<1>28. ASSUME NEW w \in Workers, Exit(w) PROVE ParkInv'
  BY <1>6, <1>28 DEF Exit, Gone, Goto, TypeInv, TypeOK
<1>29. ASSUME NEW q \in Procs, Crash(q) PROVE ParkInv'
  BY <1>6, <1>29 DEF Crash, Gone, Goto, TypeInv, TypeOK
<1>30. ASSUME NEW w \in Workers, NEW b \in HoldSettings, Drain(w, b) PROVE ParkInv'
  BY <1>6, <1>30 DEF Drain, Start, Goto, TypeInv, TypeOK
<1>31. ASSUME NEW S \in SUBSET Ids, RequeueErrors(S) PROVE ParkInv'
  BY <1>6, <1>31 DEF RequeueErrors, TypeInv, TypeOK
<1> QED
  BY <1>3, <1>4, <1>5, <1>6, <1>7, <1>8, <1>9, <1>10, <1>11, <1>12, <1>13,
     <1>14, <1>15, <1>16, <1>17, <1>18, <1>19, <1>20, <1>21, <1>22, <1>23,
     <1>24, <1>25, <1>26, <1>27, <1>28, <1>29, <1>30, <1>31
  DEF Next, HookStep, WorkerStep, HoldOne, QuarantineLarge

\* The new event of an enqueue is queued.
LEMMA QueuedRecord ==
  ASSUME TypeInv, NEW q \in Procs, NEW e \in Event, EnqueueQueued(q, e)
  PROVE  /\ e.id \in Ids /\ ledger'[e.id].path = e.path
         /\ ledger'[e.id].status = "queued"
<1> DEFINE f == [e EXCEPT !.forced = Mark(e)]
<1>1. f \in Event /\ f.id = e.id /\ f.path = e.path /\ e.id \in Ids
  BY DEF Event, Mark
<1>2. Append(f, "queued")
  BY DEF EnqueueQueued
<1> HIDE DEF f
<1>3. ledger'[f.id] = [path |-> f.path, forced |-> f.forced, status |-> "queued"]
  BY <1>1, <1>2, AppendLedger
<1> QED
  BY <1>1, <1>3

\* A worker on whose behalf the step does nothing keeps its promise.
LEMMA GoalFrame ==
  ASSUME TypeInv, LockInv, LedgerInv, ParkInv, [Next]_vars, NEW w \in Workers, GoalOK(w),
         pc'[w] \in {"offset", "finish"} => pc'[w] = pc[w] /\ cur'[w] = cur[w],
         goal'[w] = goal[w], upto'[w] = upto[w], UNCHANGED <<offset, owed>>,
         \A p \in Paths : imported'[p] >= imported[p] /\ imported'[p] \in Nat,
         \A v \in Workers : ~(FinishJob(v) /\ pc[v] = "finish")
  PROVE  GoalOK(w)'
<1> SUFFICES ASSUME pc'[w] \in {"offset", "finish"}
             PROVE  GoalOK(w)'
  BY DEF GoalOK
<1>1. /\ pc'[w] = pc[w] /\ cur'[w] = cur[w] /\ cur[w] \in Event /\ cur[w].path \in Paths
      /\ ledger[cur[w].id].status \in {"running", "superseded"}
      /\ pc[w] \in {"offset", "finish"}
  BY LedgerAssumption DEF TypeInv, LocalInv, EventPCs, JobPCs, PathPCs, LedgerInv, JobInv
<1>2. CoveredBeside(cur[w].path, cur[w].id) => CoveredBeside(cur[w].path, cur[w].id)'
  <2>1. \A p \in Paths : \A c : (c \in Ids => ledger[c].status \notin {"none", "queued"})
          => CoverKept(p, c)
    BY CoverStep
  <2> QED
    BY <1>1, <2>1 DEF CoverKept, CoveredBeside, ParkedFor
<1>3. /\ upto[w] \in Nat /\ goal[w] \in Nat /\ imported[cur[w].path] \in Nat
      /\ imported'[cur[w].path] >= imported[cur[w].path]
  BY <1>1 DEF TypeInv, TypeOK
<1> QED
  BY <1>1, <1>2, <1>3 DEF GoalOK

\* Every step keeps what a worker about to give up its event has to know.
LEMMA GoalStep ==
  TypeInv /\ LockInv /\ LedgerInv /\ ParkInv /\ GoalInv /\ SizeInv /\ [Next]_vars => GoalInv'
<1> SUFFICES ASSUME TypeInv, LockInv, LedgerInv, ParkInv, GoalInv, SizeInv, [Next]_vars
             PROVE  GoalInv'
  OBVIOUS
<1> USE LedgerAssumption
\* Nobody else is draining, so only w has a promise to keep.
<1>1. ASSUME NEW w \in Workers, pc[w] \in DrainPCs, GoalOK(w)',
             \A v \in Workers \ {w} : pc'[v] = pc[v]
      PROVE  GoalInv'
  <2>1. \A v \in Workers \ {w} : pc[v] \notin DrainPCs
    BY <1>1 DEF LockInv
  <2> QED
    BY <1>1, <2>1 DEF GoalInv, GoalOK, DrainPCs
\* A step that gives no worker a new promise.
<1>2. ASSUME \A w \in Workers : pc'[w] \in {"offset", "finish"} =>
               pc'[w] = pc[w] /\ cur'[w] = cur[w] /\ goal'[w] = goal[w] /\ upto'[w] = upto[w],
             UNCHANGED <<offset, imported, owed>>,
             \A v \in Workers : pc[v] = "finish" => pc'[v] # "scan"
      PROVE  GoalInv'
  <2> SUFFICES ASSUME NEW w \in Workers PROVE GoalOK(w)'
    BY DEF GoalInv
  <2>1. CASE pc'[w] \in {"offset", "finish"}
    <3>1. \A p \in Paths : imported'[p] >= imported[p] /\ imported'[p] \in Nat
      BY <1>2 DEF TypeInv, TypeOK
    <3>2. \A v \in Workers : ~(FinishJob(v) /\ pc[v] = "finish")
      BY <1>2 DEF FinishJob, Goto, TypeInv, TypeOK
    <3> QED
      BY <1>2, <2>1, <3>1, <3>2, GoalFrame DEF GoalInv
  <2>2. CASE pc'[w] \notin {"offset", "finish"}
    BY <2>2 DEF GoalOK
  <2> QED
    BY <2>1, <2>2
<1>3. ASSUME NEW p \in Paths, Grow(p) PROVE GoalInv'
  BY <1>2, <1>3 DEF Grow, TypeInv, TypeOK
<1>4. ASSUME NEW h \in Hooks, NEW t \in Targets, NEW i \in Ids, SessionEnd(h, t, i) PROVE GoalInv'
  <2> DEFINE e == [id |-> i, path |-> t, forced |-> FALSE]
  <2>1. e \in Event /\ e.id \notin used /\ e.path = t
    BY <1>4 DEF SessionEnd, Event
  <2>2. EnqueueHeld(h, e) \/ EnqueueQueued(h, e)
    BY <1>4 DEF SessionEnd
  <2> HIDE DEF e
  <2>3. /\ \A v \in Workers : pc'[v] = pc[v] /\ cur'[v] = cur[v]
        /\ UNCHANGED <<offset, imported, goal, upto>>
        /\ \A p \in Paths \ {t} : owed'[p] = owed[p]
    BY <1>4, <2>2 DEF SessionEnd, EnqueueHeld, EnqueueQueued, Goto, TypeInv, TypeOK
  <2>4. \A v \in Workers : ~(FinishJob(v) /\ pc[v] = "finish")
    BY <2>3 DEF FinishJob, Goto, TypeInv, TypeOK
  <2>5. \A p \in Paths : \A c : (c \in Ids => ledger[c].status \notin {"none", "queued"})
          => CoverKept(p, c)
    BY <2>4, CoverStep
  <2>6. \A c \in Ids \ {e.id} : CoveredBeside(t, c)'
    <3>1. CASE EnqueueHeld(h, e)
      <4> DEFINE f == [id |-> e.id, path |-> e.path, dir |-> "held-all", stamp |-> clock + 1]
      <4>1. f \in parked' /\ f.path = t
        BY <2>1, <3>1 DEF EnqueueHeld, Park
      <4> QED
        BY <4>1 DEF CoveredBeside, ParkedFor
    <3>2. CASE EnqueueQueued(h, e)
      <4>1. e.id \in Ids /\ ledger'[e.id].path = t /\ ledger'[e.id].status = "queued"
        BY <2>1, <3>2, QueuedRecord
      <4> QED
        BY <4>1 DEF CoveredBeside, Active
    <3> QED
      BY <2>2, <3>1, <3>2
  <2> SUFFICES ASSUME NEW w \in Workers, pc[w] \in {"offset", "finish"} PROVE GoalOK(w)'
    BY <2>3 DEF GoalInv, GoalOK
  <2>7. /\ cur[w] \in Event /\ cur[w].path \in Paths /\ cur[w].id # e.id /\ cur[w].id \in Ids
        /\ ledger[cur[w].id].status \in {"running", "superseded"}
    BY <2>1 DEF TypeInv, LocalInv, EventPCs, JobPCs, PathPCs, LedgerInv, JobInv, IdInv, Event
  <2>8. CoveredBeside(cur[w].path, cur[w].id) => CoveredBeside(cur[w].path, cur[w].id)'
    BY <2>3, <2>5, <2>7 DEF CoverKept, CoveredBeside, ParkedFor
  <2>9. cur[w].path = t => CoveredBeside(cur[w].path, cur[w].id)'
    BY <2>3, <2>6, <2>7 DEF CoveredBeside, ParkedFor
  <2> QED
    BY <2>3, <2>7, <2>8, <2>9 DEF GoalInv, GoalOK
<1>5. ASSUME NEW q \in Procs, EnqueueDrop(q) PROVE GoalInv'
  <2>1. CASE pc'[q] # "finish"
    BY <1>5, <1>2, <2>1 DEF EnqueueDrop, AfterHeld, Goto, TypeInv, TypeOK, HookPCs
  <2>2. CASE pc'[q] = "finish"
    <3>1. /\ q \in Workers /\ pc[q] = "drop" /\ cur' = cur /\ parked' = parked
          /\ \A v \in Workers \ {q} : pc'[v] = pc[v]
      BY <1>5, <2>2 DEF EnqueueDrop, AfterHeld, Goto, TypeInv, TypeOK
    <3>2. ParkedFor(cur[q].path)
      BY <3>1 DEF ParkInv, TypeInv, LocalInv, PathPCs
    <3>3. GoalOK(q)'
      BY <2>2, <3>1, <3>2 DEF GoalOK, CoveredBeside, ParkedFor
    <3> QED
      BY <1>1, <3>1, <3>3 DEF DrainPCs, EnqueuePCs
  <2> QED
    BY <2>1, <2>2
<1>6. ASSUME NEW q \in Procs, EnqueueSupersede(q) PROVE GoalInv'
  <2>1. CASE pc'[q] # "finish"
    BY <1>6, <1>2, <2>1 DEF EnqueueSupersede, AfterQueued, Goto, TypeInv, TypeOK, HookPCs
  <2>2. CASE pc'[q] = "finish"
    <3> DEFINE e == Oldest(todo[q])
    <3>1. e \in todo[q] /\ e \in Event
      BY <1>6, OldestIn DEF EnqueueSupersede, TypeInv, TypeOK, LocalInv
    <3>2. /\ q \in Workers /\ pc[q] = "supersede" /\ cur' = cur /\ Append(e, "superseded")
          /\ \A v \in Workers \ {q} : pc'[v] = pc[v]
      BY <1>6, <2>2 DEF EnqueueSupersede, AfterQueued, Goto, TypeInv, TypeOK
    <3> HIDE DEF e
    <3>3. PICK i \in Ids : /\ ledger[i].status = "queued" /\ ledger[i].path = cur[q].path
                           /\ i # e.id
      BY <3>1, <3>2 DEF LedgerInv, SupersedeInv
    <3>4. ledger[cur[q].id].status \in {"running", "superseded"}
      BY <3>2 DEF LedgerInv, JobInv, JobPCs
    <3>5. ledger'[i] = ledger[i] /\ i # cur[q].id
      <4>1. \A j \in Ids \ {e.id} : ledger'[j] = ledger[j]
        BY <3>1, <3>2, AppendLedger
      <4> QED
        BY <3>3, <3>4, <4>1
    <3>6. GoalOK(q)'
      BY <2>2, <3>2, <3>3, <3>5 DEF GoalOK, CoveredBeside, Active
    <3> QED
      BY <1>1, <3>2, <3>6 DEF DrainPCs, EnqueuePCs
  <2> QED
    BY <2>1, <2>2
<1>7. ASSUME NEW h \in Hooks, EnqueueNoPath(h) PROVE GoalInv'
  BY <1>2, <1>7 DEF EnqueueNoPath, Goto, HookPCs, WorkerPCs, TypeInv, TypeOK
<1>8. ASSUME NEW h \in Hooks, SpawnCount(h) PROVE GoalInv'
  BY <1>2, <1>8 DEF SpawnCount, Goto, TypeInv, TypeOK
<1>9. ASSUME NEW h \in Hooks, Spawn(h) PROVE GoalInv'
  BY <1>2, <1>9 DEF Spawn, Start, HookPCs, WorkerPCs, TypeInv, TypeOK
<1>10. ASSUME NEW w \in Workers, TryWorkerLock(w) PROVE GoalInv'
  BY <1>2, <1>10 DEF TryWorkerLock, Goto, TypeInv, TypeOK
<1>11. ASSUME NEW w \in Workers, Scan(w) PROVE GoalInv'
  BY <1>2, <1>11 DEF Scan, Goto, TypeInv, TypeOK
<1>12. ASSUME NEW w \in Workers, HoldOne(w) PROVE GoalInv'
  BY <1>2, <1>12 DEF HoldOne, HoldEvent, Goto, TypeInv, TypeOK
<1>13. ASSUME NEW w \in Workers, HoldDone(w) PROVE GoalInv'
  BY <1>2, <1>13 DEF HoldDone, Goto, TypeInv, TypeOK
<1>14. ASSUME NEW w \in Workers, HoldFinish(w) PROVE GoalInv'
  BY <1>2, <1>14 DEF HoldFinish, Goto, TypeInv, TypeOK
<1>15. ASSUME NEW w \in Workers, QuarantineLarge(w) PROVE GoalInv'
  BY <1>2, <1>15 DEF QuarantineLarge, HoldEvent, Goto, TypeInv, TypeOK
<1>16. ASSUME NEW w \in Workers, Recycle(w) PROVE GoalInv'
  BY <1>2, <1>16 DEF Recycle, Goto, TypeInv, TypeOK
<1>17. ASSUME NEW w \in Workers, SpawnSuccessor(w) PROVE GoalInv'
  BY <1>2, <1>17 DEF SpawnSuccessor, Start, TypeInv, TypeOK
<1>18. ASSUME NEW w \in Workers, TakeJob(w) PROVE GoalInv'
  BY <1>2, <1>18 DEF TakeJob, Goto, TypeInv, TypeOK
<1>19. ASSUME NEW w \in Workers, CaptureNothing(w) PROVE GoalInv'
  <2>1. /\ pc[w] = "capture" /\ pc'[w] = "finish" /\ UNCHANGED <<cur, owed, offset>>
        /\ \A v \in Workers \ {w} : pc'[v] = pc[v]
    BY <1>19 DEF CaptureNothing, Goto, TypeInv, TypeOK
  <2>2. cur[w].path \in Paths /\ offset[cur[w].path] = size[cur[w].path]
    BY <1>19 DEF CaptureNothing, NothingNew, From, SizeInv, NoByteSkipped, TypeInv, TypeOK
  <2>3. GoalOK(w)'
    BY <2>1, <2>2 DEF GoalOK, SizeInv
  <2> QED
    BY <1>1, <2>1, <2>3 DEF DrainPCs
<1>20. ASSUME NEW w \in Workers, CaptureFails(w) PROVE GoalInv'
  BY <1>2, <1>20 DEF CaptureFails, Goto, TypeInv, TypeOK
<1>21. ASSUME NEW w \in Workers, CaptureSlice(w) PROVE GoalInv'
  <2> DEFINE t == cur[w].path
             start == From(t)
  <2>1. /\ pc[w] = "capture" /\ pc'[w] = "offset" /\ UNCHANGED <<cur, owed, offset>>
        /\ \A v \in Workers \ {w} : pc'[v] = pc[v]
        /\ t \in Paths /\ goal'[w] = size[t]
    BY <1>21 DEF CaptureSlice, Goto, TypeInv, TypeOK
  <2>2. start = offset[t] /\ offset[t] \in Nat /\ size[t] \in Nat /\ imported[t] \in Nat
    BY <2>1 DEF From, SizeInv, NoByteSkipped, TypeInv, TypeOK
  <2>3. PICK end \in (start + 1)..size[t] :
          /\ imported' = [imported EXCEPT ![t] = IF @ < end THEN end ELSE @]
          /\ upto' = [upto EXCEPT ![w] = end]
    BY <1>21 DEF CaptureSlice
  <2> HIDE DEF t, start
  <2>4. upto'[w] = end /\ end \in Nat /\ offset[t] < end /\ end <= imported'[t] /\ end <= size[t]
    BY <2>1, <2>2, <2>3 DEF TypeInv, TypeOK
  <2>5. owed[t] <= size[t]
    BY <2>1 DEF SizeInv
  <2>6. cur'[w].path = t
    BY <2>1 DEF t
  <2>7. GoalOK(w)'
    BY <2>1, <2>4, <2>5, <2>6 DEF GoalOK
  <2> QED
    BY <1>1, <2>1, <2>7 DEF DrainPCs
<1>22. ASSUME NEW w \in Workers, WriteOffset(w) PROVE GoalInv'
  <2>1. /\ pc[w] = "offset" /\ UNCHANGED <<cur, owed, ledger, parked>>
        /\ \A v \in Workers \ {w} : pc'[v] = pc[v]
        /\ pc'[w] = IF upto[w] < goal[w] THEN "continue" ELSE "finish"
    BY <1>22 DEF WriteOffset, AfterSlice, NoWrite, Goto, TypeInv, TypeOK
  <2>2. cur[w].path \in Paths /\ cur[w].id = cur[w].id
    BY <2>1 DEF TypeInv, LocalInv, PathPCs
  <2>3. /\ offset'[cur[w].path] = upto[w] /\ upto[w] \in Nat /\ goal[w] \in Nat
        /\ owed[cur[w].path] \in Nat
    BY <1>22, <2>2 DEF WriteOffset, NewOffset, TypeInv, TypeOK
  <2>4. owed[cur[w].path] <= goal[w] \/ CoveredBeside(cur[w].path, cur[w].id)
    BY <2>1 DEF GoalInv, GoalOK
  <2>5. GoalOK(w)'
    BY <2>1, <2>3, <2>4 DEF GoalOK, CoveredBeside, ParkedFor
  <2> QED
    BY <1>1, <2>1, <2>5 DEF DrainPCs
<1>23. ASSUME NEW w \in Workers, NEW i \in Ids, Continue(w, i) PROVE GoalInv'
  <2> DEFINE e == [cur[w] EXCEPT !.id = i]
  <2>1. pc[w] = "continue" /\ cur[w] \in Event /\ cur' = cur
    BY <1>23 DEF Continue, TypeInv, LocalInv, EventPCs, JobPCs
  <2>2. e \in Event /\ e.id \notin used /\ e.path = cur[w].path /\ e.path # NoPath
    BY <1>23, <2>1 DEF Continue, TypeInv, LocalInv, PathPCs, Event
  <2>3. EnqueueHeld(w, e) \/ EnqueueQueued(w, e)
    BY <1>23 DEF Continue
  <2> HIDE DEF e
  <2>4. \A v \in Workers \ {w} : pc'[v] = pc[v]
    BY <2>3 DEF EnqueueHeld, EnqueueQueued, Goto, TypeInv, TypeOK
  <2>5. GoalOK(w)'
    <3>1. CASE EnqueueHeld(w, e)
      BY <3>1 DEF GoalOK, EnqueueHeld, Goto, TypeInv, TypeOK
    <3>2. CASE EnqueueQueued(w, e)
      <4>1. pc'[w] # "offset"
        BY <2>2, <3>2 DEF EnqueueQueued, AfterQueued, Goto, TypeInv, TypeOK
      <4>2. e.id \in Ids /\ ledger'[e.id].path = e.path /\ ledger'[e.id].status = "queued"
        BY <2>2, <3>2, QueuedRecord
      <4>3. /\ ledger[e.id].status = "none"
            /\ ledger[cur[w].id].status \in {"running", "superseded"}
        BY <2>1, <2>2, <4>2 DEF LedgerInv, IdInv, JobInv, JobPCs
      <4> QED
        BY <2>1, <2>2, <4>1, <4>2, <4>3 DEF GoalOK, CoveredBeside, Active
    <3> QED
      BY <2>3, <3>1, <3>2
  <2> QED
    BY <1>1, <2>1, <2>4, <2>5 DEF DrainPCs
<1>24. ASSUME NEW w \in Workers, ContinueTimeout(w) PROVE GoalInv'
  BY <1>2, <1>24 DEF ContinueTimeout, Goto, TypeInv, TypeOK
<1>25. ASSUME NEW w \in Workers, FinishJob(w) PROVE GoalInv'
  <2>1. /\ pc[w] \in DrainPCs /\ pc'[w] = "scan"
        /\ \A v \in Workers \ {w} : pc'[v] = pc[v]
    BY <1>25 DEF FinishJob, Goto, DrainPCs, TypeInv, TypeOK
  <2>2. GoalOK(w)'
    BY <2>1 DEF GoalOK
  <2> QED
    BY <1>1, <2>1, <2>2
<1>26. ASSUME NEW w \in Workers, Release(w) PROVE GoalInv'
  BY <1>2, <1>26 DEF Release, Goto, TypeInv, TypeOK
<1>27. ASSUME NEW w \in Workers, Rescan(w) PROVE GoalInv'
  BY <1>2, <1>27 DEF Rescan, Goto, TypeInv, TypeOK
<1>28. ASSUME NEW w \in Workers, Exit(w) PROVE GoalInv'
  BY <1>2, <1>28 DEF Exit, Gone, Goto, TypeInv, TypeOK
<1>29. ASSUME NEW q \in Procs, Crash(q) PROVE GoalInv'
  BY <1>2, <1>29 DEF Crash, Gone, Goto, HookPCs, WorkerPCs, TypeInv, TypeOK
<1>30. ASSUME NEW w \in Workers, NEW b \in HoldSettings, Drain(w, b) PROVE GoalInv'
  BY <1>2, <1>30 DEF Drain, Start, Goto, TypeInv, TypeOK
<1>31. ASSUME NEW S \in SUBSET Ids, RequeueErrors(S) PROVE GoalInv'
  BY <1>2, <1>31 DEF RequeueErrors, TypeInv, TypeOK
<1>32. CASE UNCHANGED vars
  BY <1>2, <1>32 DEF TypeInv, TypeOK
<1> QED
  BY <1>3, <1>4, <1>5, <1>6, <1>7, <1>8, <1>9, <1>10, <1>11, <1>12, <1>13,
     <1>14, <1>15, <1>16, <1>17, <1>18, <1>19, <1>20, <1>21, <1>22, <1>23,
     <1>24, <1>25, <1>26, <1>27, <1>28, <1>29, <1>30, <1>31, <1>32
  DEF Next, HookStep, WorkerStep
\* Every step keeps the order of offset, import, acknowledgement and file size.
LEMMA SizeStep == TypeInv /\ LockInv /\ GoalInv /\ SizeInv /\ [Next]_vars => SizeInv'
<1> SUFFICES ASSUME TypeInv, LockInv, GoalInv, SizeInv, [Next]_vars PROVE SizeInv'
  OBVIOUS
<1>1. ASSUME NEW p \in Paths, Grow(p) PROVE SizeInv'
  BY <1>1 DEF Grow, TypeInv, TypeOK, SizeInv, NoByteSkipped
<1>2. ASSUME NEW h \in Hooks, NEW t \in Targets, NEW i \in Ids, SessionEnd(h, t, i)
      PROVE  SizeInv'
  BY <1>2 DEF SessionEnd, TypeInv, TypeOK, SizeInv, NoByteSkipped
<1>3. ASSUME NEW w \in Workers, CaptureSlice(w) PROVE SizeInv'
  <2> DEFINE t == cur[w].path
  <2>1. t \in Paths /\ From(t) \in Nat /\ UNCHANGED <<offset, size, owed>>
    BY <1>3 DEF CaptureSlice, From, TypeInv, TypeOK
  <2>2. PICK end \in (From(t) + 1)..size[t] :
          imported' = [imported EXCEPT ![t] = IF @ < end THEN end ELSE @]
    BY <1>3 DEF CaptureSlice
  <2> HIDE DEF t
  <2> QED
    BY <2>1, <2>2 DEF TypeInv, TypeOK, SizeInv, NoByteSkipped
<1>4. ASSUME NEW w \in Workers, WriteOffset(w) PROVE SizeInv'
  <2>1. /\ cur[w].path \in Paths /\ upto[w] <= imported[cur[w].path]
    BY <1>4 DEF WriteOffset, TypeInv, LocalInv, PathPCs, GoalInv, GoalOK
  <2> QED
    BY <1>4, <2>1 DEF WriteOffset, NewOffset, TypeInv, TypeOK, SizeInv, NoByteSkipped
<1>5. CASE UNCHANGED <<offset, imported, size, owed>>
  BY <1>5 DEF SizeInv, NoByteSkipped
<1> QED
  BY <1>1, <1>2, <1>3, <1>4, <1>5
  DEF Next, HookStep, WorkerStep, EnqueueDrop, EnqueueSupersede, EnqueueNoPath, SpawnCount,
      Spawn, TryWorkerLock, Scan, HoldOne, HoldDone, HoldFinish, QuarantineLarge, HoldEvent,
      Recycle, SpawnSuccessor, TakeJob, CaptureNothing, CaptureFails, Continue,
      ContinueTimeout, FinishJob, Release, Rescan, Exit, Crash, Drain, RequeueErrors

\* No step loses what was acknowledged.
LEMMA LostStep ==
  /\ TypeInv /\ LockInv /\ LedgerInv /\ ParkInv /\ GoalInv /\ BesideInv /\ SizeInv
  /\ NothingLost /\ [Next]_vars
  => NothingLost'
<1> SUFFICES ASSUME TypeInv, LockInv, LedgerInv, ParkInv, GoalInv, BesideInv, SizeInv,
                    NothingLost, [Next]_vars, NEW p \in Paths, offset'[p] < owed'[p]
             PROVE  Covered(p)'
  BY DEF NothingLost
<1> USE LedgerAssumption
<1>1. PICK c : c \notin Ids
  BY NoSetContainsEverything
<1>2. Covered(p) <=> CoveredBeside(p, c)
  BY <1>1 DEF Covered, CoveredBeside, ParkedFor
<1>3. CoveredBeside(p, c)' => Covered(p)'
  BY DEF Covered, CoveredBeside, ParkedFor
<1>4. CASE /\ offset[p] < owed[p]
           /\ \A w \in Workers : ~(FinishJob(w) /\ pc[w] = "finish")
  BY <1>1, <1>2, <1>3, <1>4, CoverStep DEF NothingLost, CoverKept
<1>5. ASSUME NEW w \in Workers, FinishJob(w), pc[w] = "finish" PROVE Covered(p)'
  <2>1. /\ cur[w] \in Event /\ cur[w].path \in Paths
        /\ ledger[cur[w].id].path = cur[w].path
    BY <1>5 DEF TypeInv, LocalInv, EventPCs, JobPCs, PathPCs, LedgerInv, JobInv
  <2>2. Append(cur[w], "done") /\ UNCHANGED <<offset, owed, parked>>
    BY <1>5 DEF FinishJob
  <2>3. \A i \in Ids \ {cur[w].id} : ledger'[i] = ledger[i]
    BY <2>1, <2>2, AppendLedger
  <2>4. CoveredBeside(p, cur[w].id)
    <3>1. CASE p = cur[w].path
      BY <1>5, <2>1, <2>2, <3>1 DEF GoalInv, GoalOK, TypeInv, TypeOK
    <3>2. CASE p # cur[w].path
      BY <2>1, <2>2, <3>2 DEF NothingLost, Covered, CoveredBeside, ParkedFor
    <3> QED
      BY <3>1, <3>2
  <2> QED
    BY <2>2, <2>3, <2>4 DEF Covered, CoveredBeside, ParkedFor
<1>6. ASSUME NEW h \in Hooks, NEW t \in Targets, NEW i \in Ids, SessionEnd(h, t, i)
      PROVE  Covered(p)'
  <2> DEFINE e == [id |-> i, path |-> t, forced |-> FALSE]
  <2>1. e \in Event /\ e.path = t /\ (EnqueueHeld(h, e) \/ EnqueueQueued(h, e))
    BY <1>6 DEF SessionEnd, Event
  <2> HIDE DEF e
  <2>2. CASE p = t /\ EnqueueHeld(h, e)
    <3> DEFINE f == [id |-> e.id, path |-> e.path, dir |-> "held-all", stamp |-> clock + 1]
    <3>1. f \in parked' /\ f.path = p
      BY <2>1, <2>2 DEF EnqueueHeld, Park
    <3> QED
      BY <3>1 DEF Covered
  <2>3. CASE p = t /\ EnqueueQueued(h, e)
    BY <2>1, <2>3, QueuedRecord DEF Covered, Active
  <2>4. CASE p # t
    <3>1. offset[p] < owed[p]
      BY <1>6, <2>4 DEF SessionEnd, TypeInv, TypeOK
    <3>2. \A w \in Workers : ~(FinishJob(w) /\ pc[w] = "finish")
      <4>1. \A w \in Workers : pc'[w] = pc[w]
        BY <2>1 DEF EnqueueHeld, EnqueueQueued, Goto, TypeInv, TypeOK
      <4> QED
        BY <4>1 DEF FinishJob, Goto, TypeInv, TypeOK
    <3> QED
      BY <1>4, <3>1, <3>2
  <2> QED
    BY <2>1, <2>2, <2>3, <2>4
<1>7. ASSUME NEW w \in Workers, WriteOffset(w) PROVE Covered(p)'
  <2>1. /\ ledger[cur[w].id].path = cur[w].path /\ pc[w] \in JobPCs
        /\ cur[w].id \in Ids /\ UNCHANGED <<ledger, parked, owed>>
        /\ \A r \in Paths \ {cur[w].path} : offset'[r] = offset[r]
    BY <1>7 DEF WriteOffset, NoWrite, TypeInv, TypeOK, LocalInv, EventPCs, JobPCs,
                LedgerInv, JobInv, Event
  <2>2. CASE p = cur[w].path
    BY <2>1, <2>2 DEF BesideInv, Covered, CoveredBeside, ParkedFor, Active
  <2>3. CASE p # cur[w].path
    BY <2>1, <2>3 DEF NothingLost, Covered
  <2> QED
    BY <2>2, <2>3
<1>8. CASE UNCHANGED <<offset, owed>>
  BY <1>4, <1>5, <1>8
<1> QED
  BY <1>6, <1>7, <1>8
  DEF Next, HookStep, WorkerStep, Grow, EnqueueDrop, EnqueueSupersede, EnqueueNoPath,
      SpawnCount, Spawn, TryWorkerLock, Scan, HoldOne, HoldDone, HoldFinish,
      QuarantineLarge, HoldEvent, Recycle, SpawnSuccessor, TakeJob, CaptureNothing,
      CaptureFails, CaptureSlice, Continue, ContinueTimeout, FinishJob, Release, Rescan, Exit,
      Crash, Drain, RequeueErrors

IInv == /\ TypeInv /\ LockInv /\ LedgerInv /\ ParkInv /\ GoalInv /\ BesideInv
        /\ SizeInv /\ NothingLost

\* IInv is an invariant of the queue.
LEMMA Invariance == Spec => []IInv
<1>1. Init => IInv
  <2> SUFFICES ASSUME Init PROVE IInv
    OBVIOUS
  <2>1. ParkInv /\ GoalInv /\ BesideInv /\ SizeInv /\ NothingLost
    BY LedgerAssumption
    DEF Init, ParkInv, GoalInv, GoalOK, BesideInv, JobPCs, SizeInv, NoByteSkipped, NothingLost
  <2> QED
    BY <2>1, TypeInit, LockInit, LedgerInit DEF IInv
<1>2. IInv /\ [Next]_vars => IInv'
  BY TypeStep, LockStep, LedgerStep, ParkStep, GoalStep, BesideStep, SizeStep, LostStep DEF IInv
<1> QED
  BY <1>1, <1>2, PTL DEF Spec

\* An acknowledged SessionEnd is never lost, whatever dies between two writes:
\* the queue or a parking lot holds an event for a transcript until it is
\* captured as far as it reached.
THEOREM NothingLostAlways == Spec => []NothingLost
<1>1. IInv => NothingLost
  BY DEF IInv
<1> QED
  BY <1>1, Invariance, PTL

\* No byte range is marked as captured before its import succeeded.
THEOREM NoByteSkippedAlways == Spec => []NoByteSkipped
<1>1. IInv => NoByteSkipped
  BY DEF IInv, SizeInv
<1> QED
  BY <1>1, Invariance, PTL

-----------------------------------------------------------------------------
(* The queue implements CaptureService *)

ServiceAction == [Service!ServiceNext]_(Service!serviceVars)

\* A step that captures and acknowledges nothing and changes what covers one
\* transcript at most is a step of the service: the pledge is renewed, or given
\* up with nothing owed, or the service does not move.
LEMMA QuietStep ==
  ASSUME NothingLost', UNCHANGED <<offset, owed>>, TypeInv, NEW p,
         \A r \in Paths \ {p} : Covered(r)' <=> Covered(r)
  PROVE  ServiceAction
<1> DEFINE pledged  == {r \in Paths : Covered(r)}
           pledgedN == {r \in Paths : Covered(r)'}
<1>1. CASE pledgedN = pledged
  BY <1>1 DEF ServiceAction, Service!serviceVars
<1>2. CASE p \in Paths /\ Covered(p)' /\ ~Covered(p)
  <2>1. pledgedN = pledged \cup {p}
    BY <1>2
  <2>2. Service!Renew(p)
    BY <2>1 DEF Service!Renew
  <2> QED
    BY <1>2, <2>2 DEF ServiceAction, Service!ServiceNext
<1>3. CASE p \in Paths /\ ~Covered(p)' /\ Covered(p)
  <2>1. pledgedN = pledged \ {p}
    BY <1>3
  <2>2. offset[p] >= owed[p]
    BY <1>3 DEF NothingLost, TypeInv, TypeOK
  <2>3. Service!Settle(p)
    BY <2>1, <2>2 DEF Service!Settle
  <2> QED
    BY <1>3, <2>3 DEF ServiceAction, Service!ServiceNext
<1> QED
  BY <1>1, <1>2, <1>3

\* A new record of an event changes what covers its own transcript only.
LEMMA AppendLocal ==
  ASSUME TypeInv, NEW e \in Event, NEW s, Append(e, s), UNCHANGED parked,
         ledger[e.id].path = e.path \/ ledger[e.id].status = "none",
         NEW r \in Paths \ {e.path}
  PROVE  Covered(r)' <=> Covered(r)
<1>1. /\ ledger'[e.id] = [path |-> e.path, forced |-> e.forced, status |-> s]
      /\ \A i \in Ids \ {e.id} : ledger'[i] = ledger[i]
  BY AppendLedger
<1>2. ledger'[e.id].path # r
  BY <1>1
<1>3. ledger[e.id].path # r \/ ledger[e.id].status \notin Active \cup {"error"}
  BY DEF Active
<1> QED
  BY <1>1, <1>2, <1>3 DEF Covered

\* An enqueue covers its own transcript and leaves the others as they were.
LEMMA EnqueueLocal ==
  ASSUME TypeInv, LedgerInv, NEW q \in Procs, NEW e \in Event, e.id \notin used,
         EnqueueHeld(q, e) \/ EnqueueQueued(q, e)
  PROVE  /\ \A r \in Paths \ {e.path} : Covered(r)' <=> Covered(r)
         /\ e.path \in Paths => \E p \in Paths : p = e.path /\ Covered(p)'
<1>1. CASE EnqueueHeld(q, e)
  <2> DEFINE f == [id |-> e.id, path |-> e.path, dir |-> "held-all", stamp |-> clock + 1]
  <2>1. parked' = parked \cup {f} /\ f.path = e.path /\ ledger' = ledger
    BY <1>1 DEF EnqueueHeld, Park
  <2> HIDE DEF f
  <2> QED
    BY <2>1 DEF Covered
<1>2. CASE EnqueueQueued(q, e)
  <2> DEFINE f == [e EXCEPT !.forced = Mark(e)]
  <2>1. f \in Event /\ f.id = e.id /\ f.path = e.path /\ ledger[e.id].status = "none"
    BY DEF Event, Mark, LedgerInv, IdInv
  <2>2. Append(f, "queued") /\ UNCHANGED parked
    BY <1>2 DEF EnqueueQueued
  <2> HIDE DEF f
  <2>3. \A r \in Paths \ {e.path} : Covered(r)' <=> Covered(r)
    BY <2>1, <2>2, AppendLocal
  <2> QED
    BY <1>2, <2>3, QueuedRecord DEF Covered, Active
<1> QED
  BY <1>1, <1>2

\* Every step of the queue is a step of the service or leaves it unchanged.
LEMMA ServiceStep == IInv /\ IInv' /\ [Next]_vars => ServiceAction
<1> SUFFICES ASSUME IInv, IInv', [Next]_vars PROVE ServiceAction
  OBVIOUS
<1> USE LedgerAssumption
<1>1. TypeInv /\ LedgerInv /\ NothingLost' /\ SizeInv
  BY DEF IInv
<1>2. ASSUME UNCHANGED <<offset, owed, ledger, parked>> PROVE ServiceAction
  BY <1>1, <1>2, QuietStep DEF Covered
<1>3. ASSUME NEW e \in Event, NEW s, Append(e, s), UNCHANGED <<parked, offset, owed>>,
             ledger[e.id].path = e.path
      PROVE  ServiceAction
  BY <1>1, <1>3, QuietStep, AppendLocal
<1>4. ASSUME NEW h \in Hooks, NEW t \in Targets, NEW i \in Ids, SessionEnd(h, t, i)
      PROVE  ServiceAction
  <2> DEFINE e == [id |-> i, path |-> t, forced |-> FALSE]
  <2>1. /\ e \in Event /\ e.id \notin used /\ e.path = t
        /\ EnqueueHeld(h, e) \/ EnqueueQueued(h, e)
    BY <1>4 DEF SessionEnd, Event
  <2> HIDE DEF e
  <2>2. /\ \A r \in Paths \ {t} : Covered(r)' <=> Covered(r)
        /\ t \in Paths => Covered(t)'
    BY <1>1, <2>1, EnqueueLocal
  <2>3. CASE t \in Paths
    <3>1. /\ owed' = [owed EXCEPT ![t] = size[t]] /\ offset' = offset
          /\ owed[t] <= size[t] /\ owed'[t] = size[t]
      BY <1>1, <1>4, <2>3 DEF SessionEnd, SizeInv, TypeInv, TypeOK
    <3>2. owed' = [owed EXCEPT ![t] = owed'[t]] /\ owed'[t] >= owed[t]
      BY <1>1, <2>3, <3>1 DEF TypeInv, TypeOK
    <3>3. {r \in Paths : Covered(r)'} = {r \in Paths : Covered(r)} \cup {t}
      BY <2>2, <2>3
    <3>4. Service!End(t)
      BY <3>1, <3>2, <3>3 DEF Service!End
    <3> QED
      BY <2>3, <3>4 DEF ServiceAction, Service!ServiceNext
  <2>4. CASE t \notin Paths
    <3>1. UNCHANGED <<offset, owed>>
      BY <1>4, <2>4 DEF SessionEnd
    <3> QED
      BY <1>1, <2>2, <3>1, QuietStep
  <2> QED
    BY <2>3, <2>4
<1>5. ASSUME NEW w \in Workers, NEW i \in Ids, Continue(w, i) PROVE ServiceAction
  <2> DEFINE e == [cur[w] EXCEPT !.id = i]
  <2>1. cur[w] \in Event
    BY <1>1, <1>5 DEF Continue, TypeInv, LocalInv, EventPCs, JobPCs
  <2>2. /\ e \in Event /\ e.id \notin used /\ (EnqueueHeld(w, e) \/ EnqueueQueued(w, e))
        /\ UNCHANGED <<offset, owed>>
    BY <1>5, <2>1 DEF Continue, Event
  <2> HIDE DEF e
  <2>3. \A r \in Paths \ {e.path} : Covered(r)' <=> Covered(r)
    BY <1>1, <2>2, EnqueueLocal
  <2> QED
    BY <1>1, <2>2, <2>3, QuietStep
<1>6. ASSUME NEW t, NEW d, DropOlder(t, d), UNCHANGED <<offset, owed, ledger>>
      PROVE  ServiceAction
  <2>1. \A r : ParkedFor(r)' <=> ParkedFor(r)
    BY <1>1, <1>6, DropOlderKeeps DEF TypeInv, ParkedFor, DropOlder
  <2>2. \A r \in Paths : Covered(r)' <=> Covered(r)
    BY <1>6, <2>1 DEF Covered, ParkedFor
  <2> QED
    BY <1>1, <1>6, <2>2, QuietStep
<1>7. ASSUME NEW q \in Procs, EnqueueDrop(q) PROVE ServiceAction
  BY <1>2, <1>6, <1>7 DEF EnqueueDrop
<1>8. ASSUME NEW q \in Procs, EnqueueSupersede(q) PROVE ServiceAction
  <2> DEFINE e == Oldest(todo[q])
  <2>1. e \in todo[q] /\ e \in Event
    BY <1>1, <1>8, OldestIn DEF EnqueueSupersede, TypeInv, TypeOK, LocalInv
  <2>2. Append(e, "superseded") /\ UNCHANGED <<parked, offset, owed>>
    BY <1>8 DEF EnqueueSupersede
  <2> HIDE DEF e
  <2>3. ledger[e.id].path = e.path
    BY <1>1, <2>1 DEF LedgerInv, MemoryInv
  <2> QED
    BY <1>3, <2>1, <2>2, <2>3
<1>9. ASSUME NEW h \in Hooks, EnqueueNoPath(h) PROVE ServiceAction
  <2>1. PICK s : Append(cur[h], s)
    BY <1>9 DEF EnqueueNoPath
  <2>2. /\ cur[h] \in Event /\ ledger[cur[h].id].path = cur[h].path
        /\ UNCHANGED <<parked, offset, owed>>
    BY <1>1, <1>9
    DEF EnqueueNoPath, TypeInv, LocalInv, EventPCs, HookLockPCs, LedgerInv, NoPathInv
  <2> QED
    BY <1>3, <2>1, <2>2
<1>10. ASSUME NEW w \in Workers, NEW e, NEW d, HoldEvent(w, e, d) PROVE ServiceAction
  <2> DEFINE f == [id |-> e.id, path |-> e.path, dir |-> d, stamp |-> clock + 1]
  <2>1. parked' = parked \cup {f} /\ f.path = e.path /\ UNCHANGED <<ledger, offset, owed>>
    BY <1>10 DEF HoldEvent, Park
  <2> HIDE DEF f
  <2>2. \A r \in Paths \ {e.path} : Covered(r)' <=> Covered(r)
    BY <2>1 DEF Covered
  <2> QED
    BY <1>1, <2>1, <2>2, QuietStep
<1>11. ASSUME NEW w \in Workers, HoldFinish(w) PROVE ServiceAction
  <2>1. CASE \E s : Append(cur[w], s) /\ UNCHANGED parked
    <3>1. /\ cur[w] \in Event /\ ledger[cur[w].id].path = cur[w].path
          /\ UNCHANGED <<offset, owed>>
      BY <1>1, <1>11 DEF HoldFinish, TypeInv, LocalInv, EventPCs, LedgerInv, MemoryInv
    <3> QED
      BY <1>3, <2>1, <3>1
  <2> QED
    BY <1>6, <1>11, <2>1 DEF HoldFinish
<1>12. ASSUME NEW w \in Workers, TakeJob(w) PROVE ServiceAction
  <2> DEFINE e == Oldest(todo[w])
  <2>1. e \in todo[w] /\ e \in Event
    BY <1>1, <1>12, OldestIn DEF TakeJob, TypeInv, TypeOK, LocalInv
  <2>2. Append(e, "running") /\ UNCHANGED <<parked, offset, owed>>
    BY <1>12 DEF TakeJob
  <2> HIDE DEF e
  <2>3. ledger[e.id].path = e.path
    BY <1>1, <2>1 DEF LedgerInv, MemoryInv
  <2> QED
    BY <1>3, <2>1, <2>2, <2>3
<1>13. ASSUME NEW w \in Workers, FinishJob(w) PROVE ServiceAction
  <2>1. PICK s : Append(cur[w], s)
    BY <1>13 DEF FinishJob
  <2>2. /\ cur[w] \in Event /\ ledger[cur[w].id].path = cur[w].path
        /\ UNCHANGED <<parked, offset, owed>>
    BY <1>1, <1>13 DEF FinishJob, TypeInv, LocalInv, EventPCs, JobPCs, LedgerInv, JobInv
  <2> QED
    BY <1>3, <2>1, <2>2
<1>14. ASSUME NEW w \in Workers, WriteOffset(w) PROVE ServiceAction
  <2> DEFINE t == cur[w].path
  <2>1. /\ t \in Paths /\ pc[w] = "offset" /\ offset[t] < upto[w]
        /\ ledger[cur[w].id].path = t /\ cur[w].id \in Ids
        /\ ledger[cur[w].id].status = "running" \/ CoveredBeside(t, cur[w].id)
    BY <1>14 DEF IInv, WriteOffset, TypeInv, LocalInv, PathPCs, EventPCs, JobPCs, GoalInv,
                 GoalOK, BesideInv, LedgerInv, JobInv, Event
  <2>2. offset' = [offset EXCEPT ![t] = upto[w]] /\ UNCHANGED <<owed, ledger, parked>>
    BY <1>14 DEF WriteOffset, NewOffset, NoWrite
  <2>3. Covered(t)
    BY <2>1 DEF Covered, CoveredBeside, ParkedFor, Active
  <2> HIDE DEF t
  <2>4. /\ offset' = [offset EXCEPT ![t] = offset'[t]] /\ offset'[t] > offset[t]
    BY <1>1, <2>1, <2>2 DEF TypeInv, TypeOK
  <2>5. {r \in Paths : Covered(r)'} = {r \in Paths : Covered(r)}
    BY <2>2 DEF Covered
  <2>6. Service!Capture(t)
    BY <2>1, <2>2, <2>3, <2>4, <2>5 DEF Service!Capture
  <2> QED
    BY <2>1, <2>6 DEF ServiceAction, Service!ServiceNext
<1>15. ASSUME NEW S \in SUBSET Ids, RequeueErrors(S) PROVE ServiceAction
  <2>1. /\ \A i \in Ids : /\ ledger'[i].path = ledger[i].path
                          /\ ledger[i].status \in Active \cup {"error"}
                               <=> ledger'[i].status \in Active \cup {"error"}
        /\ UNCHANGED <<parked, offset, owed>>
    BY <1>1, <1>15 DEF RequeueErrors, TypeInv, TypeOK, Active
  <2>2. \A r \in Paths : Covered(r)' <=> Covered(r)
    BY <2>1 DEF Covered
  <2> QED
    BY <1>1, <2>1, <2>2, QuietStep
<1> QED
  BY <1>2, <1>4, <1>5, <1>7, <1>8, <1>9, <1>10, <1>11, <1>12, <1>13, <1>14, <1>15
  DEF Next, HookStep, WorkerStep, Grow, SpawnCount, Spawn, TryWorkerLock, Scan, HoldOne,
      HoldDone, QuarantineLarge, Recycle, SpawnSuccessor, CaptureNothing, CaptureFails,
      CaptureSlice, ContinueTimeout, Release, Rescan, Exit, Crash, Drain, NoWrite

\* Every behaviour of the queue is one of CaptureService: crashes, races and
\* duplicates included, the hold on a transcript is given up only when what was
\* acknowledged of it is captured.
THEOREM QueueImplementsService == Spec => ImplementsService
<1>1. Init => Service!ServiceInit
  BY DEF Init, Service!ServiceInit, Covered, Active
<1>2. IInv /\ IInv' /\ [Next]_vars => [Service!ServiceNext]_(Service!serviceVars)
  BY ServiceStep DEF ServiceAction
<1> QED
  BY <1>1, <1>2, Invariance, PTL DEF Spec, ImplementsService, Service!ServiceSpec

-----------------------------------------------------------------------------
(***************************************************************************)
(* What a drain promises: the hold, bytes imported once, one queued event  *)
(* for each transcript, and that no waiting event is stranded.  Each       *)
(* promise has an invariant of its own on top of those above:              *)
(*   HoldInv    a worker under the hold has only forced events left        *)
(*   OnceInv    import and offset differ only between the two writes       *)
(*   OneInv     a second queued event is about to be superseded            *)
(*   ServeInv   an active event has a process that will look at it         *)
(***************************************************************************)

\* An append writes status and transcript of its own event and no other.
LEMMA AppendStatus ==
  ASSUME TypeInv, NEW e \in Event, NEW s, Append(e, s)
  PROVE  /\ ledger'[e.id].status = s /\ ledger'[e.id].path = e.path
         /\ \A i \in Ids \ {e.id} : ledger'[i] = ledger[i]
<1>1. ledger'[e.id] = [path |-> e.path, forced |-> e.forced, status |-> s]
  BY AppendLedger
<1>2. \A i \in Ids \ {e.id} : ledger'[i] = ledger[i]
  BY AppendLedger
<1> QED
  BY <1>1, <1>2

-----------------------------------------------------------------------------
(* The hold *)

HoldInv ==
  \A w \in Workers : hold[w] =>
    /\ pc[w] = "pick" => Unforced(todo[w]) = {}
    /\ pc[w] = "capture" => cur[w].forced

\* A step that brings no worker to an event keeps the hold.
LEMMA HoldFrame ==
  ASSUME HoldInv,
         \A w \in Workers : pc'[w] \in {"pick", "capture"} =>
           pc'[w] = pc[w] /\ cur'[w] = cur[w] /\ todo'[w] = todo[w] /\ hold'[w] = hold[w]
  PROVE  HoldInv'
  BY DEF HoldInv, Unforced

\* Every step keeps the events a worker under the hold has left forced.
LEMMA HoldStep == TypeInv /\ LockInv /\ HoldInv /\ [Next]_vars => HoldInv'
<1> SUFFICES ASSUME TypeInv, LockInv, HoldInv, [Next]_vars PROVE HoldInv'
  OBVIOUS
<1> USE LedgerAssumption
<1>1. ASSUME NEW w \in Workers, Scan(w) PROVE HoldInv'
  <2>1. /\ hold' = hold /\ \A v \in Workers \ {w} : pc'[v] = pc[v] /\ todo'[v] = todo[v] /\ cur'[v] = cur[v]
        /\ pc'[w] # "capture" /\ (pc'[w] = "pick" => ~hold[w])
    BY <1>1 DEF Scan, Goto, TypeInv, TypeOK
  <2> QED
    BY <2>1 DEF HoldInv, Unforced
<1>2. ASSUME NEW w \in Workers, HoldDone(w) PROVE HoldInv'
  <2>1. /\ UNCHANGED <<hold, todo, cur>> /\ \A v \in Workers \ {w} : pc'[v] = pc[v]
        /\ pc'[w] # "capture" /\ Unforced(todo[w]) = {}
    BY <1>2 DEF HoldDone, Goto, TypeInv, TypeOK
  <2> QED
    BY <2>1 DEF HoldInv, Unforced
<1>3. ASSUME NEW w \in Workers, TakeJob(w) PROVE HoldInv'
  <2>1. Oldest(todo[w]) \in todo[w]
    BY <1>3, OldestIn DEF TakeJob, TypeInv, TypeOK, LocalInv
  <2>2. /\ hold' = hold /\ pc[w] = "pick" /\ pc'[w] = "capture" /\ cur'[w] = Oldest(todo[w])
        /\ \A v \in Workers \ {w} : pc'[v] = pc[v] /\ todo'[v] = todo[v] /\ cur'[v] = cur[v]
    BY <1>3 DEF TakeJob, Goto, TypeInv, TypeOK
  <2> QED
    BY <2>1, <2>2 DEF HoldInv, Unforced
<1>4. ASSUME NEW w \in Workers, HoldOne(w) PROVE HoldInv'
  BY <1>4, HoldFrame DEF HoldOne, HoldEvent, Goto, TypeInv, TypeOK
<1>5. ASSUME NEW h \in Hooks, NEW t \in Targets, NEW i \in Ids, SessionEnd(h, t, i) PROVE HoldInv'
  <2>1. /\ hold' = hold
        /\ \A w \in Workers : pc'[w] = pc[w] /\ cur'[w] = cur[w] /\ todo'[w] = todo[w]
    BY <1>5 DEF SessionEnd, EnqueueHeld, EnqueueQueued, Goto, TypeInv, TypeOK
  <2> QED
    BY <2>1, HoldFrame
<1>6. ASSUME NEW q \in Procs, EnqueueDrop(q) PROVE HoldInv'
  BY <1>6, HoldFrame DEF EnqueueDrop, AfterHeld, Goto, TypeInv, TypeOK
<1>7. ASSUME NEW q \in Procs, EnqueueSupersede(q) PROVE HoldInv'
  BY <1>7, HoldFrame DEF EnqueueSupersede, AfterQueued, Goto, TypeInv, TypeOK
<1>8. ASSUME NEW w \in Workers, NEW i \in Ids, Continue(w, i) PROVE HoldInv'
  BY <1>8, HoldFrame DEF Continue, EnqueueHeld, EnqueueQueued, AfterQueued, Goto, TypeInv, TypeOK
<1>9. CASE UNCHANGED localVars
  BY <1>9, HoldFrame
<1>10. ASSUME NEW h \in Hooks, EnqueueNoPath(h) PROVE HoldInv'
  BY <1>10, HoldFrame DEF EnqueueNoPath, Goto, TypeInv, TypeOK
<1>11. ASSUME NEW h \in Hooks, SpawnCount(h) \/ Spawn(h) PROVE HoldInv'
  BY <1>11, HoldFrame DEF SpawnCount, Spawn, Start, Goto, TypeInv, TypeOK
<1>12. ASSUME NEW w \in Workers,
              TryWorkerLock(w) \/ HoldFinish(w) \/ QuarantineLarge(w) \/ Recycle(w) \/ SpawnSuccessor(w)
       PROVE  HoldInv'
  BY <1>12, HoldFrame
  DEF TryWorkerLock, HoldFinish, QuarantineLarge, HoldEvent, Recycle, SpawnSuccessor, Start, Goto,
      TypeInv, TypeOK
<1>13. ASSUME NEW w \in Workers,
              CaptureNothing(w) \/ CaptureFails(w) \/ CaptureSlice(w) \/ WriteOffset(w)
                \/ ContinueTimeout(w)
       PROVE  HoldInv'
  BY <1>13, HoldFrame
  DEF CaptureNothing, CaptureFails, CaptureSlice, WriteOffset, AfterSlice, ContinueTimeout, Goto,
      TypeInv, TypeOK
<1>14. ASSUME NEW w \in Workers, FinishJob(w) \/ Release(w) \/ Rescan(w) \/ Exit(w) PROVE HoldInv'
  BY <1>14, HoldFrame DEF FinishJob, Release, Rescan, Exit, Gone, Goto, TypeInv, TypeOK
<1>15. ASSUME NEW q \in Procs, Crash(q) PROVE HoldInv'
  BY <1>15, HoldFrame DEF Crash, Gone, Goto, TypeInv, TypeOK
<1>16. ASSUME NEW w \in Workers, NEW b \in HoldSettings, Drain(w, b) PROVE HoldInv'
  BY <1>16, HoldFrame DEF Drain, Start, Goto, TypeInv, TypeOK
<1> QED
  BY <1>1, <1>2, <1>3, <1>4, <1>5, <1>6, <1>7, <1>8, <1>9, <1>10, <1>11, <1>12, <1>13, <1>14,
     <1>15, <1>16
  DEF Next, HookStep, WorkerStep, Grow, RequeueErrors

\* Under the hold nothing but a forced event is imported.
THEOREM HoldImportsNothingAlways == Spec => HoldImportsNothing
<1>1. Init => HoldInv
  BY LedgerAssumption DEF Init, HoldInv
<1>2. Spec => []HoldInv
  <2>1. IInv /\ HoldInv /\ [Next]_vars => HoldInv'
    BY HoldStep DEF IInv
  <2> QED
    BY <1>1, <2>1, Invariance, PTL DEF Spec
<1>3. HoldInv /\ [Next]_vars =>
        [\A p \in Paths : imported'[p] # imported[p] =>
           \E w \in Workers : /\ pc[w] = "capture" /\ cur[w].path = p
                              /\ hold[w] => cur[w].forced]_vars
  <2> SUFFICES ASSUME HoldInv, Next, NEW p \in Paths, imported'[p] # imported[p]
               PROVE  \E w \in Workers : /\ pc[w] = "capture" /\ cur[w].path = p
                                         /\ hold[w] => cur[w].forced
    OBVIOUS
  <2>1. PICK w \in Workers : CaptureSlice(w)
    BY DEF Next, HookStep, WorkerStep, Grow, SessionEnd, EnqueueDrop, EnqueueSupersede,
           EnqueueNoPath, SpawnCount, Spawn, TryWorkerLock, Scan, HoldOne, HoldDone, HoldFinish,
           QuarantineLarge, HoldEvent, Recycle, SpawnSuccessor, TakeJob, CaptureNothing,
           CaptureFails, WriteOffset, Continue, ContinueTimeout, FinishJob, Release, Rescan, Exit,
           Crash, Drain, RequeueErrors
  <2>2. pc[w] = "capture" /\ cur[w].path = p
    BY <2>1 DEF CaptureSlice
  <2> QED
    BY <2>2 DEF HoldInv
<1> QED
  BY <1>2, <1>3, PTL DEF Spec, HoldImportsNothing

-----------------------------------------------------------------------------
(* Bytes imported once *)

OnceInv ==
  faults = 0 =>
    /\ \A w \in Workers : pc[w] = "offset" => upto[w] = imported[cur[w].path]
    /\ \A p \in Paths :
         \/ imported[p] = offset[p]
         \/ \E w \in Workers : pc[w] = "offset" /\ cur[w].path = p

\* A step that leaves the data and the workers between the two writes alone.
LEMMA OnceFrame ==
  ASSUME OnceInv, UNCHANGED dataVars, faults' = 0 => faults = 0,
         \A w \in Workers :
           \/ pc'[w] = pc[w] /\ cur'[w] = cur[w] /\ upto'[w] = upto[w]
           \/ pc[w] # "offset" /\ pc'[w] # "offset"
  PROVE  OnceInv'
  BY DEF OnceInv

\* Every step keeps import and offset together outside of the two writes.
LEMMA OnceStep ==
  TypeInv /\ LockInv /\ SizeInv /\ OnceInv /\ [Next]_vars => OnceInv'
<1> SUFFICES ASSUME TypeInv, LockInv, SizeInv, OnceInv, [Next]_vars PROVE OnceInv'
  OBVIOUS
<1> USE LedgerAssumption
<1>1. ASSUME NEW w \in Workers, CaptureSlice(w) PROVE OnceInv'
  <2> DEFINE t == cur[w].path
  <2>1. /\ t \in Paths /\ pc[w] = "capture" /\ pc'[w] = "offset" /\ cur' = cur
        /\ offset' = offset /\ faults' = faults
        /\ \A v \in Workers \ {w} : pc'[v] = pc[v]
    BY <1>1 DEF CaptureSlice, Goto, TypeInv, TypeOK
  <2>2. PICK end \in (From(t) + 1)..size[t] :
          /\ imported' = [imported EXCEPT ![t] = IF @ < end THEN end ELSE @]
          /\ upto' = [upto EXCEPT ![w] = end]
    BY <1>1 DEF CaptureSlice
  <2>3. \A v \in Workers : pc[v] # "offset"
    BY <2>1 DEF LockInv, DrainPCs
  <2>4. /\ From(t) = offset[t] /\ offset[t] \in Nat /\ size[t] \in Nat
        /\ imported[t] \in Nat
    BY <2>1 DEF From, SizeInv, NoByteSkipped, TypeInv, TypeOK
  <2> HIDE DEF t
  <2>5. faults = 0 => \A p \in Paths : imported[p] = offset[p]
    BY <2>3 DEF OnceInv
  <2>6. faults = 0 => imported'[t] = upto'[w]
    BY <2>1, <2>2, <2>4, <2>5 DEF TypeInv, TypeOK
  <2>7. \A p \in Paths \ {t} : imported'[p] = imported[p]
    BY <2>2 DEF TypeInv, TypeOK
  <2>8. cur'[w].path = t
    BY <2>1 DEF t
  <2>9. \A v \in Workers : pc'[v] = "offset" => v = w
    BY <2>1, <2>3
  <2>10. w \in Workers /\ pc'[w] = "offset"
    BY <1>1, <2>1
  <2>11. faults = 0 => \A p \in Paths \ {t} : imported'[p] = offset'[p]
    BY <2>1, <2>5, <2>7
  <2> QED
    BY <2>1, <2>6, <2>8, <2>9, <2>10, <2>11 DEF OnceInv
<1>2. ASSUME NEW w \in Workers, WriteOffset(w) PROVE OnceInv'
  <2> DEFINE t == cur[w].path
  <2>1. /\ t \in Paths /\ pc[w] = "offset" /\ cur' = cur /\ upto' = upto
        /\ imported' = imported /\ faults' = faults
        /\ offset' = [offset EXCEPT ![t] = upto[w]]
        /\ \A v \in Workers \ {w} : pc'[v] = pc[v]
    BY <1>2 DEF WriteOffset, NewOffset, Goto, TypeInv, TypeOK, LocalInv, PathPCs
  <2>2. \A v \in Workers \ {w} : pc[v] # "offset"
    BY <2>1 DEF LockInv, DrainPCs
  <2> QED
    BY <2>1, <2>2 DEF OnceInv, TypeInv, TypeOK
<1>3. CASE UNCHANGED <<dataVars, localVars, faults>>
  BY <1>3, OnceFrame
<1>4. ASSUME NEW h \in Hooks, NEW t \in Targets, NEW i \in Ids, SessionEnd(h, t, i) PROVE OnceInv'
  <2>1. /\ UNCHANGED <<dataVars, upto, faults>>
        /\ \A w \in Workers : pc'[w] = pc[w] /\ cur'[w] = cur[w]
    BY <1>4 DEF SessionEnd, EnqueueHeld, EnqueueQueued, Goto, TypeInv, TypeOK
  <2> QED
    BY <2>1, OnceFrame
<1>5. ASSUME NEW q \in Procs, EnqueueDrop(q) \/ EnqueueSupersede(q) PROVE OnceInv'
  BY <1>5, OnceFrame DEF EnqueueDrop, AfterHeld, EnqueueSupersede, AfterQueued, Goto, TypeInv, TypeOK
<1>6. ASSUME NEW w \in Workers, NEW i \in Ids, Continue(w, i) PROVE OnceInv'
  BY <1>6, OnceFrame DEF Continue, EnqueueHeld, EnqueueQueued, AfterQueued, Goto, TypeInv, TypeOK
<1>7. ASSUME NEW h \in Hooks, EnqueueNoPath(h) \/ SpawnCount(h) \/ Spawn(h) PROVE OnceInv'
  BY <1>7, OnceFrame DEF EnqueueNoPath, SpawnCount, Spawn, Start, Goto, TypeInv, TypeOK
<1>8. ASSUME NEW w \in Workers,
             TryWorkerLock(w) \/ Scan(w) \/ HoldOne(w) \/ HoldDone(w) \/ HoldFinish(w)
               \/ QuarantineLarge(w)
      PROVE  OnceInv'
  BY <1>8, OnceFrame
  DEF TryWorkerLock, Scan, HoldOne, HoldDone, HoldFinish, QuarantineLarge, HoldEvent, Goto,
      TypeInv, TypeOK
<1>9. ASSUME NEW w \in Workers, Recycle(w) \/ SpawnSuccessor(w) \/ TakeJob(w) PROVE OnceInv'
  BY <1>9, OnceFrame DEF Recycle, SpawnSuccessor, Start, TakeJob, Goto, TypeInv, TypeOK
<1>10. ASSUME NEW w \in Workers, CaptureNothing(w) \/ CaptureFails(w) PROVE OnceInv'
  BY <1>10, OnceFrame DEF CaptureNothing, CaptureFails, Goto, TypeInv, TypeOK
<1>11. ASSUME NEW w \in Workers, FinishJob(w) \/ Release(w) \/ Rescan(w) \/ Exit(w) PROVE OnceInv'
  BY <1>11, OnceFrame DEF FinishJob, Release, Rescan, Exit, Gone, Goto, TypeInv, TypeOK
<1>12. ASSUME faults' = faults + 1 PROVE OnceInv'
  BY <1>12 DEF OnceInv, TypeInv, TypeOK
<1>13. ASSUME NEW w \in Workers, NEW b \in HoldSettings, Drain(w, b) PROVE OnceInv'
  BY <1>13, OnceFrame DEF Drain, Start, Goto, TypeInv, TypeOK
<1> QED
  BY <1>1, <1>2, <1>3, <1>4, <1>5, <1>6, <1>7, <1>8, <1>9, <1>10, <1>11, <1>12, <1>13
  DEF Next, HookStep, WorkerStep, Grow, RequeueErrors, Crash, ContinueTimeout

\* Without a crash whoever is about to import a transcript finds the offset at
\* the end of what was imported.
THEOREM NoByteTwiceAlways == Spec => []NoByteTwice
<1>1. Init => OnceInv
  BY DEF Init, OnceInv
<1>2. IInv /\ OnceInv /\ [Next]_vars => OnceInv'
  BY OnceStep DEF IInv
<1>3. IInv /\ OnceInv => NoByteTwice
  <2> SUFFICES ASSUME IInv, OnceInv, faults = 0, NEW w \in Workers, pc[w] = "capture",
                      cur[w].path \in Paths
               PROVE  imported[cur[w].path] = offset[cur[w].path]
    BY DEF NoByteTwice
  <2>1. \A v \in Workers : pc[v] # "offset"
    BY DEF IInv, LockInv, DrainPCs
  <2> QED
    BY <2>1 DEF OnceInv
<1> QED
  BY <1>1, <1>2, <1>3, Invariance, PTL DEF Spec

-----------------------------------------------------------------------------
(* One queued event for each transcript *)

OneInv ==
  faults = 0 /\ commands = 0 => \A i, j \in Ids :
    /\ i # j /\ ledger[i].status = "queued" /\ ledger[j].status = "queued"
    /\ ledger[i].path = ledger[j].path /\ ledger[i].path \in Paths
    => \E q \in Procs : /\ pc[q] = "supersede"
                        /\ Record(i) \in todo[q] \/ Record(j) \in todo[q]

\* A step that queues nothing and supersedes nothing.
LEMMA OneFrame ==
  ASSUME OneInv, faults' = 0 => faults = 0, commands' = 0 => commands = 0,
         \A i \in Ids : ledger'[i].status = "queued" => ledger'[i] = ledger[i],
         \A q \in Procs : pc[q] = "supersede" => pc'[q] = "supersede" /\ todo'[q] = todo[q]
  PROVE  OneInv'
  BY DEF OneInv, Record

\* An enqueue while ledger.lock is free: the events it replaces are noted.
LEMMA OneEnqueue ==
  ASSUME TypeInv, LockInv, LedgerInv, OneInv, NEW q \in Procs, NEW e \in Event,
         e.id \notin used, EnqueueQueued(q, e), UNCHANGED countVars
  PROVE  OneInv'
<1> USE LedgerAssumption
<1> DEFINE f == [e EXCEPT !.forced = Mark(e)]
<1>1. f \in Event /\ f.id = e.id /\ f.path = e.path /\ e.id \in Ids
  BY DEF Event, Mark
<1>2. Append(f, "queued") /\ todo' = [todo EXCEPT ![q] = Stale(e)]
  BY DEF EnqueueQueued
<1>3. ledger[e.id].status = "none"
  BY <1>1 DEF LedgerInv, IdInv
<1> HIDE DEF f
<1>4. /\ ledger'[e.id].path = e.path
      /\ \A i \in Ids \ {e.id} : ledger'[i] = ledger[i]
  BY <1>1, <1>2, AppendStatus
<1>5. \A r \in Procs : pc[r] # "supersede"
  BY DEF EnqueueQueued, Lock, LockBriefly, LockInv, HookLockPCs, WorkerLockPCs
<1> SUFFICES ASSUME faults' = 0, commands' = 0, NEW i \in Ids, NEW j \in Ids, i # j,
                    ledger'[i].status = "queued", ledger'[j].status = "queued",
                    ledger'[i].path = ledger'[j].path, ledger'[i].path \in Paths
             PROVE  \E r \in Procs : /\ pc'[r] = "supersede"
                                     /\ Record(i)' \in todo'[r] \/ Record(j)' \in todo'[r]
  BY DEF OneInv
<1>6. ASSUME NEW k \in Ids \ {e.id}, ledger[k].status = "queued", ledger[k].path = e.path,
             e.path \in Paths
      PROVE  pc'[q] = "supersede" /\ Record(k)' \in todo'[q]
  <2>1. Record(k) \in Stale(e) /\ Record(k)' = Record(k)
    BY <1>4, <1>6 DEF Stale, QueuedFor, Record
  <2>2. todo'[q] = Stale(e)
    BY <1>2 DEF TypeInv, TypeOK
  <2>3. Stale(e) # {} /\ e.path # NoPath
    BY <1>6, <2>1
  <2>4. pc'[q] = "supersede"
    BY <2>3 DEF EnqueueQueued, Goto, TypeInv, TypeOK
  <2> QED
    BY <2>1, <2>2, <2>4
<1>7. CASE i = e.id
  BY <1>4, <1>6, <1>7
<1>8. CASE j = e.id
  BY <1>4, <1>6, <1>8
<1>9. CASE i # e.id /\ j # e.id
  BY <1>4, <1>5, <1>9 DEF OneInv
<1> QED
  BY <1>7, <1>8, <1>9

\* Superseding an event ends every doubling it was part of.
LEMMA OneSupersede ==
  ASSUME TypeInv, LockInv, LedgerInv, OneInv, NEW q \in Procs, EnqueueSupersede(q)
  PROVE  OneInv'
<1> DEFINE e == Oldest(todo[q])
<1>1. e \in todo[q] /\ e \in Event /\ e = Record(e.id)
  BY OldestIn DEF EnqueueSupersede, TypeInv, TypeOK, LocalInv, LedgerInv, SupersedeInv
<1>2. /\ Append(e, "superseded") /\ todo' = [todo EXCEPT ![q] = @ \ {e}]
      /\ pc[q] = "supersede" /\ UNCHANGED countVars
      /\ todo[q] # {e} => pc' = pc
  BY DEF EnqueueSupersede
<1> HIDE DEF e
<1>3. /\ ledger'[e.id].status = "superseded"
      /\ \A i \in Ids \ {e.id} : ledger'[i] = ledger[i]
  BY <1>1, <1>2, AppendStatus
<1>4. \A r \in Procs \ {q} : pc[r] # "supersede"
  BY <1>2, LedgerAssumption DEF LockInv, HookLockPCs, WorkerLockPCs
<1> SUFFICES ASSUME faults' = 0, commands' = 0, NEW i \in Ids, NEW j \in Ids, i # j,
                    ledger'[i].status = "queued", ledger'[j].status = "queued",
                    ledger'[i].path = ledger'[j].path, ledger'[i].path \in Paths
             PROVE  \E r \in Procs : /\ pc'[r] = "supersede"
                                     /\ Record(i)' \in todo'[r] \/ Record(j)' \in todo'[r]
  BY DEF OneInv
<1>5. i # e.id /\ j # e.id /\ ledger'[i] = ledger[i] /\ ledger'[j] = ledger[j]
  BY <1>3
<1>6. Record(i) \in todo[q] \/ Record(j) \in todo[q]
  BY <1>2, <1>4, <1>5 DEF OneInv
<1>7. /\ Record(i)' = Record(i) /\ Record(j)' = Record(j)
      /\ Record(i) # e /\ Record(j) # e
  BY <1>1, <1>5 DEF Record
<1>8. todo'[q] = todo[q] \ {e} /\ todo[q] # {e}
  BY <1>2, <1>6, <1>7 DEF TypeInv, TypeOK
<1> QED
  BY <1>2, <1>6, <1>7, <1>8

\* Every step leaves a second queued event only to be superseded.
LEMMA OneStep == TypeInv /\ LockInv /\ LedgerInv /\ OneInv /\ [Next]_vars => OneInv'
<1> SUFFICES ASSUME TypeInv, LockInv, LedgerInv, OneInv, [Next]_vars PROVE OneInv'
  OBVIOUS
<1> USE LedgerAssumption
<1>1. ASSUME NEW e \in Event, NEW s, s # "queued", Append(e, s), UNCHANGED countVars,
             \A q \in Procs : pc[q] = "supersede" => pc'[q] = "supersede" /\ todo'[q] = todo[q]
      PROVE  OneInv'
  <2>1. ledger'[e.id].status = s /\ \A i \in Ids \ {e.id} : ledger'[i] = ledger[i]
    BY <1>1, AppendStatus
  <2> QED
    BY <1>1, <2>1, OneFrame
<1>2. ASSUME NEW h \in Hooks, NEW t \in Targets, NEW i \in Ids, SessionEnd(h, t, i) PROVE OneInv'
  <2> DEFINE e == [id |-> i, path |-> t, forced |-> FALSE]
  <2>1. e \in Event /\ e.id \notin used /\ UNCHANGED countVars
    BY <1>2 DEF SessionEnd, Event
  <2>2. EnqueueHeld(h, e) \/ EnqueueQueued(h, e)
    BY <1>2 DEF SessionEnd
  <2>3. pc[h] = "ready"
    BY <1>2 DEF SessionEnd
  <2> HIDE DEF e
  <2>4. CASE EnqueueHeld(h, e)
    BY <2>1, <2>3, <2>4, OneFrame DEF EnqueueHeld, Goto, TypeInv, TypeOK
  <2> QED
    BY <2>1, <2>2, <2>4, OneEnqueue
<1>3. ASSUME NEW w \in Workers, NEW i \in Ids, Continue(w, i) PROVE OneInv'
  <2> DEFINE e == [cur[w] EXCEPT !.id = i]
  <2>1. cur[w] \in Event
    BY <1>3 DEF Continue, TypeInv, LocalInv, EventPCs, JobPCs
  <2>2. e \in Event /\ e.id \notin used /\ UNCHANGED countVars
    BY <1>3, <2>1 DEF Continue, Event
  <2>3. (EnqueueHeld(w, e) \/ EnqueueQueued(w, e)) /\ pc[w] = "continue"
    BY <1>3 DEF Continue
  <2> HIDE DEF e
  <2>4. CASE EnqueueHeld(w, e)
    BY <2>2, <2>3, <2>4, OneFrame DEF EnqueueHeld, Goto, TypeInv, TypeOK
  <2> QED
    BY <2>2, <2>3, <2>4, OneEnqueue
<1>4. ASSUME NEW q \in Procs, EnqueueSupersede(q) PROVE OneInv'
  BY <1>4, OneSupersede
<1>5. ASSUME NEW q \in Procs, EnqueueDrop(q) PROVE OneInv'
  BY <1>5, OneFrame DEF EnqueueDrop, AfterHeld, Goto, TypeInv, TypeOK
<1>6. ASSUME NEW h \in Hooks, EnqueueNoPath(h) PROVE OneInv'
  <2>1. PICK s \in {"running", "error"} : Append(cur[h], s)
    BY <1>6 DEF EnqueueNoPath
  <2>2. cur[h] \in Event /\ pc[h] # "supersede" /\ UNCHANGED <<countVars, todo>>
    BY <1>6 DEF EnqueueNoPath, TypeInv, LocalInv, EventPCs, HookLockPCs
  <2>3. \A q \in Procs : pc[q] = "supersede" => pc'[q] = "supersede"
    BY <1>6 DEF EnqueueNoPath, Goto, TypeInv, TypeOK
  <2> QED
    BY <1>1, <2>1, <2>2, <2>3
<1>7. ASSUME NEW w \in Workers, TakeJob(w) PROVE OneInv'
  <2>1. Oldest(todo[w]) \in Event
    BY <1>7, OldestIn DEF TakeJob, TypeInv, TypeOK, LocalInv
  <2>2. /\ Append(Oldest(todo[w]), "running") /\ UNCHANGED countVars
        /\ \A q \in Procs : pc[q] = "supersede" => pc'[q] = "supersede" /\ todo'[q] = todo[q]
    BY <1>7 DEF TakeJob, Goto, TypeInv, TypeOK
  <2> QED
    BY <1>1, <2>1, <2>2
<1>8. ASSUME NEW w \in Workers, HoldFinish(w) PROVE OneInv'
  <2> DEFINE d == IF hold[w] THEN "held-all" ELSE "quarantine-large"
  <2>1. CASE Older(cur[w].path, d) # {}
    BY <1>8, <2>1, OneFrame DEF HoldFinish
  <2>2. CASE Older(cur[w].path, d) = {}
    <3>1. PICK s \in {"held", "quarantined"} : Append(cur[w], s)
      BY <1>8, <2>2 DEF HoldFinish
    <3>2. cur[w] \in Event /\ UNCHANGED countVars
      BY <1>8 DEF HoldFinish, TypeInv, LocalInv, EventPCs
    <3>3. \A q \in Procs : pc[q] = "supersede" => pc'[q] = "supersede" /\ todo'[q] = todo[q]
      BY <1>8 DEF HoldFinish, Goto, TypeInv, TypeOK
    <3> QED
      BY <1>1, <3>1, <3>2, <3>3
  <2> QED
    BY <2>1, <2>2
<1>9. ASSUME NEW w \in Workers, FinishJob(w) PROVE OneInv'
  <2>1. PICK s \in {"done", "error"} : Append(cur[w], s)
    BY <1>9 DEF FinishJob
  <2>2. cur[w] \in Event /\ UNCHANGED <<countVars, todo>>
    BY <1>9 DEF FinishJob, TypeInv, LocalInv, EventPCs, JobPCs
  <2>3. \A q \in Procs : pc[q] = "supersede" => pc'[q] = "supersede"
    BY <1>9 DEF FinishJob, Goto, TypeInv, TypeOK
  <2> QED
    BY <1>1, <2>1, <2>2, <2>3
<1>10. CASE UNCHANGED <<ledger, pc, todo, countVars>>
  BY <1>10, OneFrame
<1>11. ASSUME NEW h \in Hooks, SpawnCount(h) \/ Spawn(h) PROVE OneInv'
  BY <1>11, OneFrame DEF SpawnCount, Spawn, Start, Goto, TypeInv, TypeOK
<1>12. ASSUME NEW w \in Workers,
              TryWorkerLock(w) \/ Scan(w) \/ HoldOne(w) \/ HoldDone(w) \/ QuarantineLarge(w)
       PROVE  OneInv'
  BY <1>12, OneFrame
  DEF TryWorkerLock, Scan, HoldOne, HoldDone, QuarantineLarge, HoldEvent, NoWrite, Goto,
      TypeInv, TypeOK
<1>13. ASSUME NEW w \in Workers, Recycle(w) \/ SpawnSuccessor(w) PROVE OneInv'
  BY <1>13, OneFrame DEF Recycle, SpawnSuccessor, Start, NoWrite, Goto, TypeInv, TypeOK
<1>14. ASSUME NEW w \in Workers,
              CaptureNothing(w) \/ CaptureFails(w) \/ CaptureSlice(w) \/ WriteOffset(w)
       PROVE  OneInv'
  BY <1>14, OneFrame
  DEF CaptureNothing, CaptureFails, CaptureSlice, WriteOffset, NoWrite, Goto, TypeInv, TypeOK
<1>15. ASSUME NEW w \in Workers, Release(w) \/ Rescan(w) \/ Exit(w) PROVE OneInv'
  BY <1>15, OneFrame DEF Release, Rescan, Exit, Gone, NoWrite, Goto, TypeInv, TypeOK
<1>16. CASE faults' = faults + 1 \/ commands' = commands + 1
  BY <1>16 DEF OneInv, TypeInv, TypeOK
<1> QED
  BY <1>2, <1>3, <1>4, <1>5, <1>6, <1>7, <1>8, <1>9, <1>10, <1>11, <1>12, <1>13, <1>14, <1>15,
     <1>16
  DEF Next, HookStep, WorkerStep, Grow, Crash, ContinueTimeout, Drain, RequeueErrors

\* At most one event of a transcript is queued whenever ledger.lock is free,
\* until a process dies or an operator requeues failed jobs.
THEOREM OneQueuedAlways == Spec => []OneQueuedPerTranscript
<1>1. Init => OneInv
  BY DEF Init, OneInv
<1>2. IInv /\ OneInv /\ [Next]_vars => OneInv'
  BY OneStep DEF IInv
<1>3. IInv /\ OneInv => OneQueuedPerTranscript
  <2> SUFFICES ASSUME IInv, OneInv, faults = 0, commands = 0, ledgerLock = Nobody,
                      NEW p \in Paths
               PROVE  Cardinality(QueuedFor(p)) <= 1
    BY DEF OneQueuedPerTranscript
  <2>1. \A q \in Procs : pc[q] # "supersede"
    BY LedgerAssumption DEF IInv, LockInv, HookLockPCs, WorkerLockPCs
  <2>2. \A e, f \in QueuedFor(p) : e = f
    BY <2>1 DEF OneInv, QueuedFor
  <2>3. CASE QueuedFor(p) = {}
    BY <2>3, FS_EmptySet
  <2>4. CASE QueuedFor(p) # {}
    <3>1. PICK e : e \in QueuedFor(p)
      BY <2>4
    <3>2. QueuedFor(p) = {e}
      BY <2>2, <3>1
    <3>3. Cardinality({e}) = 1
      BY FS_Singleton, Zenon
    <3> QED
      BY <3>2, <3>3
  <2> QED
    BY <2>3, <2>4
<1> QED
  BY <1>1, <1>2, <1>3, Invariance, PTL DEF Spec

-----------------------------------------------------------------------------
(* Nothing waits for nobody *)

Up(w) == pc[w] \notin {"off", "exit"}

\* A worker that will scan again, or a hook that will start one; a hook that
\* records a SessionEnd without a transcript deals with that event alone.
Served(i) ==
  \/ \E w \in Workers : Up(w)
  \/ \E h \in Hooks : \/ pc[h] \in {"supersede", "count", "spawn"}
                      \/ pc[h] \in {"run", "fail"} /\ cur[h].id = i

ServeInv ==
  SpawnCap = 0 /\ faults = 0 /\ commands = 0 => \A i \in ActiveIds : Served(i)

\* Where the step leads there is a worker up, or a hook about to start one.
LEMMA ServeUp ==
  ASSUME \/ \E w \in Workers : pc'[w] \notin {"off", "exit"}
         \/ \E h \in Hooks : pc'[h] \in {"supersede", "count", "spawn"}
  PROVE  ServeInv'
  BY DEF ServeInv, Served, Up

\* A step that adds no event and takes nobody away who serves one.
LEMMA ServeFrame ==
  ASSUME ServeInv, faults' = 0 => faults = 0, commands' = 0 => commands = 0,
         ActiveIds' \subseteq ActiveIds,
         \A w \in Workers : Up(w) => Up(w)',
         \A h \in Hooks : \/ pc'[h] = pc[h] /\ cur'[h] = cur[h]
                          \/ pc[h] \notin {"run", "fail", "supersede", "count", "spawn"}
                          \/ pc[h] = "run" /\ pc'[h] = "fail" /\ cur'[h] = cur[h]
                          \/ pc[h] = "fail" /\ cur[h].id \notin ActiveIds'
  PROVE  ServeInv'
  BY DEF ServeInv, Served, Up

\* Every step keeps somebody for every active event.
LEMMA ServeStep == TypeInv /\ LockInv /\ LedgerInv /\ ServeInv /\ [Next]_vars => ServeInv'
<1> SUFFICES ASSUME TypeInv, LockInv, LedgerInv, ServeInv, [Next]_vars PROVE ServeInv'
  OBVIOUS
<1> USE LedgerAssumption
<1>1. ASSUME NEW h \in Hooks, NEW t \in Targets, NEW i \in Ids, SessionEnd(h, t, i) PROVE ServeInv'
  <2> DEFINE e == [id |-> i, path |-> t, forced |-> FALSE]
  <2>1. /\ e \in Event /\ e.id = i /\ cur'[h] = e /\ UNCHANGED countVars
        /\ \A g \in Hooks \ {h} : cur'[g] = cur[g]
        /\ pc[h] = "ready"
    BY <1>1 DEF SessionEnd, Event, TypeInv, TypeOK
  <2>2. EnqueueHeld(h, e) \/ EnqueueQueued(h, e)
    BY <1>1 DEF SessionEnd
  <2> HIDE DEF e
  <2>3. \A r \in Procs \ {h} : pc'[r] = pc[r]
    BY <2>2 DEF EnqueueHeld, EnqueueQueued, Goto, TypeInv, TypeOK
  <2>4. CASE EnqueueHeld(h, e)
    BY <2>1, <2>3, <2>4, ServeFrame DEF EnqueueHeld, ActiveIds, Up
  <2>5. CASE EnqueueQueued(h, e)
    <3> DEFINE f == [e EXCEPT !.forced = Mark(e)]
    <3>1. f \in Event /\ f.id = i /\ Append(f, "queued")
      BY <2>1, <2>5 DEF Event, Mark, EnqueueQueued
    <3> HIDE DEF f
    <3>2. \A k \in Ids \ {i} : ledger'[k] = ledger[k]
      BY <3>1, AppendStatus
    <3>3. CASE pc'[h] \in {"supersede", "count"}
      BY <3>3, ServeUp
    <3>4. CASE pc'[h] = "run"
      <4>1. ActiveIds' \subseteq ActiveIds \cup {i}
        BY <3>2 DEF ActiveIds
      <4>2. pc'[h] = "run" /\ cur'[h].id = i
        BY <2>1, <3>4
      <4> QED
        BY <2>1, <2>3, <4>1, <4>2 DEF ServeInv, Served, Up
    <3> QED
      BY <2>5, <3>3, <3>4 DEF EnqueueQueued, AfterQueued, Goto, TypeInv, TypeOK
  <2> QED
    BY <2>2, <2>4, <2>5
<1>2. ASSUME NEW q \in Procs, EnqueueDrop(q) PROVE ServeInv'
  <2>1. /\ pc[q] = "drop" /\ UNCHANGED <<ledger, cur, countVars>>
        /\ \A r \in Procs \ {q} : pc'[r] = pc[r]
        /\ q \in Workers => pc'[q] \in {"drop", "finish"}
    BY <1>2 DEF EnqueueDrop, AfterHeld, Goto, TypeInv, TypeOK
  <2> QED
    BY <2>1, ServeFrame DEF ActiveIds, Up
<1>3. ASSUME NEW q \in Procs, EnqueueSupersede(q) PROVE ServeInv'
  <2>1. pc'[q] \in {"supersede", AfterQueued(q)}
    BY <1>3 DEF EnqueueSupersede, Goto, TypeInv, TypeOK
  <2> QED
    BY <2>1, ServeUp DEF AfterQueued
<1>4. ASSUME NEW h \in Hooks, EnqueueNoPath(h) PROVE ServeInv'
  <2>1. /\ UNCHANGED <<cur, countVars>> /\ \A r \in Procs \ {h} : pc'[r] = pc[r]
        /\ cur[h] \in Event
    BY <1>4 DEF EnqueueNoPath, Goto, TypeInv, TypeOK, LocalInv, EventPCs, HookLockPCs
  <2>2. CASE pc[h] = "run"
    <3>1. /\ Append(cur[h], "running") /\ pc'[h] = "fail"
          /\ ledger[cur[h].id].status = "queued"
      BY <1>4, <2>2 DEF EnqueueNoPath, Goto, TypeInv, TypeOK, LedgerInv, NoPathInv
    <3>2. \A k \in Ids \ {cur[h].id} : ledger'[k] = ledger[k]
      BY <2>1, <3>1, AppendStatus
    <3>3. ActiveIds' \subseteq ActiveIds
      BY <3>1, <3>2 DEF ActiveIds, Active
    <3> QED
      BY <2>1, <2>2, <3>1, <3>3, ServeFrame DEF Up
  <2>3. CASE pc[h] = "fail"
    <3>1. Append(cur[h], "error") /\ pc'[h] = "gone"
      BY <1>4, <2>3 DEF EnqueueNoPath, Goto, TypeInv, TypeOK
    <3>2. /\ ledger'[cur[h].id].status = "error"
          /\ \A k \in Ids \ {cur[h].id} : ledger'[k] = ledger[k]
      BY <2>1, <3>1, AppendStatus
    <3>3. ActiveIds' \subseteq ActiveIds /\ cur[h].id \notin ActiveIds'
      BY <3>2 DEF ActiveIds, Active
    <3> QED
      BY <2>1, <2>3, <3>1, <3>3, ServeFrame DEF Up
  <2> QED
    BY <1>4, <2>2, <2>3 DEF EnqueueNoPath
<1>5. ASSUME NEW h \in Hooks, SpawnCount(h) PROVE ServeInv'
  <2>1. CASE SpawnCap = 0
    <3>1. pc'[h] = "spawn"
      BY <1>5, <2>1 DEF SpawnCount, Goto, TypeInv, TypeOK
    <3> QED
      BY <3>1, ServeUp
  <2>2. CASE SpawnCap # 0
    BY <2>2 DEF ServeInv
  <2> QED
    BY <2>1, <2>2
<1>6. ASSUME NEW h \in Hooks, Spawn(h) PROVE ServeInv'
  BY <1>6, ServeUp DEF Spawn, TypeInv, TypeOK
<1>7. ASSUME NEW w \in Workers, TryWorkerLock(w) PROVE ServeInv'
  <2>1. CASE WorkerLockFree
    <3>1. pc'[w] = "scan"
      BY <1>7, <2>1 DEF TryWorkerLock, Goto, TypeInv, TypeOK
    <3> QED
      BY <3>1, ServeUp
  <2>2. CASE ~WorkerLockFree
    <3>1. PICK v \in Workers : workerLock = v
      BY <2>2 DEF WorkerLockFree, TypeInv, TypeOK
    <3>2. pc[v] \in DrainPCs /\ pc[w] = "start"
      BY <1>7, <3>1 DEF TryWorkerLock, LockInv
    <3>3. v # w
      BY <3>2 DEF DrainPCs, EnqueuePCs
    <3>4. pc'[v] \in DrainPCs
      BY <1>7, <2>2, <3>2, <3>3 DEF TryWorkerLock, Goto, TypeInv, TypeOK
    <3> QED
      BY <3>4, ServeUp DEF DrainPCs, EnqueuePCs
  <2> QED
    BY <2>1, <2>2
<1>8. ASSUME NEW w \in Workers,
             Scan(w) \/ HoldOne(w) \/ HoldDone(w) \/ HoldFinish(w) \/ QuarantineLarge(w)
               \/ Recycle(w) \/ TakeJob(w)
      PROVE  ServeInv'
  <2>1. pc'[w] \notin {"off", "exit"}
    BY <1>8 DEF Scan, HoldOne, HoldDone, HoldFinish, QuarantineLarge, HoldEvent, Recycle, TakeJob,
                Goto, TypeInv, TypeOK
  <2> QED
    BY <2>1, ServeUp
<1>9. ASSUME NEW w \in Workers, SpawnSuccessor(w) PROVE ServeInv'
  BY <1>9, ServeUp DEF SpawnSuccessor, TypeInv, TypeOK
<1>10. ASSUME NEW w \in Workers,
              CaptureNothing(w) \/ CaptureFails(w) \/ CaptureSlice(w) \/ WriteOffset(w)
                \/ ContinueTimeout(w)
       PROVE  ServeInv'
  <2>1. pc'[w] \notin {"off", "exit"}
    BY <1>10 DEF CaptureNothing, CaptureFails, CaptureSlice, WriteOffset, AfterSlice,
                 ContinueTimeout, Goto, TypeInv, TypeOK
  <2> QED
    BY <2>1, ServeUp
<1>16. ASSUME NEW w \in Workers, NEW i \in Ids, Continue(w, i) PROVE ServeInv'
  <2> DEFINE e == [cur[w] EXCEPT !.id = i]
  <2>1. EnqueueHeld(w, e) \/ EnqueueQueued(w, e)
    BY <1>16 DEF Continue
  <2>2. w \notin Hooks
    OBVIOUS
  <2> HIDE DEF e
  <2>3. pc'[w] \in {"drop", "run", "finish", "supersede"}
    BY <2>1, <2>2 DEF EnqueueHeld, EnqueueQueued, AfterQueued, Goto, TypeInv, TypeOK
  <2> QED
    BY <2>3, ServeUp
<1>11. ASSUME NEW w \in Workers, FinishJob(w) \/ Release(w) PROVE ServeInv'
  <2>1. pc'[w] \notin {"off", "exit"}
    BY <1>11 DEF FinishJob, Release, Goto, TypeInv, TypeOK
  <2> QED
    BY <2>1, ServeUp
<1>12. ASSUME NEW w \in Workers, Rescan(w) PROVE ServeInv'
  <2>1. CASE MoreWork
    <3>1. pc'[w] = "start"
      BY <1>12, <2>1 DEF Rescan, Goto, TypeInv, TypeOK
    <3> QED
      BY <3>1, ServeUp
  <2>2. CASE ~MoreWork
    <3>1. ActiveIds = {} /\ ledger' = ledger
      BY <1>12, <2>2 DEF MoreWork, Pending, Rescan, NoWrite
    <3> QED
      BY <3>1 DEF ServeInv, ActiveIds
  <2> QED
    BY <2>1, <2>2
<1>13. ASSUME NEW w \in Workers, Exit(w) PROVE ServeInv'
  <2>1. /\ pc[w] = "exit" /\ UNCHANGED <<ledger, countVars>>
        /\ \A r \in Procs \ {w} : pc'[r] = pc[r] /\ cur'[r] = cur[r]
    BY <1>13 DEF Exit, Gone, NoWrite, Goto, TypeInv, TypeOK
  <2> QED
    BY <2>1, ServeFrame DEF ActiveIds, Up
<1>14. CASE UNCHANGED <<ledger, pc, cur, countVars>>
  BY <1>14, ServeFrame DEF ActiveIds, Up
<1>15. CASE faults' = faults + 1 \/ commands' = commands + 1
  BY <1>15 DEF ServeInv, TypeInv, TypeOK
<1> QED
  BY <1>1, <1>2, <1>3, <1>4, <1>5, <1>6, <1>7, <1>8, <1>9, <1>10, <1>11, <1>12, <1>13, <1>14,
     <1>15, <1>16
  DEF Next, HookStep, WorkerStep, Grow, Crash, Drain, RequeueErrors

\* Without a cap on the workers no event waits with nobody there to take it,
\* until a process dies or an operator requeues failed jobs.  With the cap on it
\* may: capture_cap_strands.
THEOREM NeverStrandedAlways == SpawnCap = 0 /\ Spec => []NeverStranded
<1>1. Init => ServeInv
  BY DEF Init, ServeInv, ActiveIds, Active
<1>2. IInv /\ ServeInv /\ [Next]_vars => ServeInv'
  BY ServeStep DEF IInv
<1>3. SpawnCap = 0 /\ ServeInv => NeverStranded
  BY DEF ServeInv, Served, Up, NeverStranded, Alive
<1>4. ASSUME SpawnCap = 0 PROVE Spec => []NeverStranded
  <2>1. ServeInv => NeverStranded
    BY <1>3, <1>4
  <2> QED
    BY <1>1, <1>2, <2>1, Invariance, PTL DEF Spec
<1> QED
  BY <1>4
=============================================================================
