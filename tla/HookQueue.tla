------------------------------ MODULE HookQueue ------------------------------
(***************************************************************************)
(* The hook write queue: the hook half of capture_queue.py, the daemon's   *)
(* consumer in hook_consumer.py, and the publishing end of the observe,    *)
(* learn and distill hooks.                                                *)
(*                                                                         *)
(* A job is a file.  A hook publishes it into queue/ by a rename, the one  *)
(* consumer renames it into running/, runs it on a thread, and settles it: *)
(* deleted when it was written, back in queue/ for a retry, or in dead/.   *)
(* The daemon may be stopped, or die between any two file operations; the  *)
(* next one recovers what it finds in running/.                            *)
(*                                                                         *)
(* The backoff of a retried job is the choice to pass it over, its session *)
(* included.  A payload is there or not; the oldest job is the one with    *)
(* the smallest stamp, the time its record was written.                    *)
(***************************************************************************)
EXTENDS Naturals, FiniteSets

CONSTANTS
  Jobs,        \* jobs, named like their files; each has one hook or spill file
  Spillable,   \* bound: those a spill file may stand for
  Sessions,
  NoFile,      \* no record of that name in a directory
  NoJob,       \* the consumer works on no single job
  MaxAttempts, \* SMARTMEMORY_HOOK_MAX_ATTEMPTS
  MaxFree,     \* SMARTMEMORY_HOOK_MAX_FREE_RETRIES
  Parallel,    \* SMARTMEMORY_HOOK_DRAIN_MAX
  QueueMax,    \* SMARTMEMORY_HOOK_QUEUE_MAX
  MaxDeaths,   \* bound: deaths of the daemon
  MaxStops,    \* bound: requests to stop it
  MaxErrors    \* bound: file operations and store writes that fail half-way

Record == [attempts : Nat, free : Nat]

ASSUME HookQueueAssumption ==
  /\ IsFiniteSet(Jobs) /\ Spillable \subseteq Jobs
  /\ NoFile \notin Record /\ NoJob \notin Jobs
  /\ MaxAttempts \in Nat \ {0} /\ MaxFree \in Nat
  /\ Parallel \in Nat \ {0} /\ QueueMax \in Nat
  /\ MaxDeaths \in Nat /\ MaxStops \in Nat /\ MaxErrors \in Nat

VARIABLES
  session,  \* session of each job
  hook,     \* its hook: "new", "written", "published", "shed"; or "spilled",
            \* "adopted", "rejected" for one that comes from hook-spill/
  stamp,    \* queued_ns: when its record was written
  shown,    \* when it appeared in queue/
  clock,
  spill,    \* files of hook-spill/
  payload,  \* jobs with a file in payloads/
  queue, running, dead, \* the record a job has in each directory
  marker,   \* interrupted.json: the jobs a stopping consumer left running
  pc,       \* the consumer thread
  now,      \* the job it handles
  pending,  \* jobs of its scan it may still start in this pass
  tried,    \* jobs whose file operation failed in this pass
  exec,     \* in flight: what became of a job's thread so far
  ioFail,   \* _io_failures
  stop,     \* the stop event
  marked,   \* the consumer recorded its interrupted jobs
  gaveUp,   \* DaemonConsumer.stop waited long enough
  written,  \* times a job was written to the store, counted to two
  blame,    \* attempts a job deserves: its failures and deaths of the daemon
  cut,      \* a stop left running jobs behind
  deaths, stops, errors

hookVars  == <<session, hook, stamp, shown, clock>>
fileVars  == <<spill, payload, queue, running, dead, marker>>
threadVars == <<pc, now, pending, tried, ioFail, marked>>
stopVars  == <<stop, gaveUp, stops>>
storeVars == <<written, blame>>
faultVars == <<cut, deaths, errors>>
vars == <<hookVars, fileVars, threadVars, exec, stopVars, storeVars, faultVars>>

Fresh    == [attempts |-> 0, free |-> 0]
Files(d) == {j \in Jobs : d[j] # NoFile}
Inflight == {j \in Jobs : exec[j] # "no"}
Finished == {j \in Jobs : exec[j] \in {"ok", "fail", "free", "permanent"}}
Oldest(S) == CHOOSE j \in S : \A k \in S : stamp[j] <= stamp[k]
Least(m, n) == IF m < n THEN m ELSE n

\* worker.pid names a live process: not while recover_running has yet to end.
PidLive == pc \notin {"down", "recover", "recovered"}

Init ==
  /\ session \in [Jobs -> Sessions]
  /\ spill \in SUBSET Spillable
  /\ stamp \in [Jobs -> 0..Cardinality(spill)]
  /\ \A j \in Jobs : stamp[j] > 0 <=> j \in spill
  /\ \A j, k \in spill : stamp[j] = stamp[k] => j = k
  /\ clock = Cardinality(spill)
  /\ hook = [j \in Jobs |-> IF j \in spill THEN "spilled" ELSE "new"]
  /\ shown = [j \in Jobs |-> 0]
  /\ payload = {} /\ marker = {}
  /\ queue = [j \in Jobs |-> NoFile] /\ running = [j \in Jobs |-> NoFile]
  /\ dead = [j \in Jobs |-> NoFile]
  /\ pc = "down" /\ now = NoJob /\ pending = {} /\ tried = {}
  /\ exec = [j \in Jobs |-> "no"] /\ ioFail = [j \in Jobs |-> 0]
  /\ stop = FALSE /\ marked = FALSE /\ gaveUp = FALSE
  /\ written = [j \in Jobs |-> 0] /\ blame = [j \in Jobs |-> 0]
  /\ cut = FALSE /\ deaths = 0 /\ stops = 0 /\ errors = 0

Fault == errors < MaxErrors /\ errors' = errors + 1

-----------------------------------------------------------------------------
(* Hooks *)

\* The depth cap, looked at only while no consumer is alive.
HookShed(j) ==
  /\ hook[j] = "new" /\ ~PidLive /\ Cardinality(Files(queue)) >= QueueMax
  /\ hook' = [hook EXCEPT ![j] = "shed"]
  /\ UNCHANGED <<session, stamp, shown, clock, fileVars, threadVars, exec,
                 stopVars, storeVars, faultVars>>

\* The payload file and the temporary record, whose mtime is the stamp.
HookWrite(j) ==
  /\ hook[j] = "new" /\ (PidLive \/ Cardinality(Files(queue)) < QueueMax)
  /\ hook' = [hook EXCEPT ![j] = "written"]
  /\ payload' = payload \cup {j}
  /\ clock' = clock + 1 /\ stamp' = [stamp EXCEPT ![j] = clock + 1]
  /\ UNCHANGED <<session, shown, spill, queue, running, dead, marker,
                 threadVars, exec, stopVars, storeVars, faultVars>>

HookPublish(j) ==
  /\ hook[j] = "written"
  /\ hook' = [hook EXCEPT ![j] = "published"]
  /\ queue' = [queue EXCEPT ![j] = Fresh]
  /\ clock' = clock + 1 /\ shown' = [shown EXCEPT ![j] = clock + 1]
  /\ UNCHANGED <<session, stamp, spill, payload, running, dead, marker,
                 threadVars, exec, stopVars, storeVars, faultVars>>

-----------------------------------------------------------------------------
(* Failing a job: the copy first, then the unlink. *)

\* What fail_hook_job makes of a record, and where it goes.
MForever(r, how) ==
  IF how = "permanent" THEN [to |-> "dead", record |-> r]
                       ELSE [to |-> "queue", record |-> r]
MVerdict(r, how) ==
  IF how = "free" /\ r.free <= MaxFree
    THEN [to |-> "queue", record |-> [r EXCEPT !.free = @ + 1]]
    ELSE [to |-> IF how = "permanent" \/ r.attempts >= MaxAttempts
                   THEN "dead" ELSE "queue",
          record |-> [r EXCEPT !.attempts = @ + 1]]
Verdict(r, how) ==
  IF how = "free" /\ r.free < MaxFree
    THEN [to |-> "queue", record |-> [r EXCEPT !.free = @ + 1]]
    ELSE [to |-> IF how = "permanent" \/ r.attempts + 1 >= MaxAttempts
                   THEN "dead" ELSE "queue",
          record |-> [r EXCEPT !.attempts = @ + 1]]

MCopyRecord(j, v) ==
  /\ queue' = IF v.to = "queue" THEN [queue EXCEPT ![j] = v.record] ELSE queue
  /\ UNCHANGED dead
CopyRecord(j, v) ==
  /\ queue' = IF v.to = "queue" THEN [queue EXCEPT ![j] = v.record] ELSE queue
  /\ dead' = IF v.to = "dead" THEN [dead EXCEPT ![j] = v.record] ELSE dead

Unlink(j) == running' = [running EXCEPT ![j] = NoFile]

-----------------------------------------------------------------------------
(* Starting: recover_running *)

Start ==
  /\ pc = "down" /\ pc' = "recover"
  /\ tried' = {} /\ marked' = FALSE /\ stop' = FALSE /\ gaveUp' = FALSE
  /\ now' = NoJob /\ pending' = {}
  /\ ioFail' = [j \in Jobs |-> 0]
  /\ UNCHANGED <<hookVars, fileVars, exec, stops, storeVars, faultVars>>

RecoverAs(j) == IF j \in marker THEN "free" ELSE "fail"

RecoverCopy(j) ==
  /\ pc = "recover" /\ j \in Files(running) \ tried
  /\ CopyRecord(j, Verdict(running[j], RecoverAs(j)))
  /\ pc' = "recovered" /\ now' = j
  /\ UNCHANGED <<hookVars, spill, payload, running, marker, pending, tried,
                 ioFail, marked, exec, stopVars, storeVars, faultVars>>

RecoverUnlink ==
  /\ pc = "recovered"
  /\ Unlink(now)
  /\ pc' = "recover" /\ now' = NoJob
  /\ UNCHANGED <<hookVars, spill, payload, queue, dead, marker, pending, tried,
                 ioFail, marked, exec, stopVars, storeVars, faultVars>>

\* The copy or the unlink failed: renamed as it is, or left for the next start.
RecoverError(j) ==
  /\ Fault
  /\ \/ pc = "recover" /\ j \in Files(running) \ tried
     \/ pc = "recovered" /\ j = now
  /\ \/ /\ queue' = [queue EXCEPT ![j] = running[j]] /\ Unlink(j)
        /\ UNCHANGED tried
     \/ tried' = tried \cup {j} /\ UNCHANGED <<queue, running>>
  /\ pc' = "recover" /\ now' = NoJob
  /\ UNCHANGED <<hookVars, spill, payload, dead, marker, pending, ioFail,
                 marked, exec, stopVars, storeVars, cut, deaths>>

RecoverDone ==
  /\ pc = "recover" /\ Files(running) \subseteq tried
  /\ marker' = {} /\ tried' = {} /\ pc' = "settle"
  /\ UNCHANGED <<hookVars, spill, payload, queue, running, dead, now, pending,
                 ioFail, marked, exec, stopVars, storeVars, faultVars>>

-----------------------------------------------------------------------------
(* Running a job on a thread of the pool *)

SetExec(j, from, to) ==
  /\ exec[j] \in from /\ exec' = [exec EXCEPT ![j] = to]

\* The phase wrote the store.
Commit(j) ==
  /\ SetExec(j, {"run"}, "committed") /\ j \in payload
  /\ written' = [written EXCEPT ![j] = Least(@ + 1, 2)]
  /\ UNCHANGED <<hookVars, fileVars, threadVars, stopVars, blame, faultVars>>

MSucceed(j) ==
  /\ SetExec(j, {"run", "committed"}, "ok")
  /\ UNCHANGED <<hookVars, fileVars, threadVars, stopVars, storeVars, faultVars>>
Succeed(j) ==
  /\ SetExec(j, {"committed"}, "ok")
  /\ UNCHANGED <<hookVars, fileVars, threadVars, stopVars, storeVars, faultVars>>

Blame(S) == blame' = [j \in Jobs |-> IF j \in S
                        THEN Least(blame[j] + 1, MaxAttempts) ELSE blame[j]]

\* Any exception but the two below; after the commit only as a fault.
Fail(j) ==
  /\ \/ SetExec(j, {"run"}, "fail") /\ j \in payload /\ UNCHANGED errors
     \/ SetExec(j, {"committed"}, "fail") /\ Fault
  /\ Blame({j})
  /\ UNCHANGED <<hookVars, fileVars, threadVars, stopVars, written, cut, deaths>>

\* StoreBusyError or StoreClosingError: nothing was written.
FailFree(j) ==
  /\ SetExec(j, {"run"}, "free") /\ j \in payload
  /\ Blame(IF running[j].free < MaxFree THEN {} ELSE {j})
  /\ UNCHANGED <<hookVars, fileVars, threadVars, stopVars, written, faultVars>>

\* PermanentHookError: the payload is missing, unreadable or not JSON.
FailPermanent(j) ==
  /\ SetExec(j, {"run"}, "permanent")
  /\ Blame({j})
  /\ UNCHANGED <<hookVars, fileVars, threadVars, stopVars, written, faultVars>>

-----------------------------------------------------------------------------
(* A pass of the consumer: settle what is finished *)

\* complete_hook_job unlinks the record, fail_hook_job writes the copy.
Settle(j) ==
  /\ pc = "settle" /\ j \in Finished \ tried
  /\ IF exec[j] = "ok" THEN Unlink(j) /\ UNCHANGED <<queue, dead>>
                       ELSE CopyRecord(j, Verdict(running[j], exec[j])) /\ UNCHANGED running
  /\ pc' = "settled" /\ now' = j
  /\ UNCHANGED <<hookVars, spill, payload, marker, pending, tried, ioFail,
                 marked, exec, stopVars, storeVars, faultVars>>

\* Then the payload goes, or the old record.
MPayloadLeft ==
  /\ pc = "settled"
  /\ IF exec[now] = "ok" THEN UNCHANGED running ELSE Unlink(now)
  /\ exec' = [exec EXCEPT ![now] = "no"]
  /\ ioFail' = [ioFail EXCEPT ![now] = 0]
  /\ pc' = "settle" /\ now' = NoJob
  /\ UNCHANGED <<hookVars, spill, payload, queue, dead, marker, pending, tried,
                 marked, stop, gaveUp, stops, storeVars, faultVars>>
MSettleRest ==
  /\ pc = "settled"
  /\ payload' = payload \ {now} /\ Unlink(now)
  /\ exec' = [exec EXCEPT ![now] = "no"]
  /\ ioFail' = [ioFail EXCEPT ![now] = 0]
  /\ pc' = "settle" /\ now' = NoJob
  /\ UNCHANGED <<hookVars, spill, queue, dead, marker, pending, tried, marked,
                 stop, gaveUp, stops, storeVars, faultVars>>
SettleRest ==
  /\ pc = "settled"
  /\ IF exec[now] = "ok" THEN payload' = payload \ {now} /\ UNCHANGED running
                         ELSE Unlink(now) /\ UNCHANGED payload
  /\ exec' = [exec EXCEPT ![now] = "no"]
  /\ ioFail' = [ioFail EXCEPT ![now] = 0]
  /\ pc' = "settle" /\ now' = NoJob
  /\ UNCHANGED <<hookVars, spill, queue, dead, marker, pending, tried, marked,
                 stop, gaveUp, stops, storeVars, faultVars>>

\* hook_io_failure: retried after a backoff.  At the limit a written job is left
\* in running/, another is moved to dead/ as it is, or kept if that fails too.
SettleError(j) ==
  /\ Fault
  /\ \/ pc = "settle" /\ j \in Finished \ tried
     \/ pc = "settled" /\ j = now /\ exec[j] # "ok"
  /\ pc' = "settle" /\ now' = NoJob
  /\ \/ /\ ioFail[j] + 1 < MaxAttempts \/ exec[j] # "ok"
        /\ ioFail' = [ioFail EXCEPT ![j] = Least(@ + 1, MaxAttempts - 1)]
        /\ tried' = tried \cup {j}
        /\ UNCHANGED <<running, dead, exec>>
     \/ /\ ioFail[j] + 1 >= MaxAttempts
        /\ ioFail' = [ioFail EXCEPT ![j] = 0]
        /\ exec' = [exec EXCEPT ![j] = "no"]
        /\ IF exec[j] = "ok" THEN UNCHANGED <<running, dead>>
             ELSE dead' = [dead EXCEPT ![j] = running[j]] /\ Unlink(j)
        /\ UNCHANGED tried
  /\ UNCHANGED <<hookVars, spill, payload, queue, marker, pending, marked,
                 stop, gaveUp, stops, storeVars, cut, deaths>>

Settled == pc = "settle" /\ Finished \subseteq tried

-----------------------------------------------------------------------------
(* Adopt the spill files, in name order *)

HasRecord(j) == queue[j] # NoFile \/ running[j] # NoFile \/ dead[j] # NoFile

Room  == Cardinality(Inflight) < Parallel

BeginPass ==
  /\ Settled /\ ~stop
  /\ pc' = IF Room THEN "adopt" ELSE "settle"
  /\ tried' = {}
  /\ UNCHANGED <<hookVars, fileVars, now, pending, ioFail, marked, exec,
                 stopVars, storeVars, faultVars>>

\* The next one is the oldest spill file left.
NextSpill(j) == spill \ tried # {} /\ j = Oldest(spill \ tried)

\* Its record is there already: adopted before a death.
AdoptAgain(j) ==
  /\ pc = "adopt" /\ NextSpill(j) /\ HasRecord(j)
  /\ spill' = spill \ {j}
  /\ UNCHANGED <<hookVars, payload, queue, running, dead, marker, threadVars,
                 exec, stopVars, storeVars, faultVars>>

\* A malformed file goes to dead/, one the classifier rejects to quarantine/.
AdoptReject(j) ==
  /\ pc = "adopt" /\ NextSpill(j) /\ ~HasRecord(j)
  /\ spill' = spill \ {j} /\ hook' = [hook EXCEPT ![j] = "rejected"]
  /\ UNCHANGED <<session, stamp, shown, clock, payload, queue, running, dead,
                 marker, threadVars, exec, stopVars, storeVars, faultVars>>

AdoptPayload(j) ==
  /\ pc = "adopt" /\ NextSpill(j) /\ ~HasRecord(j)
  /\ payload' = payload \cup {j}
  /\ pc' = "adoptRecord" /\ now' = j
  /\ UNCHANGED <<hookVars, spill, queue, running, dead, marker, pending, tried,
                 ioFail, marked, exec, stopVars, storeVars, faultVars>>

AdoptRecord ==
  /\ pc = "adoptRecord"
  /\ queue' = [queue EXCEPT ![now] = Fresh]
  /\ hook' = [hook EXCEPT ![now] = "adopted"]
  /\ clock' = clock + 1 /\ shown' = [shown EXCEPT ![now] = clock + 1]
  /\ pc' = "adoptUnlink"
  /\ UNCHANGED <<session, stamp, spill, payload, running, dead, marker, now,
                 pending, tried, ioFail, marked, exec, stopVars, storeVars,
                 faultVars>>

AdoptUnlink ==
  /\ pc = "adoptUnlink"
  /\ spill' = spill \ {now}
  /\ pc' = "adopt" /\ now' = NoJob
  /\ UNCHANGED <<hookVars, payload, queue, running, dead, marker, pending,
                 tried, ioFail, marked, exec, stopVars, storeVars, faultVars>>

\* A write that fails ends the adoption for this pass; an unlink is skipped.
AdoptError ==
  /\ Fault
  /\ \/ pc = "adopt" /\ ~(spill \subseteq tried) /\ pc' = "scan" /\ UNCHANGED tried
     \/ pc = "adoptRecord" /\ pc' = "scan" /\ UNCHANGED tried
     \/ pc = "adoptUnlink" /\ pc' = "adopt" /\ tried' = tried \cup {now}
     \/ /\ pc = "adopt" /\ pc' = pc
        /\ \E j \in Jobs : NextSpill(j) /\ HasRecord(j) /\ tried' = tried \cup {j}
  /\ now' = NoJob
  /\ UNCHANGED <<hookVars, fileVars, pending, ioFail, marked, exec, stopVars,
                 storeVars, cut, deaths>>

AdoptDone ==
  /\ pc = "adopt" /\ spill \subseteq tried
  /\ pc' = "scan"
  /\ UNCHANGED <<hookVars, fileVars, now, pending, tried, ioFail, marked, exec,
                 stopVars, storeVars, faultVars>>

-----------------------------------------------------------------------------
(* Scan the queue and start jobs *)

MBusy == {}
Busy  == {session[j] : j \in Inflight}

Scan ==
  /\ pc = "scan" /\ pc' = "claim" /\ tried' = {}
  /\ pending' = {j \in Files(queue) : session[j] \notin Busy}
  /\ UNCHANGED <<hookVars, fileVars, now, ioFail, marked, exec, stopVars,
                 storeVars, faultVars>>

\* Only the oldest job of a session may start.
MOthers(j) == {k \in pending : k # j}
Others(j)  == {k \in pending : session[k] # session[j]}
Claimable(j) ==
  pc = "claim" /\ Room /\ ~stop /\ pending # {} /\ j = Oldest(pending)

Claim(j) ==
  /\ Claimable(j)
  /\ running' = [running EXCEPT ![j] = queue[j]]
  /\ queue' = [queue EXCEPT ![j] = NoFile]
  /\ exec' = [exec EXCEPT ![j] = "run"]
  /\ ioFail' = [ioFail EXCEPT ![j] = 0]
  /\ pending' = Others(j)
  /\ UNCHANGED <<hookVars, spill, payload, dead, marker, pc, now, tried, marked,
                 stopVars, storeVars, faultVars>>

\* Its backoff is not over.
NotDue(j) ==
  /\ Claimable(j) /\ queue[j] # Fresh
  /\ pending' = Others(j)
  /\ UNCHANGED <<hookVars, fileVars, pc, now, tried, ioFail, marked, exec,
                 stopVars, storeVars, faultVars>>

\* The rename failed: at the limit the record is moved to dead/.
ClaimError(j) ==
  /\ Fault /\ Claimable(j)
  /\ pending' = Others(j)
  /\ \/ /\ ioFail' = [ioFail EXCEPT ![j] = Least(@ + 1, MaxAttempts - 1)]
        /\ UNCHANGED <<queue, dead>>
     \/ /\ ioFail[j] + 1 >= MaxAttempts
        /\ ioFail' = [ioFail EXCEPT ![j] = 0]
        /\ dead' = [dead EXCEPT ![j] = queue[j]]
        /\ queue' = [queue EXCEPT ![j] = NoFile]
  /\ UNCHANGED <<hookVars, spill, payload, running, marker, pc, now, tried,
                 marked, exec, stopVars, storeVars, cut, deaths>>

EndPass ==
  /\ pc = "claim" /\ (pending = {} \/ ~Room \/ stop)
  /\ pc' = "settle" /\ pending' = {}
  /\ UNCHANGED <<hookVars, fileVars, now, tried, ioFail, marked, exec, stopVars,
                 storeVars, faultVars>>

-----------------------------------------------------------------------------
(* Stopping and dying *)

RequestStop ==
  /\ pc # "down" /\ ~stop /\ stops < MaxStops
  /\ stop' = TRUE /\ stops' = stops + 1
  /\ UNCHANGED <<hookVars, fileVars, threadVars, exec, gaveUp, storeVars,
                 faultVars>>

\* interrupted.json is replaced by a rename; a write that fails is logged.
WriteMarker(S) ==
  \/ marker' = S /\ UNCHANGED errors
  \/ Fault /\ UNCHANGED marker

\* The consumer sees the stop: it records what is still running, once.
MInterrupted == {}
Interrupted  == Inflight

MarkInterrupted ==
  /\ Settled /\ stop /\ Inflight # {}
  /\ tried' = {} /\ marked' = TRUE
  /\ IF marked THEN UNCHANGED <<marker, errors>> ELSE WriteMarker(Interrupted)
  /\ UNCHANGED <<hookVars, spill, payload, queue, running, dead, pc, now,
                 pending, ioFail, exec, stopVars, storeVars, cut, deaths>>

\* Nothing is in flight: the thread ends, and the store is closed.
MConsumerEnds ==
  /\ Settled /\ stop
  /\ pc' = "down" /\ marker' = IF marked THEN {} ELSE marker
  /\ exec' = [j \in Jobs |-> "no"]
  /\ UNCHANGED <<hookVars, spill, payload, queue, running, dead, now, pending,
                 tried, ioFail, marked, stopVars, storeVars, faultVars>>
ConsumerEnds ==
  /\ Settled /\ stop /\ Inflight = {}
  /\ pc' = "down" /\ marker' = IF marked THEN {} ELSE marker
  /\ UNCHANGED <<hookVars, spill, payload, queue, running, dead, now, pending,
                 tried, ioFail, marked, exec, stopVars, storeVars, faultVars>>

\* DaemonConsumer.stop: its bound is over, so it marks what is in running/.
GiveUp ==
  /\ stop /\ ~gaveUp /\ pc # "down" /\ gaveUp' = TRUE
  /\ IF PidLive /\ Files(running) # {} THEN WriteMarker(Files(running))
                                     ELSE UNCHANGED <<marker, errors>>
  /\ UNCHANGED <<hookVars, spill, payload, queue, running, dead, threadVars,
                 exec, stop, stops, storeVars, cut, deaths>>

MHalt ==
  /\ pc' = "down" /\ pending' = {} /\ tried' = {}
  /\ exec' = [j \in Jobs |-> "no"]
  /\ UNCHANGED <<hookVars, fileVars, now, ioFail, marked, stop, gaveUp, stops, written>>
Halt ==
  /\ pc' = "down" /\ now' = NoJob /\ pending' = {} /\ tried' = {}
  /\ exec' = [j \in Jobs |-> "no"]
  /\ UNCHANGED <<hookVars, fileVars, ioFail, marked, stop, gaveUp, stops, written>>

\* The daemon then exits, whatever still runs.
Exit ==
  /\ gaveUp /\ pc # "down"
  /\ Halt
  /\ Blame({j \in Files(running) \cap Inflight : running[j].free >= MaxFree})
  /\ cut' = (cut \/ Inflight # {})
  /\ UNCHANGED <<deaths, errors>>

Die ==
  /\ pc # "down" /\ deaths < MaxDeaths
  /\ Halt
  /\ Blame(Inflight)
  /\ deaths' = deaths + 1
  /\ UNCHANGED <<cut, errors>>

-----------------------------------------------------------------------------

HookStep(j) == HookShed(j) \/ HookWrite(j) \/ HookPublish(j)

JobStep(j) == Commit(j) \/ Succeed(j) \/ Fail(j) \/ FailFree(j) \/ FailPermanent(j)

Recover == (\E j \in Jobs : RecoverCopy(j)) \/ RecoverUnlink \/ RecoverDone

Adopt ==
  \/ \E j \in Jobs : AdoptAgain(j) \/ AdoptReject(j) \/ AdoptPayload(j)
  \/ AdoptRecord \/ AdoptUnlink \/ AdoptDone

ConsumerStep ==
  \/ Recover \/ (\E j \in Jobs : Settle(j)) \/ SettleRest \/ BeginPass \/ Adopt
  \/ Scan \/ (\E j \in Jobs : Claim(j) \/ NotDue(j)) \/ EndPass
  \/ MarkInterrupted \/ ConsumerEnds

FileError ==
  \/ \E j \in Jobs : RecoverError(j) \/ SettleError(j) \/ ClaimError(j)
  \/ AdoptError

Next ==
  \/ \E j \in Jobs : HookStep(j) \/ JobStep(j)
  \/ Start \/ ConsumerStep \/ FileError
  \/ RequestStop \/ GiveUp \/ Exit \/ Die

Spec == Init /\ [][Next]_vars

\* Hooks, the consumer and its pool are scheduled; a daemon that is down is
\* started again; a backoff ends.  No stop, death or error has to happen.
Fairness ==
  /\ WF_vars(Start) /\ WF_vars(ConsumerStep) /\ WF_vars(Exit)
  /\ \A j \in Jobs : /\ WF_vars(HookStep(j)) /\ WF_vars(JobStep(j))
                     /\ SF_vars(Claim(j))

FairSpec == Spec /\ Fairness

-----------------------------------------------------------------------------
(* Properties *)

PCs == {"down", "recover", "recovered", "settle", "settled", "adopt",
        "adoptRecord", "adoptUnlink", "scan", "claim"}

\* Every variable has its type.
TypeOK ==
  /\ session \in [Jobs -> Sessions]
  /\ hook \in [Jobs -> {"new", "written", "published", "shed", "spilled",
                        "adopted", "rejected"}]
  /\ stamp \in [Jobs -> Nat] /\ shown \in [Jobs -> Nat] /\ clock \in Nat
  /\ spill \subseteq Jobs /\ payload \subseteq Jobs /\ marker \subseteq Jobs
  /\ queue \in [Jobs -> Record \cup {NoFile}]
  /\ running \in [Jobs -> Record \cup {NoFile}]
  /\ dead \in [Jobs -> Record \cup {NoFile}]
  /\ pc \in PCs
  /\ now \in IF pc \in {"recovered", "settled", "adoptRecord", "adoptUnlink"}
              THEN Jobs ELSE {NoJob}
  /\ pending \subseteq Jobs /\ tried \subseteq Jobs
  /\ exec \in [Jobs -> {"no", "run", "committed", "ok", "fail", "free", "permanent"}]
  /\ ioFail \in [Jobs -> Nat]
  /\ stop \in BOOLEAN /\ marked \in BOOLEAN /\ gaveUp \in BOOLEAN
  /\ written \in [Jobs -> Nat] /\ blame \in [Jobs -> Nat]
  /\ cut \in BOOLEAN /\ deaths \in Nat /\ stops \in Nat /\ errors \in Nat

Accepted == {j \in Jobs : hook[j] \notin {"new", "written", "shed"}}
Held     == {j \in Jobs : j \in spill \/ HasRecord(j) \/ hook[j] = "rejected"}
Stored   == {j \in Jobs : written[j] > 0}

\* A published job that was not written is in queue/, running/ or dead/,
\* whatever dies or fails between two file operations.
JobNotLost == Accepted \ Stored \subseteq Held

\* The queue implements HookService, an at-least-once job service.
Service == INSTANCE HookService
             WITH accepted <- Accepted, held <- Held, stored <- Stored
ImplementsService == Service!ServiceSpec

\* A record never waits or runs without the payload it names.
PayloadKept ==
  errors = 0 => \A j \in Jobs :
    queue[j] # NoFile \/ exec[j] \in {"run", "committed"} => j \in payload

\* The step starts no job beside another of its session, or while one waits that
\* was published before its own record was written.
StartsInOrder ==
  \A j, k \in Jobs :
     /\ exec[j] = "no" /\ exec'[j] = "run"
     /\ k # j /\ session[k] = session[j] /\ errors = 0
     => /\ exec[k] = "no"
        /\ 0 < shown[k] /\ shown[k] < stamp[j]
             => queue[k] = NoFile /\ running[k] = NoFile

\* "jobs of one session run strictly in queue order", whatever the consumer's
\* scans have seen and whatever dies.
SessionOrder == [][StartsInOrder]_vars

\* Unless the daemon died, was stopped in the middle of a job, or a file
\* operation failed, no job is written twice, however often it is retried.
WrittenOnce ==
  deaths = 0 /\ errors = 0 /\ ~cut => \A j \in Jobs : written[j] <= 1

\* An orderly stop costs no attempt: a job has used at most one for each of its
\* own failures and for each death of the daemon under it, while its free
\* retries last.
StopIsFree ==
  errors = 0 => \A j \in Jobs :
    /\ queue[j] # NoFile => queue[j].attempts <= blame[j]
    /\ dead[j] # NoFile => dead[j].attempts <= blame[j]

\* A job is tried a bounded number of times: what waits has attempts left.
AttemptsLeft ==
  \A j \in Jobs : queue[j] # NoFile =>
    queue[j].attempts < MaxAttempts /\ queue[j].free <= MaxFree

\* Retries are counted fairly: no attempt too many, and none without a failure.
RetriesAreFair == StopIsFree /\ AttemptsLeft

\* Every job is written, or ends where an operator finds it.
EveryJobEnds ==
  \A j \in Jobs : j \in Accepted ~> j \in Stored \/ dead[j] # NoFile
                                      \/ hook[j] = "rejected"
=============================================================================
