-------------------------- MODULE LegacyRetirement --------------------------
(***************************************************************************)
(* The change from the legacy enrichment workers to the one core worker:   *)
(* daemon._retire_legacy_agent, _retire_legacy_workers, _start_workers and *)
(* _stop_workers, with what a worker of an older install still does to the *)
(* queue table (enrichment_worker.drain_queue, enrichment_queue) and the   *)
(* store generation that a clear replaces.  The core worker and the        *)
(* migration of the table are a library's; psutil and launchctl are the    *)
(* system's.                                                               *)
(***************************************************************************)
EXTENDS Integers, FiniteSets

CONSTANTS LegacyWorkers, \* legacy worker processes
          Agent,       \* the one of them that launchd started, without a PID file
          Items,       \* rows of the queue table
          MaxClears    \* bound: clears of the store

ASSUME RetirementAssumption == Agent \in LegacyWorkers /\ "none" \notin Items

VARIABLES rows,        \* status, attempts and generation of each row
          legacy,      \* per worker: PID file, process, job in hand
          agent,       \* the launchd job is loaded
          core,        \* the core worker runs
          workerStart, \* where a start of the workers stands
          generation   \* .store-generation

legacyVars == <<rows, legacy, agent, core, workerStart, generation>>

MaxAttempts == 3       \* _MAX_ITEM_NOT_FOUND_ATTEMPTS
Unoccupied == [job |-> "none", step |-> "loop", gen |-> 0]

RetirementTypeOK ==
    /\ rows \in [Items -> [st : {"pending", "processing", "done", "failed", "migrated", "cleared"},
                           attempts : 0..MaxAttempts, gen : 0..MaxClears]]
    /\ \A w \in LegacyWorkers : /\ legacy[w].file \in {"none", "pid", "garbled"}
                          /\ legacy[w].alive \in BOOLEAN /\ legacy[w].shown \in BOOLEAN
                          /\ legacy[w].work.step \in {"loop", "read", "write"}
    /\ workerStart \in {"idle", "agent", "files", "migrate"}
    /\ core \in BOOLEAN /\ agent \in BOOLEAN

(* An upgraded machine: the old workers may be alive, their PID files there*)
(* or damaged, their command lines readable or not.                        *)
RetirementInit ==
    /\ rows = [j \in Items |-> [st |-> "pending", attempts |-> 0, gen |-> 0]]
    /\ \E alive \in SUBSET LegacyWorkers, garbled \in SUBSET LegacyWorkers, shown \in SUBSET LegacyWorkers :
         legacy = [w \in LegacyWorkers |->
                     [file |-> IF w = Agent THEN "none"
                               ELSE IF w \in garbled THEN "garbled" ELSE "pid",
                      alive |-> w \in alive, shown |-> w \in shown, work |-> Unoccupied]]
    /\ agent = TRUE /\ core = FALSE /\ workerStart = "idle" /\ generation = 0

-----------------------------------------------------------------------------
(* drain_queue of a legacy worker: claim a row, drop it when the store was *)
(* cleared, run it, and mark it by its result.                             *)
Work(w, work) == legacy' = [legacy EXCEPT ![w].work = work]
Keep == UNCHANGED <<agent, core, workerStart, generation>>

Dequeue(w, j) ==
    /\ legacy[w].alive /\ legacy[w].work.step = "loop" /\ rows[j].st = "pending"
    /\ rows' = [rows EXCEPT ![j].st = "processing",
                            ![j].attempts = IF @ < MaxAttempts THEN @ + 1 ELSE @]
    /\ Work(w, [job |-> j, step |-> "read", gen |-> rows[j].gen])
    /\ Keep

SameGeneration(w) == legacy[w].work.gen = generation

Discard(w) ==
    /\ legacy[w].alive /\ legacy[w].work.step # "loop" /\ ~SameGeneration(w)
    /\ Work(w, Unoccupied) /\ UNCHANGED rows /\ Keep

Extracts(w) ==
    /\ legacy[w].alive /\ legacy[w].work.step = "read" /\ SameGeneration(w)
    /\ Work(w, [legacy[w].work EXCEPT !.step = "write"])
    /\ UNCHANGED rows /\ Keep

(* Marks are by row id: a row that was cleared away is not there to mark.  *)
MarkAs(j, st) == IF rows[j].st = "cleared" THEN rows ELSE [rows EXCEPT ![j].st = st]

Result(attempts) == {"done", "failed"} \cup IF attempts < MaxAttempts THEN {"pending"} ELSE {}

Marks(w) ==
    /\ legacy[w].alive /\ legacy[w].work.step = "write" /\ SameGeneration(w)
    /\ \E st \in Result(rows[legacy[w].work.job].attempts) : rows' = MarkAs(legacy[w].work.job, st)
    /\ Work(w, Unoccupied) /\ Keep

WorkerDies(w) ==
    /\ legacy[w].alive
    /\ legacy' = [legacy EXCEPT ![w].alive = FALSE, ![w].work = Unoccupied]
    /\ UNCHANGED rows /\ Keep

(* clear removes the table with the store, and publishes a new generation. *)
Clear ==
    /\ generation < MaxClears /\ workerStart = "idle"
    /\ generation' = generation + 1
    /\ rows' = [j \in Items |-> [rows[j] EXCEPT !.st = "cleared"]]
    /\ UNCHANGED <<legacy, agent, core, workerStart>>

-----------------------------------------------------------------------------
(* _start_workers: the agent first, then every PID file, then the table.   *)
At(s) == workerStart' = s
Fail == workerStart' = "idle" /\ UNCHANGED <<rows, legacy, agent, core, generation>>

StartWorkers ==
    /\ workerStart = "idle" /\ At("agent")
    /\ UNCHANGED <<rows, legacy, agent, core, generation>>

(* The job is booted out, its process waited for; anything not proved is an*)
(* error.  Its PID is kept in a file of its own, for the next attempt.     *)
RetireAgent ==
    /\ workerStart = "agent"
    /\ \/ agent /\ agent' = FALSE /\ At("files")
          /\ legacy' = [legacy EXCEPT ![Agent].alive = FALSE, ![Agent].work = Unoccupied]
       \/ agent /\ legacy[Agent].alive       \* booted out, but does not exit in time
          /\ agent' = FALSE /\ At("idle")
          /\ legacy' = [legacy EXCEPT ![Agent].file = "pid"]
       \/ ~agent /\ At("files") /\ UNCHANGED <<agent, legacy>>
    /\ UNCHANGED <<rows, core, generation>>

Filed == {w \in LegacyWorkers : legacy[w].file # "none"}

(* A PID that is gone, or belongs to somebody else, needs no stop; a live  *)
(* process whose command line cannot be read is not assumed to be harmless.*)
MUnverifiable(w) == legacy[w].file = "garbled"
Unverifiable(w) == \/ legacy[w].file = "garbled"
                   \/ legacy[w].alive /\ ~legacy[w].shown

RetireWorker(w) ==
    /\ workerStart = "files" /\ w \in Filed
    /\ \/ Unverifiable(w) /\ Fail
       \/ /\ ~Unverifiable(w) /\ legacy[w].alive /\ legacy[w].shown
          /\ \/ legacy' = [legacy EXCEPT ![w].alive = FALSE, ![w].work = Unoccupied, ![w].file = "none"]
                /\ UNCHANGED <<rows, agent, core, workerStart, generation>>
             \/ Fail                              \* exit unverified
       \/ /\ ~Unverifiable(w) /\ ~(legacy[w].alive /\ legacy[w].shown)
          /\ legacy' = [legacy EXCEPT ![w].file = "none"]
          /\ UNCHANGED <<rows, agent, core, workerStart, generation>>

AllRetired ==
    /\ workerStart = "files" /\ Filed = {}
    /\ At("migrate")
    /\ UNCHANGED <<rows, legacy, agent, core, generation>>

(* The rows become jobs of the core worker's graph, those in processing    *)
(* too, and the core worker starts unless one runs.                        *)
Migrate ==
    /\ workerStart = "migrate"
    /\ rows' = [j \in Items |-> IF rows[j].st \in {"pending", "processing"}
                               THEN [rows[j] EXCEPT !.st = "migrated"] ELSE rows[j]]
    /\ core' = TRUE /\ At("idle")
    /\ UNCHANGED <<legacy, agent, generation>>

(* _stop_workers goes on when the retirement of the old ones fails, leaves *)
(* their rows for the next start, and boots the launchd job out.           *)
StopWorkers ==
    /\ workerStart = "idle" /\ core
    /\ core' = FALSE
    /\ \E gone \in SUBSET {w \in Filed : ~Unverifiable(w)} :
         legacy' = [w \in LegacyWorkers |-> IF w \in gone
                      THEN [legacy[w] EXCEPT !.alive = FALSE, !.file = "none", !.work = Unoccupied]
                      ELSE legacy[w]]
    /\ UNCHANGED <<rows, agent, workerStart, generation>>

RetirementNext ==
    \/ StartWorkers \/ RetireAgent \/ AllRetired \/ Migrate \/ StopWorkers \/ Clear
    \/ \E w \in LegacyWorkers : \/ Discard(w) \/ Extracts(w) \/ Marks(w) \/ WorkerDies(w)
                          \/ RetireWorker(w)
                          \/ \E j \in Items : Dequeue(w, j)

RetirementSpec == RetirementInit /\ [][RetirementNext]_legacyVars

-----------------------------------------------------------------------------
(* A row is handed to the core worker only when no legacy worker can still *)
(* be working on it: in-flight rows are recovered after the old processes  *)
(* are proved gone, not before.                                            *)
OnlyQuietRowsRecovered ==
    [][\A j \in Items : rows[j].st # "migrated" /\ rows'[j].st = "migrated"
          => \A w \in LegacyWorkers : legacy[w].work.job # j]_legacyVars
=============================================================================
