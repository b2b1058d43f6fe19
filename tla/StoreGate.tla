-------------------------------- MODULE StoreGate --------------------------------
(***************************************************************************)
(* One life of the daemon process around its memory store: the threads     *)
(* that open the store and work in it, the warmup that opens it first,     *)
(* installs the hooks and starts the hook queue's consumer, and the        *)
(* shutdown that stops the consumer and closes the store only while        *)
(* nothing works in it.                                                    *)
(***************************************************************************)
EXTENDS FiniteSets

CONSTANTS
  Routes, \* worker threads of sync HTTP routes
  Jobs    \* threads of the lifecycle phase pools

Warm == "warmup"
Consumer == "consumer"
Workers == Routes \cup Jobs \cup {Warm, Consumer}

VARIABLES
  memory,    \* _memory: "none" or "open"
  at,        \* where each worker is in a unit of gated work
  users,     \* the workers counted by _store_users
  closing,   \* _store_closing
  everOpen,  \* a store was published, so atexit holds _shutdown_at_exit
  asked,     \* should_exit, with what set it: "no", "request", "signal"
  requested, \* _shutdown_requested
  warmStage, \* the warmup thread's place in run()
  startup,   \* _startup_status, as /health reports it
  consumer,  \* _hook_consumer: "none", "running", "stopped" (told to stop)
  marker,    \* daemon.pid names this process
  main       \* the main thread's place

gateVars == <<memory, at, users, closing, everOpen>>
lifeVars == <<asked, requested, warmStage, startup, consumer>>
storeVars == <<memory, at, users, closing, everOpen, asked, requested, warmStage,
               startup, consumer, marker, main>>

Places == {"out", "entered", "opening", "opened", "inside"}
Stages == {"loading", "model", "check", "scan", "sync", "syncing", "publish",
           "starting", "started", "ended"}
MainPlaces == {"serving", "cleanup", "join", "waiting", "idle", "left", "exiting",
               "flushing", "gone"}

GateTypeOK ==
  /\ memory \in {"none", "open"}
  /\ at \in [Workers -> Places]
  /\ users \subseteq Workers
  /\ closing \in BOOLEAN /\ everOpen \in BOOLEAN /\ requested \in BOOLEAN /\ marker \in BOOLEAN
  /\ asked \in {"no", "request", "signal"}
  /\ warmStage \in Stages
  /\ startup \in {"warming", "ok", "degraded"}
  /\ consumer \in {"none", "running", "stopped"}
  /\ main \in MainPlaces

StoreInit ==
  /\ memory = "none" /\ at = [t \in Workers |-> "out"]
  /\ users = {} /\ closing = FALSE /\ everOpen = FALSE
  /\ asked = "no" /\ requested = FALSE
  /\ warmStage = "loading" /\ startup = "warming"
  /\ consumer = "none" /\ marker = TRUE
  /\ main = "serving"

-----------------------------------------------------------------------------
(* A unit of work in the store: store_in_use, then get_memory, then the work. *)

Move(t, from, to) == at[t] = from /\ at' = [at EXCEPT ![t] = to]

\* store_in_use takes the gate, unless a shutdown closed it (StoreClosingError).
Enter(t) ==
  /\ ~closing
  /\ Move(t, "out", "entered")
  /\ users' = users \cup {t}
  /\ UNCHANGED <<memory, closing, everOpen>>

\* A route that works holds _rw_lock, the other workers do not take it.
HasRwLock(t) == t \in Routes /\ at[t] \in {"opening", "opened", "inside"}
RwLockFree(t) == t \in Routes => \A r \in Routes : ~HasRwLock(r)

\* _get_local_memory: the store is there, before or after waiting for _init_lock.
UseOpen(t) ==
  /\ memory = "open" /\ RwLockFree(t)
  /\ Move(t, "entered", "inside")
  /\ UNCHANGED <<memory, users, closing, everOpen>>

InitLockFree == \A t \in Workers : at[t] \notin {"opening", "opened"}

\* Leave the block: the finally of store_in_use.
Leave(t) ==
  /\ at[t] # "out"
  /\ at' = [at EXCEPT ![t] = "out"]
  /\ users' = users \ {t}
  /\ UNCHANGED <<memory, closing, everOpen>>

\* Under _init_lock with no store yet: build one, or refuse once a shutdown began.
BeginOpen(t) ==
  /\ memory = "none" /\ InitLockFree /\ RwLockFree(t)
  /\ ~closing
  /\ Move(t, "entered", "opening")
  /\ UNCHANGED <<memory, users, closing, everOpen>>
RefusedOpen(t) ==
  /\ memory = "none" /\ InitLockFree /\ RwLockFree(t)
  /\ closing
  /\ at[t] = "entered" /\ Leave(t)

\* create_lite_memory returned: still private to this thread.
Built(t) == Move(t, "opening", "opened") /\ UNCHANGED <<memory, users, closing, everOpen>>
BuildFails(t) == at[t] = "opening" /\ Leave(t)

\* Under the gate: published, unless a shutdown began meanwhile.
Publishes == ~closing
Publish(t) ==
  /\ Publishes
  /\ Move(t, "opened", "inside")
  /\ memory' = "open" /\ everOpen' = TRUE
  /\ UNCHANGED <<users, closing>>
CloseOwn(t) == ~Publishes /\ at[t] = "opened" /\ Leave(t)

WorkEnds(t) == at[t] = "inside" /\ Leave(t)

\* The steps of a worker once it is in the gate that do not end its unit of work.
Advance(t) == UseOpen(t) \/ BeginOpen(t) \/ Built(t) \/ Publish(t)
\* It ends without having used a store.
Fails(t) == RefusedOpen(t) \/ BuildFails(t) \/ CloseOwn(t)

Work(t) ==
  /\ main # "gone" /\ t \in Routes \cup Jobs
  /\ Enter(t) \/ Advance(t) \/ Fails(t) \/ WorkEnds(t)
  /\ UNCHANGED <<lifeVars, marker, main>>

\* POST /clear. A live daemon.pid refuses it (preflight_store_reset), else
\* _shutdown closes the published store, whoever else is in the gate.
Clear(t) ==
  /\ main # "gone" /\ t \in Routes
  /\ at[t] = "entered" /\ RwLockFree(t)
  /\ memory' = IF marker THEN memory ELSE "none"
  /\ at' = [at EXCEPT ![t] = "out"] /\ users' = users \ {t}
  /\ UNCHANGED <<closing, everOpen, lifeVars, marker, main>>

-----------------------------------------------------------------------------
(* The warmup thread, _start_background_warmup's run(). *)

ShutdownBegun == requested \/ asked # "no"

WarmGoes(from, to) == warmStage = from /\ warmStage' = to

\* _warm_backend opens the store and then the embedding model.
WarmLoads ==
  /\ warmStage \in {"loading", "scan"}
  /\ Enter(Warm) \/ Advance(Warm)
  /\ UNCHANGED lifeVars
WarmLoaded ==
  /\ WarmGoes("loading", "model") /\ WorkEnds(Warm)
  /\ UNCHANGED <<asked, requested, startup, consumer>>

\* StoreClosingError ends the warmup, wherever it is raised.
WarmRefused ==
  /\ warmStage \in {"loading", "scan"}
  /\ \/ at[Warm] = "out" /\ closing /\ UNCHANGED gateVars
     \/ RefusedOpen(Warm)
     \/ CloseOwn(Warm)
  /\ warmStage' = "ended"
  /\ UNCHANGED <<asked, requested, startup, consumer>>

\* The store or a model is missing: the hooks are still refreshed.
WarmBroken ==
  /\ \/ warmStage = "loading" /\ BuildFails(Warm)
     \/ warmStage = "model" /\ UNCHANGED gateVars
  /\ startup' = "degraded"
  /\ warmStage' = IF ShutdownBegun THEN "ended" ELSE "sync"
  /\ UNCHANGED <<asked, requested, consumer>>

WarmChecks ==
  /\ warmStage = "model"
  /\ warmStage' = IF ShutdownBegun THEN "ended" ELSE "scan"
  /\ UNCHANGED <<gateVars, asked, requested, startup, consumer>>
WarmScanned ==
  /\ WarmGoes("scan", "sync") /\ WorkEnds(Warm)
  /\ UNCHANGED <<asked, requested, startup, consumer>>

\* _hook_lifecycle_lock, held while hooks are copied or the consumer is started.
HookLockFree == warmStage \notin {"syncing", "starting"}

AfterSync == IF startup = "degraded" THEN "ended" ELSE "publish"
WarmSyncs ==
  /\ warmStage = "sync"
  /\ warmStage' = IF ShutdownBegun THEN AfterSync ELSE "syncing"
  /\ UNCHANGED <<gateVars, asked, requested, startup, consumer>>
WarmSynced ==
  /\ WarmGoes("syncing", AfterSync)
  /\ UNCHANGED <<gateVars, asked, requested, startup, consumer>>
WarmPublishes ==
  /\ warmStage = "publish"
  /\ startup' = "ok"
  /\ warmStage' = IF ShutdownBegun THEN "ended" ELSE "starting"
  /\ UNCHANGED <<gateVars, asked, requested, consumer>>
WarmStarts ==
  /\ WarmGoes("starting", "started")
  /\ consumer' = "running"
  /\ UNCHANGED <<gateVars, asked, requested, startup>>

WarmStep ==
  /\ main # "gone"
  /\ \/ WarmLoads \/ WarmLoaded \/ WarmRefused \/ WarmBroken \/ WarmChecks
     \/ WarmScanned \/ WarmSyncs \/ WarmSynced \/ WarmPublishes \/ WarmStarts
  /\ UNCHANGED <<marker, main>>

\* A job of the hook queue's consumer; no job begins once it was told to stop.
ConsumerStep ==
  /\ main # "gone"
  /\ \/ consumer = "running" /\ Enter(Consumer)
     \/ Advance(Consumer) \/ Fails(Consumer) \/ WorkEnds(Consumer)
  /\ UNCHANGED <<lifeVars, marker, main>>

-----------------------------------------------------------------------------
(* Shutdown. *)

\* A signal handler sets should_exit; the watcher thread does for a stop request,
\* and sets _shutdown_requested on its next tick. A signal may follow a request.
Ask(how) ==
  /\ main # "gone" /\ asked' = how
  /\ asked = "no" \/ (asked = "request" /\ how = "signal")
  /\ UNCHANGED <<gateVars, requested, warmStage, startup, consumer, marker, main>>
Relay ==
  /\ asked # "no" /\ requested' = TRUE
  /\ UNCHANGED <<gateVars, asked, warmStage, startup, consumer, marker, main>>

MainGoes(from, to) == main = from /\ main' = to

\* server.run returns: requests are drained or abandoned, their threads go on.
Drained ==
  /\ asked # "no" /\ MainGoes("serving", "cleanup")
  /\ UNCHANGED <<gateVars, lifeVars, marker>>

\* _request_shutdown, then the consumer is taken, both under the hook lock.
RequestLockFree == HookLockFree
StopConsumer ==
  /\ RequestLockFree /\ MainGoes("cleanup", "join")
  /\ requested' = TRUE
  /\ consumer' = IF consumer = "running" THEN "stopped" ELSE consumer
  /\ UNCHANGED <<gateVars, asked, warmStage, startup, marker>>

\* consumer.stop joined its thread or gave up; the gate then takes no new user.
CloseGate ==
  /\ MainGoes("join", "waiting")
  /\ closing' = TRUE
  /\ UNCHANGED <<memory, at, users, everOpen, lifeVars, marker>>

MIdle == TRUE
Idle == users = {}
GateIdle ==
  /\ Idle /\ MainGoes("waiting", "idle")
  /\ UNCHANGED <<gateVars, lifeVars, marker>>
GateTimesOut ==
  /\ ~Idle /\ MainGoes("waiting", "left")
  /\ UNCHANGED <<gateVars, lifeVars, marker>>

\* _shutdown, outside the gate.
CloseStore ==
  /\ \/ MainGoes("idle", "left")
     \/ MainGoes("flushing", "gone")
  /\ memory' = "none"
  /\ UNCHANGED <<at, users, closing, everOpen, lifeVars, marker>>

Unmark ==
  /\ MainGoes("left", "exiting")
  /\ marker' = FALSE
  /\ UNCHANGED <<gateVars, lifeVars>>

\* The process ends: at once by its signal, or through atexit, which waits for the
\* pools' threads and then flushes a store nothing works in.
Killed ==
  /\ asked = "signal" /\ MainGoes("exiting", "gone")
  /\ UNCHANGED <<gateVars, lifeVars, marker>>
AtExit ==
  /\ asked = "request" /\ \A j \in Jobs : at[j] = "out"
  /\ main = "exiting"
  /\ main' = IF everOpen /\ Idle THEN "flushing" ELSE "gone"
  /\ UNCHANGED <<gateVars, lifeVars, marker>>

Shutdown ==
  \/ Drained \/ StopConsumer \/ CloseGate \/ GateIdle \/ GateTimesOut
  \/ CloseStore \/ Unmark \/ Killed \/ AtExit

StoreNext ==
  \/ \E t \in Routes \cup Jobs : Work(t)
  \/ \E t \in Routes : Clear(t)
  \/ WarmStep \/ ConsumerStep
  \/ \E how \in {"request", "signal"} : Ask(how)
  \/ Relay
  \/ Shutdown

\* The main thread and the warmup's own steps run; how long a unit of work takes
\* in the store is not the daemon's to promise.
StoreFairness ==
  /\ WF_storeVars(Shutdown)
  /\ WF_storeVars(WarmSynced /\ UNCHANGED <<marker, main>>)
  /\ WF_storeVars(WarmStarts /\ UNCHANGED <<marker, main>>)

StoreSpec == StoreInit /\ [][StoreNext]_storeVars /\ StoreFairness

-----------------------------------------------------------------------------

SomeoneInside == \E t \in Workers : at[t] = "inside"

\* Shutdown never closes the store under a unit of work: SQLite crashes the process
\* if its connection closes inside a statement (store_in_use, close_store_when_idle).
ShutdownClosesIdleStore ==
  [][main' # main /\ main \in {"idle", "flushing"} => ~SomeoneInside]_storeVars

\* A stop request leaves no store open unless a thread still works in it, not even
\* one whose building began before the shutdown; and the consumer it took stays stopped.
ExitIsClean ==
  /\ main = "gone" /\ asked = "request" => memory = "none" \/ users # {}
  /\ main \notin {"serving", "cleanup"} => consumer # "running"

\* A signalled daemon ends, whatever still runs in its store.
SignalledDaemonEnds == asked = "signal" ~> main = "gone"
=============================================================================
