------------------------------ MODULE DaemonControl ------------------------------
(***************************************************************************)
(* The commands that start and stop the daemon, against the processes of   *)
(* the machine: daemon.pid, the stop requests, the port, launchd when it   *)
(* keeps the daemon alive, crashes, and process numbers that come back as  *)
(* other programs. A health probe may be missed (Misses bounds how often), *)
(* and a daemon may crash (Crashes bounds how often).                      *)
(***************************************************************************)
EXTENDS Naturals

CONSTANTS Pids, Misses, Crashes

None == "none"

VARIABLES
  managed, \* a launchd plist is installed (macOS)
  proc,    \* what each process number is
  port,    \* who listens on the daemon port: None, "foreign" or a process
  marker,  \* the process daemon.pid names
  request, \* the processes with a .daemon.stop-<pid> file
  loaded,  \* the launchd job: "no", "yes", "leaving" (booted out, still running)
  start,   \* the start command: its place, the process it spawned
  stop,    \* the stop command: its place, the process it stops, those it must stop
  missed, crashed

controlVars == <<managed, proc, port, marker, request, loaded, start, stop, missed, crashed>>

Serving == {"warming", "ready"}
Living == {"booting", "marked", "stopping"} \cup Serving

ControlTypeOK ==
  /\ managed \in BOOLEAN
  /\ proc \in [Pids -> {"new", "dead", "other"} \cup Living]
  /\ port \in Pids \cup {None, "foreign"} /\ marker \in Pids \cup {None}
  /\ request \subseteq Pids /\ loaded \in {"no", "yes", "leaving"}
  /\ start.at \in {"idle", "probe", "launch", "port", "verify", "warm", "watch", "done", "failed"}
  /\ stop.at \in {"idle", "bootwait", "identify", "grace", "gone", "done", "failed"}

ControlInit ==
  /\ managed \in BOOLEAN
  /\ proc = [p \in Pids |-> "new"] /\ port = None /\ marker = None
  /\ request = {} /\ loaded = "no" /\ missed = 0 /\ crashed = 0
  /\ start = [at |-> "idle", pid |-> None]
  /\ stop = [at |-> "idle", pid |-> None, must |-> {}]

-----------------------------------------------------------------------------
(* A probe of /health: the status of the daemon that serves the port, or   *)
(* None, which a busy daemon can also look like.                           *)

Answer == IF port \in Pids THEN proc[port] ELSE None
Probe(h) ==
  /\ h \in {Answer, None}
  /\ missed' = IF h = Answer THEN missed ELSE missed + 1
  /\ missed' <= Misses

Is(p, s) == [proc EXCEPT ![p] = s]
IsDaemon(p) == proc[p] \in Living \* _pid_alive and the command line says viewer_server

\* SIGTERM: the process begins its orderly end.
Terminated(p) == IF IsDaemon(p) THEN Is(p, "stopping") ELSE proc

-----------------------------------------------------------------------------
(* The processes. *)

Machine == UNCHANGED <<managed, start, stop, missed>>

\* viewer_server.main writes its number before it warms or binds.
Boots(p) ==
  /\ proc[p] = "booting" /\ proc' = Is(p, "marked") /\ marker' = p
  /\ UNCHANGED <<port, request, loaded, crashed>> /\ Machine

Binds(p) ==
  /\ proc[p] = "marked"
  /\ IF port = None THEN proc' = Is(p, "warming") /\ port' = p
                    ELSE proc' = Is(p, "stopping") /\ UNCHANGED port
  /\ UNCHANGED <<marker, request, loaded, crashed>> /\ Machine

Warms(p) ==
  /\ proc[p] = "warming" /\ proc' = Is(p, "ready")
  /\ UNCHANGED <<port, marker, request, loaded, crashed>> /\ Machine

Freed(p) == IF port = p THEN None ELSE port
JobAfter == IF loaded = "leaving" THEN "no" ELSE loaded

\* The orderly end: _cleanup removes the marker only if it names this process.
Exits(p) ==
  /\ \/ proc[p] = "stopping"
     \/ p \in request /\ proc[p] \in {"marked"} \cup Serving
  /\ proc' = Is(p, "dead") /\ port' = Freed(p)
  /\ marker' = IF marker = p THEN None ELSE marker
  /\ request' = request \ {p} /\ loaded' = JobAfter
  /\ UNCHANGED crashed /\ Machine

Dies(p) ==
  /\ IsDaemon(p) /\ crashed < Crashes /\ crashed' = crashed + 1
  /\ proc' = Is(p, "dead") /\ port' = Freed(p) /\ loaded' = JobAfter
  /\ UNCHANGED <<marker, request>> /\ Machine

Reused(p) ==
  /\ proc[p] = "dead" /\ proc' = Is(p, "other")
  /\ UNCHANGED <<port, marker, request, loaded, crashed>> /\ Machine

ForeignListener ==
  /\ \/ port = None /\ port' = "foreign"
     \/ port = "foreign" /\ port' = None
  /\ UNCHANGED <<proc, marker, request, loaded, crashed>> /\ Machine

\* launchd keeps one process of a loaded job alive.
Respawns(p) ==
  /\ loaded = "yes" /\ ~\E q \in Pids : IsDaemon(q)
  /\ proc[p] = "new" /\ proc' = Is(p, "booting")
  /\ UNCHANGED <<port, marker, request, loaded, crashed>> /\ Machine

-----------------------------------------------------------------------------
(* start_daemon *)

Starts(from, to) == start.at = from /\ start' = [start EXCEPT !.at = to]
Starting == UNCHANGED <<managed, stop, crashed>>

\* A daemon that answers is returned, or watched while it warms. Otherwise
\* clean_stale_markers drops what names a dead process.
StartLook(h) ==
  /\ start.at \in {"idle", "done", "failed"}
  /\ Probe(h)
  /\ start' = [at |-> CASE h = None -> "probe" [] h = "warming" -> "watch" [] OTHER -> "done",
               pid |-> None]
  /\ marker' = IF h = None /\ marker # None /\ proc[marker] = "dead" THEN None ELSE marker
  /\ request' = IF h = None THEN {p \in request : proc[p] # "dead"} ELSE request
  /\ UNCHANGED <<proc, port, loaded>> /\ Starting

\* _refuse_held_port: a listener that answers as SmartMemory (LIVE) is let through,
\* one that is foreign or does not answer is not.
Refused(h) == port # None /\ h \notin Serving
StartProbe(h) ==
  /\ start.at = "probe" /\ Probe(h)
  /\ start' = [start EXCEPT !.at = IF Refused(h) THEN "failed" ELSE "launch"]
  /\ UNCHANGED <<proc, port, marker, request, loaded>> /\ Starting

Launch(p) ==
  /\ ~managed /\ start.at = "launch" /\ proc[p] = "new"
  /\ proc' = Is(p, "booting")
  /\ start' = [at |-> "port", pid |-> p]
  /\ UNCHANGED <<port, marker, request, loaded, missed>> /\ Starting

\* launchctl bootstrap, unless the job is already loaded.
Bootstrap ==
  /\ managed
  /\ \/ Starts("launch", "watch") /\ loaded' = "yes"
     \/ Starts("launch", "failed") /\ loaded # "yes" /\ UNCHANGED loaded
  /\ UNCHANGED <<proc, port, marker, request, missed>> /\ Starting

Gone(p) == ~IsDaemon(p)

\* Phases 1 and 2: the port opens, and what answers on it is SmartMemory.
StartPort ==
  /\ start.at = "port"
  /\ \/ port # None /\ Starts("port", "verify") /\ UNCHANGED proc
     \/ Gone(start.pid) /\ Starts("port", "failed") /\ UNCHANGED proc
     \/ Starts("port", "failed") /\ proc' = Terminated(start.pid)
  /\ UNCHANGED <<port, marker, request, loaded, missed>> /\ Starting
StartVerify(h) ==
  /\ start.at = "verify" /\ Probe(h)
  /\ proc' = IF h = None THEN Terminated(start.pid) ELSE proc
  /\ start' = [start EXCEPT !.at =
                 CASE h = None -> "failed" [] h = "warming" -> "warm" [] OTHER -> "done"]
  /\ UNCHANGED <<port, marker, request, loaded>> /\ Starting

\* Wait for readiness; a timeout ends the process this command spawned.
StartWarm(h) ==
  /\ start.at = "warm" /\ Probe(h)
  /\ \/ Gone(start.pid) /\ Starts("warm", "failed") /\ UNCHANGED proc
     \/ h = "ready" /\ Starts("warm", "done") /\ UNCHANGED proc
     \/ Starts("warm", "failed") /\ proc' = Terminated(start.pid)
  /\ UNCHANGED <<port, marker, request, loaded>> /\ Starting
StartWatch(h) ==
  /\ start.at = "watch" /\ Probe(h)
  /\ \/ h = "ready" /\ Starts("watch", "done")
     \/ Starts("watch", "failed")
  /\ UNCHANGED <<proc, port, marker, request, loaded>> /\ Starting

-----------------------------------------------------------------------------
(* stop_daemon *)

Stops(from, to) == stop.at = from /\ stop' = [stop EXCEPT !.at = to]
Stopping == UNCHANGED <<managed, start, crashed>>

\* A loaded job is booted out first, so that launchd cannot respawn it.
StopBegin ==
  /\ stop.at \in {"idle", "done", "failed"}
  /\ LET at == CASE loaded # "yes" -> {"identify"} [] OTHER -> {"bootwait", "failed"}
     IN \E a \in at :
       /\ stop' = [at |-> a, pid |-> None, must |-> {p \in Pids : proc[p] \in Serving}]
       /\ IF a = "bootwait"
            THEN /\ loaded' = IF \E p \in Pids : IsDaemon(p) THEN "leaving" ELSE "no"
                 /\ proc' = [p \in Pids |-> IF IsDaemon(p) THEN "stopping" ELSE proc[p]]
            ELSE UNCHANGED <<loaded, proc>>
  /\ UNCHANGED <<port, marker, request, missed>> /\ Stopping

StopBooted(h) ==
  /\ stop.at = "bootwait" /\ Probe(h)
  /\ \/ loaded = "no" /\ h = None /\ marker' = None /\ Stops("bootwait", "done")
     \/ UNCHANGED marker /\ Stops("bootwait", "failed")
  /\ UNCHANGED <<proc, port, request, loaded>> /\ Stopping

\* The process /health names, else the one the marker names if it is a daemon.
\* A marker that names anything else is discarded without a signal.
Target(h) == CASE h # None -> port
               [] h = None /\ marker # None /\ IsDaemon(marker) -> marker
               [] OTHER -> None
StopIdentify(h) ==
  /\ stop.at = "identify" /\ Probe(h)
  /\ stop' = [stop EXCEPT !.pid = Target(h), !.at = IF Target(h) = None THEN "done" ELSE "grace"]
  /\ request' = request \cup ({Target(h)} \ {None})
  /\ marker' = IF Target(h) = None THEN None ELSE marker
  /\ UNCHANGED <<proc, port, loaded>> /\ Stopping

Withdrawn == request' = request \ {stop.pid}

\* Up to five seconds for an orderly end, then termination, if it is still a daemon.
StopGrace ==
  /\ stop.at = "grace"
  /\ \/ Gone(stop.pid) /\ Stops("grace", "gone") /\ UNCHANGED <<proc, port, request>>
     \/ /\ IsDaemon(stop.pid) /\ Stops("grace", "gone")
        /\ proc' = Is(stop.pid, "dead") /\ port' = Freed(stop.pid) /\ UNCHANGED request
     \/ Stops("grace", "failed") /\ Withdrawn /\ UNCHANGED <<proc, port>>
  /\ UNCHANGED <<marker, loaded, missed>> /\ Stopping

StopGone(h) ==
  /\ stop.at = "gone" /\ Probe(h)
  /\ \/ h = None /\ Stops("gone", "done") /\ marker' = None
     \/ h # None /\ Stops("gone", "failed") /\ UNCHANGED marker
  /\ Withdrawn /\ UNCHANGED <<proc, port, loaded>> /\ Stopping

-----------------------------------------------------------------------------
Processes ==
  \/ \E p \in Pids : \/ Boots(p) \/ Binds(p) \/ Warms(p) \/ Exits(p) \/ Dies(p)
                     \/ Reused(p) \/ Respawns(p)
  \/ ForeignListener
StartCommand ==
  \/ \E h \in {None, "foreign"} \cup Living :
       StartLook(h) \/ StartProbe(h) \/ StartVerify(h) \/ StartWarm(h) \/ StartWatch(h)
  \/ \E p \in Pids : Launch(p)
  \/ Bootstrap \/ StartPort
StopCommand ==
  \/ \E h \in {None} \cup Living : StopBooted(h) \/ StopIdentify(h) \/ StopGone(h)
  \/ StopBegin \/ StopGrace

ControlNext == Processes \/ StartCommand \/ StopCommand
ControlSpec == ControlInit /\ [][ControlNext]_controlVars

-----------------------------------------------------------------------------
\* A stop that reports success has stopped every daemon that served when it began,
\* whether it found it by its answer, by its marker or through launchd.
StopMeansStopped ==
  [][stop'.at = "done" => \A p \in stop'.must : proc'[p] \notin Serving]_controlVars
=============================================================================
