-------------------------------- MODULE MCDaemon --------------------------------
(* Small instances of the components of a running daemon, which share no   *)
(* variable: which names the one whose steps a behaviour takes, the others *)
(* stay as they began.  The remote drainer, the session state and the      *)
(* retirement of the legacy workers are extended, the others are instances.*)
EXTENDS HookDrainer, TurnState, LegacyRetirement

CONSTANTS j1, r1, r2, w1, p1, p2, q1, q2

VARIABLES
  which,
  memory, at, users, closing, everOpen, asked, requested, warmStage, startup, consumer, marker, main,
  managed, proc, port, daemonPid, request, loaded, start, stop, missed, crashed,
  seqFile, torn, seq, ceiling, seqLoaded, seqWarned, ring, viewer, replay, replayed, subscriber,
  received, due, restarted,
  now, client, begun, until, call, startBy, answer, waiters,
  healthStartup, healthClosing, stored, reader, probed, ask, reply

gateState == <<memory, at, users, closing, everOpen, asked, requested, warmStage, startup,
               consumer, marker, main>>
controlState == <<managed, proc, port, daemonPid, request, loaded, start, stop, missed, crashed>>
eventState == <<seqFile, torn, seq, ceiling, seqLoaded, seqWarned, ring, viewer, replay, replayed,
                subscriber, received, due, restarted>>
callState == <<now, client, begun, until, call, startBy, answer, waiters>>
healthState == <<healthStartup, healthClosing, stored, reader, probed, ask, reply>>
allState == <<which, vars, gateState, controlState, eventState, turnVars, callState,
              healthState, legacyVars>>

Gate == INSTANCE StoreGate WITH Routes <- {r1, r2}, Jobs <- {j1}
Control == INSTANCE DaemonControl WITH Pids <- {p1, p2}, Misses <- 0, Crashes <- 1,
             marker <- daemonPid
Stream == INSTANCE EventStream WITH Block <- 2, History <- 2, QueueMax <- 2, MaxSeq <- 5,
            Restarts <- 1, file <- seqFile, queue <- subscriber, last <- received
Calls == INSTANCE PhaseCalls WITH Reads <- {r1, r2}, Writes <- {w1}, ReadSlots <- 1,
           WriteSlots <- 1, Cap <- 2, Timeout <- 3, HookDeadline <- 3, LastCall <- 0, Horizon <- 3
Health == INSTANCE HealthProbe WITH Requests <- {q1, q2}, MaxCount <- 1, MaxReads <- 2,
            startup <- healthStartup, closing <- healthClosing, last <- probed

DaemonInit ==
  /\ which \in {"drainer", "gate", "control", "stream", "turns", "calls", "health", "legacy"}
  /\ Init /\ Gate!StoreInit /\ Control!ControlInit /\ Stream!EventInit /\ TurnInit
  /\ Calls!PhaseInit /\ Health!HealthInit /\ RetirementInit
  /\ which # "control" => ~managed
  /\ which # "legacy" => \A l \in LegacyWorkers : legacy[l].alive /\ legacy[l].shown
                                             /\ legacy[l].file # "garbled"

DaemonNext ==
  /\ UNCHANGED which
  /\ (which = "drainer" /\ Next) \/ (which # "drainer" /\ UNCHANGED vars)
  /\ (which = "gate" /\ Gate!StoreNext) \/ (which # "gate" /\ UNCHANGED gateState)
  /\ (which = "control" /\ Control!ControlNext) \/ (which # "control" /\ UNCHANGED controlState)
  /\ (which = "stream" /\ Stream!EventNext) \/ (which # "stream" /\ UNCHANGED eventState)
  /\ (which = "turns" /\ TurnNext) \/ (which # "turns" /\ UNCHANGED turnVars)
  /\ (which = "calls" /\ Calls!PhaseNext) \/ (which # "calls" /\ UNCHANGED callState)
  /\ (which = "health" /\ Health!HealthNext) \/ (which # "health" /\ UNCHANGED healthState)
  /\ (which = "legacy" /\ RetirementNext) \/ (which # "legacy" /\ UNCHANGED legacyVars)

\* The fairness of HookDrainer, StoreGate and PhaseCalls, for the one that takes its steps.
GateFairness ==
  /\ WF_gateState(which = "gate" /\ Gate!Shutdown)
  /\ WF_gateState(which = "gate" /\ Gate!WarmSynced /\ UNCHANGED <<marker, main>>)
  /\ WF_gateState(which = "gate" /\ Gate!WarmStarts /\ UNCHANGED <<marker, main>>)
CallFairness ==
  /\ WF_callState(which = "calls" /\ Calls!Tick)
  /\ \A c \in {r1, r2, w1} : WF_callState(which = "calls" /\ Calls!TakeAnswer(c))
  /\ \A r \in {r1, r2} : /\ WF_callState(which = "calls" /\ Calls!ReadRoute(r))
                         /\ WF_callState(which = "calls" /\ Calls!HookKilled(r))
  /\ WF_callState(which = "calls" /\ Calls!WriteRoute(w1))

DaemonSpec == DaemonInit /\ [][DaemonNext]_allState /\ Fairness /\ GateFairness /\ CallFairness

-----------------------------------------------------------------------------
\* Every variable of every component has its type.
DaemonTypesOK ==
  /\ TypeOK /\ Gate!GateTypeOK /\ Control!ControlTypeOK /\ Stream!EventTypeOK
  /\ TurnTypeOK /\ Calls!PhaseTypeOK /\ Health!HealthTypeOK /\ RetirementTypeOK

\* The drainers' jobs and the drainers themselves come to an end: without a death every
\* published record is run, and no drainer stays for ever.
DrainsEnd == EveryRecordRuns /\ DrainersLeave

\* Stopping the daemon: the store is never closed under a unit of work, a requested stop
\* leaves none open behind it and no consumer running, a signalled daemon ends, and a stop
\* command that reports success has stopped every daemon that served when it began.
DaemonStops ==
  /\ Gate!ShutdownClosesIdleStore /\ []Gate!ExitIsClean
  /\ Gate!SignalledDaemonEnds
  /\ Control!StopMeansStopped

\* Lifecycle calls: a read starts only for a client that still waits, reads are answered
\* however long their search takes, and writes run though no read ever returns.
CallsAnswered == Calls!NoReadForNobody /\ Calls!WritesRun /\ Calls!ReadsAnswered

\* What a viewer is shown: frame numbers only grow, across replays, reconnections and
\* restarts of the daemon, and a memory count that is not marked stale was read by a
\* thread alive during the request.
ViewerAnswers == Stream!OrderKept /\ []Health!FreshIsRecent
=============================================================================
