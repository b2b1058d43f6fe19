------------------------------ MODULE PhaseCalls ------------------------------
(***************************************************************************)
(* The lifecycle calls of one daemon: read calls (orient, recall) that a   *)
(* hook makes under its own deadline, and write calls (observe, distill,   *)
(* learn, persist). Each kind has a bounded pool of threads. A read        *)
(* carries the time at which its client stops waiting; the route answers   *)
(* at its cap though the thread it started cannot be stopped.              *)
(* Time is an integer; its unit is the reply margin.                       *)
(***************************************************************************)
EXTENDS Naturals, FiniteSets

CONSTANTS
  Reads, Writes,          \* the calls
  ReadSlots, WriteSlots,  \* _READ_THREADS, _PHASE_THREADS
  Cap,                    \* _RECALL_CAP_S
  Timeout,                \* the read timeout of _lifecycle_via_daemon
  HookDeadline,           \* _hook_deadline of the blocking hooks
  LastCall,               \* bound: the last time at which hooks start and calls are made
  Horizon                 \* bound: where time stops, past every deadline of those

Margin == 1 \* _REPLY_MARGIN_S

VARIABLES
  now,     \* the clock
  client,  \* the caller's place: its hook started, it waits for the daemon, runs the
           \* phase itself, or left
  begun,   \* when the read's hook started
  until,   \* client_deadline of a read
  call,    \* the call in the daemon: none, sent, queued, running, left (finished or never run)
  startBy, \* start_by of a read
  answer,  \* what the route answered: none, context, empty, ok
  waiters  \* calls that a pool holds in its queue

phaseVars == <<now, client, begun, until, call, startBy, answer, waiters>>

Calls == Reads \cup Writes
Times == 0..(Horizon + Timeout + Cap)

PhaseTypeOK ==
  /\ now \in 0..Horizon
  /\ client \in [Calls -> {"off", "hook", "waiting", "engine", "left"}]
  /\ begun \in [Reads -> Times] /\ until \in [Reads -> Times] /\ startBy \in [Reads -> Times]
  /\ call \in [Calls -> {"none", "sent", "queued", "running", "left"}]
  /\ answer \in [Calls -> {"none", "context", "empty", "ok"}]
  /\ waiters \subseteq Calls

PhaseInit ==
  /\ now = 0
  /\ client = [c \in Calls |-> "off"] /\ call = [c \in Calls |-> "none"]
  /\ begun = [c \in Reads |-> 0] /\ until = [c \in Reads |-> 0] /\ startBy = [c \in Reads |-> 0]
  /\ answer = [c \in Calls |-> "none"] /\ waiters = {}

-----------------------------------------------------------------------------
(* The client: _run_hook_with_deadline around _lifecycle_via_daemon. *)

Tick == now < Horizon /\ now' = now + 1 /\ UNCHANGED <<client, begun, until, call, startBy, answer, waiters>>

\* A blocking hook starts and prepares its payload.
BeginHook(r) ==
  /\ client[r] = "off" /\ now <= LastCall
  /\ client' = [client EXCEPT ![r] = "hook"] /\ begun' = [begun EXCEPT ![r] = now]
  /\ UNCHANGED <<now, until, call, startBy, answer, waiters>>

\* A read names the time at which this call stops waiting; a write names none.
SendRead(r) ==
  /\ client[r] = "hook" /\ now <= LastCall
  /\ client' = [client EXCEPT ![r] = "waiting"] /\ call' = [call EXCEPT ![r] = "sent"]
  /\ until' = [until EXCEPT ![r] = now + Timeout]
  /\ UNCHANGED <<now, begun, startBy, answer, waiters>>
SendWrite(w) ==
  /\ client[w] = "off"
  /\ client' = [client EXCEPT ![w] = "waiting"] /\ call' = [call EXCEPT ![w] = "sent"]
  /\ UNCHANGED <<now, begun, until, startBy, answer, waiters>>

TakeAnswer(c) ==
  /\ client[c] = "waiting" /\ answer[c] # "none"
  /\ client' = [client EXCEPT ![c] = "left"]
  /\ UNCHANGED <<now, begun, until, call, startBy, answer, waiters>>

\* No daemon, no connection, or no answer in time: the phase runs in this process. The
\* daemon does not hear of it.
GiveUp(c) ==
  /\ \/ client[c] = "hook"
     \/ client[c] = "waiting" /\ (c \in Reads => now >= until[c])
  /\ client' = [client EXCEPT ![c] = "engine"]
  /\ UNCHANGED <<now, begun, until, call, startBy, answer, waiters>>

\* The hook overran: it injects nothing and exits hard, in any phase.
HookKilled(r) ==
  /\ client[r] \in {"hook", "waiting", "engine"} /\ now >= begun[r] + HookDeadline
  /\ client' = [client EXCEPT ![r] = "left"]
  /\ UNCHANGED <<now, begun, until, call, startBy, answer, waiters>>
EngineEnds(c) ==
  /\ client[c] = "engine"
  /\ client' = [client EXCEPT ![c] = "left"]
  /\ UNCHANGED <<now, begun, until, call, startBy, answer, waiters>>

-----------------------------------------------------------------------------
(* The pools. *)

Running(calls) == {c \in calls : call[c] = "running"}
MHasSlot(c) == Cardinality(Running(Calls)) < ReadSlots
HasSlot(c) ==
  IF c \in Reads THEN Cardinality(Running(Reads)) < ReadSlots
  ELSE Cardinality(Running(Writes)) < WriteSlots

\* The route of a write hands its work to the pool and waits for it without a cap.
QueueWrite(w) ==
  /\ call[w] = "sent"
  /\ call' = [call EXCEPT ![w] = "queued"] /\ waiters' = waiters \cup {w}
  /\ UNCHANGED <<now, client, begun, until, startBy, answer>>
RunWrite(w) ==
  /\ w \in waiters /\ HasSlot(w)
  /\ call' = [call EXCEPT ![w] = "running"] /\ waiters' = waiters \ {w}
  /\ UNCHANGED <<now, client, begun, until, startBy, answer>>
WriteEnds(w) ==
  /\ call[w] = "running"
  /\ call' = [call EXCEPT ![w] = "left"] /\ answer' = [answer EXCEPT ![w] = "ok"]
  /\ UNCHANGED <<now, client, begun, until, startBy, waiters>>

\* _drop, before the work is queued: the deadline passed or leaves no time for the
\* answer, or the client has disconnected.
LeastOf(a, b) == IF a < b THEN a ELSE b
TimeLeft(r) == until[r] > now + Margin
Disconnected(r) == client[r] # "waiting"
DropRead(r) ==
  /\ call[r] = "sent" /\ (~TimeLeft(r) \/ Disconnected(r))
  /\ call' = [call EXCEPT ![r] = "left"] /\ answer' = [answer EXCEPT ![r] = "empty"]
  /\ UNCHANGED <<now, client, begun, until, startBy, waiters>>

\* start_by: the cap, or less when the client leaves earlier.
StartBy(r) == LeastOf(now + Cap, until[r] - Margin)
QueueRead(r) ==
  /\ call[r] = "sent" /\ TimeLeft(r) /\ ~Disconnected(r)
  /\ call' = [call EXCEPT ![r] = "queued"] /\ waiters' = waiters \cup {r}
  /\ startBy' = [startBy EXCEPT ![r] = StartBy(r)]
  /\ UNCHANGED <<now, client, begun, until, answer>>

\* A slot takes the work: it runs, or raises _Expired without running.
Late(r) == now >= startBy[r]
RunRead(r) ==
  /\ r \in waiters /\ HasSlot(r) /\ ~Late(r)
  /\ call' = [call EXCEPT ![r] = "running"] /\ waiters' = waiters \ {r}
  /\ UNCHANGED <<now, client, begun, until, startBy, answer>>
SkipRead(r) ==
  /\ r \in waiters /\ HasSlot(r) /\ Late(r)
  /\ call' = [call EXCEPT ![r] = "left"] /\ waiters' = waiters \ {r}
  /\ answer' = [answer EXCEPT ![r] = IF @ = "none" THEN "empty" ELSE @]
  /\ UNCHANGED <<now, client, begun, until, startBy>>

\* wait_for at the budget: queued work is cancelled, running work goes on unheard.
CapRead(r) ==
  /\ call[r] \in {"queued", "running"} /\ answer[r] = "none" /\ now >= startBy[r]
  /\ answer' = [answer EXCEPT ![r] = "empty"]
  /\ IF call[r] = "queued"
     THEN call' = [call EXCEPT ![r] = "left"] /\ waiters' = waiters \ {r}
     ELSE UNCHANGED <<call, waiters>>
  /\ UNCHANGED <<now, client, begun, until, startBy>>

\* The search returns, if ever.
ReadEnds(r) ==
  /\ call[r] = "running"
  /\ call' = [call EXCEPT ![r] = "left"]
  /\ answer' = [answer EXCEPT ![r] = IF @ = "none" THEN "context" ELSE @]
  /\ UNCHANGED <<now, client, begun, until, startBy, waiters>>

-----------------------------------------------------------------------------
ClientSteps(r) == BeginHook(r) \/ SendRead(r) \/ HookKilled(r)
CommonSteps(c) == TakeAnswer(c) \/ GiveUp(c) \/ EngineEnds(c)
ReadRoute(r) == DropRead(r) \/ QueueRead(r) \/ RunRead(r) \/ SkipRead(r) \/ CapRead(r)
WriteRoute(w) == QueueWrite(w) \/ RunWrite(w) \/ WriteEnds(w)
PhaseNext ==
  \/ Tick
  \/ \E c \in Calls : CommonSteps(c)
  \/ \E r \in Reads : ClientSteps(r) \/ ReadRoute(r) \/ ReadEnds(r)
  \/ \E w \in Writes : SendWrite(w) \/ WriteRoute(w)

\* The clock goes on, the event loop and the pools make progress, the main thread of a
\* hook enforces its deadline, and a write's work returns. Nothing makes a read's search
\* return.
PhaseFairness ==
  /\ WF_phaseVars(Tick)
  /\ \A c \in Calls : WF_phaseVars(TakeAnswer(c))
  /\ \A r \in Reads : WF_phaseVars(ReadRoute(r)) /\ WF_phaseVars(HookKilled(r))
  /\ \A w \in Writes : WF_phaseVars(WriteRoute(w))
PhaseSpec == PhaseInit /\ [][PhaseNext]_phaseVars /\ PhaseFairness

-----------------------------------------------------------------------------
\* "the daemon drops them instead of running them for nobody once they have queued past
\* it" (_lifecycle_via_daemon): a read starts to run only while its client waits for it,
\* or after the hook overran its own deadline, which the daemon does not know.
NoReadForNobody ==
  [][\A r \in Reads : RunRead(r) => client[r] = "waiting" \/ now >= begun[r] + HookDeadline]_phaseVars

\* "observe/distill/learn/persist never wait for them because they run on the write
\* pool": every write the daemon received is run though no read ever returns.
WritesRun == \A w \in Writes : call[w] = "sent" ~> call[w] = "left"

\* A read is answered, in full or empty, however long its search takes, and its hook
\* does not outlive its deadline.
ReadsAnswered ==
  \A r \in Reads :
    /\ call[r] = "sent" ~> answer[r] # "none"
    /\ client[r] = "hook" ~> client[r] = "left"
=============================================================================
