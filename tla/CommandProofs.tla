---------------------------- MODULE CommandProofs ----------------------------
(***************************************************************************)
(* Proofs about what a memory command meets, each for every value of its   *)
(* constants.                                                              *)
(*                                                                         *)
(* StoreGate, for any routes, phase threads and scheduling: the store is   *)
(* idle whenever the shutdown closes it, and what the shutdown leaves      *)
(* behind is what the code says.                                           *)
(*                                                                         *)
(* ScopedCommands, for any lines, workspaces, accounts, shells and bounds: *)
(* a line is stored at most once and told truly, what the header names is  *)
(* what is used, in both modes, and the stored key opens the chosen        *)
(* workspace.                                                              *)
(***************************************************************************)
EXTENDS StoreGate, ScopedCommands, TLAPS

-----------------------------------------------------------------------------
(* The store gate.                                                         *)
SafeSpec == StoreInit /\ [][StoreNext]_storeVars

\* _store_users counts exactly those that have entered and not left.
UsersInv == users = {t \in Workers : at[t] # "out"}

\* From CloseGate on nobody enters, so an idle store stays idle; and only what
\* was opened once is open.
ClosingInv ==
  /\ main \in MainPlaces \ {"serving", "cleanup", "join", "gone"} => closing
  /\ main \in {"idle", "flushing"} => users = {}
  /\ memory = "open" => everOpen

\* Once the consumer was taken the warmup no longer starts one.
ConsumerInv ==
  main \notin {"serving", "cleanup"} =>
    requested /\ warmStage # "starting" /\ consumer # "running"

ExitInv == main = "gone" /\ asked = "request" => memory = "none" \/ users # {}

GateInv == GateTypeOK /\ UsersInv /\ ClosingInv /\ ConsumerInv /\ ExitInv

LEMMA GateStart == StoreInit => GateInv
BY DEF StoreInit, GateInv, GateTypeOK, UsersInv, ClosingInv, ConsumerInv, ExitInv, Places,
       Stages, MainPlaces

\* What a worker does in the gate: it enters while the gate is open, moves on or
\* leaves, and is counted all the while.
LEMMA WorkerStep ==
  ASSUME GateInv, NEW t \in Workers, Enter(t) \/ Advance(t) \/ Fails(t) \/ WorkEnds(t)
  PROVE  /\ memory' \in {"none", "open"} /\ at' \in [Workers -> Places]
         /\ users' \subseteq Workers /\ closing' = closing /\ everOpen' \in BOOLEAN
         /\ UsersInv'
         /\ closing => users' \subseteq users /\ memory' = memory
         /\ memory' = "open" => everOpen'
<1> USE DEF GateInv, GateTypeOK, UsersInv, ClosingInv, Places
<1>1. CASE Enter(t)
  BY <1>1 DEF Enter, Move
<1>2. CASE Advance(t)
  BY <1>2 DEF Advance, UseOpen, BeginOpen, Built, Publish, Publishes, Move
<1>3. CASE Fails(t) \/ WorkEnds(t)
  BY <1>3 DEF Fails, RefusedOpen, BuildFails, CloseOwn, WorkEnds, Leave
<1> QED
  BY <1>1, <1>2, <1>3

\* Every step keeps the invariant.
LEMMA GateStep == GateInv /\ [StoreNext]_storeVars => GateInv'
<1> SUFFICES ASSUME GateInv, [StoreNext]_storeVars PROVE GateInv'
  OBVIOUS
<1> USE DEF GateInv, GateTypeOK, UsersInv, ClosingInv, ConsumerInv, ExitInv, Places, Stages,
            MainPlaces, gateVars, lifeVars, Idle
<1>0. Routes \cup Jobs \subseteq Workers /\ Warm \in Workers /\ Consumer \in Workers
  BY DEF Workers
<1>1. ASSUME NEW t \in Routes \cup Jobs, Work(t) PROVE GateInv'
  <2>1. t \in Workers
    BY <1>0
  <2> QED
    BY <1>1, <2>1, WorkerStep DEF Work
<1>2. ASSUME NEW t \in Routes, Clear(t) PROVE GateInv'
  BY <1>0, <1>2 DEF Clear
<1>3. CASE ConsumerStep
  BY <1>0, <1>3, WorkerStep DEF ConsumerStep
<1>4. CASE WarmStep
  <2>1. ASSUME Enter(Warm) \/ Advance(Warm), UNCHANGED <<lifeVars, marker, main>>
        PROVE  GateInv'
    BY <1>0, <1>4, <2>1, WorkerStep DEF WarmStep
  <2>2. CASE WarmLoaded \/ WarmScanned
    <3>1. WorkEnds(Warm)
      BY <2>2 DEF WarmLoaded, WarmScanned
    <3> QED
      BY <1>0, <1>4, <2>2, <3>1, WorkerStep DEF WarmStep, WarmLoaded, WarmScanned, WarmGoes
  <2>3. CASE WarmRefused
    <3>1. CASE UNCHANGED gateVars
      BY <1>4, <2>3, <3>1 DEF WarmStep, WarmRefused
    <3>2. CASE Fails(Warm)
      BY <1>0, <1>4, <2>3, <3>2, WorkerStep DEF WarmStep, WarmRefused
    <3> QED
      BY <2>3, <3>1, <3>2 DEF WarmRefused, Fails
  <2>4. CASE WarmBroken
    <3>1. CASE UNCHANGED gateVars
      BY <1>4, <2>4, <3>1 DEF WarmStep, WarmBroken
    <3>2. CASE Fails(Warm)
      BY <1>0, <1>4, <2>4, <3>2, WorkerStep DEF WarmStep, WarmBroken
    <3> QED
      BY <2>4, <3>1, <3>2 DEF WarmBroken, Fails
  <2>5. CASE WarmChecks \/ WarmSyncs \/ WarmSynced
    BY <1>4, <2>5 DEF WarmStep, WarmChecks, WarmSyncs, WarmSynced, WarmGoes, AfterSync
  <2>6. CASE WarmPublishes \/ WarmStarts
    BY <1>4, <2>6 DEF WarmStep, WarmPublishes, WarmStarts, WarmGoes, ShutdownBegun
  <2> QED
    BY <1>4, <2>1, <2>2, <2>3, <2>4, <2>5, <2>6 DEF WarmStep, WarmLoads
<1>5. ASSUME NEW how \in {"request", "signal"}, Ask(how) PROVE GateInv'
  BY <1>5 DEF Ask
<1>6. CASE Relay
  BY <1>6 DEF Relay
<1>7. CASE Drained
  BY <1>7 DEF Drained, MainGoes
<1>8. CASE StopConsumer
  BY <1>8 DEF StopConsumer, RequestLockFree, HookLockFree, MainGoes
<1>9. CASE CloseGate
  BY <1>9 DEF CloseGate, MainGoes
<1>10. CASE GateIdle
  BY <1>10 DEF GateIdle, MainGoes
<1>11. CASE GateTimesOut
  BY <1>11 DEF GateTimesOut, MainGoes
<1>12. CASE CloseStore
  BY <1>12 DEF CloseStore, MainGoes
<1>13. CASE Unmark
  BY <1>13 DEF Unmark, MainGoes
<1>14. CASE Killed
  BY <1>14 DEF Killed, MainGoes
<1>15. CASE AtExit
  BY <1>15 DEF AtExit
<1>16. CASE UNCHANGED storeVars
  BY <1>16 DEF storeVars
<1> QED
  BY <1>1, <1>2, <1>3, <1>4, <1>5, <1>6, <1>7, <1>8, <1>9, <1>10, <1>11, <1>12,
     <1>13, <1>14, <1>15, <1>16
  DEF StoreNext, Shutdown

LEMMA GateInvariance == SafeSpec => []GateInv
BY GateStart, GateStep, PTL DEF SafeSpec

\* The shutdown decides to close the store only while nothing works in it, and
\* nothing does when it is closed: SQLite crashes the process if its connection
\* closes inside a statement.
THEOREM ClosesIdleStore ==
  SafeSpec => /\ ShutdownClosesIdleStore
              /\ [][CloseStore => ~SomeoneInside]_storeVars
<1>1. GateInv /\ users = {} => ~SomeoneInside
  BY DEF GateInv, UsersInv, SomeoneInside
<1>2. GateInv /\ [StoreNext]_storeVars =>
        [main' # main /\ main \in {"idle", "flushing"} => ~SomeoneInside]_storeVars
  BY <1>1 DEF GateInv, ClosingInv
<1>3. GateInv => (CloseStore => ~SomeoneInside)
  BY <1>1 DEF GateInv, ClosingInv, CloseStore, MainGoes
<1> QED
  BY GateInvariance, <1>2, <1>3, PTL DEF SafeSpec, ShutdownClosesIdleStore

\* A requested stop leaves no store open unless a thread still works in it, and no
\* consumer running behind the one it took.
THEOREM ExitAlwaysClean == SafeSpec => []ExitIsClean
<1>1. GateInv => ExitIsClean
  BY DEF GateInv, ExitInv, ConsumerInv, ExitIsClean
<1> QED
  BY GateInvariance, <1>1, PTL

-----------------------------------------------------------------------------
(* Local mode.                                                             *)
CommandPlaces == {"idle", "header", "inject", "send", "wait", "direct", "over"}
Served == Workspaces \cup {None, Untagged, Folder}

CmdSet == [at : CommandPlaces, writes : BOOLEAN, explicit : Chosen, cwd : BOOLEAN, header : Served,
           line : Lines \cup {None}, ws : Chosen, tries : 0..1]

LocalType ==
  /\ shellEnv \in Chosen /\ pin \in Chosen
  /\ server \in [up : BOOLEAN, env : Chosen \cup DaemonEnvs]
  /\ cmd \in CmdSet
  /\ inside \subseteq [line : Lines, ws : Chosen]
  /\ times \in [Lines -> Nat] /\ DOMAIN served = Lines
  /\ answer \in [Lines -> {None, "done", "maybe", "failed"}]
  /\ steady \in BOOLEAN
  /\ cmd.at # "idle" => cmd.line \in Lines

\* Before the first request nothing was asked, and nothing was served.
NothingYet ==
  cmd.at \in {"idle", "header"} =>
    inside = {} /\ \A l \in Lines : times[l] = 0 /\ served[l] = {} /\ answer[l] = None

Unsent(l) == times[l] = 0 /\ \A r \in inside : r.line # l
Ahead(l) == answer[l] = None /\ (l = cmd.line => cmd.at # "wait")

\* A written line is with the daemon at most once, and if it is there it was not stored
\* before; what has yet to be sent was never sent.
OnceFor(l) ==
  /\ times[l] \in {0, 1}
  /\ times[l] = 1 => \A r \in inside : r.line # l
  /\ Ahead(l) => Unsent(l)
  /\ answer[l] = "failed" => Unsent(l)
  /\ answer[l] = "done" => times[l] = 1
OneEach == \A r, q \in inside : r.line = q.line => r = q
OnceInv ==
  cmd.writes =>
    /\ cmd.explicit = None /\ ~cmd.cwd
    /\ Running => answer[cmd.line] = None
    /\ OneEach
    /\ \A l \in Lines : OnceFor(l)

FolderOf == IF cmd.cwd THEN Folder ELSE None

\* While nobody switches, the workspace of the header is the one the command sends, the
\* one a request inside the daemon will get, and the one every line was served in.
ScopeInv ==
  steady =>
    /\ Running /\ cmd.at # "header" =>
         cmd.header = OrUntagged(FirstOf(cmd.explicit, FirstOf(LocalOverride, FolderOf)))
    /\ cmd.at \in {"send", "wait", "direct"} => cmd.ws = FirstOf(cmd.explicit, LocalOverride)
    /\ \A r \in inside : OrUntagged(FirstOf(r.ws, FolderOf)) = cmd.header
    /\ \A l \in Lines : served[l] \subseteq {cmd.header}

LocalInv == LocalType /\ NothingYet /\ OnceInv /\ ScopeInv

LEMMA LocalStart == CommandInit => LocalInv
<1> SUFFICES ASSUME CommandInit PROVE LocalInv
  OBVIOUS
<1> USE DEF CommandInit, NoCommand
<1>1. LocalType
  <2>1. cmd \in CmdSet
    BY DEF CmdSet, CommandPlaces, Chosen, Served
  <2>2. server \in [up : BOOLEAN, env : Chosen \cup DaemonEnvs]
    <3>1. Down \in [up : BOOLEAN, env : Chosen]
      BY DEF Down, Chosen
    <3> QED
      BY <3>1
  <2> QED
    BY <2>1, <2>2 DEF LocalType, CmdSet
<1>2. NothingYet
  BY DEF NothingYet
<1>3. OnceInv
  BY DEF OnceInv
<1>4. ScopeInv
  BY DEF ScopeInv, Running
<1> QED
  BY <1>1, <1>2, <1>3, <1>4 DEF LocalInv

\* What each step of the command makes of it.
Keeps == cmd'.writes = cmd.writes /\ cmd'.explicit = cmd.explicit /\ cmd'.cwd = cmd.cwd
KeepsHeader == Keeps /\ cmd'.header = cmd.header
KeepsLine == KeepsHeader /\ cmd'.line = cmd.line /\ cmd'.ws = cmd.ws

LEMMA BeginFields ==
  ASSUME LocalType, Begin
  PROVE  /\ cmd' \in CmdSet /\ cmd'.at = "header" /\ cmd'.line \in Lines
         /\ cmd'.writes => cmd'.explicit = None /\ ~cmd'.cwd
<1>1. PICK writes \in BOOLEAN, explicit \in Chosen, cwd \in BOOLEAN, first \in Lines :
        /\ writes => explicit = None /\ ~cwd
        /\ cmd' = [NoCommand EXCEPT !.at = "header", !.writes = writes, !.explicit = explicit,
                                   !.cwd = cwd, !.line = first]
  BY DEF Begin, Cmd
<1>2. cmd' = [at |-> "header", writes |-> writes, explicit |-> explicit, cwd |-> cwd,
              header |-> None, line |-> first, ws |-> None, tries |-> 0]
  BY <1>1 DEF NoCommand
<1> QED
  BY <1>1, <1>2 DEF CmdSet, CommandPlaces, Served, Chosen

LEMMA HeaderFields ==
  ASSUME LocalType, PrintLocalHeader
  PROVE  /\ cmd' \in CmdSet /\ cmd.at = "header" /\ cmd'.at = "inject"
         /\ cmd'.header = OrUntagged(FirstOf(cmd.explicit, FirstOf(LocalOverride, FolderOf)))
         /\ Keeps /\ cmd'.line = cmd.line /\ cmd'.ws = cmd.ws
<1> DEFINE h == OrUntagged(FirstOf(cmd.explicit, FirstOf(LocalOverride, FolderOf)))
<1>1. cmd' = [cmd EXCEPT !.at = "inject", !.header = h] /\ cmd.at = "header"
  BY DEF PrintLocalHeader, Cmd, FolderOf
<1>2. h \in Served
  BY DEF LocalType, CmdSet, OrUntagged, FirstOf, LocalOverride, FolderOf, Served, Chosen
<1> HIDE DEF h
<1>3. cmd' \in CmdSet /\ cmd'.header = h
  BY <1>1, <1>2 DEF LocalType, CmdSet, CommandPlaces
<1> QED
  BY <1>1, <1>3 DEF LocalType, CmdSet, Keeps, h

LEMMA PinFields ==
  ASSUME LocalType, ApplyLocalPin
  PROVE  /\ cmd' \in CmdSet /\ cmd.at = "inject" /\ cmd'.at = "send"
         /\ cmd'.ws = FirstOf(cmd.explicit, LocalOverride)
         /\ KeepsHeader /\ cmd'.line = cmd.line
<1> DEFINE w == FirstOf(cmd.explicit, LocalOverride)
<1>1. cmd' = [cmd EXCEPT !.at = "send", !.tries = 0, !.ws = w] /\ cmd.at = "inject"
  BY DEF ApplyLocalPin, Cmd
<1>2. w \in Chosen
  BY DEF LocalType, CmdSet, FirstOf, LocalOverride, Chosen
<1> HIDE DEF w
<1>3. cmd' = [at |-> "send", writes |-> cmd.writes, explicit |-> cmd.explicit, cwd |-> cmd.cwd,
              header |-> cmd.header, line |-> cmd.line, ws |-> w, tries |-> 0]
  BY <1>1 DEF LocalType, CmdSet
<1>4. cmd' \in CmdSet
  BY <1>2, <1>3 DEF LocalType, CmdSet, CommandPlaces
<1> QED
  BY <1>1, <1>3, <1>4 DEF LocalType, CmdSet, KeepsHeader, Keeps, w

LEMMA NextLineFields ==
  ASSUME LocalType, NextLine
  PROVE  /\ cmd' \in CmdSet /\ KeepsHeader
         /\ \/ cmd'.at = "inject" /\ cmd'.line \in Lines /\ answer'[cmd'.line] = None /\ cmd.writes
            \/ cmd'.at = "over" /\ cmd'.line = cmd.line
<1>1. ASSUME NEW l \in Lines, cmd.writes, answer'[l] = None,
             cmd' = [cmd EXCEPT !.at = "inject", !.line = l]
      PROVE  cmd' \in CmdSet /\ KeepsHeader /\ cmd'.at = "inject" /\ cmd'.line = l
  <2>1. cmd' \in CmdSet
    BY <1>1 DEF LocalType, CmdSet, CommandPlaces
  <2> QED
    BY <1>1, <2>1 DEF LocalType, CmdSet, KeepsHeader, Keeps
<1>2. ASSUME cmd' = [cmd EXCEPT !.at = "over"]
      PROVE  cmd' \in CmdSet /\ KeepsHeader /\ cmd'.at = "over" /\ cmd'.line = cmd.line
  <2>1. cmd' \in CmdSet
    BY <1>2 DEF LocalType, CmdSet, CommandPlaces
  <2> QED
    BY <1>2, <2>1 DEF LocalType, CmdSet, KeepsHeader, Keeps
<1> QED
  BY <1>1, <1>2 DEF NextLine, Cmd

\* The steps that change only where the command is, or its second try.
LEMMA MoveFields ==
  ASSUME LocalType, NEW place \in CommandPlaces, NEW n \in 0..1,
         \/ cmd' = [cmd EXCEPT !.at = place] \/ cmd' = [cmd EXCEPT !.at = place, !.tries = n]
         \/ cmd' = [cmd EXCEPT !.tries = n] /\ cmd.at = place
  PROVE  cmd' \in CmdSet /\ KeepsLine /\ cmd'.at = place
<1>1. cmd' \in CmdSet
  BY DEF LocalType, CmdSet
<1> QED
  BY <1>1 DEF LocalType, CmdSet, KeepsLine, KeepsHeader, Keeps


LEMMA ScopeOfChoice ==
  ASSUME NEW e \in Chosen, NEW o \in Chosen, NEW f \in {Folder, None}
  PROVE  FirstOf(FirstOf(e, o), f) = FirstOf(e, FirstOf(o, f))
BY DEF FirstOf

LEMMA BeginStep == ASSUME LocalInv, Begin PROVE LocalInv'
<1>1. /\ cmd' \in CmdSet /\ cmd'.at = "header" /\ cmd'.line \in Lines
      /\ cmd'.writes => cmd'.explicit = None /\ ~cmd'.cwd
  BY BeginFields DEF LocalInv
<1>2. cmd.at = "idle" /\ UNCHANGED <<shellEnv, pin, server, inside, served, times, answer, steady>>
  BY DEF Begin
<1>3. inside = {} /\ \A l \in Lines : times[l] = 0 /\ served[l] = {} /\ answer[l] = None
  BY <1>2 DEF LocalInv, NothingYet
<1>4. LocalType'
  BY <1>1, <1>2 DEF LocalInv, LocalType
<1>5. NothingYet' /\ ScopeInv'
  BY <1>1, <1>2, <1>3 DEF NothingYet, ScopeInv
<1>6. OnceInv'
  <2>1. inside' = {} /\ times' = times /\ answer' = answer
    BY <1>2, <1>3
  <2> QED
    BY <1>1, <1>3, <2>1 DEF OnceInv, OnceFor, OneEach, Unsent, None
<1> QED
  BY <1>4, <1>5, <1>6 DEF LocalInv

LEMMA HeaderStep == ASSUME LocalInv, PrintLocalHeader PROVE LocalInv'
<1>1. /\ cmd' \in CmdSet /\ cmd.at = "header" /\ cmd'.at = "inject"
      /\ cmd'.header = OrUntagged(FirstOf(cmd.explicit, FirstOf(LocalOverride, FolderOf)))
      /\ Keeps /\ cmd'.line = cmd.line
  BY HeaderFields DEF LocalInv
<1>2. UNCHANGED <<shellEnv, pin, server, inside, served, times, answer, steady>>
  BY DEF PrintLocalHeader
<1>3. inside = {} /\ \A l \in Lines : times[l] = 0 /\ served[l] = {} /\ answer[l] = None
  BY <1>1 DEF LocalInv, NothingYet
<1>4. LocalType'
  BY <1>1, <1>2 DEF LocalInv, LocalType
<1>5. NothingYet'
  BY <1>1 DEF NothingYet
<1>6. OnceInv'
  BY <1>1, <1>2, <1>3, <1>4 DEF LocalInv, OnceInv, OnceFor, OneEach, Unsent, Keeps, LocalType,
     Running
<1>7. ScopeInv'
  BY <1>1, <1>2, <1>3 DEF ScopeInv, Keeps, LocalOverride, FolderOf
<1> QED
  BY <1>4, <1>5, <1>6, <1>7 DEF LocalInv

LEMMA PinStep == ASSUME LocalInv, ApplyLocalPin PROVE LocalInv'
<1>1. /\ cmd' \in CmdSet /\ cmd.at = "inject" /\ cmd'.at = "send"
      /\ cmd'.ws = FirstOf(cmd.explicit, LocalOverride)
      /\ KeepsHeader /\ cmd'.line = cmd.line
  BY PinFields DEF LocalInv
<1>2. UNCHANGED <<shellEnv, pin, server, inside, served, times, answer, steady>>
  BY DEF ApplyLocalPin
<1>4. LocalType'
  BY <1>1, <1>2 DEF LocalInv, LocalType
<1>5. NothingYet'
  BY <1>1 DEF NothingYet
<1>6. OnceInv'
  BY <1>1, <1>2 DEF LocalInv, OnceInv, OnceFor, OneEach, Unsent, Ahead, KeepsHeader, Keeps, Running
<1>7. ScopeInv'
  BY <1>1, <1>2 DEF LocalInv, ScopeInv, KeepsHeader, Keeps, Running, LocalOverride, FolderOf
<1> QED
  BY <1>4, <1>5, <1>6, <1>7 DEF LocalInv

LEMMA SendStep == ASSUME LocalInv, SendRequest PROVE LocalInv'
<1> DEFINE r == [line |-> cmd.line, ws |-> cmd.ws]
<1>1. cmd.at = "send" /\ UNCHANGED <<shellEnv, pin, server, served, times, answer, steady>>
  BY DEF SendRequest
<1>2. /\ cmd' \in CmdSet /\ KeepsLine /\ cmd'.at \in {"wait", "send", "direct"}
      /\ inside' = IF cmd'.at = "wait" THEN inside \cup {r} ELSE inside
  <2>1. CASE server.up
    <3>1. cmd' = [cmd EXCEPT !.at = "wait"] /\ inside' = inside \cup {r}
      BY <2>1 DEF SendRequest, Cmd
    <3>2. cmd' \in CmdSet /\ KeepsLine /\ cmd'.at = "wait"
      BY <3>1, MoveFields DEF LocalInv, CommandPlaces
    <3> QED
      BY <3>1, <3>2
  <2>2. CASE ~server.up
    <3>1. /\ inside' = inside
          /\ cmd' = [cmd EXCEPT !.tries = 1] \/ cmd' = [cmd EXCEPT !.at = "direct"]
      BY <2>2 DEF SendRequest, Cmd
    <3>2. CASE cmd' = [cmd EXCEPT !.tries = 1]
      BY <1>1, <3>1, <3>2, MoveFields DEF LocalInv, CommandPlaces
    <3>3. CASE cmd' = [cmd EXCEPT !.at = "direct"]
      BY <3>1, <3>3, MoveFields DEF LocalInv, CommandPlaces
    <3> QED
      BY <3>1, <3>2, <3>3
  <2> QED
    BY <2>1, <2>2
<1>3. r \in [line : Lines, ws : Chosen] /\ r.line = cmd.line /\ r.ws = cmd.ws
  BY <1>1 DEF LocalInv, LocalType, CmdSet
<1> HIDE DEF r
<1>4. LocalType'
  BY <1>1, <1>2, <1>3 DEF LocalInv, LocalType, KeepsLine
<1>5. NothingYet'
  BY <1>2 DEF NothingYet
<1>6. OnceInv'
  <2> SUFFICES ASSUME cmd.writes PROVE OnceInv'
    BY <1>2 DEF OnceInv, KeepsLine, KeepsHeader, Keeps
  <2>1. /\ OneEach /\ \A l \in Lines : OnceFor(l)
        /\ answer[cmd.line] = None /\ cmd.line \in Lines /\ Unsent(cmd.line)
    BY <1>1 DEF LocalInv, LocalType, OnceInv, OnceFor, Running, Ahead
  <2>2. cmd'.writes = cmd.writes /\ cmd'.explicit = cmd.explicit /\ cmd'.cwd = cmd.cwd
        /\ cmd'.line = cmd.line
    BY <1>2 DEF KeepsLine, KeepsHeader, Keeps
  <2>3. OneEach'
    BY <1>2, <1>3, <2>1 DEF OneEach, Unsent
  <2>4. ASSUME NEW l \in Lines PROVE OnceFor(l)'
    <3>1. OnceFor(l) /\ (l = cmd.line => Unsent(l) /\ answer[l] = None)
      BY <2>1
    <3>2. CASE l = cmd.line
      BY <1>1, <1>2, <2>2, <3>1, <3>2 DEF OnceFor, Unsent, Ahead, None
    <3>3. CASE l # cmd.line
      BY <1>1, <1>2, <1>3, <2>2, <3>1, <3>3 DEF OnceFor, Unsent, Ahead
    <3> QED
      BY <3>2, <3>3
  <2> QED
    BY <1>1, <2>1, <2>2, <2>3, <2>4 DEF LocalInv, OnceInv
<1>7. ScopeInv'
  <2> SUFFICES ASSUME steady PROVE ScopeInv'
    BY <1>1 DEF ScopeInv
  <2>1. OrUntagged(FirstOf(r.ws, FolderOf)) = cmd.header
    BY <1>1, <1>3, ScopeOfChoice DEF LocalInv, LocalType, CmdSet, ScopeInv, Running, FolderOf,
       LocalOverride, FirstOf
  <2> QED
    BY <1>1, <1>2, <2>1 DEF LocalInv, ScopeInv, KeepsLine, KeepsHeader, Keeps, Running,
       LocalOverride, FolderOf
<1> QED
  BY <1>4, <1>5, <1>6, <1>7 DEF LocalInv

LEMMA ServeStep == ASSUME LocalInv, DaemonServes PROVE LocalInv'
<1>1. PICK r \in inside :
        /\ inside' = inside \ {r}
        /\ Serve(r.line, FirstOf(r.ws, Derive(server.env, cmd.cwd)))
        /\ steady' = (steady /\ (r.ws # None \/ server.env = None))
  BY DEF DaemonServes
<1>2. UNCHANGED <<shellEnv, pin, server, cmd, answer>>
  BY DEF DaemonServes
<1>3. r.line \in Lines /\ r.ws \in Chosen /\ cmd \in CmdSet
  BY DEF LocalInv, LocalType
<1>4. /\ times' = [times EXCEPT ![r.line] = @ + 1]
      /\ served' = [served EXCEPT ![r.line] = @ \cup
                      {OrUntagged(FirstOf(r.ws, Derive(server.env, cmd.cwd)))}]
  BY <1>1 DEF Serve
<1>5. LocalType'
  BY <1>1, <1>2, <1>3, <1>4 DEF LocalInv, LocalType
<1>6. NothingYet'
  BY <1>1, <1>2 DEF LocalInv, NothingYet
<1>7. OnceInv'
  <2> SUFFICES ASSUME cmd.writes PROVE OnceInv'
    BY <1>2 DEF OnceInv
  <2>1. OneEach /\ (\A l \in Lines : OnceFor(l)) /\ times \in [Lines -> Nat]
    BY DEF LocalInv, LocalType, OnceInv
  <2>2. OneEach'
    BY <1>1, <2>1 DEF OneEach
  <2>3. ASSUME NEW l \in Lines PROVE OnceFor(l)'
    <3>1. CASE l = r.line
      BY <1>1, <1>2, <1>3, <1>4, <2>1, <3>1 DEF OnceFor, OneEach, Unsent, Ahead, None
    <3>2. CASE l # r.line
      BY <1>1, <1>2, <1>3, <1>4, <2>1, <3>2 DEF OnceFor, Unsent, Ahead, None
    <3> QED
      BY <3>1, <3>2
  <2> QED
    BY <1>2, <2>2, <2>3 DEF LocalInv, OnceInv, Running
<1>8. ScopeInv'
  <2> SUFFICES ASSUME steady, r.ws # None \/ server.env = None PROVE ScopeInv'
    BY <1>1 DEF ScopeInv
  <2>1. OrUntagged(FirstOf(r.ws, Derive(server.env, cmd.cwd))) = cmd.header
    <3>1. FirstOf(r.ws, Derive(server.env, cmd.cwd)) = FirstOf(r.ws, FolderOf)
      BY DEF FirstOf, Derive, FolderOf
    <3> QED
      BY <3>1 DEF LocalInv, ScopeInv
  <2>2. ASSUME NEW l \in Lines PROVE served'[l] \subseteq {cmd.header}
    BY <1>3, <1>4, <2>1 DEF LocalInv, LocalType, ScopeInv
  <2> QED
    BY <1>1, <1>2, <2>2 DEF LocalInv, ScopeInv, Running, FolderOf, LocalOverride
<1> QED
  BY <1>5, <1>6, <1>7, <1>8 DEF LocalInv

\* The user is told of a line: "done" of one that is stored, "failed" of one that is not.
LEMMA ToldOnce ==
  ASSUME LocalInv, NEW what \in {"done", "maybe", "failed"}, cmd.at \in {"wait", "direct"},
         cmd' \in CmdSet, KeepsHeader, Told(what), inside' = inside, times' \in [Lines -> Nat],
         \A l \in Lines \ {cmd.line} : times'[l] = times[l],
         \/ cmd'.at = "inject" /\ cmd'.line \in Lines /\ answer'[cmd'.line] = None
         \/ cmd'.at = "over" /\ cmd'.line = cmd.line,
         cmd.writes =>
           /\ times'[cmd.line] \in {0, 1}
           /\ times'[cmd.line] = 1 => \A r \in inside : r.line # cmd.line
           /\ what = "done" => times'[cmd.line] = 1
           /\ what = "failed" => times'[cmd.line] = 0 /\ \A r \in inside : r.line # cmd.line
  PROVE  OnceInv'
<1> SUFFICES ASSUME cmd.writes PROVE OnceInv'
  BY DEF OnceInv, KeepsHeader, Keeps
<1>1. /\ OneEach /\ (\A l \in Lines : OnceFor(l)) /\ cmd.line \in Lines
      /\ answer' = [answer EXCEPT ![cmd.line] = what]
      /\ answer \in [Lines -> {None, "done", "maybe", "failed"}]
  BY DEF LocalInv, LocalType, OnceInv, Told
<1>2. OneEach'
  BY <1>1 DEF OneEach
<1>3. ASSUME NEW l \in Lines PROVE OnceFor(l)'
  <2>1. CASE l = cmd.line
    BY <1>1, <2>1 DEF OnceFor, Unsent, Ahead, None
  <2>2. CASE l # cmd.line
    BY <1>1, <2>2 DEF OnceFor, Unsent, Ahead, None
  <2> QED
    BY <2>1, <2>2
<1> QED
  BY <1>1, <1>2, <1>3 DEF LocalInv, OnceInv, KeepsHeader, Keeps, Running

\* The scope is as it was when the command goes on and nothing was served.
LEMMA ScopeStays ==
  ASSUME LocalInv, cmd.at \notin {"idle", "header"}, KeepsHeader, inside' \subseteq inside,
         UNCHANGED <<shellEnv, pin, steady>>,
         \/ cmd'.at = "inject" \/ cmd'.at = "over"
         \/ /\ cmd.at \in {"send", "wait", "direct"} /\ cmd'.at \in {"send", "wait", "direct"}
            /\ cmd'.ws = cmd.ws,
         steady => \A l \in Lines : served'[l] \subseteq {cmd.header}, Running
  PROVE  ScopeInv'
BY DEF LocalInv, ScopeInv, KeepsHeader, Keeps, Running, LocalOverride, FolderOf

LEMMA AnswerStep == ASSUME LocalInv, TakeAnswer PROVE LocalInv'
<1>1. /\ cmd.at = "wait" /\ times[cmd.line] > 0 /\ Told("done") /\ NextLine
      /\ UNCHANGED <<shellEnv, pin, server, inside, served, times, steady>>
  BY DEF TakeAnswer
<1>2. /\ cmd' \in CmdSet /\ KeepsHeader
      /\ \/ cmd'.at = "inject" /\ cmd'.line \in Lines /\ answer'[cmd'.line] = None
         \/ cmd'.at = "over" /\ cmd'.line = cmd.line
  BY <1>1, NextLineFields DEF LocalInv
<1>3. LocalType'
  BY <1>1, <1>2 DEF LocalInv, LocalType, Told
<1>4. NothingYet'
  BY <1>2 DEF NothingYet
<1>5. OnceInv'
  <2>1. cmd.line \in Lines /\ times \in [Lines -> Nat]
    BY <1>1 DEF LocalInv, LocalType
  <2>2. cmd.writes => times[cmd.line] = 1 /\ \A r \in inside : r.line # cmd.line
    BY <1>1, <2>1 DEF LocalInv, OnceInv, OnceFor
  <2> QED
    BY <1>1, <1>2, <2>1, <2>2, ToldOnce
<1>6. ScopeInv'
  BY <1>1, <1>2, ScopeStays DEF LocalInv, ScopeInv, Running
<1> QED
  BY <1>3, <1>4, <1>5, <1>6 DEF LocalInv

LEMMA DropStep == ASSUME LocalInv, ConnectionDrops \/ TimesOut PROVE LocalInv'
<1>1. cmd.at = "wait" /\ UNCHANGED <<shellEnv, pin, server, inside, served, times, steady>>
  BY DEF ConnectionDrops, TimesOut
<1>2. /\ cmd' \in CmdSet /\ KeepsLine
      /\ \/ /\ cmd'.at = "over"
            /\ \E what \in {"maybe", "failed"} : Told(what) /\ (cmd.writes => what = "maybe")
         \/ cmd'.at \in {"send", "direct"} /\ answer' = answer /\ ~cmd.writes
  <2>1. \/ /\ cmd' = [cmd EXCEPT !.at = "over"]
           /\ \E what \in {"maybe", "failed"} : Told(what) /\ (cmd.writes => what = "maybe")
        \/ cmd' = [cmd EXCEPT !.at = "send", !.tries = 1] /\ answer' = answer /\ ~cmd.writes
        \/ cmd' = [cmd EXCEPT !.at = "direct"] /\ answer' = answer /\ ~cmd.writes
    BY DEF ConnectionDrops, TimesOut, MayResend, Cmd
  <2> QED
    BY <2>1, MoveFields DEF LocalInv, CommandPlaces
<1>3. LocalType'
  BY <1>1, <1>2 DEF LocalInv, LocalType, Told, KeepsLine
<1>4. NothingYet'
  BY <1>2 DEF NothingYet
<1>5. OnceInv'
  <2>1. cmd.line \in Lines /\ times \in [Lines -> Nat]
    BY <1>1 DEF LocalInv, LocalType
  <2>2. cmd.writes => OnceFor(cmd.line)
    BY <2>1 DEF LocalInv, OnceInv
  <2>3. CASE ~cmd.writes
    BY <1>2, <2>3 DEF OnceInv, KeepsLine, KeepsHeader, Keeps
  <2>4. CASE cmd.writes
    <3>1. PICK what \in {"maybe", "failed"} : Told(what) /\ what = "maybe" /\ cmd'.at = "over"
      BY <1>2, <2>4
    <3> QED
      BY <1>1, <1>2, <2>1, <2>2, <3>1, ToldOnce DEF OnceFor, KeepsLine
  <2> QED
    BY <2>3, <2>4
<1>6. ScopeInv'
  BY <1>1, <1>2, ScopeStays DEF LocalInv, ScopeInv, Running, KeepsLine
<1> QED
  BY <1>3, <1>4, <1>5, <1>6 DEF LocalInv

\* Opened in this process, the store gets the line in the workspace of the header.
LEMMA DirectScope ==
  ASSUME LocalInv, cmd.at = "direct", steady
  PROVE  /\ cmd.writes => OrUntagged(cmd.ws) = cmd.header
         /\ OrUntagged(FirstOf(cmd.ws, Derive(shellEnv, cmd.cwd))) = cmd.header
<1>1. /\ cmd.header = OrUntagged(FirstOf(cmd.explicit, FirstOf(LocalOverride, FolderOf)))
      /\ cmd.ws = FirstOf(cmd.explicit, LocalOverride)
  BY DEF LocalInv, ScopeInv, Running
<1>2. cmd.writes => FolderOf = None
  BY DEF LocalInv, OnceInv, FolderOf
<1> QED
  BY <1>1, <1>2 DEF FirstOf, Derive, FolderOf, LocalOverride

LEMMA DirectStep == ASSUME LocalInv, DirectWrite \/ DirectRecall PROVE LocalInv'
<1>1. cmd.at = "direct" /\ UNCHANGED <<shellEnv, pin, server, inside, steady>> /\ cmd.line \in Lines
  BY DEF DirectWrite, DirectRecall, LocalInv, LocalType
<1>2. CASE \E ws : /\ Serve(cmd.line, ws) /\ Told("done") /\ NextLine
                   /\ steady => OrUntagged(ws) = cmd.header
  <2>1. PICK ws : /\ Serve(cmd.line, ws) /\ Told("done") /\ NextLine
                  /\ steady => OrUntagged(ws) = cmd.header
    BY <1>2
  <2>2. /\ cmd' \in CmdSet /\ KeepsHeader
        /\ \/ cmd'.at = "inject" /\ cmd'.line \in Lines /\ answer'[cmd'.line] = None
           \/ cmd'.at = "over" /\ cmd'.line = cmd.line
    BY <2>1, NextLineFields DEF LocalInv
  <2>3. LocalType'
    BY <1>1, <2>1, <2>2 DEF LocalInv, LocalType, Told, Serve
  <2>4. NothingYet'
    BY <2>2 DEF NothingYet
  <2>5. OnceInv'
    <3>1. times' = [times EXCEPT ![cmd.line] = @ + 1] /\ times \in [Lines -> Nat]
      BY <2>1 DEF Serve, LocalInv, LocalType
    <3>2. cmd.writes => Unsent(cmd.line)
      BY <1>1 DEF LocalInv, OnceInv, OnceFor, Ahead, Running
    <3> QED
      BY <1>1, <2>1, <2>2, <2>3, <3>1, <3>2, ToldOnce DEF Unsent, LocalType
  <2>6. ScopeInv'
    <3>1. steady => \A l \in Lines : served'[l] \subseteq {cmd.header}
      BY <1>1, <2>1 DEF LocalInv, LocalType, ScopeInv, Serve
    <3> QED
      BY <1>1, <2>2, <3>1, ScopeStays DEF Running
  <2> QED
    BY <2>3, <2>4, <2>5, <2>6 DEF LocalInv
<1>3. CASE /\ cmd.writes /\ Told("failed") /\ Cmd([cmd EXCEPT !.at = "over"])
           /\ UNCHANGED <<served, times>>
  <2>1. Told("failed") /\ cmd' = [cmd EXCEPT !.at = "over"] /\ UNCHANGED <<served, times>>
    BY <1>3 DEF Cmd
  <2>2. cmd' \in CmdSet /\ KeepsLine /\ cmd'.at = "over"
    BY <2>1, MoveFields DEF LocalInv, CommandPlaces
  <2>3. LocalType'
    BY <1>1, <2>1, <2>2 DEF LocalInv, LocalType, Told, KeepsLine
  <2>4. NothingYet'
    BY <2>2 DEF NothingYet
  <2>5. OnceInv'
    <3>1. cmd.writes => Unsent(cmd.line)
      BY <1>1 DEF LocalInv, OnceInv, OnceFor, Ahead, Running
    <3> QED
      BY <1>1, <2>1, <2>2, <2>3, <3>1, ToldOnce DEF Unsent, LocalType, KeepsLine
  <2>6. ScopeInv'
    BY <1>1, <2>1, <2>2, ScopeStays DEF LocalInv, ScopeInv, Running, KeepsLine
  <2> QED
    BY <2>3, <2>4, <2>5, <2>6 DEF LocalInv
<1> QED
  <2>1. CASE DirectWrite
    BY <1>1, <1>2, <1>3, <2>1, DirectScope DEF DirectWrite
  <2>2. CASE DirectRecall
    BY <1>1, <1>2, <2>2, DirectScope DEF DirectRecall
  <2> QED
    BY <2>1, <2>2

LEMMA SurroundStep ==
  ASSUME LocalInv, DaemonStarts \/ DaemonStops \/ SwitchLocal \/ UNCHANGED commandVars
  PROVE  LocalInv'
<1>1. /\ UNCHANGED <<shellEnv, cmd, served, times, answer>> /\ inside' \subseteq inside
      /\ steady' = steady \/ steady' = (steady /\ ~Running)
      /\ pin' = pin \/ steady' = (steady /\ ~Running)
  BY DEF DaemonStarts, DaemonStops, SwitchLocal, commandVars
<1>2. pin' \in Chosen /\ server' \in [up : BOOLEAN, env : Chosen \cup DaemonEnvs]
  <2>1. CASE DaemonStarts
    BY <2>1 DEF DaemonStarts, LocalInv, LocalType
  <2>2. CASE DaemonStops
    BY <2>2 DEF DaemonStops, Down, Chosen, LocalInv, LocalType
  <2>3. CASE SwitchLocal
    BY <2>3 DEF SwitchLocal, Chosen, LocalInv, LocalType
  <2> QED
    BY <2>1, <2>2, <2>3 DEF commandVars, LocalInv, LocalType
<1>3. LocalType'
  BY <1>1, <1>2 DEF LocalInv, LocalType
<1>4. NothingYet' /\ OnceInv'
  <2>1. OneEach => OneEach'
    BY <1>1 DEF OneEach
  <2>2. ASSUME NEW l \in Lines PROVE OnceFor(l) => OnceFor(l)'
    BY <1>1 DEF OnceFor, Unsent, Ahead
  <2> QED
    BY <1>1, <2>1, <2>2 DEF LocalInv, NothingYet, OnceInv, Running
<1>5. ScopeInv'
  BY <1>1 DEF LocalInv, LocalType, ScopeInv, Running, LocalOverride, FolderOf
<1> QED
  BY <1>3, <1>4, <1>5 DEF LocalInv

LEMMA LocalStep == LocalInv /\ [CommandNext]_commandVars => LocalInv'
BY BeginStep, HeaderStep, PinStep, SendStep, ServeStep, AnswerStep, DropStep, DirectStep,
   SurroundStep DEF CommandNext

LEMMA LocalImplies == LocalInv => AddedOnce /\ HeaderIsTrue
BY DEF LocalInv, OnceInv, OnceFor, Unsent, ScopeInv, AddedOnce, HeaderIsTrue

-----------------------------------------------------------------------------
(* Remote mode.                                                            *)
Apart == "overlap" \notin past
Unmoved == Apart /\ moves = MaxMoves

CommandSet ==
  [at : RemoteStages, kind : Kinds, team : OrNoTeam, key : Accounts \cup {NoAccount},
   target : OrNoTeam, named : OrNoTeam, tenant : Accounts \cup {NoAccount}, used : OrNoTeam]

CacheSet == [key : Accounts \cup {NoAccount}, account : Accounts \cup {NoAccount}, default : OrNoTeam]

\* Which command is where.
Shape(c) ==
  /\ c.at = "idle" => c.kind = "none"
  /\ c.at \in {"connect", "send"} => c.kind = "request"
  /\ c.at = "cache" => c.kind \in {"current", "create", "created", "switch"}
  /\ c.at = "post" => c.kind = "create"
  /\ c.at \in {"save", "pick"} => c.kind \in {"created", "switch"}
  /\ c.at = "check" => c.kind \in {"current", "switch"}
  /\ c.at \in {"key", "config", "drain"} => c.kind = "login"
  /\ c.kind \in {"created", "switch"} => c.target \in Team
  /\ c.at \in {"cache", "post", "save", "pick", "check"} => c.key \in Accounts
  /\ c.kind \in {"created", "login"} => c.key \in Accounts
  /\ c.at \in {"key", "config"} => c.used \in Team /\ Owner(c.used) = c.key
  /\ c.at = "send" => c.key \in Accounts /\ (c.used = NoTeam => c.team = NoTeam)
ShapeInv == \A s \in Shells : Shape(remote[s])

\* What the service keeps: a default of the account's own, and a pick only if a
\* workspace was chosen here.
ServiceInv ==
  /\ \A a \in Accounts : Owner(default[a]) = a
  /\ \A a \in Accounts : picked[a] # NoTeam => teamId # NoTeam
  /\ \A s \in Shells : remote[s].at = "pick" => teamId # NoTeam

\* The cached identity is one account's.
CacheInv ==
  /\ Apart => cache.account = cache.key
  /\ Unmoved => cache.default = IF cache.key = NoAccount THEN NoTeam ELSE default[cache.key]

\* The key a command has taken is still the one its shell would use, and so is the
\* workspace.
Taken(s, c) ==
  /\ c.at \in {"cache", "post", "save", "pick", "check"} \/ c.kind = "created" => c.key = Key(s)
  /\ c.kind \in {"request", "current"} => c.team = Configured(s)
  /\ c.at = "check" => FirstTeam(shellVars[s].team, c.team) = Configured(s)
  /\ c.at = "pick" => c.team = teamId
KeyInv == Apart => \A s \in Shells : Taken(s, remote[s])

\* What a command has learnt of the account is still so.
Learnt(s, c) ==
  /\ c.at \in {"cache", "check", "save", "pick"} => c.used = default[c.key]
  /\ c.at = "connect" =>
       /\ c.tenant \in {NoAccount, Key(s)}
       /\ c.named = c.team \/ c.named = FirstTeam(c.team, default[Key(s)])
  /\ c.at = "send" => HeaderTrue(c)
DefaultInv == Unmoved => "false" \notin past /\ \A s \in Shells : Learnt(s, remote[s])

\* Between the two writes of a login the chosen workspace is not yet of the stored key.
Settled == past \cap {"overlap", "apart"} = {}
LoginInv ==
  Settled =>
    /\ (\A s \in Shells : remote[s].at # "config") => teamId = NoTeam \/ Owner(teamId) = keychain
    /\ \A s \in Shells : remote[s].at = "config" => keychain = remote[s].key

RemoteInv ==
  RemoteTypeOK /\ ShapeInv /\ ServiceInv /\ CacheInv /\ KeyInv /\ DefaultInv /\ LoginInv

LEMMA TeamFacts ==
  /\ NoTeam \notin Team /\ \A t \in Team : Owner(t) \in Accounts
  /\ NoAccount \notin Accounts
BY RemoteAssumption DEF Team, NoTeam, Owner, NoAccount

LEMMA TypeFacts ==
  ASSUME RemoteTypeOK
  PROVE  /\ remote \in [Shells -> CommandSet] /\ \A s \in Shells : Key(s) \in Accounts
         /\ \A s \in Shells : Configured(s) \in OrNoTeam
         /\ \A a \in Accounts : default[a] \in Team /\ default[a] # NoTeam
         /\ \A s \in Shells : Cached(s).account \in Accounts \cup {NoAccount}
                                /\ Cached(s).default \in OrNoTeam
<1>1. remote \in [Shells -> CommandSet]
  BY DEF RemoteTypeOK, CommandSet
<1>2. \A s \in Shells : Key(s) \in Accounts
  BY DEF RemoteTypeOK, Key
<1>3. \A s \in Shells : Configured(s) \in OrNoTeam
  BY DEF RemoteTypeOK, Configured, FirstTeam
<1>4. \A a \in Accounts : default[a] \in Team /\ default[a] # NoTeam
  BY TeamFacts DEF RemoteTypeOK
<1>5. \A s \in Shells : /\ Cached(s).account \in Accounts \cup {NoAccount}
                         /\ Cached(s).default \in OrNoTeam
  BY DEF RemoteTypeOK, Cached, NoCache, OrNoTeam
<1> QED
  BY <1>1, <1>2, <1>3, <1>4, <1>5

LEMMA RemoteStart == RemoteInit => RemoteInv
<1> SUFFICES ASSUME RemoteInit PROVE RemoteInv
  OBVIOUS
<1> USE DEF RemoteInit, Resting
<1>0. /\ \A a \in Accounts : <<a, 1>> \in Team /\ Owner(<<a, 1>>) = a
      /\ \A s \in Shells : remote[s] = Resting
  BY DEF Team, Owner
<1>1. RemoteTypeOK
  <2>1. cache \in CacheSet
    <3>1. NoCache \in CacheSet
      BY DEF NoCache, CacheSet, OrNoTeam
    <3>2. ASSUME NEW a \in Accounts
          PROVE  [key |-> a, account |-> a, default |-> <<a, 1>>]
                   \in CacheSet
      BY <1>0 DEF CacheSet, OrNoTeam
    <3> QED
      BY <3>1, <3>2
  <2>2. Resting \in CommandSet
    BY DEF CommandSet, RemoteStages, Kinds, OrNoTeam
  <2>3. remote \in [Shells -> CommandSet]
    BY <2>2
  <2>4. teamId \in OrNoTeam /\ default \in [Accounts -> Team] /\ picked \in [Accounts -> OrNoTeam]
    BY <1>0 DEF OrNoTeam
  <2>5. shellVars \in [Shells -> [team : OrNoTeam, key : Accounts \cup {NoAccount}]]
    BY RemoteAssumption
  <2>6. /\ requests \in 0..MaxCommands /\ faults \in 0..MaxFaults /\ moves \in 0..MaxMoves
        /\ past \subseteq Marks /\ drain \in BOOLEAN /\ keychain \in Accounts
    <3>1. MaxCommands \in Nat /\ MaxFaults \in Nat /\ MaxMoves \in Nat
      BY RemoteAssumption
    <3>2. requests = MaxCommands /\ faults = MaxFaults /\ moves = MaxMoves
      OBVIOUS
    <3>3. past \subseteq Marks /\ drain \in BOOLEAN /\ keychain \in Accounts
      OBVIOUS
    <3> HIDE DEF RemoteInit
    <3> QED
      BY <3>1, <3>2, <3>3
  <2> HIDE DEF Resting, RemoteInit
  <2> QED
    BY <2>1, <2>3, <2>4, <2>5, <2>6 DEF RemoteTypeOK, CommandSet, CacheSet
<1>2. ShapeInv
  BY <1>0 DEF ShapeInv, Shape
<1>3. ServiceInv
  BY <1>0 DEF ServiceInv
<1>4. CacheInv
  BY TeamFacts DEF CacheInv, NoCache, Apart, Unmoved
<1>5. KeyInv
  BY <1>0 DEF KeyInv, Taken
<1>6. DefaultInv
  BY <1>0 DEF DefaultInv, Learnt
<1>7. LoginInv
  BY <1>0 DEF LoginInv
<1> QED
  BY <1>1, <1>2, <1>3, <1>4, <1>5, <1>6, <1>7 DEF RemoteInv

MoveTo(s, c) == remote' = [remote EXCEPT ![s] = c]

\* What a step must show of the one command it moves, when the rest is as it was.
LEMMA KeyFrame ==
  ASSUME RemoteInv, NEW s \in Shells, NEW c \in CommandSet,
         MoveTo(s, c), past \subseteq past', Shape(c),
         UNCHANGED <<keychain, teamId, shellVars, default, picked, moves>>,
         Apart => Taken(s, c), Unmoved => Learnt(s, c),
         Unmoved /\ "overlap" \notin past' => "false" \notin past',
         c.at = "pick" => remote[s].at = "pick"
  PROVE  ShapeInv' /\ ServiceInv' /\ KeyInv' /\ DefaultInv'
<1>0. remote \in [Shells -> CommandSet]
  BY TypeFacts DEF RemoteInv
<1>1. ShapeInv'
  BY <1>0 DEF MoveTo, RemoteInv, ShapeInv
<1>2. ServiceInv'
  BY <1>0 DEF MoveTo, RemoteInv, ServiceInv
<1>3. \A t \in Shells : Key(t)' = Key(t) /\ Configured(t)' = Configured(t)
  BY DEF Key, Configured
<1>4. KeyInv'
  <2> SUFFICES ASSUME Apart', NEW t \in Shells PROVE Taken(t, remote[t])'
    BY DEF KeyInv
  <2>1. Taken(t, remote'[t])
    BY <1>0 DEF MoveTo, Apart, RemoteInv, KeyInv
  <2> QED
    BY <1>3, <2>1 DEF Taken
<1>5. DefaultInv'
  <2> SUFFICES ASSUME Unmoved' PROVE "false" \notin past' /\ \A t \in Shells : Learnt(t, remote[t])'
    BY DEF DefaultInv
  <2>1. Unmoved
    BY DEF Unmoved, Apart
  <2>2. ASSUME NEW t \in Shells PROVE Learnt(t, remote[t])'
    <3>1. Learnt(t, remote'[t])
      BY <1>0, <2>1 DEF MoveTo, RemoteInv, DefaultInv
    <3> QED
      BY <1>3, <3>1 DEF Learnt, HeaderTrue, Workspace
  <2> QED
    BY <2>1, <2>2 DEF Unmoved, Apart
<1> QED
  BY <1>1, <1>2, <1>4, <1>5

LEMMA Moves ==
  ASSUME RemoteInv, NEW s \in Shells, NEW c \in CommandSet,
         MoveTo(s, c), past \subseteq past', Shape(c),
         UNCHANGED <<keychain, teamId, shellVars, default, picked, moves>>,
         Apart => Taken(s, c), Unmoved => Learnt(s, c),
         Unmoved /\ "overlap" \notin past' => "false" \notin past',
         c.at = "pick" => remote[s].at = "pick", c.at # "config",
         remote[s].at = "config" => "apart" \in past'
  PROVE  ShapeInv' /\ ServiceInv' /\ KeyInv' /\ DefaultInv' /\ LoginInv'
<1>0. remote \in [Shells -> CommandSet]
  BY TypeFacts DEF RemoteInv
<1>1. LoginInv'
  BY <1>0 DEF MoveTo, RemoteInv, LoginInv, Settled
<1> QED
  BY <1>1, KeyFrame

KeepService == UNCHANGED <<keychain, teamId, shellVars, default, picked, moves>>

LEMMA TypeMove ==
  ASSUME RemoteTypeOK, NEW s \in Shells, NEW c \in CommandSet, MoveTo(s, c),
         UNCHANGED <<keychain, teamId, shellVars, default, picked>>,
         cache' \in CacheSet,
         requests' \in 0..MaxCommands, faults' \in 0..MaxFaults, moves' \in 0..MaxMoves,
         past' \subseteq Marks, drain' \in BOOLEAN
  PROVE  RemoteTypeOK'
<1>1. remote' \in [Shells -> CommandSet]
  BY TypeFacts DEF MoveTo
<1> QED
  BY <1>1 DEF RemoteTypeOK, CommandSet, CacheSet

LEMMA RestingIsQuiet ==
  ASSUME NEW s \in Shells
  PROVE  /\ Resting \in CommandSet /\ Shape(Resting) /\ Taken(s, Resting) /\ Learnt(s, Resting)
         /\ Resting.at = "idle"
<1>1. Resting \in CommandSet
  BY DEF Resting, CommandSet, RemoteStages, Kinds, OrNoTeam
<1>2. Resting.at = "idle" /\ Resting.kind = "none"
  BY DEF Resting
<1>3. Shape(Resting)
  BY <1>2 DEF Shape
<1>4. Taken(s, Resting)
  BY <1>2 DEF Taken
<1>5. Learnt(s, Resting)
  BY <1>2 DEF Learnt
<1> QED
  BY <1>1, <1>2, <1>3, <1>4, <1>5

\* A command that starts has its shell's workspace.
LEMMA StartFields ==
  ASSUME NEW c, NEW kind \in Kinds, NEW team \in OrNoTeam, NEW target \in OrNoTeam,
         NEW key \in Accounts \cup {NoAccount},
         c = [at |-> "begin", kind |-> kind, team |-> team, key |-> key, target |-> target,
              named |-> NoTeam, tenant |-> NoAccount, used |-> NoTeam]
  PROVE  c \in CommandSet /\ c.at = "begin" /\ c.kind = kind /\ c.team = team /\ c.key = key
         /\ c.target = target
BY DEF CommandSet, RemoteStages, OrNoTeam

LEMMA StartStep ==
  ASSUME RemoteInv, NEW s \in Shells,
         StartRequest(s) \/ StartCurrent(s) \/ StartCreate(s) \/ StartSwitch(s) \/ StartLogin(s)
  PROVE  RemoteInv'
<1> DEFINE c == remote'[s]
<1>0. remote \in [Shells -> CommandSet] /\ Configured(s) \in OrNoTeam
  BY TypeFacts DEF RemoteInv
<1>1. /\ c \in CommandSet /\ c.at = "begin"
      /\ c.kind \in {"request", "current", "create", "switch", "login"}
      /\ c.kind # "login" => c.team = Configured(s)
      /\ c.kind = "switch" => c.target \in Team
      /\ c.kind = "login" => c.key \in Accounts
  <2>1. CASE StartRequest(s) \/ StartCurrent(s) \/ StartCreate(s)
    <3>1. PICK kind \in {"request", "current", "create"} :
            c = [Resting EXCEPT !.at = "begin", !.kind = kind, !.team = Configured(s)]
      BY <1>0, <2>1 DEF StartRequest, StartCurrent, StartCreate, Start, Step
    <3> HIDE DEF c
    <3>2. c = [at |-> "begin", kind |-> kind, team |-> Configured(s), key |-> NoAccount,
               target |-> NoTeam, named |-> NoTeam, tenant |-> NoAccount, used |-> NoTeam]
      BY <3>1 DEF Resting
    <3> QED
      BY <1>0, <3>2, StartFields DEF Kinds, OrNoTeam
  <2>2. CASE StartSwitch(s)
    <3>1. PICK t \in Team : c = [Resting EXCEPT !.at = "begin", !.kind = "switch",
                                          !.team = Configured(s), !.target = t]
      BY <1>0, <2>2 DEF StartSwitch, Start, Step
    <3> HIDE DEF c
    <3>2. c = [at |-> "begin", kind |-> "switch", team |-> Configured(s), key |-> NoAccount,
               target |-> t, named |-> NoTeam, tenant |-> NoAccount, used |-> NoTeam]
      BY <3>1 DEF Resting
    <3> QED
      BY <1>0, <3>2, StartFields DEF Kinds, OrNoTeam
  <2>3. CASE StartLogin(s)
    <3>1. PICK a \in Accounts : c = [Resting EXCEPT !.at = "begin", !.kind = "login", !.key = a]
      BY <1>0, <2>3 DEF StartLogin, Start, Step
    <3> HIDE DEF c
    <3>2. c = [at |-> "begin", kind |-> "login", team |-> NoTeam, key |-> a,
               target |-> NoTeam, named |-> NoTeam, tenant |-> NoAccount, used |-> NoTeam]
      BY <3>1 DEF Resting
    <3> QED
      BY <1>0, <3>2, StartFields DEF Kinds, OrNoTeam
  <2> QED
    BY <2>1, <2>2, <2>3
<1>2. /\ remote[s].at = "idle" /\ MoveTo(s, c) /\ KeepService
      /\ requests' = requests - 1 /\ requests > 0 /\ UNCHANGED <<cache, drain, faults, past>>
  BY <1>0 DEF StartRequest, StartCurrent, StartCreate, StartSwitch, StartLogin, Start, Step,
     MoveTo, KeepService
<1> HIDE DEF c
<1>3. RemoteTypeOK'
  <2>1. RemoteTypeOK /\ requests \in 0..MaxCommands
    BY DEF RemoteInv, RemoteTypeOK
  <2>2. requests' \in 0..MaxCommands
    BY <1>2, <2>1, RemoteAssumption
  <2> QED
    BY <1>1, <1>2, <2>1, <2>2, TypeMove DEF KeepService, RemoteTypeOK, CacheSet
<1>4. Shape(c) /\ Taken(s, c) /\ Learnt(s, c)
  BY <1>1 DEF Shape, Taken, Learnt
<1>5. CacheInv'
  BY <1>2 DEF RemoteInv, CacheInv, Apart, Unmoved, KeepService
<1>6. ShapeInv' /\ ServiceInv' /\ KeyInv' /\ DefaultInv' /\ LoginInv'
  <2>1. Unmoved => "false" \notin past
    BY DEF RemoteInv, DefaultInv
  <2> QED
    BY <1>1, <1>2, <1>4, <2>1, Moves DEF MoveTo, KeepService
<1> QED
  BY <1>3, <1>5, <1>6 DEF RemoteInv
\* A step of one command that changes nothing others read.
LEMMA Quiet ==
  ASSUME RemoteInv, NEW s \in Shells, NEW c \in CommandSet, MoveTo(s, c), KeepService,
         cache' = cache, requests' = requests, faults' = faults \/ Fault, drain' \in BOOLEAN,
         past' \subseteq Marks, past \subseteq past', Shape(c),
         Apart => Taken(s, c), Unmoved => Learnt(s, c),
         Unmoved /\ "overlap" \notin past' => "false" \notin past',
         c.at = "pick" => remote[s].at = "pick", c.at # "config",
         remote[s].at = "config" => "apart" \in past'
  PROVE  RemoteInv'
<1>1. RemoteTypeOK'
  <2>1. RemoteTypeOK /\ faults \in 0..MaxFaults
    BY DEF RemoteInv, RemoteTypeOK
  <2>2. faults' \in 0..MaxFaults
    BY <2>1, RemoteAssumption DEF Fault
  <2> QED
    BY <2>1, <2>2, TypeMove DEF KeepService, RemoteTypeOK, CacheSet
<1>2. CacheInv'
  BY DEF RemoteInv, CacheInv, Apart, Unmoved, KeepService
<1>3. ShapeInv' /\ ServiceInv' /\ KeyInv' /\ DefaultInv' /\ LoginInv'
  BY Moves DEF MoveTo, KeepService
<1> QED
  BY <1>1, <1>2, <1>3 DEF RemoteInv

LEMMA CachedIsTrue ==
  ASSUME RemoteInv, NEW s \in Shells
  PROVE  /\ Apart => Cached(s).account \in {NoAccount, Key(s)}
         /\ Unmoved => Cached(s).default \in {NoTeam, default[Key(s)]}
<1>1. Key(s) \in Accounts /\ Key(s) # NoAccount
  BY TypeFacts, TeamFacts DEF RemoteInv
<1> QED
  BY <1>1 DEF RemoteInv, CacheInv, Cached, NoCache

\* What is known of the command of one shell.
LEMMA Known ==
  ASSUME RemoteInv, NEW s \in Shells
  PROVE  /\ remote \in [Shells -> CommandSet] /\ Shape(remote[s])
         /\ Apart => Taken(s, remote[s])
         /\ Unmoved => "false" \notin past /\ Learnt(s, remote[s])
         /\ past \subseteq Marks /\ drain \in BOOLEAN
         /\ Key(s) \in Accounts /\ Configured(s) \in OrNoTeam
         /\ \A a \in Accounts : default[a] \in Team /\ default[a] # NoTeam /\ Owner(default[a]) = a
BY TypeFacts DEF RemoteInv, ShapeInv, KeyInv, DefaultInv, RemoteTypeOK, ServiceInv

LEMMA PrintStep == ASSUME RemoteInv, NEW s \in Shells, PrintHeader(s) PROVE RemoteInv'
<1> DEFINE c == remote'[s]
<1>0. /\ remote \in [Shells -> CommandSet] /\ remote[s] \in CommandSet
      /\ past \subseteq Marks /\ drain \in BOOLEAN
  BY Known
<1>1. /\ remote[s].at = "begin" /\ remote[s].kind = "request" /\ MoveTo(s, c) /\ KeepService
      /\ UNCHANGED <<cache, drain, requests, faults, past>>
      /\ c = [remote[s] EXCEPT !.at = "connect", !.tenant = Cached(s).account,
                  !.named = FirstTeam(remote[s].team, Cached(s).default)]
  BY <1>0 DEF PrintHeader, Step, MoveTo, KeepService
<1> HIDE DEF c
<1>2. /\ c \in CommandSet
      /\ c.at = "connect" /\ c.kind = "request" /\ c.team = remote[s].team
      /\ c.tenant = Cached(s).account /\ c.named = FirstTeam(c.team, Cached(s).default)
  <2> DEFINE n == FirstTeam(remote[s].team, Cached(s).default)
             a == Cached(s).account
  <2>1. n \in OrNoTeam /\ a \in Accounts \cup {NoAccount}
    BY <1>0, TypeFacts DEF RemoteInv, FirstTeam, CommandSet
  <2>2. c = [remote[s] EXCEPT !.at = "connect", !.tenant = a, !.named = n]
    BY <1>1
  <2> HIDE DEF n, a
  <2>3. c \in CommandSet /\ c.at = "connect" /\ c.kind = remote[s].kind /\ c.team = remote[s].team
        /\ c.tenant = a /\ c.named = n
    BY <1>0, <2>1, <2>2 DEF CommandSet, RemoteStages
  <2> QED
    BY <1>1, <2>3 DEF n, a
<1>3. Shape(c)
  BY <1>2 DEF Shape
<1>4. Apart => Taken(s, c)
  BY <1>1, <1>2, Known DEF Taken
<1>5. Unmoved => Learnt(s, c)
  BY <1>2, CachedIsTrue DEF Learnt, Unmoved, FirstTeam
<1> QED
  BY <1>0, <1>1, <1>2, <1>3, <1>4, <1>5, Known, Quiet

LEMMA ConnectStep == ASSUME RemoteInv, NEW s \in Shells, Connect(s) PROVE RemoteInv'
<1> DEFINE c == remote'[s]
<1>0. /\ remote \in [Shells -> CommandSet] /\ remote[s] \in CommandSet
      /\ past \subseteq Marks /\ drain \in BOOLEAN
      /\ Key(s) \in Accounts /\ default[Key(s)] \in Team /\ default[Key(s)] # NoTeam
  BY Known
<1>1. PICK u \in {FirstTeam(remote[s].team, default[Key(s)]), remote[s].team} :
        /\ remote[s].at = "connect" /\ MoveTo(s, c) /\ KeepService
        /\ UNCHANGED <<cache, drain, requests, past>> /\ (faults' = faults \/ Fault)
        /\ c = [remote[s] EXCEPT !.at = "send", !.key = Key(s), !.used = u]
  BY <1>0 DEF Connect, Step, MoveTo, KeepService
<1> HIDE DEF c
<1>2. u \in OrNoTeam /\ (u = NoTeam => remote[s].team = NoTeam)
  BY <1>0 DEF FirstTeam, CommandSet, OrNoTeam
<1>3. /\ c \in CommandSet /\ c.at = "send" /\ c.kind = remote[s].kind /\ c.team = remote[s].team
      /\ c.tenant = remote[s].tenant /\ c.named = remote[s].named /\ c.key = Key(s) /\ c.used = u
  BY <1>0, <1>1, <1>2 DEF CommandSet, RemoteStages
<1>4. Shape(c)
  BY <1>0, <1>1, <1>2, <1>3, Known DEF Shape
<1>5. Apart => Taken(s, c)
  BY <1>1, <1>3, Known DEF Taken, Shape
<1>6. Unmoved => Learnt(s, c)
  <2> SUFFICES ASSUME Unmoved PROVE HeaderTrue(c)
    BY <1>3 DEF Learnt
  <2>1. /\ c.tenant \in {NoAccount, c.key}
        /\ c.named = c.team \/ c.named = FirstTeam(c.team, default[c.key])
    BY <1>1, <1>3, Known DEF Learnt
  <2>2. c.team = NoTeam => picked[c.key] = NoTeam
    BY <1>0, <1>1, <1>3, Known DEF Unmoved, Taken, Shape, Configured, FirstTeam, RemoteInv,
       ServiceInv
  <2>3. c.named \in {NoTeam, Workspace(c)}
    BY <1>0, <1>1, <1>2, <1>3, <2>1, <2>2 DEF Workspace, FirstTeam
  <2> QED
    BY <2>1, <2>3 DEF HeaderTrue
<1> QED
  BY <1>0, <1>1, <1>3, <1>4, <1>5, <1>6, Known, Quiet

LEMMA SendHostedStep == ASSUME RemoteInv, NEW s \in Shells, SendHosted(s) PROVE RemoteInv'
<1>1. /\ remote[s].at = "send" /\ MoveTo(s, Resting) /\ KeepService
      /\ UNCHANGED <<cache, drain, requests, faults>>
      /\ past' = past \cup Mark("false", ~HeaderTrue(remote[s]))
  BY DEF SendHosted, Step, MoveTo, KeepService
<1>2. past' \subseteq Marks /\ past \subseteq past' /\ (Unmoved => past' = past)
  BY <1>1, Known DEF Mark, Marks, Learnt
<1> QED
  BY <1>1, <1>2, Known, Quiet, RestingIsQuiet

LEMMA CheckStep == ASSUME RemoteInv, NEW s \in Shells, ConsoleCheck(s) PROVE RemoteInv'
<1>1. /\ remote[s].at = "check" /\ MoveTo(s, Resting) /\ KeepService
      /\ UNCHANGED <<cache, drain, requests, faults>>
      /\ past' = past \cup Mark("false", SaysMatch(s) # AgreesNow(s))
  BY DEF ConsoleCheck, Step, MoveTo, KeepService
<1>2. Unmoved => SaysMatch(s) = AgreesNow(s)
  <2> SUFFICES ASSUME Unmoved PROVE SaysMatch(s) = AgreesNow(s)
    OBVIOUS
  <2>1. /\ remote[s].used = default[Key(s)]
        /\ FirstTeam(shellVars[s].team, remote[s].team) = Configured(s)
        /\ Cached(s).default \in {NoTeam, default[Key(s)]}
    BY <1>1, Known, CachedIsTrue DEF Unmoved, Taken, Learnt
  <2> QED
    BY <2>1 DEF SaysMatch, AgreesNow, FirstTeam
<1>3. past' \subseteq Marks /\ past \subseteq past' /\ (Unmoved => past' = past)
  BY <1>1, <1>2, Known DEF Mark, Marks
<1> QED
  BY <1>1, <1>3, Known, Quiet, RestingIsQuiet
LEMMA DieStep ==
  ASSUME RemoteInv, NEW s \in Shells, ShellDies(s) \/ SetRemoteDrain(s)
  PROVE  RemoteInv'
<1>1. /\ MoveTo(s, Resting) /\ KeepService /\ UNCHANGED <<cache, requests>>
      /\ drain' \in BOOLEAN /\ (faults' = faults \/ Fault)
      /\ past' = past \cup Mark("apart", remote[s].at = "config")
  BY Known DEF ShellDies, SetRemoteDrain, Step, MoveTo, KeepService, Mark
<1>2. /\ past' \subseteq Marks /\ past \subseteq past'
      /\ "false" \notin past => "false" \notin past'
      /\ remote[s].at = "config" => "apart" \in past'
  BY <1>1, Known DEF Mark, Marks
<1> QED
  BY <1>1, <1>2, Known, Quiet, RestingIsQuiet

LEMMA IdentityStep == ASSUME RemoteInv, NEW s \in Shells, RemoteIdentity(s) PROVE RemoteInv'
<1> DEFINE c == remote'[s]
<1>0. /\ remote \in [Shells -> CommandSet] /\ remote[s] \in CommandSet
      /\ past \subseteq Marks /\ drain \in BOOLEAN
  BY Known
<1>1. PICK key \in Accounts :
        /\ remote[s].at = "begin" /\ remote[s].kind \in {"current", "create", "created", "switch"}
        /\ key = IF remote[s].kind = "created" THEN remote[s].key ELSE Key(s)
        /\ MoveTo(s, c) /\ KeepService /\ UNCHANGED <<cache, drain, requests, past>>
        /\ faults' = faults \/ Fault
        /\ \/ c = [remote[s] EXCEPT !.at = "cache", !.key = key, !.used = default[key]]
           \/ c = Resting
  BY <1>0 DEF RemoteIdentity, Step, MoveTo, KeepService
<1>2. CASE c = Resting
  BY <1>0, <1>1, <1>2, Known, Quiet, RestingIsQuiet
<1>3. CASE c = [remote[s] EXCEPT !.at = "cache", !.key = key, !.used = default[key]]
  <2> HIDE DEF c
  <2>1. default[key] \in OrNoTeam
    BY Known DEF OrNoTeam
  <2>2. /\ c \in CommandSet /\ c.at = "cache" /\ c.kind = remote[s].kind /\ c.team = remote[s].team
        /\ c.target = remote[s].target /\ c.key = key /\ c.used = default[key]
    BY <1>0, <1>3, <2>1 DEF CommandSet, RemoteStages
  <2>3. Shape(c)
    BY <1>1, <2>2, Known DEF Shape
  <2>4. Apart => Taken(s, c)
    BY <1>1, <2>2, Known DEF Taken
  <2>5. Learnt(s, c)
    BY <2>2 DEF Learnt
  <2> QED
    BY <1>0, <1>1, <2>2, <2>3, <2>4, <2>5, Known, Quiet
<1> QED
  BY <1>1, <1>2, <1>3

LEMMA CreateStep == ASSUME RemoteInv, NEW s \in Shells, CreateWorkspace(s) PROVE RemoteInv'
<1> DEFINE c == remote'[s]
<1>0. /\ remote \in [Shells -> CommandSet] /\ remote[s] \in CommandSet
      /\ past \subseteq Marks /\ drain \in BOOLEAN
  BY Known
<1>1. /\ remote[s].at = "post" /\ MoveTo(s, c) /\ KeepService
      /\ UNCHANGED <<cache, drain, requests, past>> /\ (faults' = faults \/ Fault)
      /\ \/ c = Resting
         \/ \E t \in Team :
              c = [remote[s] EXCEPT !.at = "begin", !.kind = "created", !.target = t]
  BY <1>0 DEF CreateWorkspace, Step, MoveTo, KeepService
<1>2. CASE c = Resting
  BY <1>0, <1>1, <1>2, Known, Quiet, RestingIsQuiet
<1>3. ASSUME NEW t \in Team, c = [remote[s] EXCEPT !.at = "begin", !.kind = "created", !.target = t]
      PROVE  RemoteInv'
  <2> HIDE DEF c
  <2>1. /\ c \in CommandSet /\ c.at = "begin" /\ c.kind = "created" /\ c.target = t
        /\ c.key = remote[s].key
    BY <1>0, <1>3 DEF CommandSet, RemoteStages, Kinds, OrNoTeam
  <2>2. Shape(c)
    BY <1>1, <2>1, Known DEF Shape
  <2>3. Apart => Taken(s, c)
    BY <1>1, <2>1, Known DEF Taken
  <2>4. Learnt(s, c)
    BY <2>1 DEF Learnt
  <2> QED
    BY <1>0, <1>1, <2>1, <2>2, <2>3, <2>4, Known, Quiet
<1> QED
  BY <1>1, <1>2, <1>3

LEMMA ValidateStep == ASSUME RemoteInv, NEW s \in Shells, Validate(s) PROVE RemoteInv'
<1> DEFINE c == remote'[s]
<1>0. /\ remote \in [Shells -> CommandSet] /\ remote[s] \in CommandSet
      /\ past \subseteq Marks /\ drain \in BOOLEAN
  BY Known
<1>1. /\ remote[s].at = "begin" /\ remote[s].kind = "login" /\ MoveTo(s, c) /\ KeepService
      /\ UNCHANGED <<cache, drain, requests, past>> /\ (faults' = faults \/ Fault)
      /\ c = Resting \/ c = [remote[s] EXCEPT !.at = "key", !.used = default[remote[s].key]]
  BY <1>0 DEF Validate, Step, MoveTo, KeepService
<1>2. CASE c = Resting
  BY <1>0, <1>1, <1>2, Known, Quiet, RestingIsQuiet
<1>3. CASE c = [remote[s] EXCEPT !.at = "key", !.used = default[remote[s].key]]
  <2> HIDE DEF c
  <2>1. remote[s].key \in Accounts
    BY <1>1, Known DEF Shape
  <2>2. /\ c \in CommandSet /\ c.at = "key" /\ c.kind = "login" /\ c.key = remote[s].key
        /\ c.used = default[c.key]
    BY <1>0, <1>1, <1>3, <2>1, Known DEF CommandSet, RemoteStages, OrNoTeam
  <2>3. Shape(c)
    BY <2>1, <2>2, Known DEF Shape
  <2>4. Taken(s, c) /\ Learnt(s, c)
    BY <2>2 DEF Taken, Learnt
  <2> QED
    BY <1>0, <1>1, <2>2, <2>3, <2>4, Known, Quiet
<1> QED
  BY <1>1, <1>2, <1>3

\* The identity goes into the cache under the key it was fetched with, and the command on.
LEMMA CacheStep == ASSUME RemoteInv, NEW s \in Shells, CacheIdentity(s) PROVE RemoteInv'
<1> DEFINE c == remote'[s]
<1>0. /\ remote \in [Shells -> CommandSet] /\ remote[s] \in CommandSet
      /\ past \subseteq Marks /\ drain \in BOOLEAN
  BY Known
<1>1. /\ remote[s].at = "cache" /\ MoveTo(s, c) /\ KeepService
      /\ UNCHANGED <<drain, requests, faults, past>>
      /\ cache' = [key |-> Key(s), account |-> remote[s].key, default |-> remote[s].used]
      /\ \/ c = Resting
         \/ \E n \in AfterIdentity(remote[s]) \ {"idle"} : c = [remote[s] EXCEPT !.at = n]
  BY <1>0 DEF CacheIdentity, Step, Goes, MoveTo, KeepService
<1> HIDE DEF c
<1>2. /\ c \in CommandSet /\ Shape(c) /\ (Apart => Taken(s, c)) /\ (Unmoved => Learnt(s, c))
      /\ c.at # "pick" /\ c.at # "config"
  <2>1. CASE c = Resting
    BY <2>1, RestingIsQuiet
  <2>2. ASSUME NEW n \in AfterIdentity(remote[s]) \ {"idle"}, c = [remote[s] EXCEPT !.at = n]
        PROVE  /\ c \in CommandSet /\ Shape(c) /\ c.at # "pick" /\ c.at # "config"
               /\ (Apart => Taken(s, c)) /\ (Unmoved => Learnt(s, c))
    <3>1. \/ n = "check" /\ remote[s].kind = "current"
          \/ n = "post" /\ remote[s].kind = "create"
          \/ n = "save" /\ remote[s].kind \in {"created", "switch"}
      <4>1. remote[s].kind \in {"current", "create", "created", "switch"}
        BY <1>1, Known DEF Shape
      <4>2. CASE remote[s].kind \in {"current", "create", "created"}
        <5>1. /\ remote[s].kind = "current" => AfterIdentity(remote[s]) = {"check"}
              /\ remote[s].kind = "create" => AfterIdentity(remote[s]) = {"post", "idle"}
              /\ remote[s].kind = "created" => AfterIdentity(remote[s]) = {"save", "idle"}
          BY DEF AfterIdentity
        <5>2. n \in AfterIdentity(remote[s]) /\ n # "idle"
          BY <2>2
        <5> QED
          BY <4>2, <5>1, <5>2
      <4>3. CASE remote[s].kind = "switch"
        <5>1. AfterIdentity(remote[s]) \subseteq {"save", "idle"}
          BY <4>3 DEF AfterIdentity
        <5> QED
          BY <4>3, <5>1, <2>2
      <4> QED
        BY <4>1, <4>2, <4>3
    <3>2. /\ c \in CommandSet /\ c.at = n /\ c.kind = remote[s].kind /\ c.team = remote[s].team
          /\ c.target = remote[s].target /\ c.key = remote[s].key /\ c.used = remote[s].used
      BY <1>0, <2>2, <3>1 DEF CommandSet, RemoteStages
    <3>3. Shape(c)
      BY <1>1, <3>1, <3>2, Known DEF Shape
    <3>4. Apart => Taken(s, c)
      BY <1>1, <3>1, <3>2, Known DEF Taken, Configured, FirstTeam
    <3>5. Unmoved => Learnt(s, c)
      BY <1>1, <3>1, <3>2, Known DEF Learnt
    <3> QED
      BY <3>1, <3>2, <3>3, <3>4, <3>5
  <2> QED
    BY <1>1, <2>1, <2>2
<1>3. RemoteTypeOK'
  <2>1. RemoteTypeOK /\ Key(s) \in Accounts
    BY Known DEF RemoteInv
  <2>2. cache' \in CacheSet
    BY <1>0, <1>1, <2>1 DEF CommandSet, CacheSet
  <2> QED
    BY <1>1, <1>2, <2>1, <2>2, TypeMove DEF KeepService, RemoteTypeOK, CacheSet
<1>4. CacheInv'
  <2>1. /\ Apart => cache'.account = cache'.key
        /\ Unmoved => cache'.default = default[cache'.key]
        /\ cache'.key \in Accounts
    BY <1>1, Known DEF Taken, Learnt, Unmoved
  <2> QED
    BY <1>1, <2>1, TeamFacts DEF CacheInv, Apart, Unmoved, KeepService
<1>5. ShapeInv' /\ ServiceInv' /\ KeyInv' /\ DefaultInv' /\ LoginInv'
  BY <1>1, <1>2, Known, Moves DEF MoveTo, KeepService
<1> QED
  BY <1>3, <1>4, <1>5 DEF RemoteInv
\* Another command that stands still while this one writes: none, if they do not overlap.
LEMMA NoOverlap ==
  ASSUME RemoteInv, NEW s \in Shells, "overlap" \notin past \cup Mark("overlap", Others(s)),
         NEW t \in Shells \ {s}
  PROVE  /\ remote[t].at = "idle" /\ remote[t].kind = "none"
BY Known DEF Mark, Others, Shape

LEMMA PickStep == ASSUME RemoteInv, NEW s \in Shells, SaveSessionSelection(s) PROVE RemoteInv'
<1> DEFINE c == remote'[s]
<1>0. remote \in [Shells -> CommandSet] /\ remote[s] \in CommandSet
  BY Known
<1>1. /\ remote[s].at = "pick" /\ MoveTo(s, c) /\ (faults' = faults \/ Fault)
      /\ UNCHANGED <<keychain, teamId, cache, shellVars, default, drain, requests, moves, past>>
      /\ \/ picked' = picked
         \/ /\ Owner(remote[s].target) = remote[s].key
            /\ picked' = [picked EXCEPT ![remote[s].key] = remote[s].target]
      /\ IF remote[s].kind = "created" THEN c = Resting ELSE c = [remote[s] EXCEPT !.at = "check"]
  BY <1>0 DEF SaveSessionSelection, Step, Goes, MoveTo
<1> HIDE DEF c
<1>2. teamId # NoTeam
  BY <1>1 DEF RemoteInv, ServiceInv
<1>3. /\ c \in CommandSet /\ Shape(c) /\ (Apart => Taken(s, c)) /\ (Unmoved => Learnt(s, c))
      /\ c.at \in {"idle", "check"}
  <2>1. CASE c = Resting
    BY <2>1, RestingIsQuiet
  <2>2. CASE remote[s].kind # "created" /\ c = [remote[s] EXCEPT !.at = "check"]
    <3>1. /\ c \in CommandSet /\ c.at = "check" /\ c.kind = remote[s].kind
          /\ c.team = remote[s].team /\ c.target = remote[s].target /\ c.key = remote[s].key /\ c.used = remote[s].used
      BY <1>0, <2>2 DEF CommandSet, RemoteStages
    <3>2. Shape(c)
      BY <1>1, <2>2, <3>1, Known DEF Shape
    <3>3. Apart => Taken(s, c)
      BY <1>1, <3>1, Known DEF Taken, Configured, FirstTeam
    <3>4. Unmoved => Learnt(s, c)
      BY <1>1, <3>1, Known DEF Learnt
    <3> QED
      BY <3>1, <3>2, <3>3, <3>4
  <2> QED
    BY <1>1, <2>1, <2>2
<1>4. RemoteTypeOK'
  <2>1. RemoteTypeOK /\ faults \in 0..MaxFaults
    BY DEF RemoteInv, RemoteTypeOK
  <2>2. faults' \in 0..MaxFaults
    BY <1>1, <2>1, RemoteAssumption DEF Fault
  <2>3. picked' \in [Accounts -> OrNoTeam]
    BY <1>0, <1>1, <2>1 DEF RemoteTypeOK, CommandSet
  <2>4. remote' \in [Shells -> CommandSet]
    BY <1>0, <1>1, <1>3 DEF MoveTo
  <2> QED
    BY <1>1, <2>1, <2>2, <2>3, <2>4 DEF RemoteTypeOK, CommandSet
<1>5. CacheInv'
  BY <1>1 DEF RemoteInv, CacheInv, Apart, Unmoved
<1>6. ShapeInv'
  BY <1>0, <1>1, <1>3 DEF MoveTo, RemoteInv, ShapeInv
<1>7. ServiceInv'
  BY <1>0, <1>1, <1>2 DEF MoveTo, RemoteInv, ServiceInv, RemoteTypeOK
<1>8. \A t \in Shells : Key(t)' = Key(t) /\ Configured(t)' = Configured(t)
  BY <1>1 DEF Key, Configured
<1>9. KeyInv'
  <2> SUFFICES ASSUME Apart', NEW t \in Shells PROVE Taken(t, remote[t])'
    BY DEF KeyInv
  <2>1. Taken(t, remote'[t])
    BY <1>0, <1>1, <1>3 DEF MoveTo, Apart, RemoteInv, KeyInv
  <2> QED
    BY <1>1, <1>8, <2>1 DEF Taken
<1>10. DefaultInv'
  <2> SUFFICES ASSUME Unmoved' PROVE "false" \notin past' /\ \A t \in Shells : Learnt(t, remote[t])'
    BY DEF DefaultInv
  <2>1. Unmoved
    BY <1>1 DEF Unmoved, Apart
  <2>2. ASSUME NEW t \in Shells PROVE Learnt(t, remote[t])'
    <3>1. Learnt(t, remote'[t]) /\ Shape(remote'[t]) /\ Taken(t, remote'[t])
      BY <1>0, <1>1, <1>3, <2>1, Known DEF MoveTo, Unmoved
    <3>2. remote'[t].at = "send" => remote'[t].used # NoTeam
      BY <1>2, <3>1 DEF Shape, Taken, Configured, FirstTeam
    <3> QED
      BY <1>1, <1>8, <3>1, <3>2 DEF Learnt, HeaderTrue, Workspace, FirstTeam
  <2> QED
    BY <1>1, <2>1, <2>2, Known
<1>11. LoginInv'
  BY <1>0, <1>1, <1>3 DEF MoveTo, RemoteInv, LoginInv, Settled
<1> QED
  BY <1>4, <1>5, <1>6, <1>7, <1>9, <1>10, <1>11 DEF RemoteInv
\* A step that writes the key or the workspace: it is alone, or the commands overlap, and
\* what the others know no longer matters.
LEMMA Writes ==
  ASSUME RemoteInv, NEW s \in Shells, NEW c \in CommandSet, MoveTo(s, c), Shape(c),
         UNCHANGED <<cache, shellVars, default, picked, moves>>,
         past' \subseteq Marks, past \subseteq past', "false" \in past' => "false" \in past,
         Others(s) => "overlap" \in past',
         teamId' = teamId \/ teamId' # NoTeam, c.at = "pick" => teamId' # NoTeam,
         Apart => Taken(s, c)', Unmoved => Learnt(s, c)'
  PROVE  ShapeInv' /\ ServiceInv' /\ CacheInv' /\ KeyInv' /\ DefaultInv'
<1>0. remote \in [Shells -> CommandSet]
  BY Known
<1>1. ShapeInv'
  BY <1>0 DEF MoveTo, RemoteInv, ShapeInv
<1>2. ServiceInv'
  BY <1>0 DEF MoveTo, RemoteInv, ServiceInv
<1>3. CacheInv'
  BY DEF RemoteInv, CacheInv, Apart, Unmoved
<1>4. ASSUME NEW t \in Shells \ {s}, Apart'
      PROVE  remote'[t].at = "idle" /\ remote'[t].kind = "none"
  BY <1>0, <1>4, Known DEF MoveTo, Others, Apart, Shape
<1>5. KeyInv'
  <2> SUFFICES ASSUME Apart', NEW t \in Shells PROVE Taken(t, remote[t])'
    BY DEF KeyInv
  <2>1. CASE t = s
    <3>1. Apart /\ remote'[s] = c
      BY <1>0 DEF MoveTo, Apart
    <3> QED
      BY <2>1, <3>1 DEF Taken
  <2>2. CASE t # s
    BY <1>4, <2>2 DEF Taken
  <2> QED
    BY <2>1, <2>2
<1>6. DefaultInv'
  <2> SUFFICES ASSUME Unmoved' PROVE "false" \notin past' /\ \A t \in Shells : Learnt(t, remote[t])'
    BY DEF DefaultInv
  <2>1. Unmoved /\ Apart'
    BY DEF Unmoved, Apart
  <2>2. ASSUME NEW t \in Shells PROVE Learnt(t, remote[t])'
    <3>1. CASE t = s
      <4>1. remote'[s] = c
        BY <1>0 DEF MoveTo
      <4> QED
        BY <2>1, <3>1, <4>1 DEF Learnt
    <3>2. CASE t # s
      BY <1>4, <2>1, <3>2 DEF Learnt
    <3> QED
      BY <3>1, <3>2
  <2> QED
    BY <2>1, <2>2, Known
<1> QED
  BY <1>1, <1>2, <1>3, <1>5, <1>6

LEMMA SwitchStep == ASSUME RemoteInv, NEW s \in Shells, SwitchRemote(s) PROVE RemoteInv'
<1>a. PICK c : c = remote'[s]
  OBVIOUS
<1>0. remote \in [Shells -> CommandSet] /\ remote[s] \in CommandSet
  BY Known
<1>1. /\ remote[s].at = "save" /\ MoveTo(s, c) /\ teamId' = remote[s].target
      /\ UNCHANGED <<keychain, cache, shellVars, default, picked, drain, requests, faults, moves>>
      /\ past' = past \cup Mark("overlap", Others(s))
                     \cup Mark("apart", \/ Owner(remote[s].target) # remote[s].key
                                         \/ shellVars[s].key # NoAccount)
      /\ c = [remote[s] EXCEPT !.at = "pick", !.team = remote[s].target]
  BY <1>0, <1>a DEF SwitchRemote, Step, MoveTo
<1>2. remote[s].target \in Team /\ teamId' # NoTeam
  BY <1>1, Known, TeamFacts DEF Shape
<1>3. /\ c \in CommandSet /\ c.at = "pick" /\ c.kind = remote[s].kind /\ c.team = teamId'
      /\ c.target = remote[s].target /\ c.key = remote[s].key /\ c.used = remote[s].used
  BY <1>0, <1>1, <1>2 DEF CommandSet, RemoteStages, OrNoTeam
<1>4. Shape(c)
  BY <1>1, <1>3, Known DEF Shape
<1>5. /\ past' \subseteq Marks /\ past \subseteq past' /\ ("false" \in past' => "false" \in past)
      /\ Others(s) => "overlap" \in past'
      /\ Owner(remote[s].target) # remote[s].key => "apart" \in past'
      /\ shellVars[s].key # NoAccount => "apart" \in past'
  BY <1>1, Known DEF Mark, Marks
<1>6. RemoteTypeOK'
  <2>1. remote' \in [Shells -> CommandSet] /\ teamId' \in OrNoTeam
    BY <1>0, <1>1, <1>2, <1>3 DEF MoveTo, OrNoTeam
  <2> QED
    BY <1>1, <1>5, <2>1 DEF RemoteInv, RemoteTypeOK, CommandSet
<1>7. Apart => Taken(s, c)'
  BY <1>1, <1>3, Known DEF Taken, Key, Configured, Shape
<1>8. Unmoved => Learnt(s, c)'
  BY <1>1, <1>3, Known DEF Learnt
<1>9. ShapeInv' /\ ServiceInv' /\ CacheInv' /\ KeyInv' /\ DefaultInv'
  BY <1>1, <1>2, <1>3, <1>4, <1>5, <1>7, <1>8, Writes
<1>10. LoginInv'
  <2> SUFFICES ASSUME Settled' PROVE LoginInv'
    BY DEF LoginInv
  <2>1. Settled /\ Apart
    BY <1>5 DEF Settled, Apart
  <2>2. Owner(remote[s].target) = remote[s].key /\ shellVars[s].key = NoAccount
    BY <1>5 DEF Settled
  <2>3. Owner(teamId') = keychain'
    BY <1>1, <2>1, <2>2, Known DEF Taken, Key
  <2>4. \A t \in Shells : remote'[t].at # "config"
    BY <1>0, <1>1, <1>3, <1>5 DEF MoveTo, Settled, Others
  <2> QED
    BY <2>3, <2>4 DEF LoginInv
<1> QED
  BY <1>6, <1>9, <1>10 DEF RemoteInv

LEMMA KeyStep == ASSUME RemoteInv, NEW s \in Shells, SetApiKey(s) \/ KeyNotKept(s) PROVE RemoteInv'
<1>a. PICK c : c = remote'[s]
  OBVIOUS
<1>0. remote \in [Shells -> CommandSet] /\ remote[s] \in CommandSet
  BY Known
<1>1. /\ remote[s].at = "key" /\ MoveTo(s, c) /\ (faults' = faults \/ Fault)
      /\ UNCHANGED <<teamId, cache, shellVars, default, picked, drain, requests, moves>>
      /\ \/ keychain' = remote[s].key /\ past' = past \cup Mark("overlap", Others(s))
         \/ keychain' = keychain /\ past' = past \cup {"apart"}
      /\ c = [remote[s] EXCEPT !.at = "config"]
  BY <1>0, <1>a DEF SetApiKey, KeyNotKept, Goes, Step, MoveTo
<1>2. /\ c \in CommandSet /\ c.at = "config" /\ c.kind = remote[s].kind
      /\ c.key = remote[s].key /\ c.used = remote[s].used /\ c.target = remote[s].target
  BY <1>0, <1>1 DEF CommandSet, RemoteStages
<1>3. Shape(c) /\ c.kind = "login" /\ c.key \in Accounts
  BY <1>1, <1>2, Known DEF Shape
<1>4. past' \subseteq Marks /\ past \subseteq past' /\ ("false" \in past' => "false" \in past)
  BY <1>1, Known DEF Mark, Marks
<1>5. RemoteTypeOK'
  <2>1. RemoteTypeOK /\ faults \in 0..MaxFaults
    BY DEF RemoteInv, RemoteTypeOK
  <2>2. faults' \in 0..MaxFaults
    BY <1>1, <2>1, RemoteAssumption DEF Fault
  <2>3. remote' \in [Shells -> CommandSet] /\ keychain' \in Accounts
    BY <1>0, <1>1, <1>2, <1>3, <2>1 DEF MoveTo, RemoteTypeOK
  <2> QED
    BY <1>1, <1>4, <2>1, <2>2, <2>3 DEF RemoteTypeOK, CommandSet
<1>6. CASE keychain' = remote[s].key /\ past' = past \cup Mark("overlap", Others(s))
  <2>1. Others(s) => "overlap" \in past'
    BY <1>6 DEF Mark
  <2>2. Taken(s, c)' /\ Learnt(s, c)'
    BY <1>2, <1>3 DEF Taken, Learnt
  <2>3. ShapeInv' /\ ServiceInv' /\ CacheInv' /\ KeyInv' /\ DefaultInv'
    BY <1>1, <1>2, <1>3, <1>4, <2>1, <2>2, Writes
  <2>4. LoginInv'
    <3> SUFFICES ASSUME Settled' PROVE LoginInv'
      BY DEF LoginInv
    <3>1. remote'[s] = c
      BY <1>0, <1>1 DEF MoveTo
    <3>2. \A t \in Shells \ {s} : remote'[t].at = "idle"
      BY <1>0, <1>1, <2>1 DEF MoveTo, Settled, Others
    <3> QED
      BY <1>2, <1>6, <3>1, <3>2 DEF LoginInv
  <2> QED
    BY <1>5, <2>3, <2>4 DEF RemoteInv
<1>7. CASE keychain' = keychain /\ past' = past \cup {"apart"}
  <2>1. ShapeInv' /\ ServiceInv' /\ KeyInv' /\ DefaultInv'
    <3>1. Taken(s, c) /\ Learnt(s, c)
      BY <1>2, <1>3 DEF Taken, Learnt
    <3> QED
      BY <1>0, <1>1, <1>2, <1>3, <1>4, <1>7, <3>1, Known, KeyFrame
  <2>2. CacheInv'
    BY <1>1, <1>4 DEF RemoteInv, CacheInv, Apart, Unmoved
  <2>3. LoginInv'
    BY <1>7 DEF LoginInv, Settled
  <2> QED
    BY <1>5, <2>1, <2>2, <2>3 DEF RemoteInv
<1> QED
  BY <1>1, <1>6, <1>7
\* The second write of a login makes its workspace that of the key it stored.
LEMMA LoginStep == ASSUME RemoteInv, NEW s \in Shells, SaveLogin(s) PROVE RemoteInv'
<1>a. PICK c : c = remote'[s]
  OBVIOUS
<1>0. remote \in [Shells -> CommandSet] /\ remote[s] \in CommandSet
  BY Known
<1>1. /\ remote[s].at = "config" /\ MoveTo(s, c) /\ teamId' = remote[s].used
      /\ UNCHANGED <<keychain, cache, shellVars, default, picked, drain, requests, faults, moves>>
      /\ past' = past \cup Mark("overlap", Others(s))
      /\ c = [remote[s] EXCEPT !.at = "drain"]
  BY <1>0, <1>a DEF SaveLogin, Goes, Step, MoveTo
<1>2. /\ remote[s].used \in Team /\ teamId' # NoTeam /\ Owner(remote[s].used) = remote[s].key
      /\ remote[s].kind = "login" /\ remote[s].key \in Accounts
  BY <1>1, Known, TeamFacts DEF Shape
<1>3. /\ c \in CommandSet /\ c.at = "drain" /\ c.kind = "login" /\ c.key = remote[s].key
  BY <1>0, <1>1, <1>2 DEF CommandSet, RemoteStages
<1>4. Shape(c) /\ Taken(s, c)' /\ Learnt(s, c)'
  BY <1>2, <1>3 DEF Shape, Taken, Learnt
<1>5. /\ past' \subseteq Marks /\ past \subseteq past' /\ ("false" \in past' => "false" \in past)
      /\ Others(s) => "overlap" \in past'
  BY <1>1, Known DEF Mark, Marks
<1>6. RemoteTypeOK'
  <2>1. remote' \in [Shells -> CommandSet] /\ teamId' \in OrNoTeam
    BY <1>0, <1>1, <1>2, <1>3 DEF MoveTo, OrNoTeam
  <2> QED
    BY <1>1, <1>5, <2>1 DEF RemoteInv, RemoteTypeOK, CommandSet
<1>7. ShapeInv' /\ ServiceInv' /\ CacheInv' /\ KeyInv' /\ DefaultInv'
  BY <1>1, <1>2, <1>3, <1>4, <1>5, Writes
<1>8. LoginInv'
  <2> SUFFICES ASSUME Settled' PROVE LoginInv'
    BY DEF LoginInv
  <2>1. Settled
    BY <1>5 DEF Settled
  <2>2. Owner(teamId') = keychain'
    BY <1>1, <1>2, <2>1 DEF RemoteInv, LoginInv
  <2>3. \A t \in Shells : remote'[t].at # "config"
    BY <1>0, <1>1, <1>3, <1>5 DEF MoveTo, Settled, Others
  <2> QED
    BY <2>2, <2>3 DEF LoginInv
<1> QED
  BY <1>6, <1>7, <1>8 DEF RemoteInv

LEMMA DefaultStep == ASSUME RemoteInv, DefaultMoves PROVE RemoteInv'
<1>1. /\ moves > 0 /\ moves' = moves - 1
      /\ \E t \in Team : default' = [default EXCEPT ![Owner(t)] = t]
      /\ UNCHANGED <<keychain, teamId, cache, shellVars, picked, drain, remote, requests, faults,
                     past>>
  BY DEF DefaultMoves
<1>2. moves' \in 0..MaxMoves /\ moves' # MaxMoves
  BY <1>1, RemoteAssumption DEF RemoteInv, RemoteTypeOK
<1>3. default' \in [Accounts -> Team] /\ \A a \in Accounts : Owner(default'[a]) = a
  BY <1>1, TeamFacts DEF RemoteInv, RemoteTypeOK, ServiceInv
<1>4. RemoteTypeOK'
  BY <1>1, <1>2, <1>3 DEF RemoteInv, RemoteTypeOK
<1>5. ShapeInv'
  BY <1>1 DEF RemoteInv, ShapeInv
<1>6. ServiceInv'
  BY <1>1, <1>3 DEF RemoteInv, ServiceInv
<1>7. CacheInv' /\ DefaultInv'
  BY <1>1, <1>2 DEF RemoteInv, CacheInv, DefaultInv, Apart, Unmoved
<1>8. KeyInv' /\ LoginInv'
  BY <1>1 DEF RemoteInv, KeyInv, LoginInv, Apart, Settled, Taken, Key, Configured
<1> QED
  BY <1>4, <1>5, <1>6, <1>7, <1>8 DEF RemoteInv

LEMMA RemoteStep == RemoteInv /\ [RemoteNext]_remoteVars => RemoteInv'
<1> SUFFICES ASSUME RemoteInv, [RemoteNext]_remoteVars PROVE RemoteInv'
  OBVIOUS
<1>1. CASE UNCHANGED remoteVars
  BY <1>1 DEF remoteVars, RemoteInv, RemoteTypeOK, ShapeInv, ServiceInv, CacheInv, KeyInv,
     DefaultInv, LoginInv, Apart, Unmoved, Settled, Taken, Learnt, Key, Configured, HeaderTrue,
     Workspace
<1>2. CASE DefaultMoves
  BY <1>2, DefaultStep
<1>3. ASSUME NEW s \in Shells,
             \/ StartRequest(s) \/ StartCurrent(s) \/ StartCreate(s) \/ StartSwitch(s)
             \/ StartLogin(s) \/ PrintHeader(s) \/ Connect(s) \/ SendHosted(s)
             \/ RemoteIdentity(s) \/ CacheIdentity(s) \/ CreateWorkspace(s)
             \/ SwitchRemote(s) \/ SaveSessionSelection(s) \/ ConsoleCheck(s)
             \/ Validate(s) \/ SetApiKey(s) \/ KeyNotKept(s) \/ SaveLogin(s) \/ SetRemoteDrain(s)
             \/ ShellDies(s)
      PROVE  RemoteInv'
  BY <1>3, StartStep, PrintStep, ConnectStep, SendHostedStep, IdentityStep, CacheStep, CreateStep,
     SwitchStep, PickStep, CheckStep, ValidateStep, KeyStep, LoginStep, DieStep
<1> QED
  BY <1>1, <1>2, <1>3 DEF RemoteNext

LEMMA RemoteImplies == RemoteInv => RemoteHeaderIsTrue /\ KeyOpensTheWorkspace
<1> SUFFICES ASSUME RemoteInv PROVE RemoteHeaderIsTrue /\ KeyOpensTheWorkspace
  OBVIOUS
<1>1. RemoteHeaderIsTrue
  BY DEF RemoteHeaderIsTrue, RemoteInv, DefaultInv, Unmoved, Apart
<1>2. KeyOpensTheWorkspace
  BY DEF KeyOpensTheWorkspace, RemoteInv, ShapeInv, Shape, LoginInv, Settled
<1> QED
  BY <1>1, <1>2

-----------------------------------------------------------------------------
(* Both modes.                                                             *)

\* A line of a memory command is stored at most once and the answer is true of it; the
\* workspace it is served in is the one the header named; the account and the workspace
\* of a remote request are those its header named; the stored key opens the workspace
\* that was chosen: for any lines, workspaces, accounts, shells and bounds.
THEOREM CommandsAreAlwaysHonest == ScopedSpec => []CommandsAreHonest
<1>1. ScopedInit => LocalInv /\ RemoteInv
  BY LocalStart, RemoteStart DEF ScopedInit
<1>2. LocalInv /\ RemoteInv /\ [ScopedNext]_<<commandVars, remoteVars>> => (LocalInv /\ RemoteInv)'
  BY LocalStep, RemoteStep DEF ScopedNext
<1>3. LocalInv /\ RemoteInv => CommandsAreHonest
  BY LocalImplies, RemoteImplies DEF CommandsAreHonest
<1> QED
  BY <1>1, <1>2, <1>3, PTL DEF ScopedSpec
=============================================================================
