-------------------------------- MODULE Tour --------------------------------
(***************************************************************************)
(* sm tour: run_tour starts a daemon of its own on a port of its own over  *)
(* a temporary store, the terminal UI runs the arc against that port in a  *)
(* thread, and the daemon is stopped and its store removed when the UI     *)
(* returns.  External: the spawned daemon, whatever else listens on the    *)
(* port, what a daemon answers, and whether the UI returns before the      *)
(* thread of the arc has ended.                                            *)
(***************************************************************************)
EXTENDS Integers

CONSTANT MaxFacts       \* bound: the seeded facts (8 in the code); the first is the one searched

VARIABLES opts,         \* keep, the port, --code, and whether ./CLAUDE.md has text
          at,           \* where run_tour is
          attempt,      \* of TourDaemon.start
          error,        \* what start is failing with
          process,      \* TourDaemon.process is set
          own,          \* the spawned process
          other,        \* what else listens on the port
          dirs,         \* the temporary stores on disk, by attempt
          stores,       \* what the tour wrote to either daemon
          arc,          \* the arc in its thread
          told,         \* what the last screen said
          met,          \* history: who answered the identity check
          impatient     \* history: stop was interrupted

tourVars == <<opts, at, attempt, error, process, own, other, dirs, stores, arc, told, met, impatient>>
daemonVars == <<attempt, error, process, own, other, dirs, met, impatient>>

Attempts == IF opts.port = "auto" THEN 3 ELSE 1
Facts == 1..MaxFacts
Bound == {"warming", "ready", "degraded"}
Alive == Bound \cup {"starting"}
NoArc == [at |-> "none", fact |-> 1, seeded |-> {}, found |-> FALSE, imported |-> FALSE]
Working == {"seed", "search", "recall", "import", "lookup", "ask"}

TourTypeOK ==
    /\ opts \in [keep : BOOLEAN, port : {"auto", "given"}, code : BOOLEAN, file : BOOLEAN]
    /\ at \in {"select", "launch", "wait", "check", "stop", "intro", "running", "leaving", "ended"}
    /\ attempt \in 1..3 /\ error \in {"none", "exited", "other"} /\ process \in BOOLEAN
    /\ own \in Alive \cup {"none", "exited"} /\ other \in {"none", "alien", "old", "empty", "grown"}
    /\ dirs \subseteq 1..3 /\ stores \in [{"own", "other"} -> SUBSET (Facts \cup {0})]
    /\ arc \in [at : Working \cup {"none", "done", "degraded", "stub", "failed"}, fact : 1..(MaxFacts + 1),
                seeded : SUBSET Facts, found : BOOLEAN, imported : BOOLEAN]
    /\ told \in {"nothing", "complete", "degraded", "failed"}
    /\ met \in {"nobody", "own", "other"} /\ impatient \in BOOLEAN

-----------------------------------------------------------------------------
(* The port: the first to bind it answers, and our own daemon exits when   *)
(* it comes second.  A daemon that others use may hold memories already.   *)
Answering == IF other # "none" THEN "other" ELSE IF own \in Bound THEN "own" ELSE "nobody"
Serves ==
    \/ Answering = "own" /\ own = "ready"
    \/ Answering = "other" /\ other # "alien"
OtherBinds ==
    /\ other = "none" /\ own \notin Bound /\ other' \in {"alien", "old", "empty"}
    /\ UNCHANGED <<opts, at, attempt, error, process, own, dirs, stores, arc, told, met, impatient>>
OtherGrows ==
    /\ other = "empty" /\ other' = "grown"
    /\ UNCHANGED <<opts, at, attempt, error, process, own, dirs, stores, arc, told, met, impatient>>
OwnMoves ==
    /\ \/ own = "starting" /\ own' = IF other = "none" THEN "warming" ELSE "exited"
       \/ own = "warming" /\ own' \in {"ready", "degraded"}
       \/ own \in Alive /\ own' = "exited"
    /\ UNCHANGED <<opts, at, attempt, error, process, other, dirs, stores, arc, told, met, impatient>>

-----------------------------------------------------------------------------
(* TourDaemon.start: a port that was asked for must be free; a port that   *)
(* was found free can be taken before our daemon binds it.                 *)
Fails(why) == at' = "stop" /\ error' = why
SelectPort ==
    /\ at = "select"
    /\ IF opts.port = "auto" THEN other' = "none" /\ at' = "launch"
       ELSE other' = other /\ at' = IF other = "none" THEN "launch" ELSE "ended"
    /\ UNCHANGED <<opts, attempt, error, process, own, dirs, stores, arc, told, met, impatient>>
Launch ==
    /\ at = "launch" /\ dirs' = dirs \cup {attempt}
    /\ \/ own' = "starting" /\ process' = TRUE /\ at' = "wait" /\ UNCHANGED error
       \/ Fails("other") /\ UNCHANGED <<own, process>>
    /\ UNCHANGED <<opts, attempt, other, stores, arc, told, met, impatient>>

(* _wait_until_healthy, one poll: the process first, then whoever answers. *)
Wait ==
    /\ at = "wait"
    /\ \/ own = "exited" /\ Fails("exited")
       \/ own # "exited" /\ Answering = "own" /\ own = "degraded" /\ Fails("other")
       \/ own # "exited" /\ Serves /\ at' = "check" /\ UNCHANGED error
    /\ UNCHANGED <<opts, attempt, process, own, other, dirs, stores, arc, told, met, impatient>>
GiveUp ==           \* the deadline, or the interrupt of the user
    /\ at \in {"wait", "check"} /\ Fails("other")
    /\ UNCHANGED <<opts, attempt, process, own, other, dirs, stores, arc, told, met, impatient>>

(* _assert_reached_empty_store: whoever answers now must hold nothing.     *)
HoldsNothing == Answering = "own" \/ other = "empty"
CheckEmpty ==
    /\ at = "check"
    /\ IF Serves /\ HoldsNothing THEN at' = "intro" /\ met' = Answering /\ UNCHANGED error
       ELSE Fails("other") /\ UNCHANGED met
    /\ UNCHANGED <<opts, attempt, process, own, other, dirs, stores, arc, told, impatient>>

(* TourDaemon.stop: terminate, then kill after 8 seconds; an interrupt     *)
(* meanwhile forgets the process.  The store goes unless it is kept.       *)
Retries == error = "exited" /\ attempt < Attempts
Stopped(interrupted) ==
    /\ process' = FALSE
    /\ interrupted => process /\ own \in Alive
    /\ own' = IF process /\ ~interrupted /\ own \in Alive THEN "exited" ELSE own
    /\ dirs' = IF opts.keep THEN dirs ELSE dirs \ {attempt}
    /\ impatient' = (impatient \/ interrupted)
StopAfterFailure ==
    /\ at = "stop"
    /\ \E interrupted \in BOOLEAN :
         /\ Stopped(interrupted)
         /\ IF Retries /\ ~interrupted
            THEN at' = "select" /\ attempt' = attempt + 1 /\ error' = "none"
            ELSE at' = "ended" /\ UNCHANGED <<attempt, error>>
    /\ UNCHANGED <<opts, other, stores, arc, told, met>>
StopAtExit ==
    /\ at = "leaving" /\ at' = "ended"
    /\ IF opts.code THEN UNCHANGED <<process, own, dirs, impatient>>
       ELSE \E interrupted \in BOOLEAN : Stopped(interrupted)
    /\ UNCHANGED <<opts, attempt, error, other, stores, arc, told, met>>

-----------------------------------------------------------------------------
(* TourApp: Enter starts the arc once and leaves at the end, q leaves.     *)
Enter ==
    /\ \/ at = "intro" /\ at' = "running" /\ arc' = [arc EXCEPT !.at = IF opts.code THEN "stub" ELSE "seed"]
       \/ at = "running" /\ told # "nothing" /\ at' = "leaving" /\ UNCHANGED arc
    /\ UNCHANGED <<opts, stores, told, daemonVars>>
Quit ==
    /\ at \in {"intro", "running"} /\ at' = "leaving"
    /\ UNCHANGED <<opts, stores, arc, told, daemonVars>>
Finish ==
    /\ at = "running" /\ told = "nothing"
    /\ \/ arc.at \in {"done", "stub"} /\ told' = "complete" /\ UNCHANGED at
       \/ arc.at = "degraded" /\ told' = "degraded" /\ UNCHANGED at
       \/ arc.at = "failed" /\ told' = "failed" /\ at' = "leaving"
    /\ UNCHANGED <<opts, stores, arc, daemonVars>>

(* The arc.  A call that fails ends it, and so does an event it cannot     *)
(* show any more after the UI has left.                                    *)
Step(stage) == arc.at = stage /\ UNCHANGED <<opts, at, told, daemonVars>>
Failed == arc' = [arc EXCEPT !.at = "failed"]
Kept(what) == stores' = [stores EXCEPT ![Answering] = @ \cup {what}]
CallFails ==
    /\ arc.at \in Working \ {"ask"} /\ Step(arc.at) /\ Failed
    /\ \/ UNCHANGED stores
       \/ Serves /\ arc.at = "seed" /\ arc.fact \in Facts /\ Kept(arc.fact)
       \/ Serves /\ arc.at = "import" /\ opts.file /\ Kept(0)
CannotShow ==
    /\ at \in {"leaving", "ended"} /\ arc.at \in Working /\ Step(arc.at) /\ Failed /\ UNCHANGED stores

SeedFact ==
    /\ Step("seed") /\ arc.fact \in Facts /\ Serves
    /\ \/ Kept(arc.fact) /\ arc' = [arc EXCEPT !.fact = @ + 1, !.seeded = @ \cup {arc.fact}]
       \/ UNCHANGED stores /\ arc' = [arc EXCEPT !.fact = @ + 1]        \* held
Seeded ==
    /\ Step("seed") /\ arc.fact \notin Facts /\ arc' = [arc EXCEPT !.at = "search"] /\ UNCHANGED stores
SearchStep ==
    /\ Step("search") /\ Serves /\ UNCHANGED stores
    /\ \E found \in BOOLEAN :
         /\ found => 1 \in stores[Answering]
         /\ arc' = [arc EXCEPT !.at = "recall", !.found = found]

(* _tour_degraded_reason judges the search and the recall together.        *)
Judged(found, recalled) == IF found /\ recalled THEN "import" ELSE "degraded"
RecallStep ==
    /\ Step("recall") /\ Serves /\ UNCHANGED stores
    /\ \E recalled \in BOOLEAN :
         /\ recalled => stores[Answering] \cap Facts # {}
         /\ arc' = [arc EXCEPT !.at = Judged(arc.found, recalled)]
ImportFile ==
    /\ Step("import")
    /\ \/ ~opts.file /\ arc' = [arc EXCEPT !.at = "ask"] /\ UNCHANGED stores
       \/ opts.file /\ Serves /\ Kept(0) /\ arc' = [arc EXCEPT !.at = "lookup", !.imported = TRUE]
       \/ opts.file /\ Serves /\ UNCHANGED stores /\ arc' = [arc EXCEPT !.at = "lookup"]
ImportSearch ==
    /\ Step("lookup") /\ Serves /\ arc' = [arc EXCEPT !.at = "ask"] /\ UNCHANGED stores
AskStep ==          \* an answer, or the reason why there is none
    /\ Step("ask") /\ arc' = [arc EXCEPT !.at = "done"] /\ UNCHANGED stores

TourInit ==
    /\ opts \in {o \in [keep : BOOLEAN, port : {"auto", "given"}, code : BOOLEAN, file : BOOLEAN] :
                   o.code => ~o.keep /\ ~o.file /\ o.port = "auto"}
    /\ at = (IF opts.code THEN "intro" ELSE "select")
    /\ attempt = 1 /\ error = "none" /\ process = FALSE /\ own = "none" /\ other = "none" /\ dirs = {}
    /\ stores = [d \in {"own", "other"} |-> {}] /\ arc = NoArc /\ told = "nothing"
    /\ met = "nobody" /\ impatient = FALSE
TourNext ==
    \/ OtherBinds \/ OtherGrows \/ OwnMoves
    \/ SelectPort \/ Launch \/ Wait \/ GiveUp \/ CheckEmpty \/ StopAfterFailure \/ StopAtExit
    \/ Enter \/ Quit \/ Finish
    \/ CallFails \/ CannotShow \/ SeedFact \/ Seeded \/ SearchStep \/ RecallStep
    \/ ImportFile \/ ImportSearch \/ AskStep
TourSpec == TourInit /\ [][TourNext]_tourVars

-----------------------------------------------------------------------------
(* tour.py:722 Wherever the tour failed or was left, no process of its own *)
(* runs when it has ended and no store of its own is on disk, unless the   *)
(* user asked to keep it; only an interrupt while it stops is too much.    *)
LeavesNothing ==
    (at = "ended" /\ ~impatient) => own \notin Alive /\ (dirs = {} \/ opts.keep)

(* tour.py:775 A store that held memories when its daemon took the port is *)
(* written to only when it came after the check, in place of our own.      *)
OthersUntouched ==
    (stores["other"] # {} /\ other = "old") => met = "own" /\ own = "exited"

(* tour.py:362 "Tour complete" means that the fact that was searched for   *)
(* is stored where the tour wrote, the facts counted are stored, and an    *)
(* import told of has happened.                                            *)
Written == stores["own"] \cup stores["other"]
TourIsTrue ==
    /\ (told = "complete" /\ ~opts.code) => 1 \in arc.seeded
    /\ arc.seeded \subseteq Written
    /\ arc.imported => 0 \in Written
=============================================================================
