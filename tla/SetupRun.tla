------------------------------ MODULE SetupRun ------------------------------
(***************************************************************************)
(* sm setup as a resumable, checked sequence of steps: setup_run.py, the   *)
(* progress file of setup_state.py, the plans of setup_steps.py, the       *)
(* checks of setup_verify.py, and the ways into a run (setup.py, the last  *)
(* screen of setup_tui.py).  A step's effect is a member of a set, except  *)
(* for the settings and the daemon, which carry the settings they hold.    *)
(* The user may start, stop and damage things at any time; the process may *)
(* die between any two writes; one write of the progress file may fail.    *)
(***************************************************************************)
EXTENDS Integers, Sequences, Functions

CONSTANTS LocalChoices,    \* answers of a local setup
          RemoteChoices,   \* answers of a remote setup
          Embedders,       \* the local answers with a local embedding model
          MaxRuns,         \* bound: sm setup commands
          MaxDamage,       \* bound: what the user undoes
          MaxLost          \* bound: progress writes that fail

VARIABLES world,           \* settings file, daemon, effects of the other steps
          progress,        \* setup-state.json
          run,             \* the setup process
          said,            \* the last outcome told to the user
          touched,         \* history: what the user changed under this setup
          bounds           \* what is left of the bounds

setupVars == <<world, progress, run, said, touched, bounds>>

SetupChoices == LocalChoices \cup RemoteChoices
Mode(c) == IF c \in LocalChoices THEN "local" ELSE "remote"

OptionalKeys == {"extra_models"}
VerifySteps == <<"mode", "roundtrip">>
HookSteps == <<"hooks", "skills", "register">>

LocalPlan(c, restart) ==
    <<"config", "spacy">> \o (IF c \in Embedders THEN <<"embedding">> ELSE <<>>)
    \o <<"extra_models">> \o HookSteps \o <<"seed">>
    \o (IF restart THEN <<"restart">> ELSE <<>>) \o <<"daemon">>

Plan(p) == (IF Mode(p.choice) = "remote" THEN <<"auth">> \o HookSteps
            ELSE LocalPlan(p.choice, p.restart)) \o VerifySteps

Steps == {"config", "spacy", "embedding", "extra_models", "hooks", "skills", "register", "seed",
          "restart", "daemon", "auth", "mode", "roundtrip"}
Effects == Steps \ {"config", "restart", "daemon", "mode", "roundtrip"}
InPlan(p) == Range(Plan(p))

IndexOf(p, key) == LET plan == Plan(p)
                   IN IF key \in Range(plan) THEN CHOOSE i \in DOMAIN plan : plan[i] = key
                      ELSE Len(plan) + 1

Finished == {"done", "verified"}
Complete(p) == \A key \in InPlan(p) : \/ p.st[key] = "verified"
                                      \/ key \in OptionalKeys /\ p.st[key] = "failed"

Progress == [choice : SetupChoices, restart : BOOLEAN, tui : BOOLEAN,
             st : [Steps -> {"pending", "done", "verified", "failed"}]]
NoProgress == [none |-> TRUE]
IdleRun == [pc |-> "idle"]

SetupTypeOK ==
    /\ world.config \in SetupChoices \cup {"none"} /\ world.daemon \in SetupChoices \cup {"none", "down"}
    /\ world.effects \subseteq Effects /\ world.env \in BOOLEAN
    /\ progress = NoProgress \/ progress \in Progress
    /\ run.pc \in {"idle", "step", "check", "screen"}
    /\ run.pc # "idle" => run.p \in Progress /\ run.at \in 1..(Len(Plan(run.p)) + 1)
    /\ said \in {"nothing", "ready", "stopped"}
    /\ touched \subseteq {"config", "effects"}

SetupInit ==
    /\ \E config \in LocalChoices \cup {"none"}, up \in BOOLEAN :
         world = [config |-> config, daemon |-> IF up THEN config ELSE "down",
                  effects |-> {}, env |-> FALSE]
    /\ progress = NoProgress /\ run = IdleRun /\ said = "nothing" /\ touched = {}
    /\ bounds = [runs |-> MaxRuns, damage |-> MaxDamage, lost |-> MaxLost]

-----------------------------------------------------------------------------
(* The checks.  A check that cannot run has failed, so a check may fail    *)
(* although the effect is there, but it never passes without it; what the  *)
(* save-and-recall check answers depends on the services alone.            *)
Running == world.daemon # "down"

HasConfig(c) == world.config = c
HasLogin(c) == "auth" \in world.effects /\ HasConfig(c)
(* The mode every command resolves, an exported SMARTMEMORY_MODE included. *)
HasMode(c) == ~world.env /\ world.config # "none" /\ Mode(world.config) = Mode(c)

Holds(key, c) ==
    CASE key = "config" -> HasConfig(c)
      [] key = "daemon" -> Running
      [] key = "auth"   -> HasLogin(c)
      [] key = "mode"   -> HasMode(c)
      [] key \in {"restart", "roundtrip"} -> TRUE
      [] OTHER          -> key \in world.effects

Verify(key, c, ok) == ok => Holds(key, c)

(* A status reaches the file unless the write fails, which stops nothing.  *)
Save(p) == \/ progress' = p /\ UNCHANGED bounds
           \/ /\ bounds.lost > 0 /\ UNCHANGED progress
              /\ bounds' = [bounds EXCEPT !.lost = @ - 1]

Marked(p, key, status) == [p EXCEPT !.st[key] = status]
Stop == run' = IdleRun /\ said' = "stopped"

-----------------------------------------------------------------------------
(* Ways into a run.                                                        *)
Fresh(c, restart, tui) == [choice |-> c, restart |-> restart, tui |-> tui,
                           st |-> [key \in Steps |-> "pending"]]

Resumable(mode) == progress # NoProgress /\ ~Complete(progress) /\ (mode = "any" \/ Mode(progress.choice) = mode)

Proceed(p, at, ask) == run' = [pc |-> "step", p |-> p, at |-> at, ask |-> ask]

(* A new run, its progress written before anything else: there is nothing  *)
(* to resume, --restart drops it, or it belongs to the other mode.         *)
StartFresh(c) ==
    /\ run.pc = "idle" /\ bounds.runs > 0
    /\ \E restarted \in BOOLEAN, tui \in {FALSE} \cup IF c \in LocalChoices THEN {TRUE} ELSE {} :
         /\ ~restarted => ~Resumable(Mode(c)) /\ (tui => ~Resumable("any"))
         /\ LET p == Fresh(c, Running /\ c \in LocalChoices /\ ~tui, tui)
            IN /\ progress' = p
               /\ Proceed(p, 1, ~tui)
    /\ bounds' = [bounds EXCEPT !.runs = @ - 1]
    /\ said' = "nothing" /\ touched' = {} /\ UNCHANGED world

(* first_unfinished: the first step that was not recorded as finished, or  *)
(* whose check fails now; the optional one is passed over.  A step that is *)
(* only "done" becomes verified when its check passes.                     *)
Considered(p) == LET plan == Plan(p) IN {i \in DOMAIN plan : plan[i] \notin OptionalKeys}

FirstUnrecorded(p) ==
    LET plan == Plan(p)
        bad == {i \in Considered(p) : p.st[plan[i]] \notin Finished}
    IN IF bad = {} THEN Len(plan) + 1 ELSE CHOOSE i \in bad : \A j \in bad : i <= j

PassesNow(key, c) == Holds(key, c)

MFirstUnfinished(p, at) == at = FirstUnrecorded(p)
FirstUnfinished(p, at) ==
    /\ \/ at = FirstUnrecorded(p)
       \/ at < FirstUnrecorded(p) /\ at \in Considered(p)
    /\ \A i \in Considered(p) : i < at => PassesNow(Plan(p)[i], p.choice)

Promoted(p, at) ==
    LET passed == {Plan(p)[i] : i \in 1..(at - 1)} \ OptionalKeys
    IN [p EXCEPT !.st = [key \in Steps |-> IF key \in passed THEN "verified" ELSE @[key]]]

Resume ==
    /\ run.pc = "idle" /\ bounds.runs > 0 /\ Resumable("any")
    /\ bounds' = [bounds EXCEPT !.runs = @ - 1]
    /\ \E at \in 1..(Len(Plan(progress)) + 1) :
         /\ FirstUnfinished(progress, at)
         /\ progress' = Promoted(progress, at)
         /\ IF at > Len(Plan(progress))
            THEN said' = "ready" /\ UNCHANGED run
            ELSE said' = "nothing" /\ Proceed(Promoted(progress, at), at, TRUE)
    /\ touched' = touched \ {"effects"} /\ UNCHANGED world

-----------------------------------------------------------------------------
(* One step: its body, recorded as done, and its check.  A body that fails *)
(* or is killed may have had its effect.                                   *)
CurrentStep == Plan(run.p)[run.at]

(* _before_restart: whether a daemon runs is asked again when the first of *)
(* the two steps is reached, unless this run has stopped it already.       *)
AskAgain(p) ==
    IF /\ run.ask /\ CurrentStep \in {"restart", "daemon"}
       /\ Mode(p.choice) = "local" /\ p.st["restart"] \notin Finished
    THEN [p EXCEPT !.restart = Running, !.st["restart"] = "pending"] ELSE p
Asked == ~(run.ask /\ CurrentStep \in {"restart", "daemon"})

BeforeRestart ==
    /\ run.pc = "step" /\ run.at <= Len(Plan(run.p)) /\ ~Asked
    /\ run' = [run EXCEPT !.p = AskAgain(run.p), !.ask = FALSE]
    /\ progress' = IF AskAgain(run.p) = run.p THEN progress ELSE AskAgain(run.p)
    /\ UNCHANGED <<world, said, touched, bounds>>

(* What a body changes.  A start of a daemon that runs leaves it alone.    *)
SaveConfig(c) == [world EXCEPT !.config = c]
Login(c) == [world EXCEPT !.config = c, !.effects = @ \cup {"auth"}]
StopDaemon == [world EXCEPT !.daemon = "down"]
StartDaemon == IF Running THEN world ELSE [world EXCEPT !.daemon = world.config]

Done(key, c) ==
    CASE key = "config"  -> SaveConfig(c)
      [] key = "auth"    -> Login(c)
      [] key = "restart" -> StopDaemon
      [] key = "daemon"  -> StartDaemon
      [] key \in {"mode", "roundtrip"} -> world
      [] OTHER -> [world EXCEPT !.effects = @ \cup {key}]

OnScreen == run.p.tui /\ CurrentStep = "daemon" /\ run.p.st["daemon"] = "pending"

InBody == run.pc = "step" /\ run.at <= Len(Plan(run.p)) /\ Asked /\ ~OnScreen
Effect == world' \in {world, Done(CurrentStep, run.p.choice)}

Body ==
    /\ InBody
    /\ \/ world' = Done(CurrentStep, run.p.choice)
       \/ CurrentStep = "extra_models" /\ UNCHANGED world    \* a failed download is a warning
    /\ Save(Marked(run.p, CurrentStep, "done"))
    /\ run' = [run EXCEPT !.pc = "check", !.p = Marked(run.p, CurrentStep, "done")]
    /\ UNCHANGED <<said, touched>>

BodyFails ==
    /\ InBody /\ CurrentStep \notin {"mode", "roundtrip"} /\ Effect
    /\ Save(Marked(run.p, CurrentStep, "failed"))
    /\ Stop /\ UNCHANGED touched

Advance(p) == run' = [run EXCEPT !.pc = "step", !.p = p, !.at = @ + 1]

CheckPasses ==
    /\ run.pc = "check" /\ Verify(CurrentStep, run.p.choice, TRUE)
    /\ Save(Marked(run.p, CurrentStep, "verified"))
    /\ Advance(Marked(run.p, CurrentStep, "verified"))
    /\ UNCHANGED <<world, said, touched>>

CheckFails ==
    /\ run.pc = "check"
    /\ Save(Marked(run.p, CurrentStep, "failed"))
    /\ IF CurrentStep \in OptionalKeys
       THEN Advance(Marked(run.p, CurrentStep, "failed")) /\ UNCHANGED said
       ELSE Stop
    /\ UNCHANGED <<world, touched>>

(* The screen starts the daemon itself and records how the start went in   *)
(* the progress file; the checks run after it has closed.                  *)
ScreenStarts ==
    /\ run.pc = "step" /\ run.at <= Len(Plan(run.p)) /\ OnScreen
    /\ \/ /\ world' = Done("daemon", run.p.choice)
          /\ progress' = Marked(progress, "daemon", "done")
          /\ run' = [run EXCEPT !.pc = "screen"] /\ UNCHANGED said
       \/ progress' = Marked(progress, "daemon", "failed") /\ Stop /\ UNCHANGED world
    /\ UNCHANGED <<touched, bounds>>

VerifyAfterTui ==
    /\ run.pc = "screen"
    /\ IF FirstUnrecorded(progress) < IndexOf(progress, "mode") THEN Stop
       ELSE Proceed(progress, FirstUnrecorded(progress), FALSE) /\ UNCHANGED said
    /\ UNCHANGED <<world, progress, touched, bounds>>

Ready ==
    /\ run.pc = "step" /\ run.at > Len(Plan(run.p))
    /\ run' = IdleRun /\ said' = "ready"
    /\ UNCHANGED <<world, progress, touched, bounds>>

Killed ==
    /\ run.pc # "idle"
    /\ IF InBody THEN Effect ELSE UNCHANGED world
    /\ Stop /\ UNCHANGED <<progress, touched, bounds>>

-----------------------------------------------------------------------------
(* The user: sm start and sm stop in another terminal at any time, which   *)
(* need no care, and what is undone between two attempts.                  *)
UserStarts ==
    /\ ~Running /\ bounds.damage > 0
    /\ world' = [world EXCEPT !.daemon = world.config]
    /\ bounds' = [bounds EXCEPT !.damage = @ - 1]
    /\ UNCHANGED <<progress, run, said, touched>>

UserStops ==
    /\ Running /\ bounds.damage > 0
    /\ world' = [world EXCEPT !.daemon = "down"]
    /\ said' = "nothing"
    /\ bounds' = [bounds EXCEPT !.damage = @ - 1]
    /\ UNCHANGED <<progress, run, touched>>

Damage ==
    /\ bounds.damage > 0 /\ run.pc = "idle" /\ progress # NoProgress
    /\ \/ \E key \in world.effects : world' = [world EXCEPT !.effects = @ \ {key}]
          /\ touched' = touched \cup {"effects"}
       \/ \E c \in (SetupChoices \cup {"none"}) \ {world.config} : world' = [world EXCEPT !.config = c]
          /\ touched' = touched \cup {"config"}
       \/ world' = [world EXCEPT !.env = ~@] /\ UNCHANGED touched
    /\ bounds' = [bounds EXCEPT !.damage = @ - 1] /\ said' = "nothing"
    /\ UNCHANGED <<progress, run>>

(* uninstall stops the daemon, removes hooks, skills, settings and data,   *)
(* and leaves the progress file where it is.                               *)
UninstallAll ==
    /\ run.pc = "idle" /\ bounds.damage > 0 /\ progress # NoProgress
    /\ world' = [world EXCEPT !.config = "none", !.daemon = "down",
                              !.effects = @ \ {"hooks", "skills", "register", "seed"}]
    /\ bounds' = [bounds EXCEPT !.damage = @ - 1]
    /\ said' = "nothing" /\ touched' = touched \cup {"config", "effects"}
    /\ UNCHANGED <<progress, run>>

SetupNext ==
    \/ \E c \in SetupChoices : StartFresh(c)
    \/ Resume \/ BeforeRestart \/ Body \/ BodyFails \/ CheckPasses \/ CheckFails
    \/ ScreenStarts \/ VerifyAfterTui \/ Ready \/ Killed
    \/ UserStarts \/ UserStops \/ Damage \/ UninstallAll

SetupSpec == SetupInit /\ [][SetupNext]_setupVars

-----------------------------------------------------------------------------
(* When the user is told that all is ready, every required effect is there,*)
(* whatever was undone between two attempts: a resume looks again.         *)
ReadyIsInstalled ==
    said = "ready" /\ touched = {} /\ progress # NoProgress
        => \A key \in InPlan(progress) \cap Effects : key \in world.effects \/ key \in OptionalKeys

(* A local text setup that ends in "ready" leaves a daemon that runs with  *)
(* the chosen settings, even if one was started or stopped during the      *)
(* downloads and whichever step an earlier attempt died in.                *)
ReadyDaemonHasTheSettings ==
    said = "ready" /\ "config" \notin touched /\ progress # NoProgress /\ Running
    /\ ~progress.tui /\ Mode(progress.choice) = "local"
        => world.daemon = world.config /\ world.config = progress.choice
=============================================================================
