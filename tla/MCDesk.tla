--------------------------------- MODULE MCDesk ---------------------------------
(* Small instances of the components beside the queues and the daemon,     *)
(* which share no variable: which names the one whose steps a behaviour    *)
(* takes, the variables of the others are Off or stay as they began.  The  *)
(* search, the lesson journal, the slices, the mirror and the outbox are   *)
(* extended, the others are instances.                                     *)
EXTENDS MemorySearch, LessonJournal, CaptureSlices, MirrorChannel, ReportOutbox,
        ScopedCommands

CONSTANTS Off, k1, k2, p1, p2, s1, s2, c1, c2, h1, l1, l2, w1, w2, daemon, enricher

VARIABLES
  which,
  world, progress, run, said, touched, bounds,
  hook, record, pkg, installer, settings, writes, guarded, wrote,
  shell, disabled, chain, profile, plist, todo, job,
  config, env, proc, crashes, commands, edited, single,
  memories, call, lessons, fetch, windows, out, at, changes, quiet,
  held, line, code, hosted, hostedFaults, hostedChanges, moved,
  opts, screen, attempt, error, process, own, other, dirs, stores, arc, told, met, impatient,
  pool, request, recent, readable, provider, blocked, holders, stage, way, next, page, related,
  printed, removals, sent

Setup == INSTANCE SetupRun WITH LocalChoices <- {c1}, RemoteChoices <- {c2}, Embedders <- {c1},
           MaxRuns <- 2, MaxDamage <- 1, MaxLost <- 0
Command(name, timeout) == [name |-> name, timeout |-> timeout]
Entry(matcher, hooks) == [matcher |-> matcher, hooks |-> hooks]
Hooks == INSTANCE ClaudeHooks WITH Scripts <- {h1}, Versions <- {1, 2}, Released <- {1},
           MaxWrites <- 1,
           Entries <- { Entry("all", <<Command("ours", "user")>>),
                        Entry("some", <<Command("stale", "none")>>),
                        Entry("all", <<Command("stale", "none")>>),
                        Entry("all", <<Command("obsolete", "none"), Command("foreign", "none")>>),
                        Entry("all", <<Command("foreign", "none"), Command("stale", "user")>>) }
Launch == INSTANCE LaunchKeys WITH Keys <- {k1, k2}, Plists <- {daemon, enricher}
Config == INSTANCE Settings WITH Procs <- {p1, p2}, Values <- {1}, MaxCrashes <- 1,
            MaxCommands <- 3, file <- config, made <- edited, alone <- single
Recalls == INSTANCE Recall WITH MaxRows <- 3, MaxTop <- 2, MaxChanges <- 1,
             store <- memories
NoVariables == [team |-> <<"none", 0>>, key |-> "none"]
DeskShells == {[s \in Shells |-> IF s = s1 THEN v ELSE NoVariables]
                 : v \in {NoVariables, [team |-> <<"a1", 2>>, key |-> "a2"]}}
Hosted == INSTANCE HostedRequest WITH MaxFaults <- 1, MaxChanges <- 1, call <- hosted,
            faults <- hostedFaults, changes <- hostedChanges

Tours == INSTANCE Tour WITH MaxFacts <- 2, at <- screen
Asks == INSTANCE AskAnswers WITH Sources <- {w1, w2}, MaxPool <- 3, MaxPage <- 2, MaxChildren <- 1,
          MaxChanges <- 1, keys <- holders, changes <- removals

DeskWidths == <<1, 2, 3>>

setupState == <<world, progress, run, said, touched, bounds>>
hooksState == <<hook, record, pkg, installer, settings, writes, guarded, wrote>>
launchState == <<shell, disabled, chain, profile, plist, todo, job>>
configState == <<config, env, proc, crashes, commands, edited, single>>
recallState == <<memories, call, lessons, fetch, windows, out, at, changes, quiet>>
hostedState == <<held, line, code, hosted, hostedFaults, hostedChanges, moved>>
tourState == <<opts, screen, attempt, error, process, own, other, dirs, stores, arc, told, met,
               impatient>>
askState == <<pool, request, recent, readable, provider, blocked, holders, stage, way, next, page,
              related, printed, removals, sent>>
deskState == <<which, searchVars, mirrorVars, outboxVars, lessonVars, sliceVars, setupState,
               hooksState, launchState, configState, commandVars, recallState, remoteVars, hostedState,
               tourState, askState>>

DeskInit ==
  /\ which \in {"mirror", "outbox", "journal", "slices", "setup", "hooks", "launch", "config",
                "local", "recall", "search", "remote", "hosted", "tour", "ask"}
  /\ MirrorInit /\ OutboxInit /\ LessonInit
  /\ which = "slices" \/ (which # "slices" /\ newlines = {} /\ limit = 0)
  /\ SliceInit
  /\ IF which = "setup" THEN Setup!SetupInit ELSE
       world = Off /\ progress = Off /\ run = Off /\ said = Off /\ touched = Off /\ bounds = Off
  /\ IF which = "hooks" THEN Hooks!HooksInit ELSE
       /\ hook = Off /\ record = Off /\ pkg = Off /\ installer = Off /\ settings = Off
       /\ writes = Off /\ guarded = Off /\ wrote = Off
  /\ IF which = "launch" THEN Launch!KeyInit ELSE
       /\ shell = Off /\ disabled = Off /\ chain = Off /\ profile = Off /\ plist = Off
       /\ todo = Off /\ job = Off
  /\ IF which = "config" THEN Config!ConfigInit ELSE
       /\ config = Off /\ env = Off /\ proc = Off /\ crashes = Off /\ commands = Off
       /\ edited = Off /\ single = Off
  /\ which = "local" \/ (which # "local" /\ shellEnv = None /\ pin = None /\ server = Down)
  /\ which = "remote" \/ (which # "remote" /\ keychain = "a1" /\ teamId = NoTeam /\ cache = NoCache
                         /\ shellVars = [s \in Shells |-> NoVariables])
  /\ ScopedInit
  /\ IF which = "recall" THEN Recalls!RecallInit ELSE
       /\ memories = Off /\ call = Off /\ lessons = Off /\ fetch = Off /\ windows = Off
       /\ out = Off /\ at = Off /\ changes = Off /\ quiet = Off
  /\ IF which = "hosted" THEN Hosted!HostedInit ELSE
       /\ held = Off /\ line = Off /\ code = Off /\ hosted = Off /\ hostedFaults = Off
       /\ hostedChanges = Off /\ moved = Off
  /\ IF which = "tour" THEN Tours!TourInit ELSE
       /\ opts = Off /\ screen = Off /\ attempt = Off /\ error = Off /\ process = Off /\ own = Off
       /\ other = Off /\ dirs = Off /\ stores = Off /\ arc = Off /\ told = Off /\ met = Off
       /\ impatient = Off
  /\ IF which = "ask" THEN Asks!AskInit ELSE
       /\ pool = Off /\ request = Off /\ recent = Off /\ readable = Off /\ provider = Off
       /\ blocked = Off /\ holders = Off /\ stage = Off /\ way = Off /\ next = Off /\ page = Off
       /\ related = Off /\ printed = Off /\ removals = Off /\ sent = Off
  /\ IF which = "search" THEN SearchInit ELSE
       graph = Off /\ ask = Off /\ round = Off /\ window = Off /\ reply = Off /\ ended = Off /\ grown = Off

DeskNext ==
  /\ UNCHANGED which
  /\ which = "search" \/ (which # "search" /\ UNCHANGED searchVars)
  /\ which = "mirror" \/ (which # "mirror" /\ UNCHANGED mirrorVars)
  /\ which = "outbox" \/ (which # "outbox" /\ UNCHANGED outboxVars)
  /\ which = "journal" \/ (which # "journal" /\ UNCHANGED lessonVars)
  /\ which = "slices" \/ (which # "slices" /\ UNCHANGED sliceVars)
  /\ which = "setup" \/ (which # "setup" /\ UNCHANGED setupState)
  /\ which = "hooks" \/ (which # "hooks" /\ UNCHANGED hooksState)
  /\ which = "launch" \/ (which # "launch" /\ UNCHANGED launchState)
  /\ which = "config" \/ (which # "config" /\ UNCHANGED configState)
  /\ which = "local" \/ (which # "local" /\ UNCHANGED commandVars)
  /\ which = "recall" \/ (which # "recall" /\ UNCHANGED recallState)
  /\ which = "remote" \/ (which # "remote" /\ UNCHANGED remoteVars)
  /\ which = "hosted" \/ (which # "hosted" /\ UNCHANGED hostedState)
  /\ which = "tour" \/ (which # "tour" /\ UNCHANGED tourState)
  /\ which = "ask" \/ (which # "ask" /\ UNCHANGED askState)
  /\ \/ which = "search" /\ SearchNext
     \/ which = "mirror" /\ MirrorNext
     \/ which = "outbox" /\ OutboxNext
     \/ which = "journal" /\ LessonNext
     \/ which = "slices" /\ SliceNext
     \/ which = "setup" /\ Setup!SetupNext
     \/ which = "hooks" /\ Hooks!HooksNext
     \/ which = "launch" /\ Launch!KeyNext
     \/ which = "config" /\ Config!ConfigNext
     \/ which = "local" /\ CommandNext
     \/ which = "recall" /\ Recalls!RecallNext
     \/ which = "remote" /\ RemoteNext
     \/ which = "hosted" /\ Hosted!HostedNext
     \/ which = "tour" /\ Tours!TourNext
     \/ which = "ask" /\ Asks!AskNext

DeskSpec == DeskInit /\ [][DeskNext]_deskState

-----------------------------------------------------------------------------
\* Every variable of the component that moves has its type.
DeskTypesOK ==
  /\ which = "search" => SearchTypeOK
  /\ which = "mirror" => MirrorTypeOK
  /\ which = "outbox" => OutboxTypeOK
  /\ which = "journal" => LessonTypeOK
  /\ which = "slices" => SliceTypeOK
  /\ which = "setup" => Setup!SetupTypeOK
  /\ which = "hooks" => Hooks!HooksTypeOK
  /\ which = "launch" => Launch!LaunchTypeOK
  /\ which = "config" => Config!SettingsTypeOK
  /\ which = "local" => CommandTypeOK
  /\ which = "recall" => Recalls!RecallTypeOK
  /\ which = "remote" => RemoteTypeOK
  /\ which = "hosted" => Hosted!HostedTypeOK
  /\ which = "tour" => Tours!TourTypeOK
  /\ which = "ask" => Asks!AskTypeOK

\* The setup run: "ready" means that every required effect is there and that the daemon
\* runs with the chosen settings; and registering the hooks again changes nothing.
SetupIsTrue ==
  /\ which = "setup" => Setup!ReadyIsInstalled /\ Setup!ReadyDaemonHasTheSettings
  /\ which = "hooks" => Hooks!RepairIsSettled

\* What the user has is kept: edited hook copies, the only copy of a key, a config file
\* that cannot be read, the decision made for a project; and a tour leaves no process and
\* no store behind and writes to no store that held memories.
UserFilesAreKept ==
  /\ [][which = "hooks" => Hooks!ReplacesItsOwn]_deskState
  /\ [][which = "launch" => Launch!LeavesACopy]_deskState
  /\ [][which = "config" => Config!LeavesTheBroken]_deskState
  /\ [](which = "config" => Config!DecisionsKept)
  /\ [](which = "tour" => Tours!LeavesNothing /\ Tours!OthersUntouched)

\* What a recall or a search returns: every slot that can be filled, nothing of another
\* workspace, a short answer only when there is no more, and no failure of the hosted
\* service that looks like an empty answer; what a page of the daemon shows, who wrote the
\* answer to a question, and what a finished tour says.
AnswersAreComplete ==
  /\ which = "recall" => Recalls!FillsItsSlots /\ Recalls!OnlyItsOwn
  /\ which = "search" => SearchIsHonest
  /\ which = "hosted" => Hosted!FailuresSurface /\ Hosted!EmptyIsExplained
  /\ which = "ask" => Asks!PageIsFair /\ Asks!AskIsHonest
  /\ which = "tour" => Tours!TourIsTrue
=============================================================================
