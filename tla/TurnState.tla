------------------------------- MODULE TurnState -------------------------------
(***************************************************************************)
(* The state file of one agent session, sessions/<id>.json, and everything *)
(* that rewrites it: the UserPromptSubmit hook, which saves the prompt and *)
(* then recalls in the daemon or in its own process, the reads the daemon  *)
(* still runs after their answer, and the queued observe and distill jobs. *)
(* Each of them loads the file, works for seconds and saves the whole file *)
(* again, so a save writes back what was loaded before the work.           *)
(* A save is atomic: it replaces the file under its lock. One that times   *)
(* out on that lock, and the phases switched off by configuration, are     *)
(* left out.                                                               *)
(***************************************************************************)
EXTENDS Naturals, Sequences, FiniteSets

CONSTANTS
  Turns, \* bound: prompts the user types
  Tools, \* bound: tool calls of a turn that are observed
  Quick  \* the user types only when no job or read of the session is under way

ASSUME TurnAssumption == Turns \in Nat /\ Tools \in Nat /\ Quick \in BOOLEAN

VARIABLES
  file,     \* sessions/<id>.json: NoFile, or the prompt it holds and the last recalled one
  turn,     \* the number of the prompt being answered
  hook,     \* the place of the UserPromptSubmit hook, or of the agent after it
  used,     \* observed tool calls of this turn
  work,     \* each holder of a loaded state: its place and its copy
  jobs,     \* the session's queued observe and distill jobs
  captured, \* prompts whose hook came as far as saving them
  pairs     \* what distill ingested: <<prompt, turn of the response>>

turnVars == <<file, turn, hook, used, work, jobs, captured, pairs>>

NoPrompt == 0
NoFile == [prompt |-> NoPrompt, recalled |-> NoPrompt, there |-> FALSE]
Fresh == [NoFile EXCEPT !.there = TRUE]
Prompts == 0..Turns
States == [prompt : Prompts, recalled : Prompts, there : BOOLEAN]

\* The hook's own lc, the daemon's orient, the daemon's recall of each turn, the consumer.
Orient == <<"orient", 0>>
Hook == <<"hook", 0>>
Consumer == <<"consumer", 0>>
Reader(k) == <<"recall", k>>
Holders == {Orient, Hook, Consumer} \cup {Reader(k) : k \in 1..Turns}
Idle == [at |-> "off", copy |-> NoFile]
Observe == [phase |-> "observe", pin |-> NoPrompt, turn |-> NoPrompt]
Jobs == [phase : {"observe", "distill"}, pin : Prompts, turn : Prompts]

TurnTypeOK ==
  /\ file \in States /\ turn \in Prompts /\ used \in 0..Tools
  /\ hook \in {"none", "starting", "loading", "captured", "asked", "engine", "answering", "over"}
  /\ \A h \in Holders : work[h].at \in {"off", "loaded"} /\ work[h].copy \in States
  /\ \A i \in DOMAIN jobs : jobs[i] \in Jobs
  /\ captured \subseteq 1..Turns /\ pairs \subseteq Prompts \X (1..Turns)

TurnInit ==
  /\ file = NoFile /\ turn = 0 /\ hook = "none" /\ used = 0
  /\ work = [h \in Holders |-> Idle]
  /\ jobs = <<>> /\ captured = {} /\ pairs = {}

-----------------------------------------------------------------------------
(* MemoryLifecycle: load in the constructor, save at the end of a phase. *)

Loaded == IF file.there THEN file ELSE Fresh
Load(h) == work' = [work EXCEPT ![h] = [at |-> "loaded", copy |-> Loaded]]
Drop(h) == work' = [work EXCEPT ![h] = Idle]
Save(h, state) == file' = state /\ Drop(h)
Holding(h) == work[h].at = "loaded"
Quiet == jobs = <<>> /\ \A h \in Holders : ~Holding(h)

\* What recall leaves in its copy: the prompt, and that it was recalled when the
\* search brought something; a repeated prompt is gated and recalls nothing.
AfterRecall(copy, k) ==
  {[copy EXCEPT !.prompt = k, !.recalled = r] : r \in {copy.recalled, k}}

\* What a queued distill leaves: the prompt is consumed only if it is the pinned one.
AfterDistill(copy, pin) ==
  IF copy.prompt = pin THEN [copy EXCEPT !.prompt = NoPrompt] ELSE copy

-----------------------------------------------------------------------------
(* SessionStart and UserPromptSubmit. *)

\* SessionStart: orient in the daemon. The hook leaves with the answer, at the cap
\* of the read or at its deadline; the daemon's thread goes on in the last two.
StartSession ==
  /\ hook = "none" /\ ~Holding(Orient)
  /\ hook' = "over"
  /\ Load(Orient)
  /\ UNCHANGED <<file, turn, used, jobs, captured, pairs>>
OrientSaves ==
  /\ Holding(Orient) /\ Save(Orient, Fresh)
  /\ UNCHANGED <<turn, hook, used, jobs, captured, pairs>>

\* The user types the next prompt. The hook reads its payload first.
Prompt ==
  /\ hook = "over" /\ turn < Turns /\ (Quick => Quiet)
  /\ turn' = turn + 1 /\ hook' = "starting" /\ used' = 0
  /\ UNCHANGED <<file, work, jobs, captured, pairs>>
HookLoads ==
  /\ hook = "starting" /\ hook' = "loading"
  /\ Load(Hook)
  /\ UNCHANGED <<file, turn, used, jobs, captured, pairs>>

\* capture_prompt, before any recall work. The hook keeps its copy for the engine.
MWithPrompt(copy) == IF copy.prompt = NoPrompt THEN [copy EXCEPT !.prompt = turn] ELSE copy
WithPrompt(copy) == [copy EXCEPT !.prompt = turn]
CapturePrompt ==
  /\ hook = "loading" /\ hook' = "captured"
  /\ file' = WithPrompt(work[Hook].copy)
  /\ work' = [work EXCEPT ![Hook].copy = file']
  /\ captured' = captured \cup {turn}
  /\ UNCHANGED <<turn, used, jobs, pairs>>

\* The daemon runs the recall: it loads the file for itself.
AskDaemon ==
  /\ hook = "captured" /\ hook' = "asked"
  /\ Load(Reader(turn))
  /\ UNCHANGED <<file, turn, used, jobs, captured, pairs>>
ReaderSaves(k) ==
  /\ Holding(Reader(k))
  /\ \E state \in AfterRecall(work[Reader(k)].copy, k) : Save(Reader(k), state)
  /\ UNCHANGED <<turn, hook, used, jobs, captured, pairs>>
\* No daemon, or no answer from it in time: the phase runs in the hook.
RunInProcess ==
  /\ hook \in {"captured", "asked"} /\ hook' = "engine"
  /\ UNCHANGED <<file, turn, used, work, jobs, captured, pairs>>
EngineSaves ==
  /\ hook = "engine" /\ hook' = "answering"
  /\ \E state \in AfterRecall(work[Hook].copy, turn) : Save(Hook, state)
  /\ UNCHANGED <<turn, used, jobs, captured, pairs>>

\* The daemon answered (in full, or empty at its cap with the thread still running),
\* or the hook overran its deadline and exits hard wherever it is.
HookReturns ==
  /\ hook \in {"starting", "loading", "captured", "asked", "engine"}
  /\ hook' = "answering"
  /\ Drop(Hook)
  /\ UNCHANGED <<file, turn, used, jobs, captured, pairs>>

-----------------------------------------------------------------------------
(* The agent answers: PostToolUse and Stop queue jobs for the consumer. *)

QueueObserve ==
  /\ hook = "answering" /\ used < Tools
  /\ used' = used + 1 /\ jobs' = Append(jobs, Observe)
  /\ UNCHANGED <<file, turn, hook, work, captured, pairs>>

\* Stop: the hook copies the state file beside the payload, so the pin is the prompt
\* the file holds now; without a file there is none.
QueueDistill ==
  /\ hook = "answering" /\ hook' = "over"
  /\ jobs' = Append(jobs, [phase |-> "distill", pin |-> file.prompt, turn |-> turn])
  /\ UNCHANGED <<file, turn, used, work, captured, pairs>>

-----------------------------------------------------------------------------
(* The consumer runs the session's jobs one at a time, in order. *)

TakeJob ==
  /\ jobs # <<>> /\ ~Holding(Consumer)
  /\ Load(Consumer)
  /\ UNCHANGED <<file, turn, hook, used, jobs, captured, pairs>>

JobDone == jobs' = Tail(jobs) /\ UNCHANGED <<turn, hook, used, captured>>

\* Ingested: observe counts, distill consumes the prompt; both save their whole copy.
ObserveSaves ==
  /\ Holding(Consumer) /\ Head(jobs).phase = "observe"
  /\ Save(Consumer, work[Consumer].copy)
  /\ UNCHANGED pairs /\ JobDone
DistillSaves ==
  /\ Holding(Consumer) /\ Head(jobs).phase = "distill"
  /\ pairs' = pairs \cup {<<Head(jobs).pin, Head(jobs).turn>>}
  /\ Save(Consumer, AfterDistill(work[Consumer].copy, Head(jobs).pin))
  /\ JobDone

\* ingest held the memory (nothing is saved), or failed with strict: the job is retried.
JobHeld ==
  /\ Holding(Consumer) /\ Drop(Consumer)
  /\ UNCHANGED <<file, pairs>> /\ JobDone
JobRetried ==
  /\ Holding(Consumer) /\ Drop(Consumer)
  /\ UNCHANGED <<file, turn, hook, used, jobs, captured, pairs>>

\* SessionEnd: persist queues the transcript and deletes the state file, without its
\* lock. The session may be resumed under the same id.
EndSession ==
  /\ hook = "over" /\ turn > 0
  /\ file' = NoFile /\ hook' = "none"
  /\ UNCHANGED <<turn, used, work, jobs, captured, pairs>>

TurnNext ==
  \/ StartSession \/ OrientSaves \/ Prompt \/ HookLoads \/ CapturePrompt
  \/ AskDaemon \/ RunInProcess \/ EngineSaves \/ HookReturns
  \/ \E k \in 1..Turns : ReaderSaves(k)
  \/ QueueObserve \/ QueueDistill
  \/ TakeJob \/ ObserveSaves \/ DistillSaves \/ JobHeld \/ JobRetried
  \/ EndSession

TurnSpec == TurnInit /\ [][TurnNext]_turnVars

-----------------------------------------------------------------------------
\* When no job or read of the session is under way as the user types, every response
\* whose prompt was captured is paired with that prompt, though the hook may be killed
\* at its deadline anywhere after the capture and reads may go on after their answer.
PairsItsPrompt == \A pair \in pairs : pair[2] \in captured => pair[1] = pair[2]
=============================================================================
