--------------------------- MODULE MemoryCommand ---------------------------
(***************************************************************************)
(* sm add and sm recall in local mode: the scope header that names the     *)
(* workspace (scope_header.py), the workspace sent with the request, the   *)
(* request to the daemon with its one retry (cli.py), the daemon's own     *)
(* choice (local_api.py, recall_format.py), and the direct access to the   *)
(* store when no daemon answers.  sm add of several lines is one request   *)
(* per line under one header.  Meanwhile the daemon stops and starts, and  *)
(* another shell switches the workspace.                                   *)
(***************************************************************************)
EXTENDS Integers, FiniteSets

CONSTANTS Lines,        \* lines of a piped sm add
          Workspaces,   \* workspace ids of the pin and the environment
          DaemonEnvs,   \* SMARTMEMORY_WORKSPACE_ID of the shell that starts a daemon
          MaxSwitches   \* bound: sm workspace switch by another shell

ASSUME LocalAssumption == "none" \notin Workspaces /\ "none" \notin Lines /\ MaxSwitches \in Nat

VARIABLES shellEnv,     \* SMARTMEMORY_WORKSPACE_ID of the command's shell, or None
          pin,          \* the pinned workspace in workspaces.toml, or None
          server,       \* up or not, and the variable it inherited
          cmd,          \* the command
          inside,       \* lines the daemon has accepted and not yet served
          served,       \* per line: the workspaces it was served in
          times,        \* per line: how often it was served
          answer,       \* per line: what the user was told
          switches,     \* left of MaxSwitches
          steady        \* history: nobody switched while the command ran, and no daemon
                        \* used an inherited workspace for a request that names none

commandVars == <<shellEnv, pin, server, cmd, inside, served, times, answer, switches, steady>>

None == "none"
Untagged == "untagged"
Folder == "folder"          \* the hash of the git root of the current folder
Chosen == Workspaces \cup {None}
NoCommand == [at |-> "idle", writes |-> FALSE, explicit |-> None, cwd |-> FALSE,
         header |-> None, line |-> None, ws |-> None, tries |-> 0]

CommandTypeOK ==
    /\ shellEnv \in Chosen /\ pin \in Chosen
    /\ server.up \in BOOLEAN /\ server.env \in Workspaces \cup {None}
    /\ cmd.at \in {"idle", "header", "inject", "send", "wait", "direct", "over"}
    /\ cmd.tries \in 0..1 /\ cmd.line \in Lines \cup {None}
    /\ \A l \in Lines : times[l] \in 0..3 /\ served[l] \subseteq Workspaces \cup {Untagged, Folder}
    /\ inside \subseteq [line : Lines, ws : Chosen]
    /\ switches \in 0..MaxSwitches /\ steady \in BOOLEAN

Cmd(change) == cmd' = change
Down == [up |-> FALSE, env |-> None]
Running == cmd.at \notin {"idle", "over"}
FirstOf(a, b) == IF a # None THEN a ELSE b
OrUntagged(ws) == IF ws = None THEN Untagged ELSE ws

-----------------------------------------------------------------------------
(* The CLI's own choice: the variable, then the pin.                       *)
LocalOverride == FirstOf(shellEnv, pin)

(* derive_workspace_id: the variable of the process it runs in, the folder,*)
(* or nothing without one.                                                 *)
Derive(env, cwd) == FirstOf(env, IF cwd THEN Folder ELSE None)

(* sm add sends no folder and takes no workspace; sm recall may have both. *)
Begin ==
    /\ cmd.at = "idle"
    /\ \E writes \in BOOLEAN, explicit \in Chosen, cwd \in BOOLEAN, first \in Lines :
         /\ writes => explicit = None /\ ~cwd
         /\ Cmd([NoCommand EXCEPT !.at = "header", !.writes = writes, !.explicit = explicit,
                             !.cwd = cwd, !.line = first])
    /\ UNCHANGED <<shellEnv, pin, server, inside, served, times, answer, switches, steady>>

PrintLocalHeader ==
    /\ cmd.at = "header"
    /\ Cmd([cmd EXCEPT !.at = "inject",
              !.header = OrUntagged(FirstOf(cmd.explicit,
                             FirstOf(LocalOverride, IF cmd.cwd THEN Folder ELSE None)))])
    /\ UNCHANGED <<shellEnv, pin, server, inside, served, times, answer, switches, steady>>

(* apply_local_pin reads the choice again.                                 *)
ApplyLocalPin ==
    /\ cmd.at = "inject"
    /\ Cmd([cmd EXCEPT !.at = "send", !.tries = 0, !.ws = FirstOf(cmd.explicit, LocalOverride)])
    /\ UNCHANGED <<shellEnv, pin, server, inside, served, times, answer, switches, steady>>

-----------------------------------------------------------------------------
(* The line is done: the next one, or the end of the command.  An error    *)
(* ends the command; direct access and a server's answer do not.           *)
Told(what) == answer' = [answer EXCEPT ![cmd.line] = what]
NextLine ==
    \/ \E l \in Lines : /\ cmd.writes /\ answer'[l] = None
                        /\ Cmd([cmd EXCEPT !.at = "inject", !.line = l])
    \/ /\ \A l \in Lines : ~cmd.writes \/ answer'[l] # None
       /\ Cmd([cmd EXCEPT !.at = "over"])
Serve(line, ws) ==
    /\ served' = [served EXCEPT ![line] = @ \cup {OrUntagged(ws)}]
    /\ times' = [times EXCEPT ![line] = @ + 1]

(* A refused connection is tried once more, after a daemon restart had its *)
(* time, and then the store is opened in this process.                     *)
SendRequest ==
    /\ cmd.at = "send"
    /\ IF server.up
       THEN /\ inside' = inside \cup {[line |-> cmd.line, ws |-> cmd.ws]}
            /\ Cmd([cmd EXCEPT !.at = "wait"])
       ELSE /\ Cmd(IF cmd.tries = 0 THEN [cmd EXCEPT !.tries = 1] ELSE [cmd EXCEPT !.at = "direct"])
            /\ UNCHANGED inside
    /\ UNCHANGED <<shellEnv, pin, server, served, times, answer, switches, steady>>

DaemonServes ==
    /\ server.up
    /\ \E r \in inside :
         /\ inside' = inside \ {r}
         /\ Serve(r.line, FirstOf(r.ws, Derive(server.env, cmd.cwd)))
         /\ steady' = (steady /\ (r.ws # None \/ server.env = None))
    /\ UNCHANGED <<shellEnv, pin, server, cmd, answer, switches>>

TakeAnswer ==
    /\ cmd.at = "wait" /\ times[cmd.line] > 0
    /\ Told("done") /\ NextLine
    /\ UNCHANGED <<shellEnv, pin, server, inside, served, times, switches, steady>>

(* A connection that drops under the request: only a read is sent again.   *)
MMayResend == cmd.tries = 0
MayResend == cmd.tries = 0 /\ ~cmd.writes
ConnectionDrops ==
    /\ cmd.at = "wait" /\ (~server.up \/ [line |-> cmd.line, ws |-> cmd.ws] \notin inside)
    /\ IF MayResend
       THEN Cmd([cmd EXCEPT !.at = "send", !.tries = 1]) /\ UNCHANGED answer
       ELSE IF cmd.writes
            THEN Told("maybe") /\ Cmd([cmd EXCEPT !.at = "over"])
            ELSE Cmd([cmd EXCEPT !.at = "direct"]) /\ UNCHANGED answer
    /\ UNCHANGED <<shellEnv, pin, server, inside, served, times, switches, steady>>

(* No answer in time, while the daemon may still be at it.                 *)
TimesOut ==
    /\ cmd.at = "wait"
    /\ Told(IF cmd.writes THEN "maybe" ELSE "failed") /\ Cmd([cmd EXCEPT !.at = "over"])
    /\ UNCHANGED <<shellEnv, pin, server, inside, served, times, switches, steady>>

(* In process: a write is stamped with the workspace sent, a recall        *)
(* derives what was not.  A store another process holds ends the command.  *)
DirectWrite ==
    /\ cmd.at = "direct" /\ cmd.writes
    /\ \/ Serve(cmd.line, cmd.ws) /\ Told("done") /\ NextLine
       \/ Told("failed") /\ Cmd([cmd EXCEPT !.at = "over"]) /\ UNCHANGED <<served, times>>
    /\ UNCHANGED <<shellEnv, pin, server, inside, switches, steady>>

DirectRecall ==
    /\ cmd.at = "direct" /\ ~cmd.writes
    /\ Serve(cmd.line, FirstOf(cmd.ws, Derive(shellEnv, cmd.cwd))) /\ Told("done") /\ NextLine
    /\ UNCHANGED <<shellEnv, pin, server, inside, switches, steady>>

-----------------------------------------------------------------------------
DaemonStarts ==
    /\ ~server.up
    /\ \E env \in DaemonEnvs : server' = [up |-> TRUE, env |-> env]
    /\ UNCHANGED <<shellEnv, pin, cmd, inside, served, times, answer, switches, steady>>

DaemonStops ==
    /\ server.up
    /\ server' = Down /\ inside' = {}
    /\ UNCHANGED <<shellEnv, pin, cmd, served, times, answer, switches, steady>>

(* sm workspace switch: a workspace, or "auto", which unpins.              *)
SwitchLocal ==
    /\ switches > 0 /\ switches' = switches - 1
    /\ \E ws \in Chosen \ {pin} : pin' = ws
    /\ steady' = (steady /\ ~Running)
    /\ UNCHANGED <<shellEnv, server, cmd, inside, served, times, answer>>

CommandInit ==
    /\ shellEnv \in Chosen /\ pin \in Chosen
    /\ server \in {Down} \cup [up : {TRUE}, env : DaemonEnvs]
    /\ cmd = NoCommand /\ inside = {}
    /\ served = [l \in Lines |-> {}] /\ times = [l \in Lines |-> 0]
    /\ answer = [l \in Lines |-> None]
    /\ switches = MaxSwitches /\ steady = TRUE

CommandNext ==
    \/ Begin \/ PrintLocalHeader \/ ApplyLocalPin \/ SendRequest \/ DaemonServes \/ TakeAnswer
    \/ ConnectionDrops \/ TimesOut
    \/ DirectWrite \/ DirectRecall \/ DaemonStarts \/ DaemonStops \/ SwitchLocal

CommandSpec == CommandInit /\ [][CommandNext]_commandVars

-----------------------------------------------------------------------------
(* A line given to sm add is stored at most once, though the daemon may    *)
(* die before or after it stored it, restart, or answer late; and the user *)
(* is told "done" only of what was stored and "failed" only of what was    *)
(* not, everything else being "it may have succeeded" (cli.py:308).        *)
AddedOnce ==
    \A l \in Lines :
        cmd.writes => /\ times[l] <= 1
                      /\ answer[l] = "done" => times[l] = 1
                      /\ answer[l] = "failed" => times[l] = 0

(* "Send the workspace the header names" (scope_header.py:301): whoever    *)
(* serves a line uses the workspace the header printed, unless another     *)
(* shell switched the workspace in between or a daemon that inherited a    *)
(* workspace was asked without one.                                        *)
HeaderIsTrue == steady => \A l \in Lines : served[l] \subseteq {cmd.header}
=============================================================================
