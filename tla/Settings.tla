------------------------------ MODULE Settings ------------------------------
(***************************************************************************)
(* The user's config file (config.py) and the per-project decisions about  *)
(* inherited environment variables that share it (env_pin.py,              *)
(* env_sources.py).  Every command reads the file, changes its copy and    *)
(* writes the file again; nothing locks it.  save_config writes in place,  *)
(* a decision is written by a rename.  Two settings stand for all: the     *)
(* daemon port and the remote workspace, each with an environment variable.*)
(***************************************************************************)
EXTENDS Integers, FiniteSets

CONSTANTS Procs,        \* commands that may run at once
          Values,       \* values of a setting; 0 is the default, or unset
          MaxCrashes,   \* bound: commands killed half way
          MaxCommands   \* bound: commands started

VARIABLES file,         \* the config file
          env,          \* SMARTMEMORY_DAEMON_PORT and _TEAM_ID in the shell
          proc,         \* per command: what it does next, and its copy
          crashes,      \* left of MaxCrashes
          commands,     \* left of MaxCommands
          made,         \* history: the decision last made and not reset
          alone         \* history: no two commands overlapped, none died

configVars == <<file, env, proc, crashes, commands, made, alone>>

Fields == {"port", "team"}
Unset == 0
Undecided == -1
Ignore == -2
Given == Values \cup {Unset}
Decisions == {Undecided, Ignore} \cup Values            \* a value: override
Modes == {"none", "local", "remote"}

Defaults == [mode |-> "none", port |-> Unset, team |-> Unset]
AbsentFile == [is |-> "absent", cfg |-> Defaults, decided |-> Undecided]
EmptyFile == [AbsentFile EXCEPT !.is = "table"]
NoCommand == [at |-> "idle", cfg |-> Defaults, decided |-> Undecided]

SettingsTypeOK ==
    /\ file.is \in {"absent", "broken", "table"} /\ file.cfg.mode \in Modes
    /\ \A f \in Fields : file.cfg[f] \in Given /\ env[f] \in Given
    /\ file.decided \in Decisions /\ made \in Decisions
    /\ \A p \in Procs : proc[p].at \in {"idle", "carry", "write", "fill", "replace"}
    /\ crashes \in 0..MaxCrashes /\ commands \in 0..MaxCommands /\ alone \in BOOLEAN

-----------------------------------------------------------------------------
(* An unreadable file reads as unconfigured, without decisions.            *)
FileLayer == IF file.is = "table" THEN file.cfg ELSE Defaults
Decided == IF file.is = "table" THEN file.decided ELSE Undecided

(* apply_project_env, for the workspace variable: ignored, overridden, or  *)
(* as the shell has it.                                                    *)
EnvValue(f) ==
    IF f = "port" \/ Decided = Undecided THEN env[f]
    ELSE IF Decided = Ignore THEN Unset ELSE Decided

(* load_config, with the environment over the file.                        *)
LoadConfig ==
    [f \in {"mode"} \cup Fields |->
        IF f \in Fields /\ EnvValue(f) # Unset THEN EnvValue(f) ELSE FileLayer[f]]

Starts(p) ==
    /\ proc[p].at = "idle" /\ commands > 0 /\ commands' = commands - 1
    /\ alone' = (alone /\ \A q \in Procs : proc[q].at = "idle")
    /\ UNCHANGED <<file, env, crashes, made>>

Saves(p, cfg) == proc' = [proc EXCEPT ![p] = [at |-> "carry", cfg |-> cfg, decided |-> Undecided]]

(* sm config KEY VALUE, and the login of the remote backend.               *)
ConfigSet(p, f, v) ==
    /\ Starts(p)
    /\ Saves(p, [FileLayer EXCEPT ![f] = v])

ConfigMode(p, m) ==
    /\ Starts(p)
    /\ Saves(p, [FileLayer EXCEPT !.mode = m])

(* sm workspace switch in remote mode.                                     *)
SwitchRemote(p, v) ==
    /\ LoadConfig.mode = "remote" /\ Starts(p)
    /\ Saves(p, [LoadConfig EXCEPT !.team = v])

(* A setup that finds the configured port held by another program moves to *)
(* a free one, unless the user pinned the port in the environment.         *)
EnsureDaemonPortFree(p, v) ==
    /\ EnvValue("port") = Unset /\ v # FileLayer.port
    /\ Starts(p)
    /\ Saves(p, [LoadConfig EXCEPT !.port = v])

(* sm setup and the remote login write a fresh config; the first use of an *)
(* unconfigured store writes the local defaults.                           *)
SetupWrites(p, v) ==
    /\ Starts(p)
    /\ Saves(p, [Defaults EXCEPT !.mode = IF v = Unset THEN "local" ELSE "remote", !.team = v])

DetectAndMigrate(p) ==
    /\ LoadConfig.mode = "none"
    /\ Starts(p)
    /\ Saves(p, [Defaults EXCEPT !.mode = "local"])

-----------------------------------------------------------------------------
(* save_config: tables of other writers are carried over from the file,    *)
(* then it is opened for writing, which empties it, and filled.  A file    *)
(* that is there and cannot be read ends the command.                      *)
MCarryOverTables(p) ==
    /\ proc[p].at = "carry"
    /\ proc' = [proc EXCEPT ![p].at = "write", ![p].decided = Decided]
    /\ UNCHANGED <<file, env, crashes, commands, made, alone>>
CarryOverTables(p) ==
    /\ proc[p].at = "carry"
    /\ proc' = IF file.is = "broken" THEN [proc EXCEPT ![p] = NoCommand]
               ELSE [proc EXCEPT ![p].at = "write", ![p].decided = Decided]
    /\ UNCHANGED <<file, env, crashes, commands, made, alone>>

OpenFile(p) ==
    /\ proc[p].at = "write"
    /\ file' = EmptyFile /\ proc' = [proc EXCEPT ![p].at = "fill"]
    /\ UNCHANGED <<env, crashes, commands, made, alone>>

MFillFile(p) ==
    /\ proc[p].at = "fill"
    /\ file' = [is |-> "table", cfg |-> proc[p].cfg, decided |-> Decided]
    /\ proc' = [proc EXCEPT ![p] = NoCommand]
    /\ UNCHANGED <<env, crashes, commands, made, alone>>
FillFile(p) ==
    /\ proc[p].at = "fill"
    /\ file' = [is |-> "table", cfg |-> proc[p].cfg, decided |-> proc[p].decided]
    /\ proc' = [proc EXCEPT ![p] = NoCommand]
    /\ UNCHANGED <<env, crashes, commands, made, alone>>

(* sm env set and sm env reset (a reset without a decision writes nothing).*)
SetDecision(p, d) ==
    /\ file.is # "broken" /\ d # Decided
    /\ Starts(p)
    /\ proc' = [proc EXCEPT ![p] = [at |-> "replace", cfg |-> FileLayer, decided |-> d]]

WriteTable(p) ==
    /\ proc[p].at = "replace"
    /\ file' = [is |-> "table", cfg |-> proc[p].cfg, decided |-> proc[p].decided]
    /\ made' = proc[p].decided
    /\ proc' = [proc EXCEPT ![p] = NoCommand]
    /\ UNCHANGED <<env, crashes, commands, alone>>

Dies(p) ==
    /\ proc[p].at # "idle" /\ crashes > 0 /\ crashes' = crashes - 1
    /\ proc' = [proc EXCEPT ![p] = NoCommand] /\ alone' = FALSE
    /\ UNCHANGED <<file, env, commands, made>>

(* Between commands the user spoils the file with an editor, or removes    *)
(* it, or works in another shell.                                          *)
UserEdits ==
    /\ \A p \in Procs : proc[p].at = "idle"
    /\ \/ /\ file.is = "table" /\ file' = [AbsentFile EXCEPT !.is = "broken"]
       \/ /\ file.is = "broken" /\ file' = AbsentFile
    /\ made' = Undecided
    /\ UNCHANGED <<env, proc, crashes, commands, alone>>

OtherTerminal ==
    /\ \A p \in Procs : proc[p].at = "idle"
    /\ env' \in [Fields -> Given]
    /\ UNCHANGED <<file, proc, crashes, commands, made, alone>>

-----------------------------------------------------------------------------
ConfigInit ==
    /\ file = AbsentFile /\ env \in [Fields -> Given]
    /\ proc = [p \in Procs |-> NoCommand]
    /\ crashes = MaxCrashes /\ commands = MaxCommands
    /\ made = Undecided /\ alone = TRUE

ConfigNext ==
    \/ UserEdits \/ OtherTerminal
    \/ \E p \in Procs :
         \/ CarryOverTables(p) \/ OpenFile(p) \/ FillFile(p) \/ WriteTable(p) \/ Dies(p)
         \/ DetectAndMigrate(p)
         \/ \E f \in Fields, v \in Values : ConfigSet(p, f, v)
         \/ \E m \in Modes \ {"none"} : ConfigMode(p, m)
         \/ \E v \in Values : SwitchRemote(p, v) \/ EnsureDaemonPortFree(p, v)
         \/ \E v \in Given : SetupWrites(p, v)
         \/ \E d \in Decisions : SetDecision(p, d)

ConfigSpec == ConfigInit /\ [][ConfigNext]_configVars

-----------------------------------------------------------------------------
(* "It must not be rewritten" (env_sources.py:215): no command replaces a  *)
(* config file it could not read, whichever writer, and though an          *)
(* unreadable file looks unconfigured to every reader.                     *)
LeavesTheBroken == file.is = "broken" /\ file' # file => proc' = proc
BrokenIsKept == [][LeavesTheBroken]_configVars

(* A project's decision survives every later save of the settings until it *)
(* is changed or reset, as long as commands run one at a time and to their *)
(* end.                                                                    *)
DecisionsKept ==
    alone /\ (\A p \in Procs : proc[p].at = "idle") /\ file.is = "table" => file.decided = made
=============================================================================
