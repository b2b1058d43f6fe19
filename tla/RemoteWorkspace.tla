-------------------------- MODULE RemoteWorkspace --------------------------
(***************************************************************************)
(* Remote mode: which account and which workspace a command touches, and   *)
(* what it says of them (scope_header.py, cli_workspace.py, remote_cli.py, *)
(* remote_backend.py, setup.py, config.py).  The API key is in the         *)
(* keychain, the chosen workspace in config.toml, the identity the last    *)
(* sm workspace command fetched in workspaces.toml, and the account's      *)
(* default workspace and the saved pick with the service.  A shell may set *)
(* SMARTMEMORY_TEAM_ID or SMARTMEMORY_API_KEY, which win over what is      *)
(* stored.  Commands of several shells interleave; requests fail; a        *)
(* command may die between its writes.                                     *)
(***************************************************************************)
EXTENDS Integers, FiniteSets

CONSTANTS Accounts,     \* accounts of the service
          Shells,       \* shells that run one command after another
          Environments, \* [team, key] per shell: what they may have set of the two variables
          MaxCommands,  \* bound: commands run
          MaxFaults,    \* bound: failing keychains and requests, dying commands
          MaxMoves      \* bound: default workspace changed at the service

Team == Accounts \X {1, 2}
NoTeam == <<"none", 0>>
NoAccount == "none"
Owner(team) == team[1]
OrNoTeam == Team \cup {NoTeam}
NoCache == [key |-> NoAccount, account |-> NoAccount, default |-> NoTeam]

ASSUME RemoteAssumption ==
    /\ NoAccount \notin Accounts
    /\ Environments \subseteq [Shells -> [team : OrNoTeam, key : Accounts \cup {NoAccount}]]
    /\ MaxCommands \in Nat /\ MaxFaults \in Nat /\ MaxMoves \in Nat

VARIABLES keychain,     \* the account of the stored key
          teamId,       \* team_id of config.toml
          cache,        \* the identity in workspaces.toml
          shellVars,    \* per shell, its two variables
          default,      \* per account, the default the service knows
          picked,       \* per account, the selection saved with the service
          drain,        \* the marker remote-drain, by which hooks start the drainer
          remote,       \* per shell, the command
          requests, faults, moves,
          past          \* history: which of Marks have happened

remoteVars == <<keychain, teamId, cache, shellVars, default, picked, drain, remote, requests,
                faults, moves, past>>

(* A command changed the key or the team under another; a header or a      *)
(* verdict was false; a team was chosen that is not of the stored key's    *)
(* account: the keychain refused the key, a login died, the shell had its  *)
(* own key, --force.                                                       *)
Marks == {"overlap", "false", "apart"}

Resting == [at |-> "idle", kind |-> "none", team |-> NoTeam, key |-> NoAccount, target |-> NoTeam,
            named |-> NoTeam, tenant |-> NoAccount, used |-> NoTeam]
Kinds == {"none", "request", "current", "create", "created", "switch", "login"}
RemoteStages == {"idle", "begin", "connect", "send", "cache", "post", "save", "pick", "check",
           "key", "config", "drain"}

RemoteTypeOK ==
    /\ keychain \in Accounts /\ teamId \in OrNoTeam
    /\ cache \in [key : Accounts \cup {NoAccount}, account : Accounts \cup {NoAccount},
                  default : OrNoTeam]
    /\ shellVars \in [Shells -> [team : OrNoTeam, key : Accounts \cup {NoAccount}]]
    /\ remote \in [Shells -> [at : RemoteStages, kind : Kinds, team : OrNoTeam,
                              key : Accounts \cup {NoAccount}, target : OrNoTeam, named : OrNoTeam,
                              tenant : Accounts \cup {NoAccount}, used : OrNoTeam]]
    /\ default \in [Accounts -> Team] /\ picked \in [Accounts -> OrNoTeam]
    /\ requests \in 0..MaxCommands /\ faults \in 0..MaxFaults /\ moves \in 0..MaxMoves
    /\ past \subseteq Marks /\ drain \in BOOLEAN

Step(s, change) == remote' = [remote EXCEPT ![s] = change]
Goes(s, stage) == Step(s, [remote[s] EXCEPT !.at = stage])
Fault == faults > 0 /\ faults' = faults - 1
Others(s) == \E t \in Shells \ {s} : remote[t].at # "idle"
FirstTeam(a, b) == IF a # NoTeam THEN a ELSE b
Mark(m, happened) == IF happened THEN {m} ELSE {}
(* get_api_key: the shell's key over the stored one.                       *)
Key(s) == IF shellVars[s].key # NoAccount THEN shellVars[s].key ELSE keychain

-----------------------------------------------------------------------------
(* load_config: the shell's variable over the file.                        *)
Configured(s) == FirstTeam(shellVars[s].team, teamId)
Start(s, command) ==
    /\ remote[s].at = "idle" /\ requests > 0 /\ requests' = requests - 1
    /\ Step(s, command)
    /\ UNCHANGED <<keychain, teamId, cache, shellVars, default, picked, drain, faults, moves, past>>
StartRequest(s) ==
    Start(s, [Resting EXCEPT !.at = "begin", !.kind = "request", !.team = Configured(s)])
StartCurrent(s) ==
    Start(s, [Resting EXCEPT !.at = "begin", !.kind = "current", !.team = Configured(s)])
StartCreate(s) ==
    Start(s, [Resting EXCEPT !.at = "begin", !.kind = "create", !.team = Configured(s)])
StartSwitch(s) == \E t \in Team :
    Start(s, [Resting EXCEPT !.at = "begin", !.kind = "switch", !.team = Configured(s), !.target = t])
StartLogin(s) == \E a \in Accounts :
    Start(s, [Resting EXCEPT !.at = "begin", !.kind = "login", !.key = a])

(* The cached identity counts only for the key it was fetched with.        *)
Cached(s) == IF cache.key = Key(s) THEN cache ELSE NoCache

PrintHeader(s) ==
    /\ remote[s].at = "begin" /\ remote[s].kind = "request"
    /\ Step(s, [remote[s] EXCEPT !.at = "connect", !.tenant = Cached(s).account,
                  !.named = FirstTeam(remote[s].team, Cached(s).default)])
    /\ UNCHANGED <<keychain, teamId, cache, shellVars, default, picked, drain, requests, faults, moves, past>>

(* RemoteMemory: the key, and the account's default unless /auth/me fails. *)
Connect(s) ==
    /\ remote[s].at = "connect"
    /\ \/ /\ Step(s, [remote[s] EXCEPT !.at = "send", !.key = Key(s),
                        !.used = FirstTeam(remote[s].team, default[Key(s)])])
          /\ UNCHANGED faults
       \/ Step(s, [remote[s] EXCEPT !.at = "send", !.key = Key(s), !.used = remote[s].team]) /\ Fault
    /\ UNCHANGED <<keychain, teamId, cache, shellVars, default, picked, drain, requests, moves, past>>

(* The hosted request goes out with the key and the workspace, which may be*)
(* none: then the service takes the pick it saved, or the default.  The    *)
(* header was true if it named the account and the workspace.              *)
Workspace(c) == FirstTeam(c.used, FirstTeam(picked[c.key], default[c.key]))
HeaderTrue(c) == c.tenant \in {NoAccount, c.key} /\ c.named \in {NoTeam, Workspace(c)}
SendHosted(s) ==
    /\ remote[s].at = "send" /\ Step(s, Resting)
    /\ past' = past \cup Mark("false", ~HeaderTrue(remote[s]))
    /\ UNCHANGED <<keychain, teamId, cache, shellVars, default, picked, drain, requests, faults, moves>>

-----------------------------------------------------------------------------
(* sm workspace current, create and switch ask for the account and its     *)
(* workspaces (and the team names, whose failure is only a warning), with  *)
(* one client and so with one key.                                         *)
RemoteIdentity(s) ==
    /\ remote[s].at = "begin" /\ remote[s].kind \in {"current", "create", "created", "switch"}
    /\ \E key \in Accounts :
         /\ key = IF remote[s].kind = "created" THEN remote[s].key ELSE Key(s)
         /\ \/ /\ Step(s, [remote[s] EXCEPT !.at = "cache", !.key = key, !.used = default[key]])
               /\ UNCHANGED faults
            \/ Step(s, Resting) /\ Fault
    /\ UNCHANGED <<keychain, teamId, cache, shellVars, default, picked, drain, requests, moves, past>>

(* The identity is cached under the key as it is read now.  Then a switch  *)
(* looks for its target in the account's workspaces, which --force skips;  *)
(* a create goes on unless the name is taken, and the second time, with    *)
(* the workspace there, switches if told to.                               *)
AfterIdentity(c) ==
    CASE c.kind = "current" -> {"check"}
      [] c.kind = "create" -> {"post", "idle"}
      [] c.kind = "created" -> {"save", "idle"}
      [] OTHER -> {"save"} \cup IF Owner(c.target) # c.key THEN {"idle"} ELSE {}
CacheIdentity(s) ==
    /\ remote[s].at = "cache"
    /\ cache' = [key |-> Key(s), account |-> remote[s].key, default |-> remote[s].used]
    /\ \E next \in AfterIdentity(remote[s]) :
         IF next = "idle" THEN Step(s, Resting) ELSE Goes(s, next)
    /\ UNCHANGED <<keychain, teamId, shellVars, default, picked, drain, requests, faults, moves, past>>

(* The new workspace is one of the account's; the identity is fetched again.*)
CreateWorkspace(s) ==
    /\ remote[s].at = "post"
    /\ \/ /\ \E t \in Team : /\ Owner(t) = remote[s].key
                             /\ Step(s, [remote[s] EXCEPT !.at = "begin", !.kind = "created", !.target = t])
          /\ UNCHANGED faults
       \/ Step(s, Resting) /\ Fault
    /\ UNCHANGED <<keychain, teamId, cache, shellVars, default, picked, drain, requests, moves, past>>

(* The choice is saved, and the service told, which may refuse.            *)
SwitchRemote(s) ==
    /\ remote[s].at = "save"
    /\ teamId' = remote[s].target
    /\ past' = past \cup Mark("overlap", Others(s))
                    \cup Mark("apart", Owner(remote[s].target) # remote[s].key \/ shellVars[s].key # NoAccount)
    /\ Step(s, [remote[s] EXCEPT !.at = "pick", !.team = remote[s].target])
    /\ UNCHANGED <<keychain, cache, shellVars, default, picked, drain, requests, faults, moves>>
SaveSessionSelection(s) ==
    /\ remote[s].at = "pick"
    /\ \/ /\ Owner(remote[s].target) = remote[s].key
          /\ picked' = [picked EXCEPT ![remote[s].key] = remote[s].target] /\ UNCHANGED faults
       \/ Owner(remote[s].target) # remote[s].key /\ UNCHANGED <<picked, faults>>
       \/ Fault /\ UNCHANGED picked
    /\ IF remote[s].kind = "created" THEN Step(s, Resting) ELSE Goes(s, "check")
    /\ UNCHANGED <<keychain, teamId, cache, shellVars, default, drain, requests, moves, past>>

(* The console check says MATCH when the workspace of this shell is the    *)
(* account's default; it is true if the next request would use that one.   *)
SaysMatch(s) ==
    FirstTeam(shellVars[s].team,
              FirstTeam(remote[s].team, FirstTeam(Cached(s).default, remote[s].used))) = remote[s].used
AgreesNow(s) == FirstTeam(Configured(s), default[Key(s)]) = default[Key(s)]
ConsoleCheck(s) ==
    /\ remote[s].at = "check" /\ Step(s, Resting)
    /\ past' = past \cup Mark("false", SaysMatch(s) # AgreesNow(s))
    /\ UNCHANGED <<keychain, teamId, cache, shellVars, default, picked, drain, requests, faults, moves>>

-----------------------------------------------------------------------------
(* sm login: the key is checked, kept, and the account's default becomes   *)
(* the chosen workspace, whatever was chosen before.                       *)
Validate(s) ==
    /\ remote[s].at = "begin" /\ remote[s].kind = "login"
    /\ \/ /\ Step(s, [remote[s] EXCEPT !.at = "key", !.used = default[remote[s].key]])
          /\ UNCHANGED faults
       \/ Step(s, Resting) /\ Fault
    /\ UNCHANGED <<keychain, teamId, cache, shellVars, default, picked, drain, requests, moves, past>>
SetApiKey(s) ==
    /\ remote[s].at = "key" /\ Goes(s, "config")
    /\ keychain' = remote[s].key /\ past' = past \cup Mark("overlap", Others(s))
    /\ UNCHANGED <<teamId, cache, shellVars, default, picked, drain, requests, faults, moves>>
(* A keychain that takes no key is only a warning.                         *)
KeyNotKept(s) ==
    /\ remote[s].at = "key" /\ Fault /\ Goes(s, "config")
    /\ past' = past \cup {"apart"}
    /\ UNCHANGED <<keychain, teamId, cache, shellVars, default, picked, drain, requests, moves>>
SaveLogin(s) ==
    /\ remote[s].at = "config" /\ Goes(s, "drain")
    /\ teamId' = remote[s].used /\ past' = past \cup Mark("overlap", Others(s))
    /\ UNCHANGED <<keychain, cache, shellVars, default, picked, drain, requests, faults, moves>>
SetRemoteDrain(s) ==
    /\ remote[s].at = "drain" /\ drain' = TRUE /\ Step(s, Resting)
    /\ UNCHANGED <<keychain, teamId, cache, shellVars, default, picked, requests, faults, moves, past>>

ShellDies(s) ==
    /\ remote[s].at # "idle" /\ Fault /\ Step(s, Resting)
    /\ past' = past \cup Mark("apart", remote[s].at = "config")
    /\ UNCHANGED <<keychain, teamId, cache, shellVars, default, picked, drain, requests, moves>>

(* The account's default changes in the web console.                       *)
DefaultMoves ==
    /\ moves > 0 /\ moves' = moves - 1
    /\ \E t \in Team : default[Owner(t)] # t /\ default' = [default EXCEPT ![Owner(t)] = t]
    /\ UNCHANGED <<keychain, teamId, cache, shellVars, picked, drain, remote, requests, faults, past>>

RemoteInit ==
    /\ keychain \in Accounts /\ teamId \in {NoTeam, <<keychain, 1>>}
    /\ cache \in {NoCache} \cup {[key |-> a, account |-> a, default |-> <<a, 1>>]
                                : a \in Accounts \ {keychain}}   \* of an earlier login
    /\ shellVars \in Environments
    /\ default = [a \in Accounts |-> <<a, 1>>] /\ picked = [a \in Accounts |-> NoTeam]
    /\ remote = [s \in Shells |-> Resting] /\ past = {} /\ drain = FALSE
    /\ requests = MaxCommands /\ faults = MaxFaults /\ moves = MaxMoves

RemoteNext ==
    \/ \E s \in Shells :
         \/ StartRequest(s) \/ StartCurrent(s) \/ StartCreate(s) \/ StartSwitch(s) \/ StartLogin(s)
         \/ PrintHeader(s) \/ Connect(s) \/ SendHosted(s)
         \/ RemoteIdentity(s) \/ CacheIdentity(s) \/ CreateWorkspace(s)
         \/ SwitchRemote(s) \/ SaveSessionSelection(s) \/ ConsoleCheck(s)
         \/ Validate(s) \/ SetApiKey(s) \/ KeyNotKept(s) \/ SaveLogin(s) \/ SetRemoteDrain(s) \/ ShellDies(s)
    \/ DefaultMoves

RemoteSpec == RemoteInit /\ [][RemoteNext]_remoteVars

-----------------------------------------------------------------------------
(* Nobody logged in or switched under another command, and the account's   *)
(* default never moved: the tenant and the workspace a remote command      *)
(* prints are those its request then uses, and the console check says      *)
(* MATCH just when that is the account's default, whatever was cached by   *)
(* earlier logins and whatever the shell sets ("if it is for this key and  *)
(* API", scope_header.py:98), also when key and workspace do not belong    *)
(* together.                                                               *)
RemoteHeaderIsTrue == "overlap" \notin past /\ moves = MaxMoves => "false" \notin past

(* Between logins the stored key opens the workspace in config.toml: no    *)
(* sequence of logins, switches and failed requests leaves the key of one  *)
(* account with a workspace of another, as long as the commands do not     *)
(* overlap, each login could write both and each switch was by that key.   *)
KeyOpensTheWorkspace ==
    past \cap {"overlap", "apart"} = {} /\ (\A s \in Shells : remote[s].kind # "login") =>
        teamId = NoTeam \/ Owner(teamId) = keychain
=============================================================================
