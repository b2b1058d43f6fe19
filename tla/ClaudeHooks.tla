---------------------------- MODULE ClaudeHooks ----------------------------
(***************************************************************************)
(* What sm setup, every daemon start and sm uninstall do to files that are *)
(* not SmartMemory's alone: the hook scripts in ~/.claude/hooks            *)
(* (hook_install.py, with its record of what was installed) and the hook   *)
(* registrations of one event in ~/.claude/settings.json (setup.py,        *)
(* _register_hooks and _deregister_hooks).  The user and other tools write *)
(* both in between.                                                        *)
(***************************************************************************)
EXTENDS Integers, Sequences, SequencesExt

CONSTANTS Scripts,      \* hook scripts of the package
          Versions,     \* versions of the package, 1..n
          Released,     \* the versions older than the record file
          MaxWrites,    \* bound: writes of the user to a script
          Entries       \* registrations other tools or the user may write

VARIABLES hook,         \* per script: the bytes there
          record,       \* installed-hooks.json
          pkg,          \* installed package version
          installer,    \* the process in install_hooks
          settings,     \* registrations of the event, in order
          writes,       \* left of MaxWrites
          guarded,      \* history: an install has run to its end
          wrote         \* history: versions an install put into, or found in, a script

hooksVars == <<hook, record, pkg, installer, settings, writes, guarded, wrote>>

Missing == 0
Edited == -1          \* bytes of nobody's release
NoRecord == [none |-> TRUE]
Empty == [h \in Scripts |-> Missing]
Idle == [todo |-> {}, known |-> NoRecord, next |-> NoRecord, on |-> FALSE]

HooksTypeOK ==
    /\ \A h \in Scripts : hook[h] \in Versions \cup {Missing, Edited} /\ wrote[h] \subseteq Versions
    /\ record = NoRecord \/ record \in [Scripts -> Versions \cup {Missing}]
    /\ pkg \in Versions /\ installer.todo \subseteq Scripts
    /\ writes \in 0..MaxWrites

-----------------------------------------------------------------------------
(* hook_state: what the installer may do with a script.  The table of past *)
(* releases counts only while there is no record; with one, only the bytes *)
(* it names are ours.                                                      *)
MOurs(h, known) == hook[h] \in Released \/ (known # NoRecord /\ known[h] = hook[h])
Ours(h, known) == IF known = NoRecord THEN hook[h] \in Released
                  ELSE known[h] # Missing /\ known[h] = hook[h]

HookState(h, known) ==
    CASE hook[h] = Missing -> "missing"
      [] hook[h] = pkg     -> "current"
      [] Ours(h, known)          -> "ours"
      [] OTHER                   -> "modified"

(* The record is read, each script is judged and replaced by a rename, and *)
(* the record is written at the end, in a first run even when empty.       *)
LoadRecord ==
    /\ ~installer.on
    /\ \E known \in {record} \cup IF record = NoRecord THEN {} ELSE {Empty} :  \* or unreadable
         installer' = [todo |-> Scripts, known |-> known, on |-> TRUE,
                       next |-> IF known = NoRecord THEN Empty ELSE known]
    /\ UNCHANGED <<hook, record, pkg, settings, writes, guarded, wrote>>

InstallHook(h) ==
    LET state == HookState(h, installer.known)
    IN /\ installer.on /\ h \in installer.todo
       /\ hook' = IF state \in {"missing", "ours"}
                  THEN [hook EXCEPT ![h] = pkg] ELSE hook
       /\ wrote' = IF state = "modified" THEN wrote ELSE [wrote EXCEPT ![h] = @ \cup {pkg}]
       /\ installer' = [installer EXCEPT !.todo = @ \ {h},
                                         !.next[h] = IF state = "modified" THEN @ ELSE pkg]
       /\ UNCHANGED <<record, pkg, settings, writes, guarded>>

SaveRecord ==
    /\ installer.on /\ installer.todo = {}
    /\ record' = installer.next
    /\ installer' = Idle /\ guarded' = TRUE
    /\ UNCHANGED <<hook, pkg, settings, writes, wrote>>

InstallerDies ==
    /\ installer.on /\ installer' = Idle
    /\ UNCHANGED <<hook, record, pkg, settings, writes, guarded, wrote>>

(* The user edits a script, deletes it, or puts an older version back.     *)
UserWrites(h) ==
    /\ writes > 0 /\ writes' = writes - 1
    /\ \E bytes \in Versions \cup {Edited, Missing} :
         /\ bytes # hook[h]
         /\ hook' = [hook EXCEPT ![h] = bytes]
    /\ UNCHANGED <<record, pkg, installer, settings, guarded, wrote>>

OtherVersion ==
    /\ ~installer.on
    /\ \E v \in Versions \ {pkg} : pkg' = v
    /\ UNCHANGED <<hook, record, installer, settings, writes, guarded, wrote>>

-----------------------------------------------------------------------------
(* Registrations: an entry is a matcher and commands; a command is ours as *)
(* setup writes it, ours with another quoting or path form ("stale"), of a *)
(* script we no longer ship ("obsolete"), or somebody else's; the time     *)
(* limit is absent, setup's, or the user's.                                *)
OurCommand == [name |-> "ours", timeout |-> "default"]
DefaultEntry == [matcher |-> "all", hooks |-> <<OurCommand>>]
OwnNames == {"ours", "stale"}

RepairCommand(c) ==
    IF c.name \in OwnNames
    THEN [name |-> "ours", timeout |-> IF c.timeout = "none" THEN "default" ELSE c.timeout]
    ELSE c

Names(e) == {e.hooks[i].name : i \in DOMAIN e.hooks}
Repair(e) ==
    [e EXCEPT !.hooks = LET kept == SelectSeq(e.hooks, LAMBDA c : c.name # "obsolete")
                        IN [i \in DOMAIN kept |-> RepairCommand(kept[i])]]

(* Repaired entries that are ours alone are kept once; an entry of which   *)
(* nothing is left is dropped.                                             *)
KeepOnce(seq, e) ==
    IF e.hooks = <<>> \/ (Names(e) \subseteq {"ours"} /\ Contains(seq, e)) THEN seq
    ELSE Append(seq, e)
Repaired(list) == FoldLeft(LAMBDA seq, e : KeepOnce(seq, Repair(e)), <<>>, list)

Present(list) == \E i \in DOMAIN list : list[i].matcher = "all" /\ "ours" \in Names(list[i])

MRegistered(list) == IF Present(list) THEN Repaired(list) ELSE Append(Repaired(list), DefaultEntry)
Registered(list) ==
    IF Present(Repaired(list)) THEN Repaired(list) ELSE Append(Repaired(list), DefaultEntry)

RegisterHooks ==
    /\ settings' = Registered(settings)
    /\ UNCHANGED <<hook, record, pkg, installer, writes, guarded, wrote>>

(* uninstall drops every entry in which any command names a SmartMemory    *)
(* script, and removes the scripts; the record stays in the data folder    *)
(* unless that goes too.                                                   *)
Deregistered(list) == SelectSeq(list, LAMBDA e : Names(e) \cap (OwnNames \cup {"obsolete"}) = {})

Uninstall ==
    /\ ~installer.on
    /\ settings' = Deregistered(settings)
    /\ hook' = [h \in Scripts |-> Missing]
    /\ \E keep \in BOOLEAN :
         /\ record' = IF keep THEN record ELSE NoRecord
         /\ guarded' = (guarded /\ keep)
    /\ UNCHANGED <<pkg, installer, writes, wrote>>

-----------------------------------------------------------------------------
HooksInit ==
    /\ hook \in [Scripts -> Released \cup {Missing}]
    /\ record = NoRecord /\ pkg \in Versions /\ installer = Idle
    /\ settings \in {<<>>} \cup {<<e>> : e \in Entries} \cup {<<d, e>> : d \in Entries, e \in Entries}
    /\ writes = MaxWrites /\ guarded = FALSE
    /\ wrote = [h \in Scripts |-> {hook[h]} \ {Missing}]

HooksNext ==
    \/ LoadRecord \/ SaveRecord \/ InstallerDies \/ OtherVersion \/ RegisterHooks \/ Uninstall
    \/ \E h \in Scripts : InstallHook(h) \/ UserWrites(h)

HooksSpec == HooksInit /\ [][HooksNext]_hooksVars

-----------------------------------------------------------------------------
(* "A copy replaces a file only when the package can show it wrote the     *)
(* bytes that are there now" (hook_install.py:4): from the first complete  *)
(* install on, what an install replaces is what an install put there, or   *)
(* found to be its own bytes, though installs died half way and the user   *)
(* edited, deleted or put back another release on purpose.                 *)
ReplacesItsOwn ==
    \A h \in Scripts :
        /\ guarded /\ installer.known # NoRecord
        /\ hook[h] # Missing /\ hook'[h] # hook[h] /\ installer'.todo # installer.todo
        => hook[h] \in wrote[h]
UserCopiesKept == [][ReplacesItsOwn]_hooksVars

Foreign(list) ==
    FoldLeft(LAMBDA acc, e : acc \o SelectSeq(e.hooks, LAMBDA c : c.name = "foreign"), <<>>, list)
KeepsUserTime(list) ==
    \E i \in DOMAIN list : \E k \in DOMAIN list[i].hooks :
        list[i].hooks[k].name \in OwnNames /\ list[i].hooks[k].timeout = "user"

(* "Foreign commands, matchers, timeouts and other settings survive        *)
(* unchanged" (setup.py:1364): a repair keeps every command of another     *)
(* tool, in order, and a time limit the user chose, and doing it again     *)
(* changes nothing.                                                        *)
RepairIsSettled ==
    /\ Foreign(Registered(settings)) = Foreign(settings)
    /\ Registered(Registered(settings)) = Registered(settings)
    /\ KeepsUserTime(settings) => KeepsUserTime(Registered(settings))
=============================================================================
