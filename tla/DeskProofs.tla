----------------------------- MODULE DeskProofs -----------------------------
(***************************************************************************)
(* What the commands at the user's desk promise, for every value of the    *)
(* constants: the last copy of a key is kept (LaunchKeys), a config file   *)
(* that cannot be read and the decision of a project too (Settings), an    *)
(* install replaces what an install wrote (ClaudeHooks), a tour cleans up  *)
(* and writes to nobody else's store (Tour), what a page and an answer of  *)
(* the daemon are (AskAnswers), and what a setup that says "ready" has     *)
(* done (SetupRun).                                                        *)
(***************************************************************************)
EXTENDS SetupRun, LaunchKeys, Settings, ClaudeHooks, Tour, AskAnswers, SequenceTheorems,
        WellFoundedInduction, TLAPS

-----------------------------------------------------------------------------
(* LaunchKeys: while a rewrite runs, a key of the files is stored.         *)

KeyTypes ==
    /\ chain \in [key : Stored, mode : ChainModes]
    /\ profile \in [key : Stored, writable : BOOLEAN]
    /\ shell \in Stored /\ disabled \in Gates
    /\ plist \in [Plists -> Stored \cup {Absent}] /\ todo \subseteq Plists

HasCopy == chain.key # None \/ profile.key # None
CopyInv == todo # {} /\ (\E f \in Plists : plist[f] \in Keys) => HasCopy

\* What a keychain write leaves there is the key or what was there.
LEMMA ChainAfterType ==
  ASSUME KeyTypes, NEW key \in Stored
  PROVE  /\ ChainAfter(key) \in [key : Stored, mode : ChainModes]
         /\ ChainAfter(key).key \in {key, chain.key}
         /\ disabled = "open" /\ chain.mode = "works" => ChainAfter(key).key = key
  BY DEF KeyTypes, ChainAfter

\* The key that setup wants is none or a key; it is one when a file holds one.
LEMMA WantedIsStored ==
  ASSUME KeyTypes, None \notin Keys
  PROVE  /\ WantedKey \in Stored
         /\ (\E f \in Plists : plist[f] \in Keys) => WantedKey # None /\ PlistKey # None
<1>1. PlistKey \in Stored
  BY DEF PlistKey, Stored
<1>2. (\E f \in Plists : plist[f] \in Keys) => PlistKey \in Keys
  <2> SUFFICES ASSUME NEW f \in Plists, plist[f] \in Keys  PROVE PlistKey \in Keys
    OBVIOUS
  <2> QED
    BY DEF PlistKey
<1>3. ChainGet \in Stored
  BY DEF ChainGet, Stored, KeyTypes
<1> QED
  BY <1>1, <1>2, <1>3 DEF WantedKey, FirstOf, Stored, KeyTypes

\* A key that the daemon is shown to read is in the keychain or the profile
\* once the install has tried to store it.
LEMMA ReadableIsStored ==
  ASSUME KeyTypes, None \notin Keys, WantedKey # None, DaemonCanReadKey(WantedKey),
         chain' = IF WantedKey # None /\ WantedKey # ChainGet THEN ChainAfter(WantedKey) ELSE chain
  PROVE  chain'.key # None \/ profile.key # None
<1>1. CASE profile.key = WantedKey
  BY <1>1
<1>2. CASE disabled = "open" /\ ChainGet = WantedKey
  BY <1>2 DEF ChainGet
<1>3. CASE disabled = "open" /\ ChainGet # WantedKey /\ chain.mode = "works"
  BY <1>3, WantedIsStored, ChainAfterType
<1> QED
  BY <1>1, <1>2, <1>3 DEF DaemonCanReadKey

LEMMA KeyTypesStep == None \notin Keys /\ KeyTypes /\ [KeyNext]_keyVars => KeyTypes'
<1> SUFFICES ASSUME None \notin Keys, KeyTypes, [KeyNext]_keyVars  PROVE KeyTypes'
  OBVIOUS
<1> USE DEF KeyTypes
<1>1. CASE KeepKey
  <2>1. shell' \in Stored
    BY <1>1 DEF KeepKey, FirstOf, ChainGet, Stored
  <2> QED
    BY <1>1, <2>1 DEF KeepKey
<1>2. ASSUME NEW key \in Keys, TypeKey(key)  PROVE KeyTypes'
  <2>1. key \in Stored
    BY DEF Stored
  <2>2. chain' \in [key : Stored, mode : ChainModes]
    BY <1>2, <2>1, ChainAfterType DEF TypeKey
  <2>3. profile' \in [key : Stored, writable : BOOLEAN]
    BY <1>2, <2>1 DEF TypeKey
  <2> QED
    BY <1>2, <2>1, <2>2, <2>3 DEF TypeKey
<1>3. CASE InstallLaunchdPlist
  <2>1. chain' \in [key : Stored, mode : ChainModes]
    BY <1>3, WantedIsStored, ChainAfterType DEF InstallLaunchdPlist
  <2> QED
    BY <1>3, <2>1 DEF InstallLaunchdPlist
<1>4. ASSUME NEW f \in Plists, WritePlist(f)  PROVE KeyTypes'
  BY <1>4 DEF WritePlist, Stored
<1>5. CASE UninstallLaunchdPlist
  BY <1>5 DEF UninstallLaunchdPlist
<1>6. CASE StoresChange
  <2>1. chain' \in [key : Stored, mode : ChainModes]
    BY <1>6 DEF StoresChange
  <2>2. profile' \in [key : Stored, writable : BOOLEAN]
    BY <1>6 DEF StoresChange
  <2> QED
    BY <1>6, <2>1, <2>2 DEF StoresChange
<1>7. CASE DaemonStarts \/ SetupDies \/ OtherShell \/ UNCHANGED keyVars
  BY <1>7 DEF DaemonStarts, SetupDies, OtherShell, keyVars
<1> QED
  BY <1>1, <1>2, <1>3, <1>4, <1>5, <1>6, <1>7 DEF KeyNext

LEMMA CopyStep == None \notin Keys /\ KeyTypes /\ CopyInv /\ [KeyNext]_keyVars => CopyInv'
<1> SUFFICES ASSUME None \notin Keys, KeyTypes, CopyInv, [KeyNext]_keyVars,
                    todo' # {}, NEW g \in Plists, plist'[g] \in Keys
             PROVE  HasCopy'
  BY DEF CopyInv
<1>1. CASE InstallLaunchdPlist
  <2>1. plist[g] \in Keys /\ MayRewrite
    BY <1>1 DEF InstallLaunchdPlist
  <2>2. WantedKey # None /\ DaemonCanReadKey(WantedKey)
    BY <2>1, WantedIsStored DEF MayRewrite, KeyReadable
  <2>3. chain' = (IF WantedKey # None /\ WantedKey # ChainGet THEN ChainAfter(WantedKey) ELSE chain)
    BY <1>1 DEF InstallLaunchdPlist
  <2>4. chain'.key # None \/ profile.key # None
    BY <2>2, <2>3, ReadableIsStored
  <2> QED
    BY <1>1, <2>4 DEF InstallLaunchdPlist, HasCopy
<1>2. ASSUME NEW f \in Plists, WritePlist(f)  PROVE HasCopy'
  <2>1. todo # {} /\ plist[g] \in Keys
    BY <1>2 DEF WritePlist, KeyTypes
  <2> QED
    BY <1>2, <2>1 DEF WritePlist, CopyInv, HasCopy
<1>3. CASE DaemonStarts
  BY <1>3 DEF DaemonStarts, CopyInv, HasCopy
<1>4. CASE StoresChange
  <2>1. chain'.key = chain.key /\ profile'.key = profile.key
    BY <1>4 DEF StoresChange, KeyTypes
  <2> QED
    BY <1>4, <2>1 DEF StoresChange, CopyInv, HasCopy
<1>5. CASE UNCHANGED keyVars
  BY <1>5 DEF keyVars, CopyInv, HasCopy
<1>6. CASE KeepKey \/ SetupDies \/ UninstallLaunchdPlist \/ OtherShell \/ \E key \in Keys : TypeKey(key)
  BY <1>6 DEF KeepKey, SetupDies, UninstallLaunchdPlist, OtherShell, TypeKey
<1> QED
  BY <1>1, <1>2, <1>3, <1>4, <1>5, <1>6 DEF KeyNext

\* "Never replace a plist that holds a key unless the daemon can read a key
\* from a persistent store afterwards" (setup.py:1607): whatever the shell,
\* the keychain and the profile do, a file loses its key only while another
\* copy is stored.  That None is no key is all that is assumed.
THEOREM KeyIsNeverLost ==
  ASSUME None \notin Keys
  PROVE  KeySpec => KeyNeverLost
<1>1. KeyInit => KeyTypes /\ CopyInv
  BY DEF KeyInit, KeyTypes, CopyInv
<1>2. KeyTypes /\ CopyInv /\ [KeyNext]_keyVars => (KeyTypes /\ CopyInv)'
  BY KeyTypesStep, CopyStep
<1>3. KeyTypes /\ CopyInv /\ [KeyNext]_keyVars => [LeavesACopy]_keyVars
  <2> SUFFICES ASSUME KeyTypes, CopyInv, KeyNext,
                      NEW f \in todo \ todo', plist[f] \in Keys, plist'[f] = None
               PROVE  chain'.key # None \/ profile'.key # None
    BY DEF LeavesACopy
  <2>1. f \in Plists /\ HasCopy
    BY DEF KeyTypes, CopyInv
  <2>2. ASSUME NEW g \in Plists, WritePlist(g)  PROVE chain'.key # None \/ profile'.key # None
    BY <2>1, <2>2 DEF WritePlist, HasCopy
  <2>3. CASE SetupDies
    BY <2>3 DEF SetupDies
  <2>4. CASE DaemonStarts \/ StoresChange
    BY <2>4 DEF DaemonStarts, StoresChange
  <2>5. CASE KeepKey \/ InstallLaunchdPlist \/ UninstallLaunchdPlist \/ OtherShell \/ \E key \in Keys : TypeKey(key)
    BY <2>5 DEF KeepKey, InstallLaunchdPlist, UninstallLaunchdPlist, OtherShell, TypeKey
  <2> QED
    BY <2>2, <2>3, <2>4, <2>5 DEF KeyNext
<1> QED
  BY <1>1, <1>2, <1>3, PTL DEF KeySpec, KeyNeverLost

-----------------------------------------------------------------------------
(* Settings: the broken file and the decision of the project.              *)

ConfigTypes ==
    /\ DOMAIN proc = Procs
    /\ \A p \in Procs : /\ proc[p] = [at |-> proc[p].at, cfg |-> proc[p].cfg, decided |-> proc[p].decided]
                        /\ proc[p].at \in {"idle", "carry", "write", "fill", "replace"}
    /\ file.is \in {"absent", "broken", "table"}

\* While the file is broken no command is past its reading of the file.
BrokenInv ==
    file.is = "broken" => \A p \in Procs : proc[p].at \in {"idle", "carry"}

\* Commands one at a time: what the running one carries is the decision, and
\* the file has it but for the moment between its emptying and its filling.
DecisionInv ==
    alone =>
      /\ \A p, q \in Procs : proc[p].at # "idle" /\ proc[q].at # "idle" => p = q
      /\ file.is # "table" => made = Undecided
      /\ (\A p \in Procs : proc[p].at # "fill") /\ file.is = "table" => file.decided = made
      /\ \A p \in Procs : proc[p].at \in {"write", "fill"} => proc[p].decided = made

ConfigInv == ConfigTypes /\ BrokenInv /\ DecisionInv

\* A command that starts has read the file and goes on to carry or replace.
Began(p) ==
    /\ Starts(p)
    /\ \E c : /\ proc' = [proc EXCEPT ![p] = c]
              /\ c = [at |-> c.at, cfg |-> c.cfg, decided |-> c.decided]
              /\ c.at = "carry" \/ (c.at = "replace" /\ file.is # "broken")

LEMMA EveryCommandBegins ==
  ASSUME NEW p \in Procs,
         \/ DetectAndMigrate(p)
         \/ \E f \in Fields, v \in Values : ConfigSet(p, f, v)
         \/ \E m \in Modes \ {"none"} : ConfigMode(p, m)
         \/ \E v \in Values : SwitchRemote(p, v) \/ EnsureDaemonPortFree(p, v)
         \/ \E v \in Given : SetupWrites(p, v)
         \/ \E d \in Decisions : SetDecision(p, d)
  PROVE  Began(p)
<1>1. ASSUME NEW cfg, Saves(p, cfg), Starts(p)  PROVE Began(p)
  <2>1. PICK c : c = [at |-> "carry", cfg |-> cfg, decided |-> Undecided]
    OBVIOUS
  <2>2. proc' = [proc EXCEPT ![p] = c]
    BY <1>1, <2>1 DEF Saves
  <2>3. c = [at |-> c.at, cfg |-> c.cfg, decided |-> c.decided] /\ c.at = "carry"
    BY <2>1
  <2> QED
    BY <1>1, <2>2, <2>3 DEF Began
<1>2. ASSUME NEW d \in Decisions, SetDecision(p, d)  PROVE Began(p)
  <2>1. PICK c : c = [at |-> "replace", cfg |-> FileLayer, decided |-> d]
    OBVIOUS
  <2>2. proc' = [proc EXCEPT ![p] = c] /\ Starts(p) /\ file.is # "broken"
    BY <1>2, <2>1 DEF SetDecision
  <2>3. c = [at |-> c.at, cfg |-> c.cfg, decided |-> c.decided] /\ c.at = "replace"
    BY <2>1
  <2> QED
    BY <2>2, <2>3 DEF Began
<1>3. Began(p) \/ \E cfg : Saves(p, cfg) /\ Starts(p)
  BY <1>2 DEF DetectAndMigrate, ConfigSet, ConfigMode, SwitchRemote, EnsureDaemonPortFree, SetupWrites
<1> QED
  BY <1>1, <1>3

LEMMA BeginKeeps ==
  ASSUME ConfigInv, NEW p \in Procs, Began(p)
  PROVE  ConfigInv'
<1>1. PICK c : /\ proc' = [proc EXCEPT ![p] = c]
               /\ c = [at |-> c.at, cfg |-> c.cfg, decided |-> c.decided]
               /\ c.at = "carry" \/ (c.at = "replace" /\ file.is # "broken")
  BY DEF Began
<1>2. /\ proc[p].at = "idle" /\ file' = file /\ made' = made
      /\ alone' = (alone /\ \A q \in Procs : proc[q].at = "idle")
  BY DEF Began, Starts
<1>3. ConfigTypes'
  BY <1>1, <1>2 DEF ConfigInv, ConfigTypes
<1>4. /\ proc'[p] = c
      /\ \A q \in Procs \ {p} : proc'[q] = proc[q]
  BY <1>1 DEF ConfigInv, ConfigTypes
<1>5. BrokenInv'
  <2>1. ASSUME file.is = "broken"  PROVE c.at = "carry"
    BY <1>1, <2>1
  <2> QED
    BY <1>2, <1>4, <2>1 DEF ConfigInv, BrokenInv
<1>6. DecisionInv'
  <2> SUFFICES ASSUME alone'  PROVE DecisionInv'
    BY DEF DecisionInv
  <2>1. alone /\ \A q \in Procs : proc[q].at = "idle"
    BY <1>2
  <2>2. \A q \in Procs \ {p} : proc'[q].at = "idle"
    BY <2>1, <1>4
  <2>3. file.is # "table" => made = Undecided
    BY <2>1 DEF ConfigInv, DecisionInv
  <2>4. file.is = "table" => file.decided = made
    BY <2>1 DEF ConfigInv, DecisionInv
  <2> QED
    <3>1. \A q, r \in Procs : proc'[q].at # "idle" /\ proc'[r].at # "idle" => q = r
      BY <2>2
    <3>2. c.at \notin {"write", "fill"}
      BY <1>1
    <3>3. \A q \in Procs : proc'[q].at \in {"write", "fill"} => proc'[q].decided = made'
      BY <1>4, <2>2, <3>2
    <3> QED
      BY <1>2, <2>3, <2>4, <3>1, <3>3 DEF DecisionInv
<1> QED
  BY <1>3, <1>5, <1>6 DEF ConfigInv

\* The steps of one save.
LEMMA SaveKeeps ==
  ASSUME ConfigInv, NEW p \in Procs,
         CarryOverTables(p) \/ OpenFile(p) \/ FillFile(p) \/ WriteTable(p) \/ Dies(p)
  PROVE  ConfigInv'
<1> USE DEF ConfigInv, ConfigTypes, NoCommand, EmptyFile, AbsentFile
<1>1. CASE CarryOverTables(p)
  <2>1. CASE file.is = "broken"
    <3>1. proc' = [proc EXCEPT ![p] = NoCommand] /\ UNCHANGED <<file, alone, made>>
      BY <1>1, <2>1 DEF CarryOverTables
    <3>2. ConfigTypes' /\ BrokenInv'
      BY <3>1 DEF BrokenInv
    <3>3. \A q \in Procs : proc'[q] = proc[q] \/ proc'[q].at = "idle"
      BY <3>1
    <3>4. \A q \in Procs : proc[q].at # "fill"
      BY <2>1 DEF BrokenInv
    <3>5. DecisionInv'
      BY <3>1, <3>3, <3>4, <2>1 DEF DecisionInv
    <3> QED
      BY <3>2, <3>5
  <2>2. CASE file.is # "broken"
    <3>1. /\ proc' = [proc EXCEPT ![p].at = "write", ![p].decided = Decided]
          /\ UNCHANGED <<file, alone, made>> /\ proc[p].at = "carry"
      BY <1>1, <2>2 DEF CarryOverTables
    <3>2. proc'[p] = [at |-> "write", cfg |-> proc[p].cfg, decided |-> Decided]
      <4>1. PICK mid : mid = [proc EXCEPT ![p].at = "write"]
        OBVIOUS
      <4>2. proc' = [mid EXCEPT ![p].decided = Decided]
        BY <3>1, <4>1
      <4>3. DOMAIN mid = Procs /\ mid[p] = [at |-> "write", cfg |-> proc[p].cfg, decided |-> proc[p].decided]
        BY <4>1
      <4> QED
        BY <4>2, <4>3
    <3>3. \A q \in Procs \ {p} : proc'[q] = proc[q]
      BY <3>1
    <3>4. ConfigTypes' /\ BrokenInv'
      BY <3>1, <3>2, <3>3, <2>2 DEF BrokenInv
    <3>5. alone => \A q \in Procs \ {p} : proc[q].at = "idle"
      BY <3>1 DEF DecisionInv
    <3>6. alone => Decided = made
      BY <3>1, <3>5 DEF DecisionInv, Decided
    <3>7. DecisionInv'
      BY <3>1, <3>2, <3>3, <3>5, <3>6 DEF DecisionInv
    <3> QED
      BY <3>4, <3>7
  <2> QED
    BY <2>1, <2>2
<1>2. CASE OpenFile(p)
  <2>1. /\ proc[p].at = "write" /\ file' = EmptyFile /\ UNCHANGED <<alone, made>>
        /\ proc' = [proc EXCEPT ![p].at = "fill"]
    BY <1>2 DEF OpenFile
  <2>2. proc'[p] = [at |-> "fill", cfg |-> proc[p].cfg, decided |-> proc[p].decided]
    BY <2>1
  <2>3. \A q \in Procs \ {p} : proc'[q] = proc[q]
    BY <2>1
  <2>4. ConfigTypes' /\ BrokenInv'
    BY <2>1, <2>2, <2>3 DEF BrokenInv
  <2>5. DecisionInv'
    BY <2>1, <2>2, <2>3 DEF DecisionInv
  <2> QED
    BY <2>4, <2>5
<1>3. CASE FillFile(p) \/ WriteTable(p)
  <2>1. /\ file' = [is |-> "table", cfg |-> proc[p].cfg, decided |-> proc[p].decided]
        /\ proc' = [proc EXCEPT ![p] = NoCommand] /\ UNCHANGED alone
        /\ \/ proc[p].at = "fill" /\ UNCHANGED made
           \/ proc[p].at = "replace" /\ made' = proc[p].decided
    BY <1>3 DEF FillFile, WriteTable
  <2>2. proc'[p].at = "idle" /\ \A q \in Procs \ {p} : proc'[q] = proc[q]
    BY <2>1
  <2>3. ConfigTypes' /\ BrokenInv'
    BY <2>1, <2>2 DEF BrokenInv
  <2>4. alone => \A q \in Procs \ {p} : proc[q].at = "idle"
    BY <2>1 DEF DecisionInv
  <2>5. alone => made' = proc[p].decided
    BY <2>1 DEF DecisionInv
  <2>6. DecisionInv'
    BY <2>1, <2>2, <2>4, <2>5 DEF DecisionInv
  <2> QED
    BY <2>3, <2>6
<1>4. CASE Dies(p)
  <2>1. proc' = [proc EXCEPT ![p] = NoCommand] /\ ~alone' /\ file' = file
    BY <1>4 DEF Dies
  <2> QED
    BY <2>1 DEF BrokenInv, DecisionInv
<1> QED
  BY <1>1, <1>2, <1>3, <1>4

LEMMA ConfigStep == ConfigInv /\ [ConfigNext]_configVars => ConfigInv'
<1> SUFFICES ASSUME ConfigInv, [ConfigNext]_configVars  PROVE ConfigInv'
  OBVIOUS
<1>1. CASE UserEdits
  <2>1. \A p \in Procs : proc[p].at = "idle"
    BY <1>1 DEF UserEdits
  <2>2. file'.is \in {"broken", "absent"} /\ made' = Undecided /\ proc' = proc
    BY <1>1 DEF UserEdits, AbsentFile
  <2> QED
    BY <2>1, <2>2 DEF ConfigInv, ConfigTypes, BrokenInv, DecisionInv
<1>2. CASE OtherTerminal \/ UNCHANGED configVars
  BY <1>2 DEF OtherTerminal, configVars, ConfigInv, ConfigTypes, BrokenInv, DecisionInv
<1>3. ASSUME NEW p \in Procs,
             CarryOverTables(p) \/ OpenFile(p) \/ FillFile(p) \/ WriteTable(p) \/ Dies(p)
      PROVE  ConfigInv'
  BY <1>3, SaveKeeps
<1>4. ASSUME NEW p \in Procs,
             \/ DetectAndMigrate(p)
             \/ \E f \in Fields, v \in Values : ConfigSet(p, f, v)
             \/ \E m \in Modes \ {"none"} : ConfigMode(p, m)
             \/ \E v \in Values : SwitchRemote(p, v) \/ EnsureDaemonPortFree(p, v)
             \/ \E v \in Given : SetupWrites(p, v)
             \/ \E d \in Decisions : SetDecision(p, d)
      PROVE  ConfigInv'
  BY <1>4, EveryCommandBegins, BeginKeeps
<1> QED
  BY <1>1, <1>2, <1>3, <1>4 DEF ConfigNext

LEMMA ConfigAlways == ConfigSpec => []ConfigInv
<1>1. ConfigInit => ConfigInv
  BY DEF ConfigInit, ConfigInv, ConfigTypes, BrokenInv, DecisionInv, AbsentFile, NoCommand
<1> QED
  BY <1>1, ConfigStep, PTL DEF ConfigSpec

\* "It must not be rewritten" (env_sources.py:215): whichever command runs, and
\* however many at once, a config file that cannot be read is replaced by the
\* user only.
THEOREM BrokenFileIsKept == ConfigSpec => BrokenIsKept
<1>1. ConfigInv /\ [ConfigNext]_configVars => [LeavesTheBroken]_configVars
  <2> SUFFICES ASSUME ConfigInv, ConfigNext, file.is = "broken", file' # file  PROVE proc' = proc
    BY DEF LeavesTheBroken
  <2>1. \A p \in Procs : proc[p].at \in {"idle", "carry"}
    BY DEF ConfigInv, BrokenInv
  <2>2. ASSUME NEW p \in Procs, CarryOverTables(p) \/ Dies(p)  PROVE FALSE
    BY <2>2 DEF CarryOverTables, Dies
  <2>3. ASSUME NEW p \in Procs, OpenFile(p) \/ FillFile(p) \/ WriteTable(p)  PROVE FALSE
    BY <2>1, <2>3 DEF OpenFile, FillFile, WriteTable
  <2>4. ASSUME NEW p \in Procs, Began(p)  PROVE FALSE
    BY <2>4 DEF Began, Starts
  <2> QED
    BY <2>2, <2>3, <2>4, EveryCommandBegins DEF ConfigNext, UserEdits, OtherTerminal
<1> QED
  BY <1>1, ConfigAlways, PTL DEF ConfigSpec, BrokenIsKept

\* A project's decision (env_pin.py) survives every later save, as long as
\* commands run one at a time and to their end, for any settings and commands.
THEOREM DecisionsAreKept == ConfigSpec => []DecisionsKept
<1>1. ConfigInv => DecisionsKept
  BY DEF ConfigInv, DecisionInv, DecisionsKept
<1> QED
  BY <1>1, ConfigAlways, PTL

-----------------------------------------------------------------------------
(* ClaudeHooks: what any record names, an install wrote or found.          *)

\* Names of a table of installed bytes, as far as it is one.
Honest(table) ==
    /\ DOMAIN table = Scripts
    /\ \A h \in Scripts : table[h] \in wrote[h] \cup {Missing}

HooksInv ==
    /\ DOMAIN wrote = Scripts
    /\ installer = [todo |-> installer.todo, known |-> installer.known, next |-> installer.next,
                    on |-> installer.on]
    /\ record # NoRecord => Honest(record)
    /\ installer.known # NoRecord => Honest(installer.known)
    /\ installer.on => Honest(installer.next)

\* wrote only grows, and a table stays honest.
LEMMA HonestGrows ==
  ASSUME DOMAIN wrote' = Scripts, \A h \in Scripts : wrote[h] \subseteq wrote'[h],
         NEW table, Honest(table)
  PROVE  /\ DOMAIN table = Scripts
         /\ \A h \in Scripts : table[h] \in wrote'[h] \cup {Missing}
  BY DEF Honest

\* One script: the table of the next record gains the package's bytes, which
\* are written there, or found there, or stays as it is.
LEMMA InstallHookStep ==
  ASSUME HooksInv, NEW h \in Scripts, InstallHook(h)
  PROVE  HooksInv' /\ installer'.known = installer.known
<1> DEFINE state == HookState(h, installer.known)
<1>1. /\ installer.on /\ record' = record
      /\ wrote' = IF state = "modified" THEN wrote ELSE [wrote EXCEPT ![h] = @ \cup {pkg}]
      /\ installer' = [installer EXCEPT !.todo = @ \ {h},
                                        !.next[h] = IF state = "modified" THEN @ ELSE pkg]
  BY DEF InstallHook
<1> HIDE DEF state
<1>2. DOMAIN wrote' = Scripts /\ \A g \in Scripts : wrote[g] \subseteq wrote'[g]
  BY <1>1 DEF HooksInv
<1>3. PICK table : table = [installer.next EXCEPT ![h] = IF state = "modified" THEN @ ELSE pkg]
  OBVIOUS
<1>4. installer' = [todo |-> installer.todo \ {h}, known |-> installer.known, next |-> table,
                    on |-> installer.on]
  <2>1. PICK mid : mid = [installer EXCEPT !.todo = @ \ {h}]
    OBVIOUS
  <2>2. mid = [todo |-> installer.todo \ {h}, known |-> installer.known, next |-> installer.next,
               on |-> installer.on]
    BY <2>1 DEF HooksInv
  <2>3. installer' = [mid EXCEPT !.next = table]
    BY <1>1, <1>3, <2>1, <2>2
  <2> QED
    BY <2>2, <2>3
<1>5. DOMAIN table = Scripts /\ \A g \in Scripts : table[g] \in wrote'[g] \cup {Missing}
  <2>1. DOMAIN installer.next = Scripts
        /\ \A g \in Scripts : installer.next[g] \in wrote'[g] \cup {Missing}
    BY <1>1, <1>2, HonestGrows DEF HooksInv
  <2>2. state # "modified" => pkg \in wrote'[h]
    BY <1>1 DEF HooksInv
  <2> QED
    BY <1>3, <2>1, <2>2
<1>6. record' # NoRecord => Honest(record)'
  BY <1>1, <1>2, HonestGrows DEF HooksInv, Honest
<1>7. installer'.known # NoRecord => Honest(installer.known)'
  BY <1>2, <1>4, HonestGrows DEF HooksInv, Honest
<1>8. Honest(installer.next)'
  BY <1>4, <1>5 DEF Honest
<1> QED
  BY <1>2, <1>4, <1>6, <1>7, <1>8 DEF HooksInv

LEMMA HooksStep == HooksInv /\ [HooksNext]_hooksVars => HooksInv'
<1> SUFFICES ASSUME HooksInv, [HooksNext]_hooksVars  PROVE HooksInv'
  OBVIOUS
<1>1. CASE LoadRecord
  <2>1. PICK known \in {record, Empty} :
          installer' = [todo |-> Scripts, known |-> known, on |-> TRUE,
                        next |-> IF known = NoRecord THEN Empty ELSE known]
    BY <1>1 DEF LoadRecord
  <2>2. UNCHANGED <<record, wrote>>
    BY <1>1 DEF LoadRecord
  <2>3. Honest(Empty)
    BY DEF Honest, Empty
  <2>4. PICK table : table = IF known = NoRecord THEN Empty ELSE known
    OBVIOUS
  <2>5. installer'.known = known /\ installer'.next = table
        /\ installer' = [todo |-> installer'.todo, known |-> installer'.known,
                         next |-> installer'.next, on |-> installer'.on]
    BY <2>1, <2>4
  <2>6. known # NoRecord => Honest(known)
    BY <2>3 DEF HooksInv
  <2>7. Honest(table)
    BY <2>3, <2>4, <2>6
  <2> QED
    BY <2>2, <2>5, <2>6, <2>7 DEF HooksInv, Honest
<1>2. CASE SaveRecord
  BY <1>2 DEF SaveRecord, HooksInv, Honest, Idle
<1>3. CASE InstallerDies
  BY <1>3 DEF InstallerDies, HooksInv, Honest, Idle
<1>4. CASE Uninstall
  BY <1>4 DEF Uninstall, HooksInv, Honest
<1>5. CASE OtherVersion \/ RegisterHooks \/ UNCHANGED hooksVars
  BY <1>5 DEF OtherVersion, RegisterHooks, hooksVars, HooksInv, Honest
<1>6. ASSUME NEW h \in Scripts, UserWrites(h)  PROVE HooksInv'
  BY <1>6 DEF UserWrites, HooksInv, Honest
<1>7. ASSUME NEW h \in Scripts, InstallHook(h)  PROVE HooksInv'
  BY <1>7, InstallHookStep
<1> QED
  BY <1>1, <1>2, <1>3, <1>4, <1>5, <1>6, <1>7 DEF HooksNext

\* "A copy replaces a file only when the package can show it wrote the bytes
\* that are there now" (hook_install.py:4): for any scripts and versions, and
\* though installs die half way and the user writes in between, an install
\* that goes by a record replaces what an install wrote or found.
THEOREM UserCopiesAreKept == HooksSpec => UserCopiesKept
<1>1. HooksInit => HooksInv
  BY DEF HooksInit, HooksInv, Idle
<1>2. HooksInv /\ [HooksNext]_hooksVars => [ReplacesItsOwn]_hooksVars
  <2> SUFFICES ASSUME HooksInv, HooksNext, NEW h \in Scripts, installer.known # NoRecord,
                      hook[h] # Missing, hook'[h] # hook[h], installer'.todo # installer.todo
               PROVE  hook[h] \in wrote[h]
    BY DEF ReplacesItsOwn
  <2>1. ASSUME NEW g \in Scripts, InstallHook(g)  PROVE hook[h] \in wrote[h]
    <3>1. HookState(g, installer.known) \in {"missing", "ours"} /\ hook' = [hook EXCEPT ![g] = pkg]
      BY <2>1 DEF InstallHook
    <3>2. g = h
      BY <3>1
    <3>3. Ours(h, installer.known)
      BY <3>1, <3>2 DEF HookState
    <3> QED
      BY <3>3 DEF Ours, HooksInv, Honest
  <2>2. ASSUME NEW g \in Scripts, UserWrites(g)  PROVE FALSE
    BY <2>2 DEF UserWrites
  <2>3. CASE LoadRecord \/ SaveRecord \/ InstallerDies
    BY <2>3 DEF LoadRecord, SaveRecord, InstallerDies
  <2>4. CASE OtherVersion \/ RegisterHooks \/ Uninstall
    BY <2>4 DEF OtherVersion, RegisterHooks, Uninstall
  <2> QED
    BY <2>1, <2>2, <2>3, <2>4 DEF HooksNext
<1> QED
  BY <1>1, <1>2, HooksStep, PTL DEF HooksSpec, UserCopiesKept

-----------------------------------------------------------------------------
(* Tour: what is left behind, and where it writes.                         *)

TourPlaces == {"select", "launch", "wait", "check", "stop", "intro", "running", "leaving", "ended"}
ArcPlaces == Working \cup {"none", "done", "degraded", "stub", "failed"}

TourTypes ==
    /\ at \in TourPlaces
    /\ DOMAIN stores = {"own", "other"}
    /\ arc = [at |-> arc.at, fact |-> arc.fact, seeded |-> arc.seeded, found |-> arc.found,
              imported |-> arc.imported]
    /\ arc.at \in ArcPlaces

\* A process of its own is one that stop can end, wherever stop may be called;
\* a store on disk is the one of this attempt.
LeaveInv ==
    /\ impatient => at = "ended"
    /\ own \in Alive /\ ~impatient => process /\ at \notin {"select", "launch", "ended"}
    /\ opts.keep \/ dirs \subseteq {attempt}
    /\ opts.keep \/ at \notin {"select", "launch", "ended"} \/ dirs = {}
    /\ opts.code => own = "none" /\ dirs = {} /\ at \in {"intro", "running", "leaving", "ended"}

\* After the identity check nobody but the one that was met answers, or a
\* later one in the place of the tour's own daemon.
MetInv ==
    /\ met \in {"nobody", "own", "other"}
    /\ met # "nobody" => at \in {"intro", "running", "leaving", "ended"}
    /\ arc.at \in Working \/ stores["other"] # {} => met # "nobody"
    /\ at \in {"intro", "running"} /\ ~opts.code => met # "nobody"
    /\ met = "other" => other \in {"empty", "grown"}
    /\ met = "own" => own = "exited" \/ (own \in Bound /\ other = "none")

\* Before the arc begins nothing is stored; until it fails it has counted
\* every fact that is stored; what it tells of an import is stored.
ArcInv ==
    /\ at \notin {"running", "leaving", "ended"} => arc = NoArc /\ told = "nothing"
    /\ arc.at # "failed" => (stores["own"] \cup stores["other"]) \ {0} \subseteq arc.seeded
    /\ arc.seeded \subseteq Written
    /\ arc.imported => 0 \in Written
    /\ arc.found => 1 \in arc.seeded
    /\ arc.at \in {"import", "lookup", "ask", "done"} => arc.found
    /\ arc.at = "stub" => opts.code
    /\ opts.code => arc.at \in {"none", "stub"}
    /\ told = "complete" => arc.at \in {"done", "stub"}

\* The steps of the arc, which leave the daemon and the screen alone.
ArcStep ==
    \/ CallFails \/ CannotShow \/ SeedFact \/ Seeded \/ SearchStep \/ RecallStep
    \/ ImportFile \/ ImportSearch \/ AskStep

LEMMA ArcLeavesTheRest ==
  ASSUME ArcStep
  PROVE  /\ UNCHANGED <<opts, at, told, attempt, error, process, own, other, dirs, met, impatient>>
         /\ arc.at \in Working
  BY DEF ArcStep, CallFails, CannotShow, SeedFact, Seeded, SearchStep, RecallStep, ImportFile,
         ImportSearch, AskStep, Step, daemonVars, Working

LEMMA TourTypesStep == TourTypes /\ [TourNext]_tourVars => TourTypes'
<1> SUFFICES ASSUME TourTypes, [TourNext]_tourVars  PROVE TourTypes'
  OBVIOUS
<1> USE DEF TourTypes, TourPlaces, ArcPlaces, Working
<1>1. CASE OtherBinds \/ OtherGrows \/ OwnMoves \/ UNCHANGED tourVars
  BY <1>1 DEF OtherBinds, OtherGrows, OwnMoves, tourVars
<1>2. CASE SelectPort \/ Launch \/ Wait \/ GiveUp \/ CheckEmpty
  BY <1>2 DEF SelectPort, Launch, Wait, GiveUp, CheckEmpty, Fails
<1>3. CASE StopAfterFailure \/ StopAtExit
  BY <1>3 DEF StopAfterFailure, StopAtExit
<1>4. CASE Enter \/ Quit \/ Finish
  BY <1>4 DEF Enter, Quit, Finish
<1>5. CASE CallFails \/ CannotShow
  BY <1>5 DEF CallFails, CannotShow, Step, Failed, Kept
<1>6. CASE SeedFact
  <2>1. arc' = [arc EXCEPT !.fact = @ + 1, !.seeded = @ \cup {arc.fact}]
        \/ arc' = [arc EXCEPT !.fact = @ + 1]
    BY <1>6 DEF SeedFact
  <2>2. arc'.at = arc.at /\ arc' = [at |-> arc'.at, fact |-> arc'.fact, seeded |-> arc'.seeded,
                                    found |-> arc'.found, imported |-> arc'.imported]
    BY <2>1
  <2>3. DOMAIN stores' = DOMAIN stores /\ at' = at
    BY <1>6 DEF SeedFact, Step, Kept
  <2> QED
    BY <2>2, <2>3
<1>7. CASE Seeded \/ SearchStep \/ RecallStep \/ AskStep
  <2>1. \E a \in Working \cup {"degraded", "done"}, f \in BOOLEAN :
          arc' = [arc EXCEPT !.at = a] \/ arc' = [arc EXCEPT !.at = a, !.found = f]
    BY <1>7 DEF Seeded, SearchStep, RecallStep, AskStep, Judged
  <2>2. UNCHANGED <<at, stores>>
    BY <1>7 DEF Seeded, SearchStep, RecallStep, AskStep, Step
  <2> QED
    BY <2>1, <2>2
<1>8. CASE ImportFile \/ ImportSearch
  <2>1. \/ arc' = [arc EXCEPT !.at = "ask"] \/ arc' = [arc EXCEPT !.at = "lookup"]
        \/ arc' = [arc EXCEPT !.at = "lookup", !.imported = TRUE]
    BY <1>8 DEF ImportFile, ImportSearch
  <2>2. DOMAIN stores' = DOMAIN stores /\ at' = at
    BY <1>8 DEF ImportFile, ImportSearch, Step, Kept
  <2> QED
    BY <2>1, <2>2
<1> QED
  BY <1>1, <1>2, <1>3, <1>4, <1>5, <1>6, <1>7, <1>8 DEF TourNext

LEMMA LeaveStep == LeaveInv /\ [TourNext]_tourVars => LeaveInv'
<1> SUFFICES ASSUME LeaveInv, [TourNext]_tourVars  PROVE LeaveInv'
  OBVIOUS
<1> USE DEF LeaveInv, Alive, Bound
<1>1. CASE OtherBinds \/ OtherGrows \/ OwnMoves \/ UNCHANGED tourVars
  BY <1>1 DEF OtherBinds, OtherGrows, OwnMoves, tourVars
<1>2. CASE SelectPort
  BY <1>2 DEF SelectPort
<1>3. CASE Launch
  BY <1>3 DEF Launch, Fails
<1>4. CASE Wait \/ GiveUp \/ CheckEmpty
  BY <1>4 DEF Wait, GiveUp, CheckEmpty, Fails
<1>5. CASE StopAfterFailure
  <2>1. PICK interrupted \in BOOLEAN :
          /\ Stopped(interrupted)
          /\ IF Retries /\ ~interrupted
             THEN at' = "select" /\ attempt' = attempt + 1 /\ error' = "none"
             ELSE at' = "ended" /\ UNCHANGED <<attempt, error>>
    BY <1>5 DEF StopAfterFailure
  <2>2. at = "stop" /\ UNCHANGED opts
    BY <1>5 DEF StopAfterFailure
  <2> QED
    BY <2>1, <2>2 DEF Stopped
<1>6. CASE StopAtExit
  BY <1>6 DEF StopAtExit, Stopped
<1>7. CASE Enter \/ Quit \/ Finish
  BY <1>7 DEF Enter, Quit, Finish, daemonVars
<1>8. CASE ArcStep
  BY <1>8, ArcLeavesTheRest
<1> QED
  BY <1>1, <1>2, <1>3, <1>4, <1>5, <1>6, <1>7, <1>8 DEF TourNext, ArcStep

LEMMA MetStep == TourTypes /\ LeaveInv /\ MetInv /\ [TourNext]_tourVars => MetInv'
<1> SUFFICES ASSUME TourTypes, LeaveInv, MetInv, [TourNext]_tourVars  PROVE MetInv'
  OBVIOUS
<1> USE DEF MetInv, Alive, Bound
<1>1. CASE OtherBinds \/ OtherGrows \/ OwnMoves \/ UNCHANGED tourVars
  BY <1>1 DEF OtherBinds, OtherGrows, OwnMoves, tourVars
<1>2. CASE SelectPort \/ Launch \/ Wait \/ GiveUp
  BY <1>2 DEF SelectPort, Launch, Wait, GiveUp, Fails
<1>3. CASE CheckEmpty
  BY <1>3 DEF CheckEmpty, Fails, Answering, HoldsNothing, Serves
<1>4. CASE StopAfterFailure \/ StopAtExit
  BY <1>4 DEF StopAfterFailure, StopAtExit, Stopped
<1>5. CASE Enter
  BY <1>5 DEF Enter, daemonVars, TourTypes, ArcPlaces, Working
<1>6. CASE Quit \/ Finish
  BY <1>6 DEF Quit, Finish, daemonVars
<1>7. CASE ArcStep
  <2>1. met # "nobody"
    BY <1>7, ArcLeavesTheRest
  <2> QED
    BY <1>7, <2>1, ArcLeavesTheRest
<1> QED
  BY <1>1, <1>2, <1>3, <1>4, <1>5, <1>6, <1>7 DEF TourNext, ArcStep

LEMMA ArcInvStep == TourTypes /\ ArcInv /\ [TourNext]_tourVars => ArcInv'
<1> SUFFICES ASSUME TourTypes, ArcInv, [TourNext]_tourVars  PROVE ArcInv'
  OBVIOUS
<1> USE DEF ArcInv, Written
<1>1. CASE OtherBinds \/ OtherGrows \/ OwnMoves \/ UNCHANGED tourVars
  BY <1>1 DEF OtherBinds, OtherGrows, OwnMoves, tourVars
<1>2. CASE SelectPort \/ Launch \/ Wait \/ GiveUp \/ CheckEmpty
  BY <1>2 DEF SelectPort, Launch, Wait, GiveUp, CheckEmpty, Fails
<1>3. CASE StopAfterFailure \/ StopAtExit
  BY <1>3 DEF StopAfterFailure, StopAtExit
<1>4. CASE Enter
  <2>1. CASE at = "intro"
    <3>1. /\ arc = NoArc /\ told = "nothing" /\ at' = "running" /\ UNCHANGED <<opts, stores, told>>
          /\ arc' = [arc EXCEPT !.at = IF opts.code THEN "stub" ELSE "seed"]
      BY <1>4, <2>1 DEF Enter
    <3>2. /\ arc'.at = (IF opts.code THEN "stub" ELSE "seed")
          /\ arc'.seeded = {} /\ arc'.found = FALSE /\ arc'.imported = FALSE
          /\ arc.at = "none" /\ arc.seeded = {}
      BY <3>1 DEF NoArc
    <3> QED
      BY <3>1, <3>2
  <2>2. CASE at # "intro"
    BY <1>4, <2>2 DEF Enter
  <2> QED
    BY <2>1, <2>2
<1>5. CASE Quit \/ Finish
  BY <1>5 DEF Quit, Finish
<1>6. ASSUME ArcStep  PROVE /\ at \in {"running", "leaving", "ended"} /\ UNCHANGED <<at, told, opts>>
                            /\ ~opts.code /\ told # "complete" /\ arc.at # "failed" /\ arc.at \in Working
  BY <1>6, ArcLeavesTheRest DEF Working, NoArc, TourTypes, TourPlaces
<1>7. CASE CallFails \/ CannotShow
  <2>1. arc' = [arc EXCEPT !.at = "failed"]
    BY <1>7 DEF CallFails, CannotShow, Failed
  <2>2. /\ arc'.at = "failed" /\ arc'.seeded = arc.seeded /\ arc'.found = arc.found
        /\ arc'.imported = arc.imported
    BY <2>1 DEF TourTypes
  <2>3. stores["own"] \subseteq stores'["own"] /\ stores["other"] \subseteq stores'["other"]
    BY <1>7 DEF CallFails, CannotShow, Kept, TourTypes
  <2> QED
    BY <1>6, <1>7, <2>2, <2>3 DEF ArcStep
<1>8. CASE SeedFact
  <2>1. CASE /\ Kept(arc.fact)
             /\ arc' = [arc EXCEPT !.fact = @ + 1, !.seeded = @ \cup {arc.fact}]
    <3>1. arc'.at = arc.at /\ arc'.seeded = arc.seeded \cup {arc.fact} /\ arc'.found = arc.found
          /\ arc'.imported = arc.imported
      BY <2>1 DEF TourTypes
    <3>2. Answering \in {"own", "other"}
      BY <1>8 DEF SeedFact, Serves
    <3>3. stores'["own"] \cup stores'["other"] = stores["own"] \cup stores["other"] \cup {arc.fact}
      BY <2>1, <3>2 DEF Kept, TourTypes
    <3> QED
      BY <1>6, <1>8, <3>1, <3>3 DEF ArcStep
  <2>2. CASE arc' = [arc EXCEPT !.fact = @ + 1] /\ UNCHANGED stores
    <3>1. arc'.at = arc.at /\ arc'.seeded = arc.seeded /\ arc'.found = arc.found
          /\ arc'.imported = arc.imported
      BY <2>2 DEF TourTypes
    <3> QED
      BY <1>6, <1>8, <2>2, <3>1 DEF ArcStep
  <2> QED
    BY <1>8, <2>1, <2>2 DEF SeedFact
<1>9. CASE SearchStep
  <2>1. PICK found \in BOOLEAN : /\ found => 1 \in stores[Answering]
                                 /\ arc' = [arc EXCEPT !.at = "recall", !.found = found]
    BY <1>9 DEF SearchStep
  <2>2. arc'.at = "recall" /\ arc'.seeded = arc.seeded /\ arc'.found = found
        /\ arc'.imported = arc.imported
    BY <2>1 DEF TourTypes
  <2>3. Answering \in {"own", "other"} /\ arc.at # "failed"
    BY <1>9 DEF SearchStep, Step, Serves
  <2>4. found => 1 \in arc.seeded
    BY <2>1, <2>3
  <2> QED
    BY <1>6, <1>9, <2>2, <2>4 DEF ArcStep, SearchStep
<1>10. CASE RecallStep
  <2>1. PICK recalled \in BOOLEAN : arc' = [arc EXCEPT !.at = Judged(arc.found, recalled)]
    BY <1>10 DEF RecallStep
  <2>2. arc'.at \in {"import", "degraded"} /\ (arc'.at = "import" => arc.found)
        /\ arc'.seeded = arc.seeded /\ arc'.found = arc.found /\ arc'.imported = arc.imported
    BY <2>1 DEF TourTypes, Judged
  <2> QED
    BY <1>6, <1>10, <2>2 DEF ArcStep, RecallStep
<1>11. CASE Seeded
  BY <1>6, <1>11 DEF ArcStep, Seeded, TourTypes
<1>12. CASE ImportSearch
  BY <1>6, <1>12 DEF ArcStep, ImportSearch, Step, TourTypes
<1>13. CASE AskStep
  BY <1>6, <1>13 DEF ArcStep, AskStep, Step, TourTypes
<1>14. CASE ImportFile
  <2>1. arc.at = "import" /\ arc.found
    BY <1>14 DEF ImportFile, Step
  <2>2. CASE arc' = [arc EXCEPT !.at = "ask"] /\ UNCHANGED stores
    BY <1>6, <1>14, <2>1, <2>2 DEF ArcStep, TourTypes
  <2>3. CASE arc' = [arc EXCEPT !.at = "lookup"] /\ UNCHANGED stores
    BY <1>6, <1>14, <2>1, <2>3 DEF ArcStep, TourTypes
  <2>4. CASE arc' = [arc EXCEPT !.at = "lookup", !.imported = TRUE] /\ Kept(0) /\ Serves
    <3>1. arc'.at = "lookup" /\ arc'.seeded = arc.seeded /\ arc'.found = arc.found
          /\ arc'.imported = TRUE
      BY <2>4 DEF TourTypes
    <3>2. stores'["own"] \cup stores'["other"] = stores["own"] \cup stores["other"] \cup {0}
      BY <2>4 DEF Kept, TourTypes, Serves
    <3> QED
      BY <1>6, <1>14, <2>1, <3>1, <3>2 DEF ArcStep
  <2> QED
    BY <1>14, <2>2, <2>3, <2>4 DEF ImportFile
<1> QED
  BY <1>1, <1>2, <1>3, <1>4, <1>5, <1>7, <1>8, <1>9, <1>10, <1>11, <1>12, <1>13, <1>14 DEF TourNext

TourInv == TourTypes /\ LeaveInv /\ MetInv /\ ArcInv

LEMMA TourAlways == TourSpec => []TourInv
<1>1. TourInit => TourInv
  <2> SUFFICES ASSUME TourInit  PROVE TourInv
    OBVIOUS
  <2> USE DEF TourInit, NoArc
  <2>1. TourTypes
    BY DEF TourTypes, TourPlaces, ArcPlaces
  <2>2. LeaveInv
    BY DEF LeaveInv, Alive, Bound
  <2>3. MetInv
    BY DEF MetInv, Working
  <2>4. ArcInv
    BY DEF ArcInv, Written
  <2> QED
    BY <2>1, <2>2, <2>3, <2>4 DEF TourInv
<1>2. TourInv /\ [TourNext]_tourVars => TourInv'
  BY TourTypesStep, LeaveStep, MetStep, ArcInvStep DEF TourInv
<1> QED
  BY <1>1, <1>2, PTL DEF TourSpec

\* However sm tour fails or is left (tour.py:710-723), no process of its own runs
\* and no store of its own is on disk when it has ended, unless the user keeps
\* the store or interrupts the stop itself.
THEOREM TourLeavesNothing == TourSpec => []LeavesNothing
<1>1. TourInv => LeavesNothing
  BY DEF TourInv, LeaveInv, LeavesNothing
<1> QED
  BY <1>1, TourAlways, PTL

\* The identity check (tour.py:758-768) protects every daemon that was there
\* before it: what takes the port with memories in its store is written to only
\* when it came after the check, in the place of the tour's own daemon.
THEOREM OthersStayUntouched == TourSpec => []OthersUntouched
<1>1. TourInv => OthersUntouched
  BY DEF TourInv, MetInv, OthersUntouched
<1> QED
  BY <1>1, TourAlways, PTL

\* What the last screen says (tour.py:1045-1055) is so, for any number of facts:
\* a complete tour found a fact that it stored, and counts only what is stored.
THEOREM TourIsAlwaysTrue == TourSpec => []TourIsTrue
<1>1. TourInv => TourIsTrue
  BY DEF TourInv, ArcInv, TourIsTrue
<1> QED
  BY <1>1, TourAlways, PTL

-----------------------------------------------------------------------------
(* AskAnswers: what an answer may say, and who is on a page.               *)

Begun == {"command", "choose", "recheck"}

\* Who wrote it and who had a key is known from the way that was taken.
HonestInv ==
    /\ stage \in Begun => way = "unknown" /\ printed = "nothing"
    /\ stage \in {"relate", "write"} => way = "llm"
    /\ sent # "no" => way \in {"written", "failed"} /\ "daemon" \in keys
    /\ way = "written" => sent # "no"
    /\ way = "llm" \/ stage = "recheck" => "daemon" \in keys
    /\ sent = "nameless" => ~blocked
    /\ printed = "answer" => way = "written"
    /\ printed = "excerpts" => request.extractive /\ stage = "told" /\ sent = "no"

LEMMA HonestStep == HonestInv /\ [AskNext]_askVars => HonestInv'
<1> SUFFICES ASSUME HonestInv, [AskNext]_askVars  PROVE HonestInv'
  OBVIOUS
<1> USE DEF HonestInv, Begun, around
<1>1. CASE FoldRow \/ UNCHANGED askVars
  BY <1>1 DEF FoldRow, askVars
<1>2. CASE PageDone
  BY <1>2 DEF PageDone
<1>3. CASE AskCommand \/ Choose \/ Recheck
  BY <1>3 DEF AskCommand, Choose, Recheck
<1>4. CASE Relate
  BY <1>4 DEF Relate
<1>5. CASE Write
  BY <1>5 DEF Write, Refuses
<1>6. CASE Reply
  BY <1>6 DEF Reply
<1>7. CASE OtherRemoves \/ OtherConfigures
  BY <1>7 DEF OtherRemoves, OtherConfigures, Changing
<1> QED
  BY <1>1, <1>2, <1>3, <1>4, <1>5, <1>6, <1>7 DEF AskNext

\* An answer is told only when the LLM wrote it, and a question is sent only by
\* a daemon that has a key and was not told to send nothing
\* (local_api.py:1286-1391, cli.py:2332-2410), however often the configuration
\* changes during the call.
THEOREM AnswersAreHonest == AskSpec => []AskIsHonest
<1>1. AskInit => HonestInv
  BY DEF AskInit, HonestInv, Begun
<1>2. HonestInv => AskIsHonest
  BY DEF HonestInv, AskIsHonest
<1> QED
  BY <1>1, <1>2, HonestStep, PTL DEF AskSpec

-----------------------------------------------------------------------------
(* The page: one group of the pool after the other.                        *)
Kinds == {"memory", "fact", "legacy"}

\* The core's answer does not change, and a fact without a source names none.
PoolTypes ==
    /\ request.top \in Nat \ {0} /\ next \in Nat \ {0}
    /\ \E n \in Nat : DOMAIN pool = 1..n
    /\ \A r \in DOMAIN pool : /\ pool[r].kind \in Kinds
                              /\ pool[r].kind = "legacy" <=> pool[r].of = "none"
AnyItem == [as : {"matched", "promoted", "alone", "legacy"}, of : {pool[r].of : r \in DOMAIN pool},
            rank : Nat, facts : SUBSET Nat]

\* A group whose memory is outside the window, and did not match.
Gone(g) == pool[g].kind = "fact" /\ ~HasMemory(g) /\ pool[g].of \notin recent

ItemIsFair(item) ==
    /\ Leads(item.rank) /\ item.of = pool[item.rank].of
    /\ item.as = "legacy" <=> pool[item.rank].kind = "legacy"
    /\ item.as = "promoted" => item.of \in recent
    /\ item.as = "alone" => item.of \notin readable

OnPage(g) == \E i \in 1..Len(page) : page[i].rank = g
PageFull(g) == Len(page) = request.top /\ g > page[Len(page)].rank
Folded == stage \in {"relate", "write", "reply"} \/ printed = "rows"

\* Every group up to the next row is on the page or gone; after the last row
\* the others came too late.
PageInv ==
    /\ page \in Seq(AnyItem) /\ Len(page) <= request.top
    /\ \A i \in 1..Len(page) : ItemIsFair(page[i])
    /\ \A i, j \in 1..Len(page) : i < j => page[i].rank < page[j].rank
    /\ stage \in Begun => page = <<>> /\ next = 1
    /\ printed = "rows" => stage = "told"
    /\ stage = "group" => /\ \A i \in 1..Len(page) : page[i].rank < next
                          /\ \A g \in 1..(next - 1) : Leads(g) => OnPage(g) \/ Gone(g)
    /\ Folded => \A g \in DOMAIN pool : Leads(g) => OnPage(g) \/ Gone(g) \/ PageFull(g)

\* A group has a best row, which leads it.
LEMMA GroupHasLead ==
  ASSUME PoolTypes, NEW r \in Ranks
  PROVE  \E g \in Ranks : Leads(g) /\ SameGroup(g, r) /\ g <= r
<1> DEFINE S == {q \in Ranks : SameGroup(q, r)}
<1>1. S \in SUBSET Nat /\ r \in S
  BY DEF PoolTypes, Ranks, SameGroup
<1>2. PICK g \in S : \A q \in S : <<q, g>> \notin OpToRel(<, Nat)
  <2> HIDE DEF S
  <2>1. S # {}
    BY <1>1
  <2> QED
    BY <1>1, <2>1, WFMin, NatLessThanWellFounded, Zenon
<1>3. \A q \in S : g <= q
  <2> HIDE DEF S
  <2>1. \A q \in S : ~(q < g)
    BY <1>1, <1>2, Zenon DEF OpToRel
  <2> QED
    BY <1>1, <2>1
<1>4. ASSUME NEW q \in Ranks, SameGroup(q, g)  PROVE g <= q
  <2>1. q \in S
    BY <1>4 DEF SameGroup
  <2> QED
    BY <1>3, <2>1
<1> QED
  BY <1>1, <1>3, <1>4 DEF Leads

LEMMA AsIs ==
  ASSUME NEW g
  PROVE  /\ As(g) \in {"matched", "promoted", "alone", "legacy"}
         /\ As(g) = "legacy" <=> pool[g].kind = "legacy"
         /\ As(g) = "alone" => pool[g].of \notin readable
         /\ As(g) = "promoted" => ~HasMemory(g)
  BY DEF As

\* What only reads the pool stays with it.
LEMMA PoolStays ==
  ASSUME UNCHANGED <<pool, recent>>
  PROVE  /\ \A g : Leads(g)' <=> Leads(g)
         /\ \A g : Gone(g)' <=> Gone(g)
         /\ AnyItem' = AnyItem
  BY DEF Leads, Gone, HasMemory, Ranks, SameGroup, AnyItem

LEMMA ItemsStay ==
  ASSUME UNCHANGED <<pool, recent>>, readable' \subseteq readable
  PROVE  \A item : ItemIsFair(item) => ItemIsFair(item)'
  BY PoolStays DEF ItemIsFair

\* Nothing changes the pool and what was asked; what was readable gets less.
LEMMA AskLeaves ==
  ASSUME [AskNext]_askVars
  PROVE  UNCHANGED <<pool, request, recent>> /\ readable' \subseteq readable
  BY DEF AskNext, askVars, around, FoldRow, PageDone, AskCommand, Choose, Recheck, Relate, Write, Reply,
         OtherRemoves, OtherConfigures

LEMMA PoolTypesStep == PoolTypes /\ [AskNext]_askVars => PoolTypes'
<1> SUFFICES ASSUME PoolTypes, [AskNext]_askVars  PROVE PoolTypes'
  OBVIOUS
<1>1. next' = next \/ next' = next + 1 \/ next' = 1
  BY DEF AskNext, askVars, FoldRow, PageDone, AskCommand, Choose, Recheck, Relate, Write, Reply,
         OtherRemoves, OtherConfigures
<1>2. next' \in Nat \ {0}
  BY <1>1 DEF PoolTypes
<1> QED
  BY <1>2, AskLeaves DEF PoolTypes

LEMMA RanksAreNumbers == PageInv => \A i \in 1..Len(page) : page[i].rank \in Nat
<1> SUFFICES ASSUME PageInv, NEW i \in 1..Len(page)  PROVE page[i].rank \in Nat
  OBVIOUS
<1>1. page[i] \in AnyItem
  BY DEF PageInv
<1> QED
  BY <1>1 DEF AnyItem

\* A step that leaves the page as it is.
LEMMA PageStays ==
  ASSUME PoolTypes, PageInv, UNCHANGED <<pool, request, recent, page>>, readable' \subseteq readable,
         stage' \in Begun => next' = next /\ stage \in Begun,
         printed' = "rows" => stage' = "told",
         stage' = "group" => next' = next /\ (stage = "group" \/ stage \in Begun),
         Folded' => Folded \/ (stage = "group" /\ ~More)
  PROVE  PageInv'
<1>1. page' \in Seq(AnyItem)' /\ Len(page)' <= request'.top
  BY PoolStays DEF PageInv
<1>2. \A i \in 1..Len(page)' : ItemIsFair(page[i])'
  BY ItemsStay DEF PageInv
<1>3. \A i, j \in 1..Len(page)' : i < j => page'[i].rank < page'[j].rank
  BY DEF PageInv
<1>4. stage' = "group" => /\ \A i \in 1..Len(page)' : page'[i].rank < next'
                          /\ \A g \in 1..(next' - 1) : Leads(g)' => OnPage(g)' \/ Gone(g)'
  <2>1. CASE stage = "group"
    BY <2>1, PoolStays DEF PageInv, OnPage
  <2>2. CASE stage \in Begun
    <3>1. page = <<>> /\ next = 1
      BY <2>2 DEF PageInv
    <3> QED
      BY <3>1
  <2> QED
    BY <2>1, <2>2
<1>5. Folded' => \A g \in DOMAIN pool' : Leads(g)' => OnPage(g)' \/ Gone(g)' \/ PageFull(g)'
  <2>1. CASE Folded
    BY <2>1, PoolStays DEF PageInv, OnPage, PageFull
  <2>2. CASE stage = "group" /\ ~More
    <3> SUFFICES ASSUME NEW g \in DOMAIN pool, Leads(g)  PROVE OnPage(g) \/ Gone(g) \/ PageFull(g)
      BY PoolStays DEF OnPage, PageFull
    <3>1. PICK n \in Nat : DOMAIN pool = 1..n
      BY DEF PoolTypes
    <3>2. CASE g < next
      BY <2>2, <3>1, <3>2 DEF PageInv, PoolTypes
    <3>3. CASE g >= next
      <4>1. ~(Len(page) < request.top)
        BY <2>2, <3>1, <3>3 DEF More, PoolTypes
      <4>2. Len(page) = request.top /\ Len(page) \in 1..Len(page)
        BY <4>1 DEF PageInv, PoolTypes
      <4>3. page[Len(page)].rank < next /\ page[Len(page)].rank \in Nat
        BY <2>2, <4>2, RanksAreNumbers DEF PageInv
      <4> QED
        BY <3>1, <3>3, <4>2, <4>3 DEF PageFull, PoolTypes
    <3> QED
      BY <3>1, <3>2, <3>3 DEF PoolTypes
  <2> QED
    BY <2>1, <2>2
<1>6. stage' \in Begun => page' = <<>> /\ next' = 1
  BY DEF PageInv
<1> QED
  BY <1>1, <1>2, <1>3, <1>4, <1>5, <1>6 DEF PageInv

\* A row that leads a group is put on the page, or its group is gone.
LEMMA FoldRowStep ==
  ASSUME PoolTypes, PageInv, FoldRow
  PROVE  PageInv'
<1>1. /\ stage = "group" /\ stage' = "group" /\ next' = next + 1 /\ next \in DOMAIN pool
      /\ Len(page) < request.top /\ printed' = printed /\ UNCHANGED <<pool, request, recent, readable>>
  BY DEF FoldRow, More, around
<1>2. CASE Leads(next) /\ ~Outside(next)
  <2> DEFINE item == ItemOf(next, As(next))
  <2>1. page' = Append(page, item)
    BY <1>2 DEF FoldRow
  <2>2. item.rank = next /\ item.of = pool[next].of /\ item.as = As(next) /\ item \in AnyItem
    BY <1>1, AsIs DEF ItemOf, AnyItem, Children, FactsOf, Ranks, PoolTypes
  <2> HIDE DEF item
  <2>3. ItemIsFair(item)
    BY <1>2, <2>2, AsIs DEF ItemIsFair, Outside
  <2>4. page \in Seq(AnyItem) /\ Len(page) \in Nat
    BY DEF PageInv
  <2>5. /\ page' \in Seq(AnyItem) /\ Len(page') = Len(page) + 1
        /\ page'[Len(page) + 1] = item
        /\ \A i \in 1..Len(page) : page'[i] = page[i]
    BY <2>1, <2>2, <2>4
  <2>6. page' \in Seq(AnyItem)' /\ Len(page)' <= request'.top
    BY <1>1, <2>4, <2>5, PoolStays DEF PoolTypes
  <2>7. \A i \in 1..Len(page)' : ItemIsFair(page[i])'
    <3> SUFFICES ASSUME NEW i \in 1..Len(page')  PROVE ItemIsFair(page[i])'
      OBVIOUS
    <3>1. PICK x : x = page'[i]
      OBVIOUS
    <3>2. ItemIsFair(x)
      BY <2>3, <2>4, <2>5, <3>1 DEF PageInv
    <3>3. ItemIsFair(x)'
      BY <1>1, <3>2, ItemsStay
    <3> QED
      BY <3>1, <3>3
  <2>8. \A i \in 1..Len(page) : page[i].rank < next
    BY <1>1 DEF PageInv
  <2>9. \A i, j \in 1..Len(page)' : i < j => page'[i].rank < page'[j].rank
    <3> SUFFICES ASSUME NEW i \in 1..Len(page'), NEW j \in 1..Len(page'), i < j
                 PROVE  page'[i].rank < page'[j].rank
      OBVIOUS
    <3>1. i \in 1..Len(page) /\ (j \in 1..Len(page) \/ j = Len(page) + 1)
      BY <2>4, <2>5
    <3>2. CASE j \in 1..Len(page)
      BY <2>5, <3>1, <3>2 DEF PageInv
    <3>3. CASE j = Len(page) + 1
      BY <2>2, <2>5, <2>8, <3>1, <3>3
    <3> QED
      BY <3>1, <3>2, <3>3
  <2>10. \A i \in 1..Len(page)' : page'[i].rank < next'
    <3> SUFFICES ASSUME NEW i \in 1..Len(page')  PROVE page'[i].rank < next'
      OBVIOUS
    <3>1. CASE i \in 1..Len(page)
      <4>1. page[i].rank \in Nat
        BY <3>1, RanksAreNumbers
      <4> QED
        BY <1>1, <2>5, <2>8, <3>1, <4>1 DEF PoolTypes
    <3>2. CASE i = Len(page) + 1
      BY <1>1, <2>2, <2>5, <3>2 DEF PoolTypes
    <3> QED
      BY <2>4, <2>5, <3>1, <3>2
  <2>11. ASSUME NEW g \in 1..(next' - 1), Leads(g)'  PROVE OnPage(g)' \/ Gone(g)'
    <3>1. Leads(g)
      BY <1>1, <2>11, PoolStays
    <3>2. g = next \/ g \in 1..(next - 1)
      BY <1>1 DEF PoolTypes
    <3>3. CASE g = next
      BY <2>2, <2>4, <2>5, <3>3 DEF OnPage
    <3>4. CASE g \in 1..(next - 1)
      <4>1. OnPage(g) \/ Gone(g)
        BY <1>1, <3>1, <3>4 DEF PageInv
      <4>2. OnPage(g) => OnPage(g)'
        BY <2>4, <2>5 DEF OnPage
      <4> QED
        BY <1>1, <4>1, <4>2, PoolStays
    <3> QED
      BY <3>2, <3>3, <3>4
  <2> QED
    BY <1>1, <2>6, <2>7, <2>9, <2>10, <2>11 DEF PageInv, Folded, Begun
<1>3. CASE ~(Leads(next) /\ ~Outside(next))
  <2>1. page' = page
    BY <1>3 DEF FoldRow
  <2>2. Leads(next) => Gone(next)
    <3> SUFFICES ASSUME Leads(next)  PROVE Gone(next)
      OBVIOUS
    <3>1. As(next) = "promoted" /\ pool[next].of \notin recent
      BY <1>3 DEF Outside
    <3>2. ~HasMemory(next) /\ pool[next].kind # "legacy"
      BY <3>1, AsIs
    <3>3. pool[next].kind # "memory"
      BY <3>2 DEF HasMemory, Leads, SameGroup
    <3> QED
      BY <1>1, <3>1, <3>2, <3>3 DEF Gone, PoolTypes, Kinds
  <2>3. page' \in Seq(AnyItem)' /\ Len(page)' <= request'.top
    BY <1>1, <2>1, PoolStays DEF PageInv
  <2>4. \A i \in 1..Len(page)' : ItemIsFair(page[i])'
    BY <1>1, <2>1, ItemsStay DEF PageInv
  <2>5. \A i, j \in 1..Len(page)' : i < j => page'[i].rank < page'[j].rank
    BY <2>1 DEF PageInv
  <2>6. \A i \in 1..Len(page)' : page'[i].rank < next'
    <3> SUFFICES ASSUME NEW i \in 1..Len(page)  PROVE page[i].rank < next + 1
      BY <1>1, <2>1
    <3>1. page[i].rank \in Nat /\ page[i].rank < next
      BY <1>1, RanksAreNumbers DEF PageInv
    <3> QED
      BY <3>1 DEF PoolTypes
  <2>7. ASSUME NEW g \in 1..(next' - 1), Leads(g)'  PROVE OnPage(g)' \/ Gone(g)'
    <3>1. Leads(g)
      BY <1>1, <2>7, PoolStays
    <3>2. g = next \/ g \in 1..(next - 1)
      BY <1>1 DEF PoolTypes
    <3>3. OnPage(g) \/ Gone(g)
      BY <1>1, <2>2, <3>1, <3>2 DEF PageInv
    <3> QED
      BY <1>1, <2>1, <3>3, PoolStays DEF OnPage
  <2> QED
    BY <1>1, <2>3, <2>4, <2>5, <2>6, <2>7 DEF PageInv, Folded, Begun
<1> QED
  BY <1>2, <1>3

LEMMA PageStep == PoolTypes /\ PageInv /\ [AskNext]_askVars => PageInv'
<1> SUFFICES ASSUME PoolTypes, PageInv, [AskNext]_askVars  PROVE PageInv'
  OBVIOUS
<1>1. CASE FoldRow
  BY <1>1, FoldRowStep
<1>2. ASSUME ~FoldRow
      PROVE  /\ page' = page
             /\ stage' \in Begun => next' = next /\ stage \in Begun
             /\ printed' = "rows" => stage' = "told"
             /\ stage' = "group" => next' = next /\ (stage = "group" \/ stage \in Begun)
             /\ Folded' => Folded \/ (stage = "group" /\ ~More)
  <2>1. printed = "rows" => stage = "told"
    BY DEF PageInv
  <2> USE DEF Begun, Folded
  <2>2. CASE PageDone
    BY <2>1, <2>2 DEF PageDone
  <2>3. CASE AskCommand \/ Choose \/ Recheck
    BY <2>1, <2>3 DEF AskCommand, Choose, Recheck
  <2>4. CASE Relate \/ Write \/ Reply
    BY <2>1, <2>4 DEF Relate, Write, Reply
  <2>5. CASE OtherRemoves \/ OtherConfigures \/ UNCHANGED askVars
    BY <2>1, <2>5 DEF OtherRemoves, OtherConfigures, askVars
  <2> QED
    BY <1>2, <2>2, <2>3, <2>4, <2>5 DEF AskNext
<1> QED
  BY <1>1, <1>2, AskLeaves, PageStays

\* A folded page (search_collapse.py:64-211), for any pool, page and window,
\* though memories are removed while it is folded: every memory once, by its
\* best row, nobody from outside the window, and nobody left out before the
\* page is full.  "none" is the source of a fact that has none.
THEOREM PagesAreFair == ASSUME "none" \notin Sources PROVE AskSpec => []PageIsFair
<1>1. AskInit => PoolTypes /\ PageInv
  <2> SUFFICES ASSUME AskInit  PROVE PoolTypes /\ PageInv
    OBVIOUS
  <2>1. PICK n \in Nat : pool \in [1..n -> PoolRow]
    BY DEF AskInit
  <2>2. request.top \in Nat \ {0} /\ next = 1 /\ page = <<>> /\ printed = "nothing"
        /\ stage \in {"command", "group"}
    BY DEF AskInit
  <2>3. PoolTypes
    BY <2>1, <2>2 DEF PoolTypes, PoolRow, Kinds
  <2>4. PageInv
    BY <2>2 DEF PageInv, Folded
  <2> QED
    BY <2>3, <2>4
<1>2. PoolTypes /\ PageInv => PageIsFair
  <2> SUFFICES ASSUME PoolTypes, PageInv  PROVE PageIsFair
    OBVIOUS
  <2>1. DOMAIN page = 1..Len(page)
    BY DEF PageInv
  <2>2. ASSUME NEW i \in 1..Len(page), NEW j \in 1..Len(page), i < j
        PROVE  page[i].rank < page[j].rank /\ (page[i].as # "legacy" => page[i].of # page[j].of)
    <3>1. page[i].rank < page[j].rank /\ page[i].rank \in Nat /\ page[j].rank \in Nat
      BY <2>2, RanksAreNumbers DEF PageInv
    <3>2. ItemIsFair(page[i]) /\ ItemIsFair(page[j])
      BY DEF PageInv
    <3>3. ASSUME page[i].as # "legacy", page[i].of = page[j].of  PROVE FALSE
      <4>1. SameGroup(page[i].rank, page[j].rank) /\ page[i].rank \in Ranks
        BY <3>2, <3>3 DEF ItemIsFair, SameGroup, Leads
      <4>2. page[j].rank <= page[i].rank
        BY <3>2, <4>1 DEF ItemIsFair, Leads
      <4> QED
        BY <3>1, <4>2
    <3> QED
      BY <3>1, <3>3
  <2>3. \A i \in 1..Len(page) :
          /\ pool[page[i].rank].within
          /\ page[i].as = "promoted" => page[i].of \in recent
          /\ page[i].as = "alone" => page[i].of \notin readable
    BY DEF PageInv, ItemIsFair, Leads, Ranks
  <2>4. ASSUME Folded, NEW r \in DOMAIN pool, pool[r].within
        PROVE  \/ \E i \in 1..Len(page) : Shows(page[i], r)
               \/ Len(page) = request.top /\ r > page[Len(page)].rank
               \/ pool[r].kind = "fact" /\ pool[r].of \notin recent
    <3>1. r \in Ranks
      BY <2>4 DEF Ranks
    <3>2. PICK g \in Ranks : Leads(g) /\ SameGroup(g, r) /\ g <= r
      BY <3>1, GroupHasLead
    <3>3. g \in DOMAIN pool /\ g \in Nat /\ r \in Nat
      BY <3>1, <3>2 DEF Ranks, PoolTypes
    <3>4. CASE OnPage(g)
      <4>1. PICK i \in 1..Len(page) : page[i].rank = g
        BY <3>4 DEF OnPage
      <4>2. ItemIsFair(page[i])
        BY DEF PageInv
      <4> QED
        BY <3>2, <4>1, <4>2 DEF ItemIsFair, Shows, SameGroup
    <3>5. CASE Gone(g)
      <4>1. pool[r].of = pool[g].of
        BY <3>2 DEF SameGroup
      <4>2. pool[r].kind # "memory"
        BY <3>1, <3>5, <4>1 DEF Gone, HasMemory, SameGroup
      <4>3. pool[r].kind # "legacy"
        BY <3>3, <3>5, <4>1 DEF Gone, PoolTypes
      <4> QED
        BY <3>5, <4>1, <4>2, <4>3 DEF Gone, PoolTypes, Kinds
    <3>6. CASE PageFull(g)
      <4>1. Len(page) \in 1..Len(page)
        BY <3>6 DEF PageFull, PageInv, PoolTypes
      <4>2. page[Len(page)].rank \in Nat
        BY <4>1, RanksAreNumbers
      <4> QED
        BY <3>2, <3>3, <3>6, <4>2 DEF PageFull
    <3> QED
      BY <2>4, <3>2, <3>3, <3>4, <3>5, <3>6 DEF PageInv
  <2>5. \A i, j \in DOMAIN page : i < j =>
          page[i].rank < page[j].rank /\ (page[i].as # "legacy" => page[i].of # page[j].of)
    BY <2>1, <2>2
  <2>6. Folded => \A r \in DOMAIN pool : pool[r].within =>
          \/ \E i \in DOMAIN page : Shows(page[i], r)
          \/ Len(page) = request.top /\ r > page[Len(page)].rank
          \/ pool[r].kind = "fact" /\ pool[r].of \notin recent
    BY <2>1, <2>4
  <2>7. \A i \in DOMAIN page :
          /\ pool[page[i].rank].within
          /\ page[i].as = "promoted" => page[i].of \in recent
          /\ page[i].as = "alone" => page[i].of \notin readable
    BY <2>1, <2>3
  <2> QED
    BY <2>5, <2>6, <2>7, Zenon DEF PageIsFair, Folded
<1> QED
  BY <1>1, <1>2, PoolTypesStep, PageStep, PTL DEF AskSpec

-----------------------------------------------------------------------------
(* SetupRun: the steps of a plan, the daemon's and the checks last, and    *)
(* what is installed when a run has come to one of them.                   *)

Late == {"restart", "daemon", "mode", "roundtrip"}
Early(c) ==
    IF Mode(c) = "remote" THEN <<"auth">> \o HookSteps
    ELSE <<"config", "spacy">> \o (IF c \in Embedders THEN <<"embedding">> ELSE <<>>)
         \o <<"extra_models">> \o HookSteps \o <<"seed">>

LEMMA Joined ==
  ASSUME NEW S, NEW s \in Seq(S), NEW t \in Seq(S)
  PROVE  /\ s \o t \in Seq(S) /\ Len(s \o t) = Len(s) + Len(t)
         /\ Len(s) \in Nat /\ Len(t) \in Nat
         /\ \A i \in 1..Len(s) : (s \o t)[i] = s[i]
         /\ \A i \in 1..Len(t) : (s \o t)[Len(s) + i] = t[i]
BY ConcatProperties

LEMMA EarlySteps ==
  ASSUME NEW c
  PROVE  /\ Early(c) \in Seq(Steps \ Late)
         /\ Mode(c) = "local" => /\ Len(Early(c)) > 0 /\ Early(c)[1] = "config"
                                 /\ \A i \in 1..Len(Early(c)) : Early(c)[i] # "auth"
<1> DEFINE S == Steps \ (Late \cup {"auth"})
<1>1. CASE Mode(c) = "remote"
  <2>1. <<"auth">> \in Seq(Steps \ Late) /\ HookSteps \in Seq(Steps \ Late)
    BY DEF HookSteps, Steps, Late
  <2> QED
    BY <1>1, <2>1, Joined DEF Early
<1>2. CASE Mode(c) # "remote"
  <2> DEFINE E == IF c \in Embedders THEN <<"embedding">> ELSE <<>>
             A == <<"config", "spacy">>
  <2>1. /\ A \in Seq(S) /\ E \in Seq(S) /\ <<"extra_models">> \in Seq(S)
        /\ HookSteps \in Seq(S) /\ <<"seed">> \in Seq(S)
    <3>1. {"config", "spacy", "embedding", "extra_models", "hooks", "skills", "register", "seed"}
             \subseteq S
      BY DEF Steps, Late
    <3> HIDE DEF S
    <3>2. A \in Seq(S)
      BY <3>1
    <3>3. E \in Seq(S)
      BY <3>1
    <3>4. <<"extra_models">> \in Seq(S)
      BY <3>1
    <3>5. HookSteps \in Seq(S)
      BY <3>1 DEF HookSteps
    <3>6. <<"seed">> \in Seq(S)
      BY <3>1
    <3> QED
      BY <3>2, <3>3, <3>4, <3>5, <3>6
  <2>2. Len(A) = 2 /\ A[1] = "config"
    OBVIOUS
  <2>3. Early(c) = A \o E \o <<"extra_models">> \o HookSteps \o <<"seed">>
    BY <1>2 DEF Early
  <2> HIDE DEF S, E, A
  <2>4. A \o E \in Seq(S) /\ Len(A \o E) >= 2 /\ (A \o E)[1] = "config"
    <3>1. /\ A \o E \in Seq(S) /\ Len(A \o E) = Len(A) + Len(E) /\ Len(E) \in Nat
          /\ \A i \in 1..Len(A) : (A \o E)[i] = A[i]
      BY <2>1, Joined
    <3> QED
      BY <3>1, <2>2
  <2>5. /\ A \o E \o <<"extra_models">> \in Seq(S) /\ Len(A \o E \o <<"extra_models">>) >= 2
        /\ (A \o E \o <<"extra_models">>)[1] = "config"
    BY <2>1, <2>4, Joined
  <2>6. /\ A \o E \o <<"extra_models">> \o HookSteps \in Seq(S)
        /\ Len(A \o E \o <<"extra_models">> \o HookSteps) >= 2
        /\ (A \o E \o <<"extra_models">> \o HookSteps)[1] = "config"
    BY <2>1, <2>5, Joined
  <2>7. Early(c) \in Seq(S) /\ Len(Early(c)) >= 2 /\ Early(c)[1] = "config"
    BY <2>1, <2>3, <2>6, Joined
  <2>8. S \subseteq Steps \ Late /\ "auth" \notin S
    BY DEF S
  <2> QED
    BY <2>7, <2>8
<1> QED
  BY <1>1, <1>2

\* The steps that belong to the daemon and the checks come last.
LatePart(p) == IF Mode(p.choice) = "remote" THEN <<>>
               ELSE IF p.restart THEN <<"restart", "daemon">> ELSE <<"daemon">>

LEMMA PlanShape ==
  ASSUME NEW p \in Progress
  PROVE  /\ Plan(p) \in Seq(Steps)
         /\ Len(Plan(p)) = Len(Early(p.choice)) + Len(LatePart(p)) + 2
         /\ \A i \in 1..Len(Early(p.choice)) : Plan(p)[i] = Early(p.choice)[i] /\ Plan(p)[i] \notin Late
         /\ \A i \in 1..Len(LatePart(p)) : Plan(p)[Len(Early(p.choice)) + i] = LatePart(p)[i]
         /\ Plan(p)[Len(Early(p.choice)) + Len(LatePart(p)) + 1] = "mode"
         /\ Plan(p)[Len(Early(p.choice)) + Len(LatePart(p)) + 2] = "roundtrip"
<1> DEFINE c == p.choice
<1>1. /\ Early(c) \in Seq(Steps) /\ LatePart(p) \in Seq(Steps) /\ VerifySteps \in Seq(Steps)
      /\ <<"restart">> \in Seq(Steps) /\ <<"daemon">> \in Seq(Steps) /\ <<>> \in Seq(Steps)
  <2>1. {"restart", "daemon", "mode", "roundtrip"} \subseteq Steps
    BY DEF Steps
  <2>2. Early(c) \in Seq(Steps)
    BY EarlySteps
  <2>3. LatePart(p) \in Seq(Steps)
    BY <2>1 DEF LatePart
  <2>4. VerifySteps \in Seq(Steps)
    BY <2>1 DEF VerifySteps
  <2>5. <<"restart">> \in Seq(Steps) /\ <<"daemon">> \in Seq(Steps) /\ <<>> \in Seq(Steps)
    BY <2>1
  <2> QED
    BY <2>2, <2>3, <2>4, <2>5
<1>2. \A i \in 1..Len(Early(c)) : Early(c)[i] \notin Late
  BY EarlySteps
<1>3. Len(VerifySteps) = 2 /\ VerifySteps[1] = "mode" /\ VerifySteps[2] = "roundtrip"
  BY DEF VerifySteps
<1> DEFINE B == IF Mode(c) = "remote" THEN <<"auth">> \o HookSteps ELSE LocalPlan(c, p.restart)
<1>4. /\ B \in Seq(Steps) /\ Len(B) = Len(Early(c)) + Len(LatePart(p))
      /\ \A i \in 1..Len(Early(c)) : B[i] = Early(c)[i]
      /\ \A i \in 1..Len(LatePart(p)) : B[Len(Early(c)) + i] = LatePart(p)[i]
  <2>1. CASE Mode(c) = "remote"
    BY <1>1, <2>1 DEF Early, LatePart
  <2>2. CASE Mode(c) # "remote" /\ p.restart
    <3>1. B = (Early(c) \o <<"restart">>) \o <<"daemon">>
      BY <2>2 DEF Early, LocalPlan
    <3>2. LatePart(p) = <<"restart", "daemon">> /\ Len(<<"restart">>) = 1 /\ Len(<<"daemon">>) = 1
      BY <2>2 DEF LatePart
    <3>3. /\ Early(c) \o <<"restart">> \in Seq(Steps) /\ Len(Early(c) \o <<"restart">>) = Len(Early(c)) + 1
          /\ \A i \in 1..Len(Early(c)) : (Early(c) \o <<"restart">>)[i] = Early(c)[i]
          /\ (Early(c) \o <<"restart">>)[Len(Early(c)) + 1] = "restart"
      BY <1>1, <3>2, Joined
    <3>4. /\ B \in Seq(Steps) /\ Len(B) = Len(Early(c)) + 2
          /\ \A i \in 1..Len(Early(c)) : B[i] = Early(c)[i]
          /\ B[Len(Early(c)) + 1] = "restart"
          /\ B[Len(Early(c)) + 2] = "daemon"
      <4> HIDE DEF B
      <4>1. Len(Early(c)) \in Nat
        BY <1>1
      <4> QED
        BY <1>1, <3>1, <3>2, <3>3, <4>1, Joined
    <3> QED
      BY <3>2, <3>4
  <2>3. CASE Mode(c) # "remote" /\ ~p.restart
    <3>1. B = (Early(c) \o <<>>) \o <<"daemon">>
      BY <2>3 DEF Early, LocalPlan
    <3>2. Early(c) \o <<>> = Early(c)
      BY <1>1, ConcatEmptySeq
    <3>3. LatePart(p) = <<"daemon">> /\ Len(<<"daemon">>) = 1
      BY <2>3 DEF LatePart
    <3>4. B = Early(c) \o <<"daemon">>
      BY <3>1, <3>2
    <3> HIDE DEF B
    <3>5. /\ B \in Seq(Steps) /\ Len(B) = Len(Early(c)) + 1
          /\ \A i \in 1..Len(Early(c)) : B[i] = Early(c)[i]
          /\ B[Len(Early(c)) + 1] = <<"daemon">>[1]
      BY <1>1, <3>3, <3>4, Joined
    <3> QED
      BY <3>3, <3>5
  <2> QED
    BY <2>1, <2>2, <2>3
<1>5. Plan(p) = B \o VerifySteps
  BY DEF Plan
<1>6. Len(Early(c)) \in Nat /\ Len(LatePart(p)) \in Nat
  BY <1>1
<1> HIDE DEF B
<1>7. /\ Plan(p) \in Seq(Steps) /\ Len(Plan(p)) = Len(B) + 2
      /\ \A i \in 1..Len(B) : Plan(p)[i] = B[i]
      /\ \A i \in 1..2 : Plan(p)[Len(B) + i] = VerifySteps[i]
  <2>1. /\ B \o VerifySteps \in Seq(Steps) /\ Len(B \o VerifySteps) = Len(B) + Len(VerifySteps)
        /\ \A i \in 1..Len(B) : (B \o VerifySteps)[i] = B[i]
        /\ \A i \in 1..Len(VerifySteps) : (B \o VerifySteps)[Len(B) + i] = VerifySteps[i]
    <3>1. B \in Seq(Steps)
      BY <1>4
    <3>2. VerifySteps \in Seq(Steps)
      BY <1>1
    <3>3. \A s, t \in Seq(Steps) :
             /\ s \o t \in Seq(Steps) /\ Len(s \o t) = Len(s) + Len(t)
             /\ \A i \in 1..Len(s) : (s \o t)[i] = s[i]
             /\ \A i \in 1..Len(t) : (s \o t)[Len(s) + i] = t[i]
      BY Joined
    <3> QED
      BY <3>1, <3>2, <3>3, Zenon
  <2> QED
    BY <1>3, <1>5, <2>1
<1>8. /\ Plan(p)[Len(Early(c)) + Len(LatePart(p)) + 1] = "mode"
      /\ Plan(p)[Len(Early(c)) + Len(LatePart(p)) + 2] = "roundtrip"
  BY <1>3, <1>4, <1>6, <1>7
<1> QED
  BY <1>2, <1>4, <1>6, <1>7, <1>8

-----------------------------------------------------------------------------
Statuses == {"pending", "done", "verified", "failed"}

LEMMA MarkedIs ==
  ASSUME NEW p \in Progress, NEW key \in Steps, NEW status \in Statuses
  PROVE  /\ Marked(p, key, status) \in Progress
         /\ Marked(p, key, status).choice = p.choice /\ Marked(p, key, status).restart = p.restart
         /\ Marked(p, key, status).tui = p.tui
         /\ Marked(p, key, status).st = [p.st EXCEPT ![key] = status]
<1>1. PICK st : st = [p.st EXCEPT ![key] = status]
  OBVIOUS
<1>2. st \in [Steps -> Statuses]
  BY <1>1 DEF Progress, Statuses
<1>3. Marked(p, key, status) = [p EXCEPT !.st = st]
  BY <1>1 DEF Marked, Progress
<1> QED
  BY <1>1, <1>2, <1>3 DEF Progress, Statuses

LEMMA SamePlan ==
  ASSUME NEW p, NEW q, p.choice = q.choice, p.restart = q.restart
  PROVE  Plan(p) = Plan(q)
BY DEF Plan

\* The steps before a place are finished, the optional one apart.
FinishedUpTo(p, pos) ==
    \A i \in 1..(pos - 1) : Plan(p)[i] \notin OptionalKeys => p.st[Plan(p)[i]] \in Finished

LEMMA FirstUnrecordedIs ==
  ASSUME NEW p \in Progress
  PROVE  FirstUnrecorded(p) \in 1..(Len(Plan(p)) + 1) /\ FinishedUpTo(p, FirstUnrecorded(p))
<1> DEFINE bad == {i \in Considered(p) : p.st[Plan(p)[i]] \notin Finished}
<1>1. DOMAIN Plan(p) = 1..Len(Plan(p)) /\ Len(Plan(p)) \in Nat
  BY PlanShape
<1>2. FirstUnrecorded(p) = IF bad = {} THEN Len(Plan(p)) + 1 ELSE CHOOSE i \in bad : \A j \in bad : i <= j
  BY DEF FirstUnrecorded
<1>3. bad \subseteq 1..Len(Plan(p))
  BY <1>1 DEF Considered
<1>4. \A i \in 1..Len(Plan(p)) : Plan(p)[i] \notin OptionalKeys /\ p.st[Plan(p)[i]] \notin Finished => i \in bad
  BY <1>1 DEF Considered
<1> HIDE DEF bad
<1>5. CASE bad = {}
  BY <1>1, <1>2, <1>4, <1>5 DEF FinishedUpTo
<1>6. CASE bad # {}
  <2>1. \E i \in bad : \A j \in bad : i <= j
    <3>1. bad \subseteq Nat
      BY <1>1, <1>3
    <3>2. \E i \in bad : \A j \in bad : <<j, i>> \notin OpToRel(<, Nat)
      BY <1>6, <3>1, NatLessThanWellFounded, WFMin
    <3>3. PICK i \in bad : \A j \in bad : <<j, i>> \notin OpToRel(<, Nat)
      BY <3>2
    <3>4. \A j \in bad : ~(j < i)
      BY <3>1, <3>3, Zenon DEF OpToRel
    <3> QED
      BY <3>1, <3>4
  <2>2. FirstUnrecorded(p) \in bad /\ \A j \in bad : FirstUnrecorded(p) <= j
    BY <1>2, <1>6, <2>1
  <2> DEFINE n == FirstUnrecorded(p)
  <2>3. n \in 1..Len(Plan(p)) /\ \A j \in bad : n <= j
    BY <1>3, <2>2
  <2> HIDE DEF n
  <2>4. \A i \in 1..(n - 1) : i \in 1..Len(Plan(p)) /\ i \notin bad
    BY <1>1, <2>3
  <2> USE DEF n
  <2>5. FinishedUpTo(p, n)
    BY <1>4, <2>4 DEF FinishedUpTo
  <2> QED
    BY <1>1, <2>3, <2>5
<1> QED
  BY <1>5, <1>6

-----------------------------------------------------------------------------
\* What a step of the plan changed is still there: of the steps before a place.
Installed(w, p, pos) ==
    \A i \in 1..(pos - 1) : Plan(p)[i] \in Effects \ OptionalKeys => Plan(p)[i] \in w.effects

SetupShapes ==
  /\ world = [config |-> world.config, daemon |-> world.daemon, effects |-> world.effects, env |-> world.env]
  /\ progress # NoProgress => progress \in Progress
  /\ run.pc \in {"idle", "step", "check", "screen"}
  /\ run.pc # "idle" =>
       /\ run = [pc |-> run.pc, p |-> run.p, at |-> run.at, ask |-> run.ask]
       /\ run.p \in Progress /\ run.at \in 1..(Len(Plan(run.p)) + 1) /\ run.ask \in BOOLEAN
       /\ progress \in Progress /\ progress.choice = run.p.choice
       /\ progress.restart = run.p.restart /\ progress.tui = run.p.tui

\* A run is where its steps have come to.
PlaceInv ==
  run.pc # "idle" =>
    /\ said # "ready" /\ FinishedUpTo(run.p, run.at)
    /\ run.pc # "step" => run.at <= Len(Plan(run.p))
    /\ run.pc = "check" => run.p.st[CurrentStep] = "done"
    /\ run.pc = "screen" => run.at > Len(Early(run.p.choice)) /\ run.p.tui
    /\ ~run.p.tui /\ ~run.ask => run.at > Len(Early(run.p.choice))

EffectsInv ==
  /\ run.pc # "idle" => Installed(world, run.p, run.at)
  /\ said = "ready" /\ progress \in Progress => Installed(world, progress, Len(Plan(progress)) + 1)

\* The settings are the chosen ones, and so are those of a daemon that runs.
Holding(w, c) == w.config = c /\ w.daemon \in {"down", c}
Text(p) == Mode(p.choice) = "local" /\ ~p.tui
Past(p) == p.st["restart"] \in Finished \/ p.st["daemon"] \in Finished

AtDaemon == run.pc \in {"step", "check"} /\ ~run.ask /\ run.at <= Len(Plan(run.p)) /\ CurrentStep = "daemon"

ChosenInv == run.pc # "idle" /\ Mode(run.p.choice) = "local" /\ run.at > 1 => world.config = run.p.choice
DaemonInv ==
  "config" \notin touched =>
    /\ run.pc # "idle" /\ Text(run.p) /\ (Past(run.p) \/ AtDaemon) => Holding(world, run.p.choice)
    /\ progress \in Progress /\ Text(progress) /\ (Past(progress) \/ said = "ready")
         => Holding(world, progress.choice)

SetupInv == SetupShapes /\ PlaceInv /\ EffectsInv /\ ChosenInv /\ DaemonInv

LEMMA PlanFacts ==
  ASSUME NEW p \in Progress
  PROVE  LET n == Len(Early(p.choice))
             l == Len(Plan(p))
         IN /\ n \in Nat /\ l \in Nat /\ l >= n + 2
            /\ \A i \in 1..l : Plan(p)[i] \in Steps
            /\ \A i \in 1..n : Plan(p)[i] \notin Late
            /\ \A i \in 1..l : i > n => Plan(p)[i] \in Late
            /\ Mode(p.choice) = "local" =>
                 /\ n >= 1 /\ Plan(p)[1] = "config" /\ (\A i \in 1..l : Plan(p)[i] # "auth")
                 /\ p.restart => l = n + 4 /\ Plan(p)[n + 1] = "restart" /\ Plan(p)[n + 2] = "daemon"
                                 /\ Plan(p)[n + 3] = "mode" /\ Plan(p)[n + 4] = "roundtrip"
                 /\ ~p.restart => l = n + 3 /\ Plan(p)[n + 1] = "daemon"
                                  /\ Plan(p)[n + 2] = "mode" /\ Plan(p)[n + 3] = "roundtrip"
            /\ Mode(p.choice) # "local" =>
                 l = n + 2 /\ Plan(p)[n + 1] = "mode" /\ Plan(p)[n + 2] = "roundtrip"
<1> DEFINE n == Len(Early(p.choice))
           l == Len(Plan(p))
<1>1. /\ n \in Nat /\ l \in Nat /\ \A i \in 1..l : Plan(p)[i] \in Steps
  BY PlanShape, EarlySteps
<1>2. l = n + Len(LatePart(p)) + 2
  BY PlanShape
<1>3. \A i \in 1..n : Plan(p)[i] = Early(p.choice)[i] /\ Plan(p)[i] \notin Late
  BY PlanShape
<1>4. \A i \in 1..Len(LatePart(p)) : Plan(p)[n + i] = LatePart(p)[i]
  BY PlanShape
<1>5. Plan(p)[n + Len(LatePart(p)) + 1] = "mode" /\ Plan(p)[n + Len(LatePart(p)) + 2] = "roundtrip"
  BY PlanShape
<1>6. Mode(p.choice) = "local" => n >= 1 /\ Early(p.choice)[1] = "config" /\ \A i \in 1..n : Early(p.choice)[i] # "auth"
  BY <1>1, EarlySteps
<1> HIDE DEF n, l
<1>7. CASE Mode(p.choice) = "local" /\ p.restart
  <2>1. LatePart(p) = <<"restart", "daemon">>
    BY <1>7 DEF LatePart
  <2>2. Len(LatePart(p)) = 2 /\ LatePart(p)[1] = "restart" /\ LatePart(p)[2] = "daemon"
    BY <2>1
  <2>3. l = n + 4 /\ Plan(p)[n + 1] = "restart" /\ Plan(p)[n + 2] = "daemon"
                  /\ Plan(p)[n + 3] = "mode" /\ Plan(p)[n + 4] = "roundtrip"
    BY <1>1, <1>2, <1>4, <1>5, <2>2
  <2>4. \A i \in 1..l : i > n => i = n + 1 \/ i = n + 2 \/ i = n + 3 \/ i = n + 4
    BY <1>1, <2>3
  <2>5. \A i \in 1..l : i > n => Plan(p)[i] \in Late
    BY <2>3, <2>4 DEF Late
  <2>6. \A i \in 1..l : Plan(p)[i] # "auth"
    BY <1>1, <1>3, <1>6, <1>7, <2>5 DEF Late
  <2>7. n >= 1 /\ Plan(p)[1] = "config"
    BY <1>1, <1>3, <1>6, <1>7
  <2> QED
    BY <1>1, <1>3, <1>7, <2>3, <2>5, <2>6, <2>7 DEF n, l
<1>8. CASE Mode(p.choice) = "local" /\ ~p.restart
  <2>1. LatePart(p) = <<"daemon">>
    BY <1>8 DEF LatePart
  <2>2. Len(LatePart(p)) = 1 /\ LatePart(p)[1] = "daemon"
    BY <2>1
  <2>3. l = n + 3 /\ Plan(p)[n + 1] = "daemon" /\ Plan(p)[n + 2] = "mode" /\ Plan(p)[n + 3] = "roundtrip"
    BY <1>1, <1>2, <1>4, <1>5, <2>2
  <2>4. \A i \in 1..l : i > n => i = n + 1 \/ i = n + 2 \/ i = n + 3
    BY <1>1, <2>3
  <2>5. \A i \in 1..l : i > n => Plan(p)[i] \in Late
    BY <2>3, <2>4 DEF Late
  <2>6. \A i \in 1..l : Plan(p)[i] # "auth"
    BY <1>1, <1>3, <1>6, <1>8, <2>5 DEF Late
  <2>7. n >= 1 /\ Plan(p)[1] = "config"
    BY <1>1, <1>3, <1>6, <1>8
  <2> QED
    BY <1>1, <1>3, <1>8, <2>3, <2>5, <2>6, <2>7 DEF n, l
<1>9. CASE Mode(p.choice) # "local"
  <2>1. LatePart(p) = <<>> /\ Len(<<>>) = 0
    BY <1>9 DEF LatePart, Mode
  <2>2. l = n + 2 /\ Plan(p)[n + 1] = "mode" /\ Plan(p)[n + 2] = "roundtrip"
    BY <1>1, <1>2, <1>5, <2>1
  <2>3. \A i \in 1..l : i > n => i = n + 1 \/ i = n + 2
    BY <1>1, <2>2
  <2>4. \A i \in 1..l : i > n => Plan(p)[i] \in Late
    BY <2>2, <2>3 DEF Late
  <2> QED
    BY <1>1, <1>3, <1>9, <2>2, <2>4 DEF n, l
<1> QED
  BY <1>7, <1>8, <1>9

\* Two runs with one choice differ after the settings, the models and the hooks only.
LEMMA SameStart ==
  ASSUME NEW p \in Progress, NEW q \in Progress, p.choice = q.choice
  PROVE  \A i \in 1..Len(Early(p.choice)) : Plan(p)[i] = Plan(q)[i]
<1>1. \A i \in 1..Len(Early(p.choice)) : Plan(p)[i] = Early(p.choice)[i]
  BY PlanShape
<1>2. \A i \in 1..Len(Early(p.choice)) : Plan(q)[i] = Early(p.choice)[i]
  BY PlanShape
<1> QED
  BY <1>1, <1>2

\* What a step does to the machine, or what is left of it when it fails.
LEMMA WorldStep ==
  ASSUME NEW c, NEW key,
         world = [config |-> world.config, daemon |-> world.daemon, effects |-> world.effects, env |-> world.env],
         world' = world \/ world' = Done(key, c)
  PROVE  /\ world' = [config |-> world'.config, daemon |-> world'.daemon,
                      effects |-> world'.effects, env |-> world'.env]
         /\ world.effects \subseteq world'.effects
         /\ world'.config \in {world.config, c}
         /\ key \notin {"config", "auth"} => world'.config = world.config
         /\ world'.daemon \in {world.daemon, "down", world.config}
         /\ key = "restart" /\ world' = Done(key, c) => world'.daemon = "down"
         /\ Holding(world, c) => Holding(world', c)
<1>1. CASE world' = world
  <2>1. /\ world'.config = world.config /\ world'.daemon = world.daemon
        /\ world'.effects = world.effects /\ world'.env = world.env
    BY <1>1
  <2>2. key = "restart" /\ world' = Done(key, c) => world'.daemon = "down"
    BY DEF Done, StopDaemon
  <2> QED
    BY <1>1, <2>1, <2>2 DEF Holding
<1>2. CASE world' = Done(key, c)
  <2>1. CASE key = "config"
    BY <1>2, <2>1 DEF Done, SaveConfig, Holding
  <2>2. CASE key = "auth"
    BY <1>2, <2>2 DEF Done, Login, Holding
  <2>3. CASE key = "restart"
    BY <1>2, <2>3 DEF Done, StopDaemon, Holding
  <2>4. CASE key = "daemon"
    BY <1>2, <2>4 DEF Done, StartDaemon, Holding, Running
  <2>5. CASE key \in {"mode", "roundtrip"}
    BY <1>2, <2>5 DEF Done, Holding
  <2>6. CASE key \notin {"config", "auth", "restart", "daemon", "mode", "roundtrip"}
    BY <1>2, <2>6 DEF Done, Holding
  <2> QED
    BY <2>1, <2>2, <2>3, <2>4, <2>5, <2>6
<1> QED
  BY <1>1, <1>2

WorldShape == world = [config |-> world.config, daemon |-> world.daemon,
                       effects |-> world.effects, env |-> world.env]

\* A status of the two daemon steps is past them only if it was, or is set so.
LEMMA MarkedPast ==
  ASSUME NEW p \in Progress, NEW key \in Steps, NEW status \in Statuses, Past(Marked(p, key, status))
  PROVE  Past(p) \/ (key \in {"restart", "daemon"} /\ status \in Finished)
<1>1. Marked(p, key, status).st = [p.st EXCEPT ![key] = status] /\ DOMAIN p.st = Steps
  <2>1. Marked(p, key, status).st = [p.st EXCEPT ![key] = status]
    BY MarkedIs
  <2> QED
    BY <2>1 DEF Progress
<1> HIDE DEF Marked
<1> QED
  BY <1>1 DEF Past, Steps

LEMMA Saved ==
  ASSUME SetupShapes, run.pc # "idle", NEW key \in Steps, NEW status \in Statuses,
         progress' = progress \/ progress' = Marked(run.p, key, status)
  PROVE  /\ progress' \in Progress /\ progress'.choice = run.p.choice
         /\ progress'.restart = run.p.restart /\ progress'.tui = run.p.tui
         /\ Past(progress') => Past(progress) \/ Past(run.p)
                               \/ (key \in {"restart", "daemon"} /\ status \in Finished)
<1>1. run.p \in Progress /\ progress \in Progress /\ progress.choice = run.p.choice
      /\ progress.restart = run.p.restart /\ progress.tui = run.p.tui
  BY DEF SetupShapes
<1>2. CASE progress' = progress
  BY <1>1, <1>2
<1>3. CASE progress' = Marked(run.p, key, status)
  <2> DEFINE q == Marked(run.p, key, status)
  <2>1. q \in Progress /\ q.choice = run.p.choice /\ q.restart = run.p.restart /\ q.tui = run.p.tui
    BY <1>1, MarkedIs
  <2>2. Past(q) => Past(run.p) \/ (key \in {"restart", "daemon"} /\ status \in Finished)
    BY <1>1, MarkedPast
  <2> HIDE DEF q
  <2> QED
    BY <1>3, <2>1, <2>2 DEF q
<1> QED
  BY <1>2, <1>3

\* A run that ends without success.
LEMMA Ended ==
  ASSUME run' = IdleRun, said' # "ready", WorldShape', progress' # NoProgress => progress' \in Progress,
         "config" \notin touched' /\ progress' \in Progress /\ Text(progress') /\ Past(progress')
           => Holding(world', progress'.choice)
  PROVE  SetupInv'
<1>1. run'.pc = "idle"
  BY DEF IdleRun
<1>2. SetupShapes'
  BY <1>1 DEF SetupShapes, WorldShape
<1>3. PlaceInv' /\ ChosenInv' /\ EffectsInv'
  BY <1>1 DEF PlaceInv, ChosenInv, EffectsInv
<1>4. DaemonInv'
  BY <1>1 DEF DaemonInv
<1> QED
  BY <1>2, <1>3, <1>4 DEF SetupInv

\* What is known in a run.
LEMMA InRun ==
  ASSUME SetupInv, run.pc # "idle"
  PROVE  /\ run.p \in Progress /\ run.at \in Nat /\ run.at >= 1
         /\ run = [pc |-> run.pc, p |-> run.p, at |-> run.at, ask |-> run.ask]
         /\ Plan(progress) = Plan(run.p)
         /\ run.at <= Len(Plan(run.p)) => CurrentStep \in Steps
         /\ run.at <= Len(Plan(run.p)) /\ Mode(run.p.choice) = "local" => CurrentStep # "auth"
<1>1. run.p \in Progress /\ run.at \in 1..(Len(Plan(run.p)) + 1)
      /\ run = [pc |-> run.pc, p |-> run.p, at |-> run.at, ask |-> run.ask]
      /\ progress.choice = run.p.choice /\ progress.restart = run.p.restart
  BY DEF SetupInv, SetupShapes
<1>2. Plan(progress) = Plan(run.p)
  BY <1>1, SamePlan
<1>3. /\ Len(Plan(run.p)) \in Nat /\ \A i \in 1..Len(Plan(run.p)) : Plan(run.p)[i] \in Steps
      /\ Mode(run.p.choice) = "local" => \A i \in 1..Len(Plan(run.p)) : Plan(run.p)[i] # "auth"
  BY <1>1, PlanFacts
<1>4. run.at \in Nat /\ run.at >= 1
  BY <1>1, <1>3
<1>5. run.at <= Len(Plan(run.p)) => run.at \in 1..Len(Plan(run.p))
  BY <1>3, <1>4
<1> QED
  BY <1>1, <1>2, <1>3, <1>4, <1>5 DEF CurrentStep

LEMMA BodyStep == SetupInv /\ Body => SetupInv'
<1> SUFFICES ASSUME SetupInv, Body  PROVE SetupInv'
  OBVIOUS
<1>k. PICK key : key = CurrentStep
  OBVIOUS
<1>c. PICK c : c = run.p.choice
  OBVIOUS
<1>1. PICK q : q = Marked(run.p, key, "done")
  OBVIOUS
<1>2. /\ run.pc = "step" /\ run.at <= Len(Plan(run.p)) /\ UNCHANGED <<said, touched>>
      /\ key \in {"restart", "daemon"} => ~run.ask
      /\ run' = [run EXCEPT !.pc = "check", !.p = q]
      /\ progress' = progress \/ progress' = q
      /\ world' = world \/ world' = Done(key, c)
      /\ key = "restart" => world' = Done(key, c)
  BY <1>k, <1>c, <1>1 DEF Body, InBody, Asked, Save
<1>3. /\ run.p \in Progress /\ run.at \in Nat /\ run.at >= 1 /\ key \in Steps
      /\ run = [pc |-> run.pc, p |-> run.p, at |-> run.at, ask |-> run.ask]
      /\ WorldShape /\ run.at \in 1..(Len(Plan(run.p)) + 1) /\ run.ask \in BOOLEAN
  BY <1>k, <1>2, InRun DEF SetupInv, SetupShapes, WorldShape
<1>4. /\ q \in Progress /\ q.choice = c /\ q.restart = run.p.restart /\ q.tui = run.p.tui
      /\ q.st = [run.p.st EXCEPT ![key] = "done"] /\ DOMAIN run.p.st = Steps
  <2>1. q \in Progress /\ q.choice = c /\ q.restart = run.p.restart /\ q.tui = run.p.tui
        /\ q.st = [run.p.st EXCEPT ![key] = "done"]
    <3>1. "done" \in Statuses
      BY DEF Statuses
    <3> QED
      BY <1>c, <1>1, <1>3, <3>1, MarkedIs
  <2> QED
    BY <1>3, <2>1 DEF Progress
<1>5. Plan(q) = Plan(run.p)
  BY <1>c, <1>4, SamePlan
<1>6. /\ run'.pc = "check" /\ run'.p = q /\ run'.at = run.at /\ run'.ask = run.ask
      /\ run' = [pc |-> run'.pc, p |-> run'.p, at |-> run'.at, ask |-> run'.ask]
  BY <1>2, <1>3
<1>7. /\ progress' \in Progress /\ progress'.choice = c
      /\ progress'.restart = run.p.restart /\ progress'.tui = run.p.tui
      /\ Past(progress') => Past(progress) \/ Past(run.p) \/ key \in {"restart", "daemon"}
  BY <1>c, <1>1, <1>2, <1>3, Saved DEF SetupInv, Statuses, Finished
<1>8. Past(q) => Past(run.p) \/ key \in {"restart", "daemon"}
  BY <1>1, <1>3, MarkedPast DEF Statuses
<1>9. /\ WorldShape' /\ world.effects \subseteq world'.effects /\ world'.config \in {world.config, c}
      /\ key \notin {"config", "auth"} => world'.config = world.config
      /\ key = "restart" => world'.daemon = "down"
      /\ Holding(world, c) => Holding(world', c)
  <2>1. world = [config |-> world.config, daemon |-> world.daemon, effects |-> world.effects, env |-> world.env]
    BY <1>3 DEF WorldShape
  <2>2. world' = world \/ world' = Done(key, c)
    BY <1>2
  <2> QED
    BY <1>2, <2>1, <2>2, WorldStep DEF WorldShape
<1>10. SetupShapes'
  BY <1>c, <1>3, <1>4, <1>5, <1>6, <1>7, <1>9 DEF SetupShapes, WorldShape
<1>11. PlaceInv'
  <2>1. said' # "ready"
    BY <1>2 DEF SetupInv, PlaceInv
  <2>2. FinishedUpTo(q, run.at)
    BY <1>2, <1>3, <1>4, <1>5 DEF SetupInv, PlaceInv, FinishedUpTo, Finished
  <2>3. CurrentStep' = key /\ q.st[key] = "done"
    BY <1>k, <1>3, <1>4, <1>5, <1>6 DEF CurrentStep
  <2>4. ~q.tui /\ ~run.ask => run.at > Len(Early(q.choice))
    BY <1>c, <1>2, <1>4 DEF SetupInv, PlaceInv
  <2> QED
    BY <1>2, <1>5, <1>6, <2>1, <2>2, <2>3, <2>4 DEF PlaceInv
<1>12. EffectsInv'
  <2>1. said' # "ready"
    BY <1>2 DEF SetupInv, PlaceInv
  <2>2. Installed(world, run.p, run.at)
    BY <1>2 DEF SetupInv, EffectsInv
  <2>3. Installed(world', q, run.at)
    BY <1>5, <1>6, <1>9, <2>2 DEF Installed
  <2> QED
    BY <1>6, <2>1, <2>3 DEF EffectsInv, Installed
<1>13. ChosenInv'
  BY <1>c, <1>2, <1>4, <1>6, <1>9 DEF SetupInv, ChosenInv
<1>14. ASSUME "config" \notin touched, Text(run.p), Past(run.p) \/ Past(progress) \/ key \in {"restart", "daemon"}
       PROVE  Holding(world', c)
  <2>1. Text(progress) /\ progress.choice = c /\ progress \in Progress
    BY <1>c, <1>2, <1>14 DEF SetupInv, SetupShapes, Text
  <2>2. Past(run.p) \/ Past(progress) => Holding(world, c)
    BY <1>c, <1>2, <1>14, <2>1 DEF SetupInv, DaemonInv
  <2>3. key = "daemon" => Holding(world, c)
    BY <1>k, <1>c, <1>2, <1>14 DEF SetupInv, DaemonInv, AtDaemon
  <2>4. CASE key = "restart"
    <3>1. run.at > Len(Early(c)) /\ Len(Early(c)) >= 1 /\ Len(Early(c)) \in Nat
      BY <1>c, <1>2, <1>3, <1>14, <2>4, PlanFacts DEF SetupInv, PlaceInv, Text
    <3>2. world.config = c
      BY <1>c, <1>2, <1>3, <1>14, <3>1 DEF SetupInv, ChosenInv, Text
    <3> QED
      BY <1>9, <2>4, <3>2 DEF Holding
  <2> QED
    BY <1>9, <1>14, <2>2, <2>3, <2>4
<1>15. DaemonInv'
  <2>1. ASSUME "config" \notin touched', run'.pc # "idle", Text(run'.p), Past(run'.p) \/ AtDaemon'
        PROVE  Holding(world', run'.p.choice)
    <3>1. "config" \notin touched /\ Text(run.p)
      BY <1>c, <1>2, <1>4, <1>6, <2>1 DEF Text
    <3>2. AtDaemon' => key = "daemon"
      BY <1>k, <1>5, <1>6 DEF AtDaemon, CurrentStep
    <3>3. Past(run.p) \/ key \in {"restart", "daemon"}
      BY <1>6, <1>8, <2>1, <3>2
    <3> QED
      BY <1>4, <1>6, <1>14, <3>1, <3>3
  <2>2. ASSUME "config" \notin touched', Text(progress'), Past(progress') \/ said' = "ready"
        PROVE  Holding(world', progress'.choice)
    <3>1. "config" \notin touched /\ Text(run.p) /\ said' # "ready"
      BY <1>c, <1>2, <1>7, <2>2 DEF Text, SetupInv, PlaceInv
    <3> QED
      BY <1>7, <1>14, <2>2, <3>1
  <2> QED
    BY <2>1, <2>2 DEF DaemonInv
<1> QED
  BY <1>10, <1>11, <1>12, <1>13, <1>15 DEF SetupInv

\* A body that fails or is killed leaves what it did, and at most a failure in the file.
LEMMA Broken ==
  ASSUME SetupInv, run.pc # "idle", run' = IdleRun, said' = "stopped", touched' = touched, NEW key \in Steps,
         world' = world \/ world' = Done(key, run.p.choice),
         progress' = progress \/ progress' = Marked(run.p, key, "failed")
  PROVE  SetupInv'
<1>c. PICK c : c = run.p.choice
  OBVIOUS
<1>1. "failed" \in Statuses /\ "failed" \notin Finished
  BY DEF Statuses, Finished
<1>2. /\ progress' \in Progress /\ progress'.choice = c /\ progress'.tui = run.p.tui
      /\ Past(progress') => Past(progress) \/ Past(run.p)
  BY <1>c, <1>1, Saved DEF SetupInv
<1>3. WorldShape' /\ (Holding(world, c) => Holding(world', c))
  BY <1>c, WorldStep DEF SetupInv, SetupShapes, WorldShape
<1>4. progress.choice = c /\ progress \in Progress /\ progress.tui = run.p.tui
  BY <1>c DEF SetupInv, SetupShapes
<1>5. ASSUME "config" \notin touched, Text(progress'), Past(progress')
      PROVE  Holding(world', c)
  <2>1. Text(run.p) /\ Text(progress)
    BY <1>c, <1>2, <1>4, <1>5 DEF Text
  <2>2. Holding(world, c)
    BY <1>c, <1>2, <1>4, <1>5, <2>1 DEF SetupInv, DaemonInv
  <2> QED
    BY <1>3, <2>2
<1> QED
  BY <1>2, <1>3, <1>5, Ended

LEMMA BreaksStep == SetupInv /\ (BodyFails \/ Killed) => SetupInv'
<1> SUFFICES ASSUME SetupInv, BodyFails \/ Killed  PROVE SetupInv'
  OBVIOUS
<1>1. CASE BodyFails
  <2>1. /\ run.pc # "idle" /\ run.at <= Len(Plan(run.p)) /\ run' = IdleRun /\ said' = "stopped" /\ touched' = touched
        /\ world' = world \/ world' = Done(CurrentStep, run.p.choice)
        /\ progress' = progress \/ progress' = Marked(run.p, CurrentStep, "failed")
    BY <1>1 DEF BodyFails, InBody, Effect, Save, Stop
  <2>2. CurrentStep \in Steps
    BY <2>1, InRun
  <2> QED
    BY <2>1, <2>2, Broken
<1>2. CASE Killed
  <2>1. /\ run.pc # "idle" /\ run' = IdleRun /\ said' = "stopped" /\ touched' = touched /\ progress' = progress
        /\ world' = world \/ (run.at <= Len(Plan(run.p)) /\ world' = Done(CurrentStep, run.p.choice))
    BY <1>2 DEF Killed, InBody, Effect, Stop
  <2>2. CASE world' = world
    BY <2>1, <2>2, Broken DEF Steps
  <2>3. CASE run.at <= Len(Plan(run.p)) /\ world' = Done(CurrentStep, run.p.choice)
    BY <2>1, <2>3, InRun, Broken
  <2> QED
    BY <2>1, <2>2, <2>3
<1> QED
  BY <1>1, <1>2

\* A check that lets the run go on: the step is verified, or it is the optional one.
LEMMA GoesOn ==
  ASSUME SetupInv, run.pc = "check", UNCHANGED <<world, said, touched>>,
         NEW status \in {"verified", "failed"},
         status = "verified" => Verify(CurrentStep, run.p.choice, TRUE),
         status = "failed" => CurrentStep \in OptionalKeys,
         Save(Marked(run.p, CurrentStep, status)), Advance(Marked(run.p, CurrentStep, status))
  PROVE  SetupInv'
<1>k. PICK key : key = CurrentStep
  OBVIOUS
<1>c. PICK c : c = run.p.choice
  OBVIOUS
<1>1. PICK q : q = Marked(run.p, key, status)
  OBVIOUS
<1>2. /\ run' = [run EXCEPT !.pc = "step", !.p = q, !.at = @ + 1]
      /\ progress' = progress \/ progress' = q
  BY <1>k, <1>1 DEF Advance, Save
<1>3. /\ run.p \in Progress /\ run.at \in Nat /\ run.at >= 1 /\ run.at <= Len(Plan(run.p)) /\ key \in Steps
      /\ run = [pc |-> run.pc, p |-> run.p, at |-> run.at, ask |-> run.ask]
      /\ WorldShape /\ run.at \in 1..(Len(Plan(run.p)) + 1) /\ run.ask \in BOOLEAN
  BY <1>k, InRun DEF SetupInv, SetupShapes, WorldShape, PlaceInv
<1>4. status \in Statuses
  BY DEF Statuses
<1>5. /\ q \in Progress /\ q.choice = c /\ q.restart = run.p.restart /\ q.tui = run.p.tui
      /\ q.st = [run.p.st EXCEPT ![key] = status] /\ DOMAIN run.p.st = Steps
  <2>1. q \in Progress /\ q.choice = c /\ q.restart = run.p.restart /\ q.tui = run.p.tui
        /\ q.st = [run.p.st EXCEPT ![key] = status]
    BY <1>c, <1>1, <1>3, <1>4, MarkedIs
  <2> QED
    BY <1>3, <2>1 DEF Progress
<1>6. Plan(q) = Plan(run.p)
  BY <1>c, <1>5, SamePlan
<1>7. /\ run'.pc = "step" /\ run'.p = q /\ run'.at = run.at + 1 /\ run'.ask = run.ask
      /\ run' = [pc |-> run'.pc, p |-> run'.p, at |-> run'.at, ask |-> run'.ask]
  BY <1>2, <1>3
<1>8. key \in {"restart", "daemon"} => Past(run.p)
  BY <1>k DEF SetupInv, PlaceInv, Past, Finished
<1>9. /\ progress' \in Progress /\ progress'.choice = c
      /\ progress'.restart = run.p.restart /\ progress'.tui = run.p.tui
      /\ Past(progress') => Past(progress) \/ Past(run.p)
  BY <1>c, <1>1, <1>2, <1>3, <1>4, <1>8, Saved DEF SetupInv
<1>10. Past(q) => Past(run.p)
  BY <1>1, <1>3, <1>4, <1>8, MarkedPast
<1>11. Len(Plan(run.p)) \in Nat /\ Len(Early(c)) \in Nat /\ Len(Early(c)) >= 0
  BY <1>c, <1>3, PlanFacts
<1>12. SetupShapes'
  <2>1. run'.at \in 1..(Len(Plan(q)) + 1)
    BY <1>3, <1>6, <1>7, <1>11
  <2> QED
    BY <1>3, <1>5, <1>7, <1>9, <2>1 DEF SetupShapes, WorldShape
<1>13. PlaceInv'
  <2>1. said' # "ready"
    BY DEF SetupInv, PlaceInv
  <2>2. FinishedUpTo(q, run.at + 1)
    <3>1. FinishedUpTo(run.p, run.at)
      BY DEF SetupInv, PlaceInv
    <3>2. ASSUME NEW i \in 1..run.at, Plan(q)[i] \notin OptionalKeys  PROVE q.st[Plan(q)[i]] \in Finished
      <4>1. CASE Plan(q)[i] = key
        BY <1>k, <1>3, <1>5, <3>2, <4>1 DEF Finished
      <4>2. CASE Plan(q)[i] # key
        <5>1. i \in 1..(run.at - 1)
          BY <1>k, <1>3, <1>6, <4>2 DEF CurrentStep
        <5>2. run.p.st[Plan(q)[i]] \in Finished /\ Plan(q)[i] \in Steps
          BY <1>3, <1>6, <3>1, <3>2, <5>1, <1>11, PlanFacts DEF FinishedUpTo
        <5> QED
          BY <1>5, <4>2, <5>2
      <4> QED
        BY <4>1, <4>2
    <3> QED
      BY <1>3, <3>2 DEF FinishedUpTo
  <2>3. ~q.tui /\ ~run.ask => run.at + 1 > Len(Early(q.choice))
    BY <1>c, <1>3, <1>5, <1>11 DEF SetupInv, PlaceInv
  <2> QED
    BY <1>7, <2>1, <2>2, <2>3 DEF PlaceInv
<1>14. EffectsInv'
  <2>1. said' # "ready"
    BY DEF SetupInv, PlaceInv
  <2>2. Installed(world, run.p, run.at)
    BY DEF SetupInv, EffectsInv
  <2>3. key \in Effects \ OptionalKeys => key \in world.effects
    <3>1. SUFFICES ASSUME key \in Effects \ OptionalKeys, status = "verified"  PROVE key \in world.effects
      BY <1>k
    <3>2. Holds(key, c)
      BY <1>k, <1>c, <3>1 DEF Verify
    <3>3. key \notin {"config", "daemon", "mode", "restart", "roundtrip"}
      BY <3>1 DEF Effects
    <3> QED
      BY <3>2, <3>3 DEF Holds, HasLogin
  <2>4. Installed(world, q, run.at + 1)
    <3>1. \A i \in 1..run.at : i = run.at \/ i \in 1..(run.at - 1)
      BY <1>3
    <3>2. Plan(q)[run.at] = key
      BY <1>k, <1>6 DEF CurrentStep
    <3>3. (run.at + 1) - 1 = run.at
      BY <1>3
    <3> QED
      BY <1>6, <2>2, <2>3, <3>1, <3>2, <3>3 DEF Installed
  <2> QED
    BY <1>7, <2>1, <2>4 DEF EffectsInv
<1>15. ChosenInv'
  <2>1. SUFFICES ASSUME Mode(c) = "local"  PROVE world.config = c
    BY <1>5, <1>7 DEF ChosenInv
  <2>2. CASE run.at > 1
    BY <1>c, <2>1, <2>2 DEF SetupInv, ChosenInv
  <2>3. CASE run.at = 1
    <3>1. key = "config"
      BY <1>k, <1>c, <1>3, <2>1, <2>3, PlanFacts DEF CurrentStep
    <3>2. Holds(key, c)
      BY <1>k, <1>c, <3>1 DEF Verify, OptionalKeys
    <3> QED
      BY <3>1, <3>2 DEF Holds, HasConfig
  <2> QED
    BY <1>3, <2>2, <2>3
<1>16. ASSUME "config" \notin touched, Text(run.p), Past(run.p) \/ Past(progress)
       PROVE  Holding(world, c)
  <2>1. Text(progress) /\ progress.choice = c /\ progress \in Progress
    BY <1>c, <1>16 DEF SetupInv, SetupShapes, Text
  <2> QED
    BY <1>c, <1>16, <2>1 DEF SetupInv, DaemonInv
<1>17. DaemonInv'
  <2>1. ASSUME "config" \notin touched', Text(q), Past(q) \/ AtDaemon'
        PROVE  Holding(world', c)
    <3>1. "config" \notin touched /\ Text(run.p) /\ Mode(c) = "local" /\ ~run.p.tui
      BY <1>c, <1>5, <2>1 DEF Text
    <3>2. AtDaemon' => Past(run.p)
      <4>1. SUFFICES ASSUME AtDaemon'  PROVE Past(run.p)
        OBVIOUS
      <4>2. ~run.ask /\ run.at + 1 <= Len(Plan(run.p)) /\ Plan(run.p)[run.at + 1] = "daemon"
        BY <1>6, <1>7, <4>1 DEF AtDaemon, CurrentStep
      <4>3. run.at > Len(Early(c))
        BY <1>c, <3>1, <4>2 DEF SetupInv, PlaceInv
      <4>4. key = "restart"
        <5> DEFINE n == Len(Early(c))
                   pos == run.at
                   plan == Plan(run.p)
        <5>1. /\ run.p.restart => Len(plan) = n + 4 /\ plan[n + 1] = "restart" /\ plan[n + 2] = "daemon"
                                /\ plan[n + 3] = "mode" /\ plan[n + 4] = "roundtrip"
              /\ ~run.p.restart => Len(plan) = n + 3 /\ plan[n + 1] = "daemon"
                                /\ plan[n + 2] = "mode" /\ plan[n + 3] = "roundtrip"
          BY <1>c, <1>3, <3>1, PlanFacts
        <5>2. n \in Nat /\ pos \in Nat /\ pos > n /\ pos + 1 <= Len(plan) /\ plan[pos + 1] = "daemon"
          BY <1>3, <1>11, <4>2, <4>3
        <5>3. key = plan[pos]
          BY <1>k DEF CurrentStep
        <5> HIDE DEF n, pos, plan
        <5>4. CASE run.p.restart
          <6>1. pos = n + 1 \/ pos = n + 2 \/ pos = n + 3
            BY <5>1, <5>2, <5>4
          <6> QED
            BY <5>1, <5>2, <5>3, <5>4, <6>1
        <5>5. CASE ~run.p.restart
          <6>1. pos = n + 1 \/ pos = n + 2
            BY <5>1, <5>2, <5>5
          <6> QED
            BY <5>1, <5>2, <5>5, <6>1
        <5> QED
          BY <5>4, <5>5
      <4> QED
        BY <1>8, <4>4
    <3> QED
      BY <1>10, <1>16, <2>1, <3>1, <3>2
  <2>2. ASSUME "config" \notin touched', Text(progress'), Past(progress') \/ said' = "ready"
        PROVE  Holding(world', c)
    <3>1. "config" \notin touched /\ Text(run.p) /\ said' # "ready"
      BY <1>c, <1>9, <2>2 DEF Text, SetupInv, PlaceInv
    <3> QED
      BY <1>9, <1>16, <2>2, <3>1
  <2> QED
    BY <1>5, <1>7, <1>9, <2>1, <2>2 DEF DaemonInv
<1> QED
  BY <1>12, <1>13, <1>14, <1>15, <1>17 DEF SetupInv

LEMMA ChecksStep == SetupInv /\ (CheckPasses \/ CheckFails) => SetupInv'
<1> SUFFICES ASSUME SetupInv, CheckPasses \/ CheckFails  PROVE SetupInv'
  OBVIOUS
<1>1. CASE CheckPasses
  BY <1>1, GoesOn DEF CheckPasses
<1>2. CASE CheckFails /\ CurrentStep \in OptionalKeys
  BY <1>2, GoesOn DEF CheckFails
<1>3. CASE CheckFails /\ CurrentStep \notin OptionalKeys
  <2>1. /\ run.pc = "check" /\ run' = IdleRun /\ said' = "stopped" /\ UNCHANGED <<world, touched>>
        /\ progress' = progress \/ progress' = Marked(run.p, CurrentStep, "failed")
    BY <1>3 DEF CheckFails, Save, Stop
  <2>2. CurrentStep \in Steps
    BY <2>1, InRun DEF SetupInv, PlaceInv
  <2> QED
    BY <2>1, <2>2, Broken
<1> QED
  BY <1>1, <1>2, <1>3

LEMMA ScreenStep == SetupInv /\ (ScreenStarts \/ VerifyAfterTui) => SetupInv'
<1> SUFFICES ASSUME SetupInv, ScreenStarts \/ VerifyAfterTui  PROVE SetupInv'
  OBVIOUS
<1>c. PICK c : c = run.p.choice
  OBVIOUS
<1>n. PICK n : n = Len(Early(c))
  OBVIOUS
<1>1. /\ run.pc \in {"step", "screen"} /\ run.p \in Progress /\ run.at \in Nat /\ run.at >= 1
      /\ run = [pc |-> run.pc, p |-> run.p, at |-> run.at, ask |-> run.ask]
      /\ Plan(progress) = Plan(run.p) /\ WorldShape /\ run.ask \in BOOLEAN
      /\ progress \in Progress /\ progress.choice = c
      /\ progress.restart = run.p.restart /\ progress.tui = run.p.tui
      /\ run.at \in 1..(Len(Plan(run.p)) + 1) /\ said # "ready"
  BY <1>c, InRun DEF ScreenStarts, VerifyAfterTui, SetupInv, SetupShapes, WorldShape, PlaceInv
<1>2. /\ n \in Nat /\ Len(Plan(run.p)) \in Nat
      /\ \A i \in 1..n : Plan(run.p)[i] \notin Late
      /\ \A i \in 1..Len(Plan(run.p)) : i > n => Plan(run.p)[i] \in Late
      /\ Mode(c) = "local" => n >= 1
  BY <1>c, <1>n, <1>1, PlanFacts
<1>3. run.p.tui
  BY DEF ScreenStarts, OnScreen, VerifyAfterTui, SetupInv, PlaceInv
<1>4. run.at > n
  <2>1. CASE ScreenStarts
    <3>1. run.at \in 1..Len(Plan(run.p)) /\ Plan(run.p)[run.at] = "daemon"
      BY <1>1, <1>2, <2>1 DEF ScreenStarts, OnScreen, CurrentStep
    <3> QED
      BY <1>1, <1>2, <3>1 DEF Late
  <2>2. CASE VerifyAfterTui
    BY <1>c, <1>n, <2>2 DEF VerifyAfterTui, SetupInv, PlaceInv
  <2> QED
    BY <2>1, <2>2
<1>5. Mode(c) = "local" => world.config = c
  BY <1>c, <1>1, <1>2, <1>4 DEF SetupInv, ChosenInv
<1>6. ASSUME run' = IdleRun, said' = "stopped", WorldShape', progress' \in Progress, progress'.tui
      PROVE  SetupInv'
  BY <1>6, Ended DEF Text
<1>7. CASE ScreenStarts
  <2>1. PICK status \in {"done", "failed"} : progress' = Marked(progress, "daemon", status)
    BY <1>7 DEF ScreenStarts
  <2>2. /\ progress' \in Progress /\ progress'.choice = c
        /\ progress'.restart = run.p.restart /\ progress'.tui = run.p.tui
    <3>1. "daemon" \in Steps /\ status \in Statuses
      BY DEF Steps, Statuses
    <3> QED
      BY <1>1, <2>1, <3>1, MarkedIs
  <2>3. CASE run' = IdleRun /\ said' = "stopped" /\ world' = world
    BY <1>1, <1>3, <1>6, <2>2, <2>3 DEF WorldShape
  <2>4. CASE world' = Done("daemon", c) /\ run' = [run EXCEPT !.pc = "screen"] /\ said' = said
    <3>1. /\ WorldShape' /\ world.effects \subseteq world'.effects /\ world'.config \in {world.config, c}
      BY <1>1, <2>4, WorldStep DEF WorldShape
    <3>2. /\ run'.pc = "screen" /\ run'.p = run.p /\ run'.at = run.at /\ run'.ask = run.ask
          /\ run' = [pc |-> run'.pc, p |-> run'.p, at |-> run'.at, ask |-> run'.ask]
      BY <1>1, <2>4
    <3>3. run.at <= Len(Plan(run.p))
      BY <1>7 DEF ScreenStarts
    <3>4. SetupShapes'
      BY <1>1, <2>2, <1>c, <3>1, <3>2 DEF SetupShapes, WorldShape
    <3>5. PlaceInv'
      BY <1>1, <1>c, <1>n, <1>3, <1>4, <2>4, <3>2, <3>3 DEF SetupInv, PlaceInv
    <3>6. EffectsInv'
      <4>1. Installed(world, run.p, run.at)
        BY <1>1 DEF SetupInv, EffectsInv
      <4>2. Installed(world', run.p, run.at)
        BY <3>1, <4>1 DEF Installed
      <4> QED
        BY <1>1, <2>4, <3>2, <4>2 DEF EffectsInv
    <3>7. ChosenInv'
      BY <1>c, <1>5, <3>1, <3>2 DEF ChosenInv
    <3>8. DaemonInv'
      BY <1>3, <2>2, <3>2 DEF DaemonInv, Text
    <3> QED
      BY <3>4, <3>5, <3>6, <3>7, <3>8 DEF SetupInv
  <2> QED
    BY <1>7, <1>c, <2>3, <2>4 DEF ScreenStarts, Stop
<1>8. CASE VerifyAfterTui
  <2>1. UNCHANGED <<world, progress, touched>>
    BY <1>8 DEF VerifyAfterTui
  <2>2. CASE run' = IdleRun /\ said' = "stopped"
    BY <1>1, <1>3, <1>6, <2>1, <2>2 DEF WorldShape
  <2>3. CASE Proceed(progress, FirstUnrecorded(progress), FALSE) /\ said' = said
    <3>1. PICK f : f = FirstUnrecorded(progress)
      OBVIOUS
    <3>2. f \in 1..(Len(Plan(progress)) + 1) /\ FinishedUpTo(progress, f)
      BY <1>1, <3>1, FirstUnrecordedIs
    <3>3. /\ run'.pc = "step" /\ run'.p = progress /\ run'.at = f /\ run'.ask = FALSE
          /\ run' = [pc |-> run'.pc, p |-> run'.p, at |-> run'.at, ask |-> run'.ask]
      BY <2>3, <3>1 DEF Proceed
    <3>4. SetupShapes'
      BY <1>1, <2>1, <3>2, <3>3 DEF SetupShapes, WorldShape
    <3>5. PlaceInv'
      BY <1>1, <1>3, <2>3, <3>2, <3>3 DEF PlaceInv
    <3>6. EffectsInv'
      <4>1. Installed(world, run.p, run.at)
        BY <1>1 DEF SetupInv, EffectsInv
      <4>2. ASSUME NEW i \in 1..(f - 1), Plan(progress)[i] \in Effects
            PROVE  i \in 1..(run.at - 1)
        <5>1. i \in 1..Len(Plan(run.p))
          BY <1>1, <1>2, <3>2
        <5>2. Plan(run.p)[i] \notin Late
          BY <1>1, <4>2 DEF Effects, Late
        <5> QED
          BY <1>1, <1>2, <1>4, <5>1, <5>2
      <4>3. Installed(world, progress, f)
        BY <1>1, <4>1, <4>2 DEF Installed
      <4> QED
        BY <1>1, <2>1, <2>3, <3>3, <4>3 DEF EffectsInv
    <3>7. ChosenInv'
      BY <1>1, <1>5, <2>1, <3>3 DEF ChosenInv
    <3>8. DaemonInv'
      BY <1>1, <1>3, <2>1, <3>3 DEF DaemonInv, Text
    <3> QED
      BY <3>4, <3>5, <3>6, <3>7, <3>8 DEF SetupInv
  <2> QED
    BY <1>8, <2>2, <2>3 DEF VerifyAfterTui, Stop
<1> QED
  BY <1>7, <1>8

\* A plan whose steps are all finished has brought its daemon to the settings.
LEMMA AllFinished ==
  ASSUME NEW p \in Progress, Mode(p.choice) = "local", NEW pos, pos > Len(Plan(p)), pos \in Nat, FinishedUpTo(p, pos)
  PROVE  Past(p)
<1> DEFINE n == Len(Early(p.choice))
<1>1. PICK i \in 1..Len(Plan(p)) : Plan(p)[i] = "daemon"
  <2>1. /\ n \in Nat
        /\ p.restart => Len(Plan(p)) = n + 4 /\ Plan(p)[n + 2] = "daemon"
        /\ ~p.restart => Len(Plan(p)) = n + 3 /\ Plan(p)[n + 1] = "daemon"
    BY PlanFacts
  <2> HIDE DEF n
  <2>2. CASE p.restart
    BY <2>1, <2>2
  <2>3. CASE ~p.restart
    BY <2>1, <2>3
  <2> QED
    BY <2>2, <2>3
<1>2. i \in 1..(pos - 1)
  <2>1. Len(Plan(p)) \in Nat
    BY PlanFacts
  <2> QED
    BY <1>1, <2>1
<1>3. "daemon" \notin OptionalKeys
  BY DEF OptionalKeys
<1> QED
  BY <1>1, <1>2, <1>3 DEF FinishedUpTo, Past

LEMMA ReadyStep == SetupInv /\ Ready => SetupInv'
<1> SUFFICES ASSUME SetupInv, Ready  PROVE SetupInv'
  OBVIOUS
<1>1. /\ run.pc = "step" /\ run.at > Len(Plan(run.p)) /\ run' = IdleRun /\ said' = "ready"
      /\ UNCHANGED <<world, progress, touched>> /\ run'.pc = "idle"
  BY DEF Ready, IdleRun
<1>2. /\ run.p \in Progress /\ run.at \in Nat /\ run.at \in 1..(Len(Plan(run.p)) + 1) /\ WorldShape
      /\ progress \in Progress /\ progress.choice = run.p.choice /\ progress.tui = run.p.tui
      /\ Plan(progress) = Plan(run.p)
  BY <1>1, InRun DEF SetupInv, SetupShapes, WorldShape
<1>3. run.at = Len(Plan(progress)) + 1
  <2>1. Len(Plan(run.p)) \in Nat
    BY <1>2, PlanFacts
  <2> QED
    BY <1>1, <1>2, <2>1
<1>4. SetupShapes' /\ PlaceInv' /\ ChosenInv'
  BY <1>1, <1>2 DEF SetupShapes, PlaceInv, ChosenInv, WorldShape
<1>5. EffectsInv'
  <2>1. Installed(world, run.p, run.at)
    BY <1>1 DEF SetupInv, EffectsInv
  <2>2. Installed(world, progress, Len(Plan(progress)) + 1)
    BY <1>2, <1>3, <2>1 DEF Installed
  <2> QED
    BY <1>1, <2>2 DEF EffectsInv
<1>6. DaemonInv'
  <2>1. ASSUME "config" \notin touched, Text(progress)  PROVE Holding(world, progress.choice)
    <3>1. Text(run.p) /\ Mode(run.p.choice) = "local"
      BY <1>2, <2>1 DEF Text
    <3>2. Past(run.p)
      BY <1>1, <1>2, <3>1, AllFinished DEF SetupInv, PlaceInv
    <3> QED
      BY <1>1, <1>2, <2>1, <3>1, <3>2 DEF SetupInv, DaemonInv
  <2> QED
    BY <1>1, <2>1 DEF DaemonInv
<1> QED
  BY <1>4, <1>5, <1>6 DEF SetupInv

LEMMA FreshStep == ASSUME SetupInv, NEW c \in SetupChoices, StartFresh(c) PROVE SetupInv'
<1>1. PICK tui \in BOOLEAN, restart \in BOOLEAN :
        /\ progress' = Fresh(c, restart, tui) /\ Proceed(Fresh(c, restart, tui), 1, ~tui)
        /\ said' = "nothing" /\ world' = world
  <2>1. PICK tui \in {FALSE} \cup (IF c \in LocalChoices THEN {TRUE} ELSE {}) :
          LET p == Fresh(c, Running /\ c \in LocalChoices /\ ~tui, tui)
          IN progress' = p /\ Proceed(p, 1, ~tui)
    BY DEF StartFresh
  <2>2. PICK restart \in BOOLEAN : restart = (Running /\ c \in LocalChoices /\ ~tui)
    OBVIOUS
  <2>3. tui \in BOOLEAN
    OBVIOUS
  <2>4. said' = "nothing" /\ world' = world
    BY DEF StartFresh
  <2> QED
    BY <2>1, <2>2, <2>3, <2>4
<1>2. PICK p : p = Fresh(c, restart, tui)
  OBVIOUS
<1>3. /\ p \in Progress /\ p.choice = c /\ p.restart = restart /\ p.tui = tui
      /\ ~Past(p)
  <2>1. tui \in BOOLEAN /\ restart \in BOOLEAN
    BY <1>1 DEF Running
  <2>2. [key \in Steps |-> "pending"] \in [Steps -> {"pending", "done", "verified", "failed"}]
    OBVIOUS
  <2>3. p = [choice |-> c, restart |-> restart, tui |-> tui, st |-> [key \in Steps |-> "pending"]]
    BY <1>2 DEF Fresh
  <2>4. p \in Progress
    BY <2>1, <2>2, <2>3 DEF Progress
  <2>5. p.st = [key \in Steps |-> "pending"]
    BY <2>3
  <2>6. ~Past(p)
    BY <2>5 DEF Past, Steps, Finished
  <2> QED
    BY <2>3, <2>4, <2>6
<1>4. /\ run'.pc = "step" /\ run'.p = p /\ run'.at = 1 /\ run'.ask = ~tui
      /\ run' = [pc |-> run'.pc, p |-> run'.p, at |-> run'.at, ask |-> run'.ask]
      /\ progress' = p
  BY <1>1, <1>2 DEF Proceed
<1>5. 1 \in 1..(Len(Plan(p)) + 1) /\ Len(Plan(p)) \in Nat
  BY <1>3, PlanFacts
<1>6. SetupShapes'
  BY <1>1, <1>3, <1>4, <1>5 DEF SetupInv, SetupShapes
<1>7. PlaceInv' /\ EffectsInv' /\ ChosenInv'
  <2>1. FinishedUpTo(p, 1) /\ Installed(world', p, 1)
    BY DEF FinishedUpTo, Installed
  <2>2. PlaceInv'
    BY <1>1, <1>3, <1>4, <2>1 DEF PlaceInv
  <2>3. EffectsInv'
    BY <1>1, <1>4, <2>1 DEF EffectsInv
  <2>4. ChosenInv'
    BY <1>4 DEF ChosenInv
  <2> QED
    BY <2>2, <2>3, <2>4
<1>8. DaemonInv'
  <2>1. ~AtDaemon' \/ ~Text(p)
    BY <1>3, <1>4 DEF AtDaemon, Text
  <2> QED
    BY <1>1, <1>3, <1>4, <2>1 DEF DaemonInv
<1> QED
  BY <1>6, <1>7, <1>8 DEF SetupInv

LEMMA PromotedIs ==
  ASSUME NEW p \in Progress, NEW pos \in 1..(Len(Plan(p)) + 1), FinishedUpTo(p, pos)
  PROVE  /\ Promoted(p, pos) \in Progress /\ Promoted(p, pos).choice = p.choice
         /\ Promoted(p, pos).restart = p.restart /\ Promoted(p, pos).tui = p.tui
         /\ FinishedUpTo(Promoted(p, pos), pos)
         /\ Past(Promoted(p, pos)) => Past(p)
<1> DEFINE passed == {Plan(p)[i] : i \in 1..(pos - 1)} \ OptionalKeys
<1>1. PICK st : st = [key \in Steps |-> IF key \in passed THEN "verified" ELSE p.st[key]]
  OBVIOUS
<1>2. PICK q : q = Promoted(p, pos)
  OBVIOUS
<1>3. q = [p EXCEPT !.st = st]
  BY <1>1, <1>2 DEF Promoted, Progress
<1>4. st \in [Steps -> Statuses]
  BY <1>1 DEF Progress, Statuses
<1>5. q \in Progress /\ q.choice = p.choice /\ q.restart = p.restart /\ q.tui = p.tui /\ q.st = st
  BY <1>3, <1>4 DEF Progress, Statuses
<1>6. \A key \in passed : p.st[key] \in Finished
  BY DEF FinishedUpTo
<1>7. ASSUME NEW key \in Steps  PROVE st[key] \in Finished <=> p.st[key] \in Finished
  <2> HIDE DEF passed
  <2>1. CASE key \in passed
    BY <1>1, <1>6, <2>1 DEF Finished
  <2>2. CASE key \notin passed
    BY <1>1, <2>2
  <2> QED
    BY <2>1, <2>2
<1>8. Plan(q) = Plan(p)
  BY <1>5, SamePlan
<1>9. \A i \in 1..(pos - 1) : Plan(p)[i] \in Steps
  <2>1. Len(Plan(p)) \in Nat /\ \A i \in 1..Len(Plan(p)) : Plan(p)[i] \in Steps
    BY PlanFacts
  <2> QED
    BY <2>1
<1>10. FinishedUpTo(q, pos)
  BY <1>5, <1>7, <1>8, <1>9 DEF FinishedUpTo
<1>11. Past(q) => Past(p)
  BY <1>5, <1>7 DEF Past, Steps
<1> QED
  BY <1>2, <1>5, <1>10, <1>11

LEMMA ResumeStep == SetupInv /\ Resume => SetupInv'
<1> SUFFICES ASSUME SetupInv, Resume  PROVE SetupInv'
  OBVIOUS
<1>1. PICK pos \in 1..(Len(Plan(progress)) + 1) :
        /\ FirstUnfinished(progress, pos) /\ progress' = Promoted(progress, pos)
        /\ IF pos > Len(Plan(progress)) THEN said' = "ready" /\ UNCHANGED run
           ELSE said' = "nothing" /\ Proceed(Promoted(progress, pos), pos, TRUE)
  BY DEF Resume
<1>2. run.pc = "idle" /\ progress \in Progress /\ world' = world /\ WorldShape
      /\ ("config" \notin touched' => "config" \notin touched)
  BY DEF Resume, Resumable, SetupInv, SetupShapes, WorldShape
<1>c. PICK c : c = progress.choice
  OBVIOUS
<1>q. PICK q : q = Promoted(progress, pos)
  OBVIOUS
<1>3. Len(Plan(progress)) \in Nat /\ DOMAIN Plan(progress) = 1..Len(Plan(progress))
  BY <1>2, PlanShape
<1>4. FinishedUpTo(progress, pos)
  <2>1. PICK f : f = FirstUnrecorded(progress)
    OBVIOUS
  <2>2. f \in 1..(Len(Plan(progress)) + 1) /\ FinishedUpTo(progress, f)
    BY <1>2, <2>1, FirstUnrecordedIs
  <2>3. pos <= f
    BY <1>1, <1>3, <2>1, <2>2 DEF FirstUnfinished
  <2> QED
    BY <1>1, <1>3, <2>2, <2>3 DEF FinishedUpTo
<1>5. /\ q \in Progress /\ q.choice = c /\ q.restart = progress.restart /\ q.tui = progress.tui
      /\ FinishedUpTo(q, pos) /\ (Past(q) => Past(progress))
  BY <1>c, <1>q, <1>1, <1>2, <1>4, PromotedIs
<1>6. Plan(q) = Plan(progress)
  BY <1>c, <1>5, SamePlan
<1>7. \A i \in 1..(pos - 1) : Plan(q)[i] \notin OptionalKeys => Holds(Plan(q)[i], c)
  <2>1. \A i \in 1..(pos - 1) : i \in 1..Len(Plan(progress)) /\ i < pos
    BY <1>1, <1>3
  <2> QED
    BY <1>c, <1>1, <1>3, <1>6, <2>1 DEF FirstUnfinished, Considered, PassesNow
<1>8. Installed(world, q, pos)
  <2>1. SUFFICES ASSUME NEW i \in 1..(pos - 1), Plan(q)[i] \in Effects \ OptionalKeys
                 PROVE  Plan(q)[i] \in world.effects
    BY DEF Installed
  <2>2. Holds(Plan(q)[i], c)
    BY <1>7, <2>1
  <2>3. Plan(q)[i] \notin {"config", "daemon", "mode", "restart", "roundtrip"}
    BY <2>1 DEF Effects
  <2> QED
    BY <2>2, <2>3 DEF Holds, HasLogin
<1>9. CASE pos > Len(Plan(progress))
  <2>1. said' = "ready" /\ run' = run /\ progress' = q /\ pos = Len(Plan(q)) + 1 /\ pos \in Nat
    BY <1>q, <1>1, <1>3, <1>6, <1>9
  <2>2. SetupShapes' /\ PlaceInv' /\ ChosenInv'
    BY <1>2, <1>5, <2>1 DEF SetupShapes, PlaceInv, ChosenInv, WorldShape
  <2>3. EffectsInv'
    BY <1>2, <1>8, <2>1 DEF EffectsInv
  <2>4. DaemonInv'
    <3>1. ASSUME "config" \notin touched, Text(q)  PROVE Holding(world, c)
      <4>1. Text(progress) /\ Mode(progress.choice) = "local"
        BY <1>c, <1>5, <3>1 DEF Text
      <4>2. Past(progress)
        BY <1>2, <1>4, <1>9, <2>1, <4>1, AllFinished
      <4> QED
        BY <1>c, <1>2, <3>1, <4>1, <4>2 DEF SetupInv, DaemonInv
    <3> QED
      BY <1>2, <1>5, <2>1, <3>1 DEF DaemonInv
  <2> QED
    BY <2>2, <2>3, <2>4 DEF SetupInv
<1>10. CASE ~(pos > Len(Plan(progress)))
  <2>1. /\ said' = "nothing" /\ progress' = q
        /\ run'.pc = "step" /\ run'.p = q /\ run'.at = pos /\ run'.ask = TRUE
        /\ run' = [pc |-> run'.pc, p |-> run'.p, at |-> run'.at, ask |-> run'.ask]
    BY <1>q, <1>1, <1>10 DEF Proceed
  <2>2. SetupShapes'
    BY <1>2, <1>5, <1>6, <2>1 DEF SetupShapes, WorldShape
  <2>3. PlaceInv'
    BY <1>5, <2>1 DEF PlaceInv
  <2>4. EffectsInv'
    BY <1>2, <1>8, <2>1 DEF EffectsInv
  <2>5. ChosenInv'
    <3>1. SUFFICES ASSUME Mode(c) = "local", pos > 1  PROVE world.config = c
      BY <1>2, <1>5, <2>1 DEF ChosenInv
    <3>2. Plan(q)[1] = "config"
      BY <1>5, <3>1, PlanFacts
    <3>3. Holds("config", c)
      <4>1. 1 \in 1..(pos - 1)
        BY <3>1
      <4> QED
        BY <1>7, <3>2, <4>1 DEF OptionalKeys
    <3> QED
      BY <3>3 DEF Holds, HasConfig
  <2>6. DaemonInv'
    <3>1. ASSUME "config" \notin touched, Text(q), Past(q)  PROVE Holding(world, c)
      <4>1. Text(progress) /\ Past(progress)
        BY <1>c, <1>5, <3>1 DEF Text
      <4> QED
        BY <1>c, <1>2, <3>1, <4>1 DEF SetupInv, DaemonInv
    <3>2. ~AtDaemon'
      BY <2>1 DEF AtDaemon
    <3> QED
      BY <1>2, <1>5, <2>1, <3>1, <3>2 DEF DaemonInv
  <2> QED
    BY <2>2, <2>3, <2>4, <2>5, <2>6 DEF SetupInv
<1> QED
  BY <1>9, <1>10

LEMMA QuestionStep == SetupInv /\ BeforeRestart => SetupInv'
<1> SUFFICES ASSUME SetupInv, BeforeRestart  PROVE SetupInv'
  OBVIOUS
<1>k. PICK key : key = CurrentStep
  OBVIOUS
<1>c. PICK c : c = run.p.choice
  OBVIOUS
<1>n. PICK n : n = Len(Early(c))
  OBVIOUS
<1>p. PICK p : p = run.p
  OBVIOUS
<1>q. PICK q : q = AskAgain(run.p)
  OBVIOUS
<1>1. /\ run.pc = "step" /\ run.at <= Len(Plan(p)) /\ run.ask /\ key \in {"restart", "daemon"}
      /\ run' = [run EXCEPT !.p = q, !.ask = FALSE]
      /\ progress' = (IF q = p THEN progress ELSE q) /\ UNCHANGED <<world, said, touched>>
  BY <1>k, <1>p, <1>q DEF BeforeRestart, Asked
<1>2. /\ p \in Progress /\ p.choice = c /\ run.at \in Nat /\ run.at >= 1 /\ WorldShape
      /\ run = [pc |-> run.pc, p |-> p, at |-> run.at, ask |-> run.ask]
      /\ progress \in Progress /\ progress.choice = c
      /\ progress.restart = p.restart /\ progress.tui = p.tui /\ said # "ready"
      /\ FinishedUpTo(p, run.at) /\ Installed(world, p, run.at)
      /\ (Mode(c) = "local" /\ run.at > 1 => world.config = c)
      /\ key = Plan(p)[run.at]
  BY <1>k, <1>c, <1>p, <1>1, InRun DEF SetupInv, SetupShapes, WorldShape, PlaceInv, EffectsInv, ChosenInv, CurrentStep
<1>3. /\ run'.pc = "step" /\ run'.p = q /\ run'.at = run.at /\ run'.ask = FALSE
      /\ run' = [pc |-> run'.pc, p |-> run'.p, at |-> run'.at, ask |-> run'.ask]
  BY <1>1, <1>2
<1>4. run.at > n /\ n \in Nat /\ Len(Plan(p)) \in Nat /\ (Mode(c) = "local" => n >= 1)
  <2>1. /\ n \in Nat /\ Len(Plan(p)) \in Nat /\ \A i \in 1..n : Plan(p)[i] \notin Late
        /\ Mode(c) = "local" => n >= 1
    BY <1>c, <1>n, <1>2, PlanFacts
  <2>2. key \in Late
    BY <1>1 DEF Late
  <2> QED
    BY <1>2, <2>1, <2>2
<1>5. ASSUME "config" \notin touched, Text(p), Past(p) \/ Past(progress)  PROVE Holding(world, c)
  BY <1>c, <1>p, <1>1, <1>2, <1>5 DEF SetupInv, DaemonInv, Text
<1>6. /\ q \in Progress /\ q.choice = c /\ q.tui = p.tui /\ FinishedUpTo(q, run.at)
      /\ Installed(world, q, run.at) /\ run.at <= Len(Plan(q)) + 1 /\ Len(Plan(q)) \in Nat
      /\ (Past(q) => Past(p))
      /\ (Text(p) /\ run.at <= Len(Plan(q)) /\ Plan(q)[run.at] = "daemon" =>
            Past(p) \/ (world.config = c /\ world.daemon = "down"))
  <2>1. CASE ~(Mode(c) = "local" /\ p.st["restart"] \notin Finished)
    <3>1. q = p
      BY <1>c, <1>p, <1>q, <2>1 DEF AskAgain
    <3>2. Text(p) => Past(p)
      BY <1>2, <2>1 DEF Text, Past
    <3> QED
      BY <1>1, <1>2, <1>4, <3>1, <3>2
  <2>2. CASE Mode(c) = "local" /\ p.st["restart"] \notin Finished
    <3>1. q = [p EXCEPT !.restart = Running, !.st["restart"] = "pending"]
      BY <1>k, <1>c, <1>p, <1>q, <1>1, <2>2 DEF AskAgain
    <3>2. PICK st : st = [p.st EXCEPT !["restart"] = "pending"]
      OBVIOUS
    <3>3. PICK up : up = Running
      OBVIOUS
    <3>4. up \in BOOLEAN /\ st \in [Steps -> Statuses]
      BY <1>2, <3>2, <3>3 DEF Running, Progress, Statuses
    <3>5. q = [choice |-> p.choice, restart |-> up, tui |-> p.tui, st |-> st]
      <4>1. p = [choice |-> p.choice, restart |-> p.restart, tui |-> p.tui, st |-> p.st]
        BY <1>2 DEF Progress
      <4>2. PICK m : m = [p EXCEPT !.restart = Running]
        OBVIOUS
      <4>3. m = [choice |-> p.choice, restart |-> up, tui |-> p.tui, st |-> p.st]
        BY <3>3, <4>1, <4>2
      <4>4. q = [m EXCEPT !.st["restart"] = "pending"]
        BY <3>1, <4>2
      <4> HIDE <4>2
      <4>5. m.st = p.st
        BY <4>3
      <4>6. q = [m EXCEPT !.st = st]
        BY <3>2, <4>4, <4>5
      <4> QED
        BY <4>3, <4>6
    <3>6. /\ q \in Progress /\ q.choice = c /\ q.tui = p.tui /\ q.restart = up /\ q.st = st
      BY <1>2, <3>4, <3>5 DEF Progress, Statuses
    <3>7. run.at = n + 1
      <4>1. /\ p.restart => Len(Plan(p)) = n + 4 /\ Plan(p)[n + 1] = "restart" /\ Plan(p)[n + 2] = "daemon"
                              /\ Plan(p)[n + 3] = "mode" /\ Plan(p)[n + 4] = "roundtrip"
            /\ ~p.restart => Len(Plan(p)) = n + 3 /\ Plan(p)[n + 1] = "daemon"
                               /\ Plan(p)[n + 2] = "mode" /\ Plan(p)[n + 3] = "roundtrip"
        BY <1>c, <1>n, <1>2, <2>2, PlanFacts
      <4>2. ASSUME p.restart, run.at = n + 2  PROVE FALSE
        <5>1. n + 1 \in 1..(run.at - 1)
          BY <1>4, <4>2
        <5>2. "restart" \notin OptionalKeys
          BY DEF OptionalKeys
        <5> QED
          BY <1>2, <2>2, <4>1, <4>2, <5>1, <5>2 DEF FinishedUpTo
      <4>3. CASE p.restart
        <5>1. run.at = n + 1 \/ run.at = n + 2 \/ run.at = n + 3 \/ run.at = n + 4
          BY <1>1, <1>2, <1>4, <4>1, <4>3
        <5> QED
          BY <1>1, <1>2, <4>1, <4>2, <4>3, <5>1
      <4>4. CASE ~p.restart
        <5>1. run.at = n + 1 \/ run.at = n + 2 \/ run.at = n + 3
          BY <1>1, <1>2, <1>4, <4>1, <4>4
        <5> QED
          BY <1>1, <1>2, <4>1, <4>4, <5>1
      <4> QED
        BY <4>3, <4>4
    <3>8. /\ \A i \in 1..n : Plan(q)[i] = Plan(p)[i] /\ Plan(p)[i] \notin Late /\ Plan(p)[i] \in Steps
          /\ Len(Plan(q)) \in Nat /\ Len(Plan(q)) >= n + 2
      <4>1. \A i \in 1..n : Plan(q)[i] = Plan(p)[i]
        BY <1>c, <1>n, <1>2, <3>6, SameStart
      <4>2. Len(Plan(q)) \in Nat /\ Len(Plan(q)) >= n + 2
        BY <1>n, <3>6, PlanFacts
      <4>3. \A i \in 1..Len(Plan(p)) : Plan(p)[i] \in Steps
        BY <1>2, PlanFacts
      <4>4. \A i \in 1..n : Plan(p)[i] \notin Late
        BY <1>c, <1>n, <1>2, PlanFacts
      <4> QED
        BY <1>1, <1>2, <1>4, <4>1, <4>2, <4>3, <4>4
    <3>9. run.at - 1 = n /\ run.at <= Len(Plan(q)) + 1
      BY <1>4, <3>7, <3>8
    <3>10. FinishedUpTo(q, run.at)
      BY <1>2, <3>2, <3>6, <3>8, <3>9 DEF FinishedUpTo, Late
    <3>11. Installed(world, q, run.at)
      BY <1>2, <3>8, <3>9 DEF Installed
    <3>12. Past(q) => Past(p)
      <4>1. st["restart"] = "pending" /\ st["daemon"] = p.st["daemon"]
        BY <1>2, <3>2 DEF Progress, Steps
      <4> QED
        BY <3>6, <4>1 DEF Past, Finished
    <3>13. Plan(q)[run.at] = "daemon" => world.config = c /\ world.daemon = "down"
      <4>1. q.restart => Plan(q)[n + 1] = "restart"
        BY <1>c, <1>n, <2>2, <3>6, PlanFacts
      <4>2. world.config = c
        BY <1>2, <1>4, <2>2, <3>7
      <4> QED
        BY <3>3, <3>6, <3>7, <4>1, <4>2 DEF Running
    <3> QED
      BY <3>6, <3>8, <3>9, <3>10, <3>11, <3>12, <3>13
  <2> QED
    BY <2>1, <2>2
<1>7. /\ progress' \in Progress /\ progress'.choice = c /\ progress'.restart = q.restart
      /\ progress'.tui = q.tui /\ (Past(progress') => Past(p) \/ Past(progress))
  BY <1>1, <1>2, <1>6
<1>8. SetupShapes'
  <2>1. run'.at \in 1..(Len(Plan(q)) + 1)
    BY <1>2, <1>3, <1>6
  <2> QED
    BY <1>1, <1>2, <1>3, <1>6, <1>7, <2>1 DEF SetupShapes, WorldShape
<1>9. PlaceInv'
  BY <1>n, <1>1, <1>2, <1>3, <1>4, <1>6 DEF PlaceInv
<1>10. EffectsInv' /\ ChosenInv'
  BY <1>1, <1>2, <1>3, <1>6 DEF EffectsInv, ChosenInv
<1>11. DaemonInv'
  <2>1. ASSUME "config" \notin touched', Text(q), Past(q) \/ AtDaemon'
        PROVE  Holding(world', c)
    <3>1. "config" \notin touched /\ Text(p) /\ world' = world
      BY <1>1, <1>2, <1>6, <2>1 DEF Text
    <3>2. AtDaemon' => run.at <= Len(Plan(q)) /\ Plan(q)[run.at] = "daemon"
      BY <1>3 DEF AtDaemon, CurrentStep
    <3>3. Past(p) \/ (world.config = c /\ world.daemon = "down")
      BY <1>6, <2>1, <3>1, <3>2
    <3> QED
      BY <1>5, <3>1, <3>3 DEF Holding
  <2>2. ASSUME "config" \notin touched', Text(progress'), Past(progress') \/ said' = "ready"
        PROVE  Holding(world', c)
    <3>1. "config" \notin touched /\ Text(p) /\ world' = world /\ said' # "ready"
      BY <1>1, <1>2, <1>6, <1>7, <2>2 DEF Text
    <3> QED
      BY <1>5, <1>7, <2>2, <3>1
  <2> QED
    BY <1>3, <1>6, <1>7, <2>1, <2>2 DEF DaemonInv
<1> QED
  BY <1>8, <1>9, <1>10, <1>11 DEF SetupInv

\* The user leaves the run and its file alone; what has to hold of the machine still does.
LEMMA Beside ==
  ASSUME SetupInv, UNCHANGED <<progress, run>>, WorldShape', said' = said \/ said' = "nothing",
         touched \subseteq touched',
         run.pc # "idle" \/ said' = "ready" => world.effects \subseteq world'.effects,
         run.pc # "idle" => world'.config = world.config,
         \A c : "config" \notin touched' /\ Holding(world, c) => Holding(world', c)
  PROVE  SetupInv'
<1>1. SetupShapes' /\ PlaceInv' /\ ChosenInv'
  BY DEF SetupInv, SetupShapes, PlaceInv, ChosenInv, WorldShape, CurrentStep
<1>2. EffectsInv'
  <2>1. run.pc # "idle" => Installed(world', run.p, run.at)
    BY DEF SetupInv, EffectsInv, Installed
  <2>2. said' = "ready" /\ progress \in Progress => Installed(world', progress, Len(Plan(progress)) + 1)
    BY DEF SetupInv, EffectsInv, Installed
  <2> QED
    BY <2>1, <2>2 DEF EffectsInv
<1>3. DaemonInv'
  BY DEF SetupInv, DaemonInv, AtDaemon, CurrentStep
<1> QED
  BY <1>1, <1>2, <1>3 DEF SetupInv

LEMMA UserStep == SetupInv /\ (UserStarts \/ UserStops \/ Damage \/ UninstallAll) => SetupInv'
<1> SUFFICES ASSUME SetupInv, UserStarts \/ UserStops \/ Damage \/ UninstallAll  PROVE SetupInv'
  OBVIOUS
<1>1. world = [config |-> world.config, daemon |-> world.daemon, effects |-> world.effects, env |-> world.env]
  BY DEF SetupInv, SetupShapes
<1>2. CASE UserStarts \/ UserStops
  <2>1. PICK d : world' = [world EXCEPT !.daemon = d] /\ d \in {world.config, "down"}
    BY <1>2 DEF UserStarts, UserStops
  <2>2. world' = [config |-> world.config, daemon |-> d, effects |-> world.effects, env |-> world.env]
    BY <1>1, <2>1
  <2>3. UNCHANGED <<progress, run, touched>> /\ (said' = said \/ said' = "nothing")
    BY <1>2 DEF UserStarts, UserStops
  <2>4. WorldShape' /\ world'.effects = world.effects /\ world'.config = world.config
    BY <2>2 DEF WorldShape
  <2>5. \A c : Holding(world, c) => Holding(world', c)
    BY <2>1, <2>2 DEF Holding
  <2> QED
    BY <2>3, <2>4, <2>5, Beside
<1>3. CASE Damage
  <2>1. run.pc = "idle" /\ said' = "nothing" /\ UNCHANGED <<progress, run>>
    BY <1>3 DEF Damage
  <2>2. CASE \E key \in world.effects : world' = [world EXCEPT !.effects = @ \ {key}]
                                        /\ touched' = touched \cup {"effects"}
    <3>1. PICK e : world' = [world EXCEPT !.effects = e] /\ touched' = touched \cup {"effects"}
      BY <2>2
    <3>2. world' = [config |-> world.config, daemon |-> world.daemon, effects |-> e, env |-> world.env]
      BY <1>1, <3>1
    <3>3. WorldShape' /\ \A c : Holding(world, c) => Holding(world', c)
      BY <3>2 DEF WorldShape, Holding
    <3> QED
      BY <2>1, <3>1, <3>3, Beside
  <2>3. CASE \E c \in (SetupChoices \cup {"none"}) \ {world.config} :
               world' = [world EXCEPT !.config = c] /\ touched' = touched \cup {"config"}
    <3>1. PICK g : world' = [world EXCEPT !.config = g] /\ touched' = touched \cup {"config"}
      BY <2>3
    <3>2. world' = [config |-> g, daemon |-> world.daemon, effects |-> world.effects, env |-> world.env]
      BY <1>1, <3>1
    <3>3. WorldShape' /\ "config" \in touched'
      BY <3>1, <3>2 DEF WorldShape
    <3> QED
      BY <2>1, <3>1, <3>3, Beside
  <2>4. CASE world' = [world EXCEPT !.env = ~@] /\ UNCHANGED touched
    <3>1. PICK e : world' = [world EXCEPT !.env = e]
      BY <2>4
    <3>2. world' = [config |-> world.config, daemon |-> world.daemon, effects |-> world.effects, env |-> e]
      BY <1>1, <3>1
    <3>3. WorldShape' /\ \A c : Holding(world, c) => Holding(world', c)
      BY <3>2 DEF WorldShape, Holding
    <3> QED
      BY <2>1, <2>4, <3>3, Beside
  <2> QED
    BY <1>3, <2>2, <2>3, <2>4 DEF Damage
<1>4. CASE UninstallAll
  <2>1. /\ run.pc = "idle" /\ said' = "nothing" /\ UNCHANGED <<progress, run>>
        /\ touched' = touched \cup {"config", "effects"}
    BY <1>4 DEF UninstallAll
  <2>2. PICK m : m = [world EXCEPT !.config = "none"]
    OBVIOUS
  <2>3. PICK e : world' = [m EXCEPT !.daemon = "down", !.effects = e]
    BY <1>4, <2>2 DEF UninstallAll
  <2>4. m = [config |-> "none", daemon |-> world.daemon, effects |-> world.effects, env |-> world.env]
    BY <1>1, <2>2
  <2>5. PICK o : o = [m EXCEPT !.daemon = "down"]
    OBVIOUS
  <2>6. o = [config |-> "none", daemon |-> "down", effects |-> world.effects, env |-> world.env]
    BY <2>4, <2>5
  <2>7. world' = [o EXCEPT !.effects = e]
    BY <2>3, <2>5
  <2>8. world' = [config |-> "none", daemon |-> "down", effects |-> e, env |-> world.env]
    BY <2>6, <2>7
  <2>9. WorldShape'
    BY <2>8 DEF WorldShape
  <2> QED
    BY <2>1, <2>9, Beside
<1> QED
  BY <1>2, <1>3, <1>4

LEMMA SetupStart == SetupInit => SetupInv
<1> SUFFICES ASSUME SetupInit  PROVE SetupInv
  OBVIOUS
<1>1. /\ progress = NoProgress /\ run.pc = "idle" /\ said = "nothing"
      /\ world = [config |-> world.config, daemon |-> world.daemon, effects |-> world.effects, env |-> world.env]
  BY DEF SetupInit, IdleRun
<1>2. NoProgress \notin Progress
  <2>1. "choice" \notin DOMAIN NoProgress
    BY DEF NoProgress
  <2>2. \A p \in Progress : "choice" \in DOMAIN p
    BY DEF Progress
  <2> QED
    BY <2>1, <2>2
<1> QED
  BY <1>1, <1>2 DEF SetupInv, SetupShapes, PlaceInv, EffectsInv, ChosenInv, DaemonInv

LEMMA SetupStep == SetupInv /\ [SetupNext]_setupVars => SetupInv'
<1> SUFFICES ASSUME SetupInv, [SetupNext]_setupVars  PROVE SetupInv'
  OBVIOUS
<1>1. CASE UNCHANGED setupVars
  <2>1. UNCHANGED <<world, progress, run, said, touched>>
    BY <1>1 DEF setupVars
  <2> QED
    BY <2>1, Beside DEF SetupInv, SetupShapes, WorldShape
<1>2. ASSUME NEW c \in SetupChoices, StartFresh(c)  PROVE SetupInv'
  BY <1>2, FreshStep
<1> QED
  BY <1>1, <1>2, ResumeStep, QuestionStep, BodyStep, BreaksStep, ChecksStep, ScreenStep, ReadyStep, UserStep
  DEF SetupNext

\* A setup that says "ready" has every required effect of its plan in place, whatever died,
\* failed, was damaged or uninstalled before (setup_run.run_setup).
THEOREM ReadyMeansInstalled == SetupSpec => []ReadyIsInstalled
<1>1. SetupInv => ReadyIsInstalled
  <2> SUFFICES ASSUME SetupInv, said = "ready", progress # NoProgress, NEW key \in InPlan(progress) \cap Effects,
                      key \notin OptionalKeys
               PROVE  key \in world.effects
    BY DEF ReadyIsInstalled
  <2>1. progress \in Progress /\ Installed(world, progress, Len(Plan(progress)) + 1)
    BY DEF SetupInv, SetupShapes, EffectsInv
  <2>2. DOMAIN Plan(progress) = 1..Len(Plan(progress)) /\ Len(Plan(progress)) \in Nat
    BY <2>1, PlanShape
  <2>3. PICK i \in 1..Len(Plan(progress)) : Plan(progress)[i] = key
    BY <2>2 DEF InPlan, Range
  <2>4. i \in 1..((Len(Plan(progress)) + 1) - 1)
    BY <2>2, <2>3
  <2> QED
    BY <2>1, <2>3, <2>4 DEF Installed
<1> QED
  BY <1>1, SetupStart, SetupStep, PTL DEF SetupSpec

\* After a text-mode setup that says "ready" a daemon that runs has the chosen settings, if
\* nobody else changed them (setup_run.run_setup, the restart and daemon steps).
THEOREM ReadyMeansTheSettings == SetupSpec => []ReadyDaemonHasTheSettings
<1>1. SetupInv => ReadyDaemonHasTheSettings
  BY DEF SetupInv, SetupShapes, DaemonInv, ReadyDaemonHasTheSettings, Text, Holding, Running
<1> QED
  BY <1>1, SetupStart, SetupStep, PTL DEF SetupSpec
=============================================================================
