----------------------------- MODULE LaunchKeys -----------------------------
(***************************************************************************)
(* Where one provider key lives and how the launchd jobs get it: the       *)
(* shell that runs sm setup, the OS keychain, the shell profile, and the   *)
(* auto-start files of older releases, which carried the key in plain      *)
(* text (setup.py, keyring_guard.py, config.load_llm_keys_from_stores).    *)
(* A rewrite of the auto-start files drops the key from them.              *)
(***************************************************************************)
EXTENDS Integers, FiniteSets

CONSTANTS Keys,         \* key values
          Plists        \* auto-start files: the daemon's and the worker's

VARIABLES shell,        \* the key exported in the shell of setup, or None
          disabled,     \* "gate" or "null": that shell says not to touch the OS keychain
          chain,        \* the keychain: what it holds, and how it behaves
          profile,      \* the shell profile: its key, and whether it can be written
          plist,        \* per file: absent, without a key, or the key it holds
          todo,         \* files the running install still has to write
          job           \* the daemon's key since its last start, or None

keyVars == <<shell, disabled, chain, profile, plist, todo, job>>

None == "none"
Absent == "absent"
Stored == Keys \cup {None}
Gates == {"open", "gate", "null"}
ChainModes == {"works", "readonly", "locked", "forgets"}

LaunchTypeOK ==
    /\ shell \in Stored /\ disabled \in Gates /\ job \in Stored
    /\ chain.key \in Stored /\ chain.mode \in ChainModes
    /\ profile.key \in Stored /\ profile.writable \in BOOLEAN
    /\ plist \in [Plists -> Stored \cup {Absent}] /\ todo \subseteq Plists

-----------------------------------------------------------------------------
(* A locked keychain raises; one that forgets takes a write and returns    *)
(* nothing.                                                                *)
ChainGet == IF chain.mode \in {"works", "readonly"} THEN chain.key ELSE None

(* set_secret: refused when the environment says so.                       *)
ChainAfter(key) == IF disabled = "open" /\ chain.mode = "works" THEN [chain EXCEPT !.key = key] ELSE chain

FirstOf(a, b) == IF a # None THEN a ELSE b

(* The order a daemon looks in: what its plist put into its environment,   *)
(* the keychain, the shell profile.                                        *)
PlistKey == IF \E f \in Plists : plist[f] \in Keys
            THEN CHOOSE k \in Keys : \E f \in Plists : plist[f] = k
            ELSE None

LoadLlmKeys(fromPlist) == FirstOf(fromPlist, FirstOf(ChainGet, profile.key))

DaemonStarts ==
    /\ \E f \in Plists :
         /\ plist[f] # Absent
         /\ job' = LoadLlmKeys(IF plist[f] \in Keys THEN plist[f] ELSE None)
    /\ UNCHANGED <<shell, disabled, chain, profile, plist, todo>>

-----------------------------------------------------------------------------
(* sm setup, the key question: Enter keeps the key found in the shell, the *)
(* keychain or the profile; a pasted key goes to the shell's environment,  *)
(* the profile (a warning when it cannot be written) and the keychain.     *)
KeepKey ==
    /\ todo = {}
    /\ shell' = FirstOf(shell, FirstOf(IF disabled = "open" THEN ChainGet ELSE None, profile.key))
    /\ UNCHANGED <<disabled, chain, profile, plist, todo, job>>

TypeKey(key) ==
    /\ todo = {}
    /\ shell' = key
    /\ profile' = IF profile.writable THEN [profile EXCEPT !.key = key] ELSE profile
    /\ chain' = ChainAfter(key)
    /\ UNCHANGED <<disabled, plist, todo, job>>

(* _daemon_can_read_key stores the key in the keychain when it is not      *)
(* there yet, reads it back, and else relies on the profile.               *)
DaemonCanReadKey(key) ==
    \/ disabled = "open" /\ (ChainGet = key \/ chain.mode = "works")
    \/ profile.key = key

(* _install_launchd_plist: the key of the shell, of the keychain, or of    *)
(* the installed files must be one the daemon finds again.  Otherwise the  *)
(* files that hold a key are left as they are.                             *)
WantedKey ==
    FirstOf(shell, FirstOf(IF disabled = "null" THEN None ELSE ChainGet, PlistKey))

KeyReadable == WantedKey = None \/ DaemonCanReadKey(WantedKey)

MMayRewrite == WantedKey # PlistKey \/ KeyReadable
MayRewrite == PlistKey = None \/ KeyReadable

InstallLaunchdPlist ==
    /\ todo = {}
    /\ chain' = IF WantedKey # None /\ WantedKey # ChainGet THEN ChainAfter(WantedKey) ELSE chain
    /\ todo' = IF MayRewrite THEN Plists ELSE {}
    /\ UNCHANGED <<shell, disabled, profile, plist, job>>

WritePlist(f) ==
    /\ f \in todo /\ todo' = todo \ {f}
    /\ plist' = [plist EXCEPT ![f] = None]
    /\ UNCHANGED <<shell, disabled, chain, profile, job>>

SetupDies ==
    /\ todo # {} /\ todo' = {}
    /\ UNCHANGED <<shell, disabled, chain, profile, plist, job>>

UninstallLaunchdPlist ==
    /\ todo = {}
    /\ plist' = [f \in Plists |-> Absent]
    /\ UNCHANGED <<shell, disabled, chain, profile, todo, job>>

(* Another shell, with another key or none exported; a keychain that locks *)
(* or recovers; a profile made read-only.                                  *)
OtherShell ==
    /\ todo = {}
    /\ shell' \in Stored /\ disabled' \in Gates
    /\ UNCHANGED <<chain, profile, plist, todo, job>>

StoresChange ==
    /\ \/ \E mode \in ChainModes \ {chain.mode} :
            /\ chain' = [chain EXCEPT !.mode = mode] /\ UNCHANGED profile
       \/ /\ profile' = [profile EXCEPT !.writable = ~@] /\ UNCHANGED chain
    /\ UNCHANGED <<shell, disabled, plist, todo, job>>

-----------------------------------------------------------------------------
KeyInit ==
    /\ shell \in Stored /\ disabled \in Gates /\ job = None /\ todo = {}
    /\ chain \in [key : Stored, mode : ChainModes] /\ (chain.mode = "forgets" => chain.key = None)
    /\ profile \in [key : Stored, writable : BOOLEAN]
    /\ plist \in [Plists -> Stored \cup {Absent}]

KeyNext ==
    \/ DaemonStarts \/ KeepKey \/ InstallLaunchdPlist \/ SetupDies
    \/ UninstallLaunchdPlist \/ OtherShell \/ StoresChange
    \/ \E key \in Keys : TypeKey(key)
    \/ \E f \in Plists : WritePlist(f)

KeySpec == KeyInit /\ [][KeyNext]_keyVars

-----------------------------------------------------------------------------
(* "Never replace a plist that holds a key unless the daemon can read a    *)
(* key from a persistent store afterwards" (setup.py:1607): whichever of   *)
(* the shell, the keychain, the profile and the old files held the key,    *)
(* and however the keychain misbehaves, a rewrite leaves a stored copy.    *)
LeavesACopy ==
    \A f \in todo \ todo' : plist[f] \in Keys /\ plist'[f] = None
        => chain'.key # None \/ profile'.key # None
KeyNeverLost == [][LeavesACopy]_keyVars
=============================================================================
