--------------------------- MODULE ScopedCommands ---------------------------
(***************************************************************************)
(* A memory command in local mode and the commands of remote mode: each    *)
(* says which workspace it touches, in a header or a verdict, and then     *)
(* touches one.  The two modes share no state.                             *)
(***************************************************************************)
EXTENDS MemoryCommand, RemoteWorkspace

ScopedInit == CommandInit /\ RemoteInit
ScopedNext ==
    \/ CommandNext /\ UNCHANGED remoteVars
    \/ RemoteNext /\ UNCHANGED commandVars
ScopedSpec == ScopedInit /\ [][ScopedNext]_<<commandVars, remoteVars>>

(* Memory commands are honest: a line is stored at most once and the       *)
(* answer is true of it (cli.py:308), the workspace that serves it is the  *)
(* one the header named, locally (scope_header.py:301) and remotely        *)
(* (scope_header.py:98), and the stored key opens the chosen workspace     *)
(* (setup.py:1103, cli_workspace.py:537).                                  *)
CommandsAreHonest ==
    AddedOnce /\ HeaderIsTrue /\ RemoteHeaderIsTrue /\ KeyOpensTheWorkspace
=============================================================================
