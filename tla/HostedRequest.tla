--------------------------- MODULE HostedRequest ---------------------------
(***************************************************************************)
(* Remote mode: what a command says of the hosted workspace after one or   *)
(* several requests (remote_backend.py, remote_cli.py, preflight.py and    *)
(* the commands of cli.py and cli_code.py that use them).  The service may *)
(* answer, answer with a body that lacks what was asked for or with none,  *)
(* refuse, or fail before or after it did its part; others change the      *)
(* workspace between two requests.  Each command handles these answers in  *)
(* its own way; the recall of a hook goes on without what failed.          *)
(***************************************************************************)
EXTENDS Naturals

CONSTANTS MaxFaults,    \* bound: answers that are not what was asked for
          MaxChanges    \* bound: changes by others

VARIABLES held,         \* the kinds of rows there are that the filters let through
          line,         \* how often the line of sm add was stored
          code,         \* the indexed repository: "old", "new" or "part"
          call,         \* the command
          faults, changes,
          moved         \* history: the workspace changed between two requests

hostedVars == <<held, line, code, call, faults, changes, moved>>

Rows == {"memory", "decision", "snapshot"}
Kinds == {"add", "index", "ask", "search", "list", "get", "why", "status", "recall", "hook"}
(* What may come back: what was asked for, no rows, an object or null that *)
(* lacks it, and everything _request turns into {"error": ...}.            *)
Replies == {"full", "none", "odd", "null", "error"}

NoCall == [kind |-> "none", at |-> "none", plain |-> TRUE, key |-> TRUE, team |-> "none", web |-> "none",
           by |-> "query", mismatch |-> FALSE, got |-> {}, odd |-> FALSE, lost |-> {},
           told |-> "nothing", hint |-> FALSE]

HostedTypeOK ==
    /\ held \subseteq Rows /\ line \in 0..1 /\ code \in {"old", "new", "part"}
    /\ call.kind \in Kinds \cup {"none"} /\ call.team \in {"none", "web", "other"}
    /\ call.web \in {"none", "web"} /\ call.got \cup call.lost \subseteq Rows
    /\ faults \in 0..MaxFaults /\ changes \in 0..MaxChanges

To(stage) == [call EXCEPT !.at = stage]
Goes(c) == call' = c
(* The command prints and ends.  _is_empty_listing: an empty list of rows  *)
(* is explained when the web console shows another workspace.              *)
Says(c, what) == call' = [c EXCEPT !.at = "told", !.told = what]
Listing == {"search", "list", "why", "recall"}
NotesEmpty(c) ==
    call' = [c EXCEPT !.at = "told", !.told = "empty", !.hint = c.mismatch /\ c.kind \in Listing]
Local == UNCHANGED <<held, line, code, faults, changes, moved>>

-----------------------------------------------------------------------------
(* The command line: plain says that the options are ones that the hosted  *)
(* interface has a place for (of an index, that the tree fits a request),  *)
(* team what SMARTMEMORY_TEAM_ID or config.toml name; the login's default  *)
(* is "web".                                                               *)
Begin ==
    /\ call.at = "none"
    /\ \E kind \in Kinds, plain, key \in BOOLEAN, team \in {"none", "web", "other"}, by \in {"query", "recent"} :
         /\ plain \/ kind \in {"add", "search", "list", "get", "index"}
         /\ by = "query" \/ kind \in {"recall", "hook"}
         /\ Goes([NoCall EXCEPT !.kind = kind, !.plain = plain, !.key = key, !.team = team,
                                !.by = by, !.at = "start"])
    /\ Local

(* sm get takes no abbreviated id.                                         *)
RefuseShortId == call.at = "start" /\ call.kind = "get" /\ ~call.plain /\ Says(call, "refused") /\ Local

(* RemoteMemory: /auth/me, whose failure is silent, tells the default.     *)
Construct ==
    /\ call.at = "start" /\ (call.kind = "get" => call.plain)
    /\ \/ /\ call.key
          /\ Goes([To("built") EXCEPT !.web = "web", !.team = IF @ = "none" THEN "web" ELSE @])
          /\ UNCHANGED faults
       \/ call.key /\ faults > 0 /\ faults' = faults - 1 /\ Goes(To("built"))
       \/ ~call.key /\ Goes(To("built")) /\ UNCHANGED faults
    /\ UNCHANGED <<held, line, code, changes, moved>>

(* workspace_mismatch, asked by request_memory only.                       *)
Mismatch == call.web # "none" /\ call.team # "none" /\ call.team # call.web
FirstStage == CASE call.kind \in {"recall", "hook"} -> "snapshot" [] OTHER -> call.kind
Warn ==
    /\ call.at = "built"
    /\ Goes([To(FirstStage) EXCEPT !.mismatch = call.kind \notin {"index", "hook"} /\ Mismatch])
    /\ Local

(* Properties that are reserved, filters beside a query, options of a      *)
(* listing: refused before a request.                                      *)
RefuseOptions ==
    /\ call.at \in {"add", "search", "list"} /\ ~call.plain
    /\ Says(call, "refused") /\ Local

-----------------------------------------------------------------------------
(* One request.  request() sends nothing without a key, and the service    *)
(* refuses _request() then; a missing item is an HTTP error.               *)
Reads == CASE call.at \in {"search", "list", "get", "query", "recent", "meaning"} -> {"memory"}
           [] call.at \in {"why", "provenance", "lessons"} -> {"decision"}
           [] call.at = "snapshot" -> {"snapshot"}
           [] OTHER -> {}
Found == Reads \cap held
Usual == CASE ~call.key -> "error"
           [] Found = {} /\ Reads # {} -> IF call.at \in {"get", "provenance"} THEN "error" ELSE "none"
           [] OTHER -> "full"
Exchange(r) ==
    /\ r \in Replies /\ (r \in {"full", "none"} => r = Usual)
    /\ IF r = Usual THEN UNCHANGED faults ELSE faults > 0 /\ faults' = faults - 1
    /\ \/ r = "error" /\ UNCHANGED <<line, code>>
       \/ /\ call.key /\ (call.at \in {"get", "provenance"} => Found # {})
          /\ line' = IF call.at = "add" THEN line + 1 ELSE line
          /\ code' \in IF call.at # "index" THEN {code} ELSE IF r = "full" THEN {"new"} ELSE {"new", "part"}
    /\ UNCHANGED <<held, changes, moved>>
Took(r) == [call EXCEPT !.odd = @ \/ r \in {"odd", "null"}, !.got = IF r = "full" THEN @ \cup Found ELSE @]
Sent(stage, r) == call.at = stage /\ call.plain /\ Exchange(r)

Ask(r) == Sent("ask", r) /\ Says(Took(r), IF r = "full" THEN "answered" ELSE "failed")
Add(r) == Sent("add", r) /\ Says(Took(r), IF r = "full" THEN "added" ELSE "failed")

(* sm search: a dict must hold the list of results; the page that lists    *)
(* memories is checked field by field.                                     *)
Search(r) ==
    /\ Sent("search", r)
    /\ CASE r = "full" -> Says(Took(r), "shown") [] r = "none" -> NotesEmpty(Took(r))
         [] OTHER -> Says(Took(r), "failed")
ListMemories(r) ==
    /\ Sent("list", r)
    /\ CASE r = "full" -> Says(Took(r), "shown") [] r = "none" -> NotesEmpty(Took(r))
         [] OTHER -> Says(Took(r), "failed")

(* sm get prints what object it gets; null is an item not found.           *)
Get(r) ==
    /\ Sent("get", r)
    /\ Says(Took(r), CASE r = "error" -> "failed" [] r = "null" -> "missing" [] OTHER -> "shown")

(* sm status prints ? for what the summary lacks.                          *)
Status(r) == Sent("status", r) /\ Says(Took(r), IF r = "error" THEN "failed" ELSE "shown")

(* sm why: the closest decision, then where it comes from.  A body without *)
(* decisions is taken for none, a decision without an id is an error.      *)
Why(r) ==
    /\ Sent("why", r)
    /\ CASE r = "full" -> Goes([Took(r) EXCEPT !.at = "provenance"])
         [] r = "none" -> NotesEmpty(Took(r))
         [] r = "error" -> Says(Took(r), "failed")
         [] OTHER -> \E what \in {"empty"} \cup (IF r = "odd" THEN {"failed"} ELSE {}) : Says(Took(r), what)
Provenance(r) ==
    Sent("provenance", r) /\ Says(Took(r), IF r = "error" THEN "failed" ELSE "shown")

(* sm code index: no request without a workspace, none with a tree that    *)
(* cannot be parsed or is too large; the answer must confirm the           *)
(* replacement and both counts.                                            *)
RefuseIndex ==
    /\ call.at = "index" /\ (call.team = "none" \/ ~call.plain)
    /\ Says(call, "failed") /\ Local
Index(r) ==
    /\ call.team # "none" /\ Sent("index", r)
    /\ Says(Took(r), IF r = "full" THEN "replaced" ELSE "failed")

-----------------------------------------------------------------------------
(* recall(): sm recall raises what fails, a hook goes on and records it.   *)
Raises == call.kind = "recall"
Loses(stage) ==
    IF Raises THEN Says(call, "failed") ELSE Goes([To(stage) EXCEPT !.lost = @ \cup Reads])

SkipSnapshot == call.at = "snapshot" /\ Goes(To(call.by)) /\ Local
Snapshot(r) ==
    /\ Sent("snapshot", r)
    /\ IF r = "error" THEN Loses(call.by) ELSE Goes([Took(r) EXCEPT !.at = call.by])

(* A query is searched for; without one the recent memories and, in a      *)
(* folder, those close to its name.  A body without rows counts as none,   *)
(* one failed search drops what the other found.                           *)
Candidates(r) ==
    /\ \E stage \in {"query", "recent", "meaning"} : Sent(stage, r)
    /\ IF r # "error" THEN \E next \in IF call.at = "recent" THEN {"meaning", "lessons"} ELSE {"lessons"} :
                               Goes([Took(r) EXCEPT !.at = next])
       ELSE IF Raises THEN Says(call, "failed")
            ELSE Goes([To("lessons") EXCEPT !.got = @ \ {"memory"}, !.lost = @ \cup Reads])
(* null has no decisions to get, which is an error here.                   *)
HostedLessons(r) ==
    /\ Sent("lessons", r)
    /\ IF r \in {"error", "null"} THEN Loses("compose") ELSE Goes([Took(r) EXCEPT !.at = "compose"])
Compose ==
    /\ call.at = "compose"
    /\ IF call.got = {} THEN NotesEmpty(call) ELSE Says(call, "shown")
    /\ Local

OthersChange ==
    /\ call.at # "told" /\ changes > 0 /\ changes' = changes - 1
    /\ \E row \in Rows : held' = IF row \in held THEN held \ {row} ELSE held \cup {row}
    /\ moved' = (moved \/ call.at \notin {"none", "start"})
    /\ UNCHANGED <<line, code, call, faults>>

HostedInit ==
    /\ held \in SUBSET Rows /\ line = 0 /\ code = "old" /\ call = NoCall
    /\ faults = MaxFaults /\ changes = MaxChanges /\ moved = FALSE
HostedNext ==
    \/ Begin \/ RefuseShortId \/ Construct \/ Warn \/ RefuseOptions \/ RefuseIndex
    \/ \E r \in Replies :
         \/ Ask(r) \/ Add(r) \/ Search(r) \/ ListMemories(r) \/ Get(r) \/ Status(r) \/ Index(r)
         \/ Why(r) \/ Provenance(r)
         \/ Snapshot(r) \/ Candidates(r) \/ HostedLessons(r)
    \/ SkipSnapshot \/ Compose \/ OthersChange
HostedSpec == HostedInit /\ [][HostedNext]_hostedVars

-----------------------------------------------------------------------------
Wanted == CASE call.kind \in {"search", "list", "get"} -> {"memory"}
            [] call.kind = "why" -> {"decision"}
            [] call.kind \in {"recall", "hook"} -> {"memory", "decision"}
            [] OTHER -> {}

(* "A failure surfaces to the caller instead of masquerading as a normal   *)
(* return value" (remote_backend.py:41): nobody is told that nothing was   *)
(* found while something was there, if nobody changed the workspace        *)
(* meanwhile and every body held what it should; a hook that goes without  *)
(* something recorded it.  Only what is stored is called added, only a     *)
(* whole new index is called replaced, and a command that refused its      *)
(* options left no trace.                                                  *)
FailuresSurface ==
    call.at = "told" =>
        /\ call.told = "empty" /\ ~call.odd /\ ~moved =>
             Wanted \cap held \subseteq IF call.kind = "hook" THEN call.lost ELSE {}
        /\ call.told = "added" => line = 1
        /\ call.told = "replaced" => code = "new"
        /\ call.told = "refused" => line = 0 /\ code = "old"

(* "An empty answer from a mismatched workspace is never reported as plain *)
(* emptiness" (preflight.py:223), if /auth/me named the web's workspace    *)
(* and the body held the empty list.                                       *)
EmptyIsExplained ==
    call.told = "empty" /\ call.kind \in Listing /\ ~call.odd /\ call.web # "none" /\ call.team = "other"
        => call.hint
=============================================================================
