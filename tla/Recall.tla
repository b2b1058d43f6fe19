------------------------------- MODULE Recall -------------------------------
(***************************************************************************)
(* storage.recall in local mode: the lessons, the search windows that are  *)
(* widened until enough rows survive the filters, and the block that is    *)
(* formatted from them (recall_format.py).  The store's searches are       *)
(* external: by recency every row, newest first; by meaning the related    *)
(* rows in some order of the store's own.  Enrichment in another process   *)
(* adds and removes rows between two searches.                             *)
(***************************************************************************)
EXTENDS Integers, SequencesExt

CONSTANTS MaxRows,      \* bound: rows in the store when the recall starts
          MaxTop,       \* bound: top_k
          MaxChanges    \* bound: rows added or removed meanwhile

VARIABLES store,        \* rows, newest first
          call,         \* the arguments of the recall
          lessons,      \* the lessons found first
          fetch,        \* fetch_k
          windows,      \* the rows of the last searches
          out,          \* the rows of the formatted block
          at, changes,
          quiet         \* history: nobody else touched the store

recallVars == <<store, call, lessons, fetch, windows, out, at, changes, quiet>>

(* What a row is, as far as recall tells rows apart: a memory or a lesson, *)
(* its workspace, its content (the shared text of several rows or its own),*)
(* and whether another filter drops it: an infrastructure node, an inactive*)
(* decision, a snapshot, an origin tier, the confidence floor, reference.  *)
Row == [id : 0..(MaxRows + MaxChanges), kind : {"memory", "lesson"},
        ws : {"here", "there", "none"}, text : {"own", "shared", "empty"},
        related : BOOLEAN, dropped : BOOLEAN]
Kind(kind, ws, text, related, dropped) ==
    [kind |-> kind, ws |-> ws, text |-> text, related |-> related, dropped |-> dropped]
RowKinds == {Kind("memory", "here", "own", r, FALSE) : r \in BOOLEAN}
            \cup {Kind("lesson", "here", "own", r, FALSE) : r \in BOOLEAN}
            \cup {Kind("memory", "none", "own", TRUE, FALSE), Kind("memory", "here", "shared", TRUE, FALSE),
                  Kind("memory", "there", "own", TRUE, FALSE), Kind("memory", "here", "own", TRUE, TRUE),
                  Kind("memory", "here", "empty", TRUE, FALSE)}
\* Bound: the kinds that are added meanwhile.
AddedKinds == {k \in RowKinds : k.related /\ k.text # "empty" /\ ~k.dropped}
WithId(k, n) == [id |-> n, kind |-> k.kind, ws |-> k.ws, text |-> k.text,
                 related |-> k.related, dropped |-> k.dropped]

RecallTypeOK ==
    /\ ToSet(store) \subseteq Row
    /\ call.top \in 0..MaxTop /\ call.how \in {"query", "cwd", "plain"} /\ call.strict \in BOOLEAN
    /\ ToSet(lessons) \subseteq Row /\ ToSet(out) \subseteq Row
    /\ at \in {"lessons", "search", "format", "done"} /\ changes \in 0..MaxChanges /\ quiet \in BOOLEAN /\ fetch >= 1

-----------------------------------------------------------------------------
First(s, n) == SubSeq(s, 1, IF n < Len(s) THEN n ELSE Len(s))
After(s, n) == SubSeq(s, n + 1, Len(s))
RecentK == LET r == IF call.top < 1 THEN 1 ELSE call.top IN (r + 1) \div 2
SemanticK == LET r == IF call.top < 1 THEN 1 ELSE call.top IN r - RecentK

(* filter_hook_items and eligible(): a row of another workspace is left    *)
(* out, and with strict a row of none.  (A recall that has neither a       *)
(* workspace nor a folder to take one from filters by no workspace.)       *)
MEligible(r) == ~r.dropped /\ r.id \notin call.exclude
                /\ (r.ws = "here" \/ ~call.strict)
Eligible(r) ==
    /\ ~r.dropped /\ r.id \notin call.exclude
    /\ r.ws = "here" \/ (r.ws = "none" /\ ~call.strict)
EligibleRows(s) == SelectSeq(s, Eligible)

ByRecency(n) == First(store, n)
ByMeaning(n) == First(SelectSeq(Reverse(store), LAMBDA r : r.related), n)

(* format_recall_lines: an empty row, a row of an id or of a (type, text)  *)
(* already seen is left out, and only then the cap applies.                *)
Repeats(rows, i) ==
    \E j \in 1..(i - 1) :
        /\ rows[j].text # "empty"
        /\ \/ rows[j].id = rows[i].id
           \/ rows[j].kind = rows[i].kind /\ rows[j].text = "shared" /\ rows[i].text = "shared"
Distinct(rows) ==
    LET keep == {i \in 1..Len(rows) : rows[i].text # "empty" /\ ~Repeats(rows, i)}
    IN FoldLeftDomain(LAMBDA acc, i : IF i \in keep THEN Append(acc, rows[i]) ELSE acc, <<>>, rows)
LessonsFirst(rows) ==
    SelectSeq(rows, LAMBDA r : r.kind = "lesson") \o SelectSeq(rows, LAMBDA r : r.kind # "lesson")
Formatted(rows) ==
    First(Distinct(IF call.how = "query" THEN rows ELSE LessonsFirst(rows)), call.top)

-----------------------------------------------------------------------------
FindLessons ==
    /\ at = "lessons"
    /\ LET found == SelectSeq(store, LAMBDA r : r.kind = "lesson" /\ (call.how = "query" => r.related))
       IN \/ lessons' = EligibleRows(found)
          \/ lessons' = <<>>       \* the lookup failed
    /\ at' = IF call.top = 0 THEN "done" ELSE "search"
    /\ UNCHANGED <<store, call, fetch, windows, out, changes, quiet>>

Search ==
    /\ at = "search"
    /\ windows' = CASE call.how = "query" -> <<ByMeaning(fetch)>>
                    [] call.how = "cwd"   -> <<ByRecency(fetch), ByMeaning(fetch)>>
                    [] OTHER              -> <<ByRecency(fetch)>>
    /\ at' = "format"
    /\ UNCHANGED <<store, call, lessons, fetch, out, changes, quiet>>

(* The newest and the most related rows share the slots; what one channel  *)
(* has too few of, the other fills.                                        *)
Merge ==
    IF call.how # "cwd" THEN EligibleRows(windows[1])
    ELSE LET recent == EligibleRows(windows[1])
             semantic == EligibleRows(windows[2])
         IN First(recent, RecentK) \o First(semantic, SemanticK)
            \o After(recent, RecentK) \o After(semantic, SemanticK)
MExhausted == \E i \in DOMAIN windows : Len(windows[i]) < fetch
Exhausted == \A i \in DOMAIN windows : Len(windows[i]) < fetch

Format ==
    /\ at = "format"
    /\ out' = Formatted(lessons \o Merge)
    /\ IF Len(out') >= call.top \/ Exhausted
       THEN at' = "done" /\ UNCHANGED fetch
       ELSE at' = "search" /\ fetch' = 2 * fetch
    /\ UNCHANGED <<store, call, lessons, windows, changes, quiet>>

-----------------------------------------------------------------------------
(* Another process, between two steps of the recall.                       *)
RowAdded ==
    /\ changes > 0 /\ changes' = changes - 1 /\ at # "done" /\ quiet' = FALSE
    /\ \E k \in AddedKinds : store' = <<WithId(k, MaxRows + changes)>> \o store
    /\ UNCHANGED <<call, lessons, fetch, windows, out, at>>

RowRemoved ==
    /\ changes > 0 /\ changes' = changes - 1 /\ at # "done" /\ quiet' = FALSE
    /\ \E i \in DOMAIN store : store' = RemoveAt(store, i)
    /\ UNCHANGED <<call, lessons, fetch, windows, out, at>>

Calls == [top : 1..MaxTop, how : {"query"}, strict : BOOLEAN, exclude : {{}, {1}}]
         \cup [top : 1..MaxTop, how : {"cwd", "plain"}, strict : BOOLEAN, exclude : {{}}]
         \cup [top : {0}, how : {"plain"}, strict : {FALSE}, exclude : {{}}]

(* A store that will change starts with a row less.                        *)
RecallInit ==
    /\ changes \in 0..MaxChanges
    /\ \E kinds \in SeqOf(RowKinds, MaxRows - changes) :
           store = [i \in DOMAIN kinds |-> WithId(kinds[i], i)]
    /\ call \in Calls
    /\ fetch = IF call.top = 0 THEN 1 ELSE call.top * (IF call.how = "query" THEN 2 ELSE 1)
    /\ lessons = <<>> /\ windows = <<>> /\ out = <<>> /\ at = "lessons" /\ quiet = TRUE

RecallNext == FindLessons \/ Search \/ Format \/ RowAdded \/ RowRemoved

RecallSpec == RecallInit /\ [][RecallNext]_recallVars

-----------------------------------------------------------------------------
(* Nobody else touched the store: a finished recall gives top_k distinct   *)
(* rows, or every distinct row there is to give, however many rows of      *)
(* other workspaces, duplicates and noise crowd the windows ("Widen here,  *)
(* ... when filtering/dedup leaves eligible slots unfilled",               *)
(* storage.py:1134); and for a folder the newest rows of the last window    *)
(* keep their half of the slots, as far as lessons leave room ("Preserve   *)
(* ceil(k/2) recency first", storage.py:1201).                             *)
Lesson(r) == r.kind = "lesson"
Memory(r) == ~Lesson(r)
SlotsFilled ==
    LET reach == IF call.how = "query" THEN SelectSeq(store, LAMBDA r : r.related) ELSE store
        rows == Distinct(lessons \o EligibleRows(reach))
    IN Len(out) = IF Len(rows) < call.top THEN Len(rows) ELSE call.top
NewestKeepTheirHalf ==
    call.how = "cwd" =>
    LET newest == Distinct(SelectSeq(First(EligibleRows(windows[1]), RecentK), Memory))
        room == call.top - Len(SelectSeq(out, Lesson))
    IN ToSet(First(newest, room)) \subseteq ToSet(out)
FillsItsSlots == at = "done" /\ quiet => SlotsFilled /\ NewestKeepTheirHalf

(* Whatever happens meanwhile, the block holds no row of another workspace,*)
(* with strict none of an untagged one, no row twice, and no row the       *)
(* caller already has.                                                     *)
OnlyItsOwn ==
    \A i \in DOMAIN out :
        /\ out[i].ws # "there" /\ (call.strict => out[i].ws = "here")
        /\ out[i].id \notin call.exclude
        /\ ~Repeats(out, i)
=============================================================================
