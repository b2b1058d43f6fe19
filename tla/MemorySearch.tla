---------------------------- MODULE MemorySearch ----------------------------
(***************************************************************************)
(* storage.search in local mode with property filters, which asks the core *)
(* for a wider and wider window until enough rows match, and its wildcard  *)
(* form, which lists the whole graph and applies every visibility rule     *)
(* itself.  The core's own search is external: the rows it shows, in an    *)
(* order of its own, at most as many as asked for.  Other writers add rows *)
(* between two windows.                                                    *)
(***************************************************************************)
EXTENDS Integers, SequencesExt, FiniteSetsExt

CONSTANTS MaxRows,      \* bound: rows of the graph
          MaxTop,       \* bound: top_k
          Widths        \* the multipliers, in order (5, 20, 50 in the code)

ASSUME WidthsAssumption ==
    /\ Widths \in Seq(Nat \ {0}) /\ Len(Widths) > 0
    /\ \A i, j \in DOMAIN Widths : i < j => Widths[i] < Widths[j]

VARIABLES graph,        \* the rows, best match first
          ask,          \* the arguments of the search
          round,        \* windows asked for so far
          window,       \* the last one
          reply,        \* the result, a sequence of rows
          ended,        \* the search is over
          grown         \* history: a row was added meanwhile

searchVars == <<graph, ask, round, window, reply, ended, grown>>

(* What the search tells rows apart by: what kind of node it is, its       *)
(* status, whether it is reference data, and whether the filters match.    *)
Row == [id : 1..(MaxRows + 1), kind : {"memory", "node", "hook"},
        status : {"active", "superseded", "retracted"}, reference : BOOLEAN, matches : BOOLEAN]
RowOf(n, kind, status, reference, matches) ==
    [id |-> n, kind |-> kind, status |-> status, reference |-> reference, matches |-> matches]
Rows(n) == {RowOf(n, "memory", s, FALSE, m) : s \in {"active", "superseded", "retracted"}, m \in BOOLEAN}
           \cup {RowOf(n, "memory", "active", TRUE, TRUE), RowOf(n, "node", "active", FALSE, TRUE),
                 RowOf(n, "hook", "active", FALSE, TRUE)}
Ask == [wildcard : BOOLEAN, filters : BOOLEAN, top : 1..MaxTop,
        superseded : BOOLEAN, retracted : BOOLEAN, reference : BOOLEAN]

SearchTypeOK ==
    /\ ToSet(graph) \subseteq Row /\ ToSet(window) \subseteq Row /\ ToSet(reply) \subseteq Row
    /\ ask \in Ask /\ round \in 0..Len(Widths) /\ ended \in BOOLEAN /\ grown \in BOOLEAN

-----------------------------------------------------------------------------
(* Default visibility, the same for the core's search and for the wildcard.*)
Shown(r) ==
    /\ r.kind = "memory"
    /\ r.reference => ask.reference
    /\ r.status = "superseded" => ask.superseded
    /\ r.status = "retracted" => ask.retracted
Matches(r) == ask.filters => r.matches

(* _list_all_memories, then the filters one after the other.               *)
MListed(s) == SelectSeq(s, LAMBDA r : r.kind # "node" /\ r.kind # "hook" /\ Matches(r)
                                      /\ (r.reference => ask.reference)
                                      /\ (r.status # "active" => ask.superseded \/ ask.retracted))
Listed(s) ==
    LET memories == SelectSeq(s, LAMBDA r : r.kind # "node")
        spoken == SelectSeq(memories, LAMBDA r : r.kind # "hook")
        matching == SelectSeq(spoken, Matches)
        proper == IF ask.reference THEN matching ELSE SelectSeq(matching, LAMBDA r : ~r.reference)
        Keep(r) == /\ ~ask.superseded => r.status # "superseded"
                   /\ ~ask.retracted => r.status # "retracted"
    IN IF ask.superseded /\ ask.retracted THEN proper ELSE SelectSeq(proper, Keep)

Wildcard ==
    /\ ask.wildcard /\ ~ended
    /\ reply' = Listed(graph)
    /\ ended' = TRUE /\ UNCHANGED <<graph, ask, round, window, grown>>

-----------------------------------------------------------------------------
CoreSearch(n) ==
    LET shown == SelectSeq(graph, Shown) IN SubSeq(shown, 1, Min({n, Len(shown)}))

Plain ==
    /\ ~ask.wildcard /\ ~ask.filters /\ ~ended
    /\ window' = CoreSearch(ask.top) /\ reply' = window' /\ ended' = TRUE
    /\ UNCHANGED <<graph, ask, round, grown>>

FetchK(i) == ask.top * Widths[i]
MEnough(s, i) == Len(SelectSeq(s, Matches)) >= ask.top \/ Len(s) <= FetchK(i)
Enough(s, i) == Len(SelectSeq(s, Matches)) >= ask.top \/ Len(s) < FetchK(i)

Widen ==
    /\ ~ask.wildcard /\ ask.filters /\ ~ended
    /\ round' = round + 1
    /\ window' = CoreSearch(FetchK(round'))
    /\ ended' = (Enough(window', round') \/ round' = Len(Widths))
    /\ LET matched == SelectSeq(window', Matches)
       IN reply' = SubSeq(matched, 1, Min({ask.top, Len(matched)}))
    /\ UNCHANGED <<graph, ask, grown>>

(* Another writer, between two windows.                                    *)
Grows ==
    /\ round > 0 /\ ~ended /\ ~grown /\ grown' = TRUE
    /\ \E r \in {RowOf(MaxRows + 1, "memory", "active", FALSE, m) : m \in BOOLEAN}, i \in 1..(Len(graph) + 1) : graph' = InsertAt(graph, i, r)
    /\ UNCHANGED <<ask, round, window, reply, ended>>

SearchInit ==
    /\ \E n \in 0..MaxRows : \E rows \in [1..n -> Rows(0)] :
         graph = [i \in 1..n |-> [rows[i] EXCEPT !.id = i]]
    /\ ask \in Ask /\ (ask.wildcard => ask.top = 1)
    /\ round = 0 /\ window = <<>> /\ reply = <<>> /\ ended = FALSE /\ grown = FALSE

SearchNext == Wildcard \/ Plain \/ Widen \/ Grows

SearchSpec == SearchInit /\ [][SearchNext]_searchVars

-----------------------------------------------------------------------------
(* A filtered search comes back short only when the core has shown it all  *)
(* it has, or the widest window was used up; and the wildcard lists exactly*)
(* what a search would show ("Applied here to match the default core       *)
(* applies", storage.py:996), whatever the options.                        *)
ShortMeansExhausted ==
    ended /\ ask.filters /\ ~ask.wildcard /\ Len(reply) < ask.top =>
        \/ Len(window) = FetchK(Len(Widths))
        \/ grown
        \/ \A i \in DOMAIN graph : Shown(graph[i]) /\ Matches(graph[i]) => graph[i] \in ToSet(reply)
WildcardAgrees ==
    ended /\ ask.wildcard => reply = SelectSeq(graph, LAMBDA r : Shown(r) /\ Matches(r))
SearchIsHonest == ShortMeansExhausted /\ WildcardAgrees
=============================================================================
