----------------------------- MODULE AskAnswers -----------------------------
(***************************************************************************)
(* POST /memory/search and POST /memory/ask of the local daemon, and the   *)
(* command sm ask.  The search folds the fact rows of the core's pool into *)
(* the memories they come from (collapse_to_parents); an answer is written *)
(* by the LLM from that page and the relations around it, or listed from   *)
(* the page when there is no LLM.  External: the core's search, the LLM,   *)
(* the keys of the shell and of the daemon, and the other processes that   *)
(* remove memories and change the configuration meanwhile.  A search that  *)
(* asks for the core's rows as they are has no step here.                  *)
(***************************************************************************)
EXTENDS Integers, Sequences, FiniteSets

CONSTANTS Sources,      \* the memories of the store
          MaxPool,      \* bound: rows of the core's answer
          MaxPage,      \* bound: top_k, the limit of ask
          MaxChildren,  \* FACTS_PER_PARENT (3 in the code)
          MaxChanges    \* bound: changes by other processes during a call

VARIABLES pool,         \* the core's rows, best first
          request,      \* the endpoint and its arguments
          recent,       \* the memories inside since and until
          readable,     \* the memories that storage.get returns
          provider,     \* whether llm_provider names one
          blocked,      \* the daemon began without a provider: it refuses to send
          keys,         \* who has the key of the provider
          stage,        \* how far the call is
          way,          \* how the daemon answers
          next,         \* the row of the pool, then of the page, that is looked at
          page,         \* the rows returned
          related,      \* the rows whose relations were found
          printed,      \* what the caller got
          changes,      \* changes left
          sent          \* history: who had a provider when the question went out

askVars == <<pool, request, recent, readable, provider, blocked, keys, stage, way, next, page,
             related, printed, changes, sent>>
around == <<pool, request, recent, readable, provider, blocked, keys, changes>>

(* A row is a memory, or a fact of one, or a fact without a source.        *)
PoolRow == [kind : {"memory", "fact"}, of : Sources, within : BOOLEAN]
           \cup [kind : {"legacy"}, of : {"none"}, within : BOOLEAN]
Item == [as : {"matched", "promoted", "alone", "legacy"}, of : Sources \cup {"none"},
         rank : 1..MaxPool, facts : SUBSET (1..MaxPool)]

AskTypeOK ==
    /\ pool \in Seq(PoolRow) /\ Len(pool) <= MaxPool
    /\ request \in [kind : {"search", "ask"}, top : 1..MaxPage, extractive : BOOLEAN]
    /\ recent \subseteq Sources /\ readable \subseteq Sources
    /\ provider \in BOOLEAN /\ blocked \in BOOLEAN /\ keys \subseteq {"shell", "daemon"}
    /\ stage \in {"command", "choose", "recheck", "group", "relate", "write", "reply", "told"}
    /\ way \in {"unknown", "llm", "plain", "coded", "written", "failed"}
    /\ next \in 1..(MaxPool + 1) /\ page \in Seq(Item) /\ related \subseteq 1..MaxPage
    /\ printed \in {"nothing", "answer", "excerpts", "error", "rows"} /\ changes \in 0..MaxChanges
    /\ sent \in {"no", "named", "nameless"}

-----------------------------------------------------------------------------
(* The groups, in the order of their best row: rows outside the window are *)
(* dropped first, so that a fact outside never admits its memory.  A fact  *)
(* without a source is a group of its own.                                 *)
Ranks == {r \in DOMAIN pool : pool[r].within}
SameGroup(r, q) == r = q \/ (pool[r].kind # "legacy" /\ pool[r].of = pool[q].of)
Leads(r) == r \in Ranks /\ \A q \in Ranks : SameGroup(q, r) => r <= q
FactsOf(g) == {r \in Ranks : pool[r].kind = "fact" /\ SameGroup(r, g)}
Children(g) == {r \in FactsOf(g) : Cardinality({q \in FactsOf(g) : q < r}) < MaxChildren}
ItemOf(g, as) == [as |-> as, of |-> pool[g].of, rank |-> g, facts |-> Children(g)]
HasMemory(g) == \E r \in Ranks : pool[r].kind = "memory" /\ SameGroup(r, g)

(* One group: the memory itself when it matched, otherwise the memory that *)
(* is read now if it is inside the window, or the best fact in its place   *)
(* when it cannot be read.                                                 *)
As(g) == CASE pool[g].kind = "legacy" -> "legacy"
           [] pool[g].kind # "legacy" /\ HasMemory(g) -> "matched"
           [] pool[g].kind # "legacy" /\ ~HasMemory(g) /\ pool[g].of \in readable -> "promoted"
           [] OTHER -> "alone"
Outside(g) == As(g) = "promoted" /\ pool[g].of \notin recent
More == Len(page) < request.top /\ next \in DOMAIN pool
FoldRow ==
    /\ stage = "group" /\ More /\ next' = next + 1
    /\ page' = IF Leads(next) /\ ~Outside(next) THEN Append(page, ItemOf(next, As(next))) ELSE page
    /\ UNCHANGED <<around, stage, way, related, printed, sent>>
PageDone ==
    /\ stage = "group" /\ ~More /\ next' = 1
    /\ IF request.kind = "search" THEN stage' = "told" /\ printed' = "rows"
       ELSE stage' = (IF way = "llm" THEN "relate" ELSE "reply") /\ UNCHANGED printed
    /\ UNCHANGED <<around, way, page, related, sent>>

-----------------------------------------------------------------------------
(* sm ask refuses before any request when it can see that there is no LLM. *)
AskCommand ==
    /\ stage = "command"
    /\ IF request.extractive \/ (provider /\ "shell" \in keys) THEN stage' = "choose" /\ UNCHANGED printed
       ELSE stage' = "told" /\ printed' = "error"
    /\ UNCHANGED <<around, way, next, page, related, sent>>

(* ask_endpoint: no provider or no key is an answer with a code; then the  *)
(* configuration is read once more, by llm_key_present.                    *)
Choose ==
    /\ stage = "choose"
    /\ IF provider /\ "daemon" \in keys THEN stage' = "recheck" /\ UNCHANGED way
       ELSE stage' = "group" /\ way' = "coded"
    /\ UNCHANGED <<around, next, page, related, printed, sent>>
Recheck ==
    /\ stage = "recheck" /\ stage' = "group" /\ way' = IF provider THEN "llm" ELSE "plain"
    /\ UNCHANGED <<around, next, page, related, printed, sent>>

(* _ask_relations: one row after the other, each with the lock anew.       *)
Relate ==
    /\ stage = "relate"
    /\ IF next > Len(page) THEN stage' = "write" /\ UNCHANGED <<next, related>>
       ELSE /\ UNCHANGED stage /\ next' = next + 1
            /\ \/ UNCHANGED related
               \/ /\ page[next].as \in {"matched", "promoted"} => page[next].of \in readable
                  /\ related' = related \cup {next}
    /\ UNCHANGED <<around, way, page, printed, sent>>

(* call_llm: a daemon that began without a provider reads it again before  *)
(* anything is sent.                                                       *)
Refuses == blocked /\ ~provider
Write ==
    /\ stage = "write" /\ stage' = "reply"
    /\ IF Refuses THEN way' = "failed" /\ UNCHANGED sent
       ELSE way' \in {"written", "failed"} /\ sent' = IF provider THEN "named" ELSE "nameless"
    /\ UNCHANGED <<around, next, page, related, printed>>

(* ask_cmd: excerpts are printed only to the one who asked for them.       *)
Reply ==
    /\ stage = "reply" /\ stage' = "told"
    /\ printed' = CASE way = "written" -> "answer"
                    [] way = "failed"  -> "error"
                    [] OTHER -> IF request.extractive THEN "excerpts" ELSE "error"
    /\ UNCHANGED <<around, way, next, page, related, sent>>

Changing == stage # "told" /\ changes > 0 /\ changes' = changes - 1
OtherRemoves ==
    /\ Changing /\ \E m \in readable : readable' = readable \ {m}
    /\ UNCHANGED <<pool, request, recent, provider, blocked, keys, stage, way, next, page, related,
                   printed, sent>>
OtherConfigures ==
    /\ Changing /\ request.kind = "ask" /\ provider' = ~provider
    /\ UNCHANGED <<pool, request, recent, readable, blocked, keys, stage, way, next, page, related,
                   printed, sent>>

(* The core answers with a memory once, which is inside the window when    *)
(* its row is; ask has no window: every row and every memory is inside.    *)
FromCore(rows) ==
    \A r \in DOMAIN rows : rows[r].kind = "memory" =>
      /\ rows[r].within = (rows[r].of \in recent)
      /\ \A q \in 1..(r - 1) : rows[q].kind = "memory" => rows[q].of # rows[r].of
AskInit ==
    /\ request \in {r \in [kind : {"search", "ask"}, top : 1..MaxPage, extractive : BOOLEAN] :
                      r.extractive => r.kind = "ask"}
    /\ recent \in {w \in SUBSET Sources : request.kind = "ask" => w = Sources}
    /\ pool \in {s \in UNION {[1..n -> PoolRow] : n \in 0..MaxPool} : FromCore(s) /\
                   (request.kind = "ask" => Len(s) < MaxPool /\ \A r \in DOMAIN s : s[r].within)}
    /\ readable = Sources
    /\ provider \in {p \in BOOLEAN : request.kind = "search" => p}
    /\ blocked \in {b \in BOOLEAN : request.kind = "search" => ~b}
    /\ keys \in {k \in SUBSET {"shell", "daemon"} : request.kind = "search" => k = {}}
    /\ stage = (IF request.kind = "ask" THEN "command" ELSE "group") /\ way = "unknown"
    /\ next = 1 /\ page = <<>> /\ related = {} /\ printed = "nothing"
    /\ changes = MaxChanges /\ sent = "no"
AskNext ==
    \/ FoldRow \/ PageDone \/ AskCommand \/ Choose \/ Recheck \/ Relate \/ Write \/ Reply
    \/ OtherRemoves \/ OtherConfigures
AskSpec == AskInit /\ [][AskNext]_askVars

-----------------------------------------------------------------------------
(* search_collapse.py:93 What a folded page is: each memory once, in the   *)
(* order of its best row, nothing outside the window, and a row that has   *)
(* no place on it comes after a full page or belongs to a memory that is   *)
(* outside; a fact stands alone only when its memory is gone.              *)
Shows(item, r) == item.rank = r \/ (item.as # "legacy" /\ item.of = pool[r].of)
PageIsFair ==
    /\ \A i, j \in DOMAIN page : i < j =>
         /\ page[i].rank < page[j].rank
         /\ page[i].as # "legacy" => page[i].of # page[j].of
    /\ \A i \in DOMAIN page :
         /\ pool[page[i].rank].within
         /\ page[i].as = "promoted" => page[i].of \in recent
         /\ page[i].as = "alone" => page[i].of \notin readable
    /\ (stage \in {"relate", "write", "reply"} \/ printed = "rows") =>
         \A r \in DOMAIN pool : pool[r].within =>
           \/ \E i \in DOMAIN page : Shows(page[i], r)
           \/ Len(page) = request.top /\ r > page[Len(page)].rank
           \/ pool[r].kind = "fact" /\ pool[r].of \notin recent

(* local_api.py:1316 A written answer was written by the LLM, excerpts are *)
(* told only to the one who asked for them, and with nothing sent; the     *)
(* question goes out only with a provider and a key, and a daemon that     *)
(* began without a provider sends nothing while there is none.             *)
AskIsHonest ==
    /\ printed = "answer" => sent # "no"
    /\ printed = "excerpts" => request.extractive /\ sent = "no"
    /\ sent # "no" => "daemon" \in keys
    /\ (sent = "nameless") => ~blocked
=============================================================================
