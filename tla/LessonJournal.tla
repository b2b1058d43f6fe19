--------------------------- MODULE LessonJournal ---------------------------
(***************************************************************************)
(* The lessons of one captured session: what the two model calls claim is  *)
(* verified (lesson_lifecycle.verify_changes, validate_pairs), the plan is *)
(* journaled, and apply_plan carries it out against the decision store,    *)
(* entry by entry, saving the journal after each.  The process may die     *)
(* between any two store calls; the next capture of the session replays    *)
(* the journal.  The decision store is a library: its calls are external,  *)
(* and superseding is two writes, the replacement and the old decision.    *)
(*                                                                         *)
(* Decision ids: 1..Olds are stored already, Olds + l is the id generated  *)
(* for lesson l, larger ids are the ones the store gives out.              *)
(***************************************************************************)
EXTENDS Integers, FiniteSets, FiniteSetsExt

CONSTANTS Olds,        \* stored decisions that may be replaced
          Lessons,     \* lessons of the session (at most 8 in the code)
          Changes,     \* verified change ids
          Extra        \* bound: decisions the store may create

ASSUME LessonAssumption == Olds \in Nat /\ Lessons \in Nat /\ Extra \in Nat

VARIABLES plan,        \* the journal: relations and entries done
          store,       \* decisions
          worker,      \* the running apply_plan
          created      \* ids given out so far

lessonVars == <<plan, store, worker, created>>

O == 1..Olds
L == 1..Lessons
NoChange == "none"
Pairs == L \X O

-----------------------------------------------------------------------------
(* verify_changes: a row stands when its quote is in the turn it names, its*)
(* old rule is a text, its kind agrees with the replacement, and its id is *)
(* used once; `rows` are the claims, one record per row.                   *)
Verified(rows) ==
    {r \in rows : /\ r.quoted /\ r.rule /\ r.kind \in {"replace", "withdraw"}
                  /\ \A q \in rows : q.id = r.id => q = r}

(* A pair claims one of the verified changes, or is unrelated.             *)
RelationOf(c, changes) ==
    IF \E r \in changes : r.id = c /\ r.kind = "replace" THEN "supersedes"
    ELSE IF \E r \in changes : r.id = c THEN "retracts" ELSE "unrelated"

(* validate_pairs, whole batch: targets of one old decision must agree, and*)
(* a lesson that retires several (of different content, as all are here)   *)
(* must do it by one replacing change.                                     *)
Conflicts(claim, relation) ==
    LET rel(p) == relation[p]
        live == {p \in Pairs : rel(p) # "unrelated"}
        targets(o) == {p \in live : p[2] = o}
        actions(l) == {p \in live : p[1] = l}
        shared(l) == /\ \A p \in actions(l) : rel(p) = "supersedes"
                     /\ Cardinality({claim[p] : p \in actions(l)}) = 1
    IN (UNION {targets(o) : o \in {x \in O : Cardinality({rel(p) : p \in targets(x)}) > 1}})
       \cup (UNION {actions(l) : l \in {x \in L : Cardinality(actions(x)) > 1 /\ ~shared(x)}})

Relations(claim, changes) ==
    LET relation == [p \in Pairs |-> RelationOf(claim[p], changes)]
        conflicts == Conflicts(claim, relation)
    IN [p \in Pairs |-> IF p \in conflicts THEN "unrelated" ELSE relation[p]]

(* One successor per replaced decision: the only primary, or the first.    *)
Successor(rel, primary, o) ==
    LET successors == {l \in L : rel[<<l, o>>] = "supersedes"}
        marked == {l \in successors : <<l, o>> \in primary}
    IN IF Cardinality(marked) = 1 THEN CHOOSE l \in marked : TRUE ELSE Min(successors)

Acts(rel, primary, l) ==
    {o \in O : \/ rel[<<l, o>>] = "retracts"
               \/ rel[<<l, o>>] = "supersedes" /\ Successor(rel, primary, o) = l}

-----------------------------------------------------------------------------
Decision(id, lesson) == [id |-> id, lesson |-> lesson, status |-> "active", by |-> 0, tagged |-> FALSE]
Get(id) == {d \in store : d.id = id}
Put(d) == {e \in store : e.id # d.id} \cup {d}
Out == [at |-> "out", lesson |-> 0, todo |-> {}, id |-> 0]
EntryOf(l) == [at |-> "act", lesson |-> l, todo |-> plan.acts[l], id |-> 0]
NoPlan == [saved |-> FALSE, rel |-> [p \in Pairs |-> "unrelated"],
           acts |-> [l \in L |-> {}], done |-> {}]

LessonTypeOK ==
    /\ plan.saved \in BOOLEAN /\ plan.done \subseteq L
    /\ plan.acts \in [L -> SUBSET O]
    /\ \A d \in store : d.status \in {"active", "superseded", "retracted"}
    /\ worker.at \in {"out", "act", "mark", "create", "tag", "save"}
    /\ created \in 0..Extra

LessonInit ==
    /\ plan = NoPlan
    /\ store = {Decision(o, 0) : o \in O}
    /\ worker = Out
    /\ created = 0

(* _capture_lessons without a journal: lessons are extracted and classified*)
(* (or the capture degrades and nothing is saved), and the plan is saved.  *)
MakePlan(claim, rows, primary) ==
    LET rel == Relations(claim, Verified(rows))
    IN /\ worker.at = "out" /\ ~plan.saved
       /\ \A d \in store : d.lesson = 0
       /\ plan' = [saved |-> TRUE, rel |-> rel, done |-> {},
                   acts |-> [l \in L |-> Acts(rel, primary, l)]]
       /\ UNCHANGED <<store, worker, created>>

(* apply_plan starts, or goes on, at the first entry that is not done.     *)
Pending == L \ plan.done
Enter ==
    /\ worker.at = "out" /\ plan.saved /\ Pending # {}
    /\ worker' = EntryOf(Min(Pending))
    /\ UNCHANGED <<plan, store, created>>

Degrade == worker' = Out /\ UNCHANGED <<plan, store, created>>

NewId(l) == Olds + l

SupersedeStep(o) ==
    \E old \in Get(o) :
      \/ /\ old.status = "active"                 \* the replacement first
         /\ store' = IF Get(NewId(worker.lesson)) = {}
                     THEN Put(Decision(NewId(worker.lesson), worker.lesson)) ELSE store
         /\ worker' = [worker EXCEPT !.at = "mark", !.todo = {o} \cup @]
         /\ UNCHANGED <<plan, created>>
      \/ /\ old.status = "superseded" /\ old.by = NewId(worker.lesson)
         /\ worker' = [worker EXCEPT !.todo = @ \ {o}, !.id = NewId(worker.lesson)]
         /\ UNCHANGED <<plan, store, created>>
      \/ /\ old.status # "active"                  \* changed since classification
         /\ old.status = "superseded" => old.by # NewId(worker.lesson)
         /\ Degrade

RetractStep(o) ==
    \E old \in Get(o) :
      \/ /\ old.status \in {"active", "retracted"}
         /\ store' = Put([old EXCEPT !.status = "retracted"])
         /\ worker' = [worker EXCEPT !.todo = @ \ {o}]
         /\ UNCHANGED <<plan, created>>
      \/ old.status = "superseded" /\ Degrade

Act(o) ==
    /\ worker.at = "act" /\ worker.todo # {} /\ o = Min(worker.todo)
    /\ IF plan.rel[<<worker.lesson, o>>] = "supersedes" THEN SupersedeStep(o) ELSE RetractStep(o)

MarkOld ==
    /\ worker.at = "mark"
    /\ \E old \in Get(Min(worker.todo)) :
         store' = Put([old EXCEPT !.status = "superseded", !.by = NewId(worker.lesson)])
    /\ worker' = [worker EXCEPT !.at = "act", !.todo = @ \ {Min(@)}, !.id = NewId(worker.lesson)]
    /\ UNCHANGED <<plan, created>>

ActsDone ==
    /\ worker.at = "act" /\ worker.todo = {}
    /\ worker' = [worker EXCEPT !.at = IF plan.acts[worker.lesson] = {} THEN "create"
                                       ELSE IF worker.id # 0 THEN "tag" ELSE "save"]
    /\ UNCHANGED <<plan, store, created>>

(* A create that committed before the journal did is recognised by its     *)
(* operation; otherwise the store gives the decision an id of its own.     *)
MRecovered(l) == {}
Recovered(l) == {d \in store : d.lesson = l}

Create ==
    /\ worker.at = "create"
    /\ \/ \E d \in Recovered(worker.lesson) :
            /\ worker' = [worker EXCEPT !.at = "tag", !.id = d.id]
            /\ UNCHANGED <<store, created>>
       \/ /\ Recovered(worker.lesson) = {} /\ created < Extra
          /\ created' = created + 1
          /\ store' = Put(Decision(Olds + Lessons + created', worker.lesson))
          /\ worker' = [worker EXCEPT !.at = "tag", !.id = Olds + Lessons + created']
    /\ UNCHANGED plan

Tag ==
    /\ worker.at = "tag"
    /\ \E d \in Get(worker.id) : store' = Put([d EXCEPT !.tagged = TRUE])
    /\ worker' = [worker EXCEPT !.at = "save"]
    /\ UNCHANGED <<plan, created>>

SavePlan ==
    /\ worker.at = "save"
    /\ plan' = [plan EXCEPT !.done = @ \cup {worker.lesson}]
    /\ worker' = Out
    /\ UNCHANGED <<store, created>>

Dies == worker.at # "out" /\ Degrade

(* Somebody else retires a stored decision in the meantime.                *)
RetiredElsewhere(o) ==
    /\ worker.at # "mark"
    /\ \E old \in Get(o) : /\ old.status = "active"
                           /\ store' = Put([old EXCEPT !.status = "retracted"])
    /\ UNCHANGED <<plan, worker, created>>

ChangeRows == [id : Changes, kind : {"replace", "withdraw"}, quoted : BOOLEAN, rule : {TRUE}]
Claims == [Pairs -> Changes \cup {NoChange}]
LessonNext ==
    \/ ~plan.saved /\ \E claim \in Claims, rows \in UNION {kSubset(n, ChangeRows) : n \in 0..2},
          primary \in UNION {kSubset(n, Pairs) : n \in 0..2} : MakePlan(claim, rows, primary)
    \/ Enter \/ MarkOld \/ ActsDone \/ Create \/ Tag \/ SavePlan \/ Dies
    \/ \E o \in O : Act(o) \/ RetiredElsewhere(o)

LessonSpec == LessonInit /\ [][LessonNext]_lessonVars

-----------------------------------------------------------------------------
(* Whatever dies and is replayed, a lesson is stored at most once, and a   *)
(* decision replaced by a lesson points to a decision that is there.       *)
LessonStoredOnce ==
    /\ \A l \in L : Cardinality({d \in store : d.lesson = l}) <= 1
    /\ \A d \in store : d.status = "superseded" => \E e \in store : e.id = d.by

(* No lesson both retires and keeps a rule: what a plan does to a stored   *)
(* decision is done by one lesson, by one relation the session supports.   *)
OneActionPerTarget ==
    \A o \in O : /\ Cardinality({l \in L : o \in plan.acts[l] /\ plan.rel[<<l, o>>] = "supersedes"}) <= 1
                 /\ Cardinality({plan.rel[<<l, o>>] : l \in {x \in L : o \in plan.acts[x]}}) <= 1

(* The lesson journal as a whole: replays store a lesson once, and a rule  *)
(* is treated by one lesson.                                               *)
LessonsReplaySafely == LessonStoredOnce /\ OneActionPerTarget
=============================================================================
