---------------------------- MODULE SessionProofs ----------------------------
(***************************************************************************)
(* Proofs about what is made of one captured session and about the stream  *)
(* it is watched on, for every value of the constants: its lessons         *)
(* (LessonJournal), for any number of stored decisions, lessons and        *)
(* changes and however often the process dies; the slices it is imported   *)
(* in (CaptureSlices); the frames a viewer receives (EventStream).         *)
(***************************************************************************)
EXTENDS LessonJournal, CaptureSlices, EventStream, FiniteSetTheorems, SequenceTheorems,
        WellFoundedInduction, TLAPS

-----------------------------------------------------------------------------
(* LessonJournal: a replayed plan stores each lesson once, and a stored    *)
(* decision is treated by one lesson.                                      *)

Relation == {"supersedes", "retracts", "unrelated"}
Plans == [saved : BOOLEAN, rel : [Pairs -> Relation], acts : [L -> SUBSET O], done : SUBSET L]
Dec == [id : Nat, lesson : Nat, status : {"active", "superseded", "retracted"},
        by : Nat, tagged : BOOLEAN]

TypeInv ==
  /\ plan \in Plans /\ created \in Nat
  /\ worker \in [at : {"out", "act", "mark", "create", "tag", "save"}, lesson : Nat,
                 todo : SUBSET O, id : Nat]

\* Where a decision comes from: a lesson with something to retire has the id made for
\* it, one without has an id given out by the store; and each is there once.
Origin(d, p) ==
  IF d.lesson = 0 THEN d.id \in O
  ELSE /\ p.saved /\ d.lesson \in L
       /\ IF p.acts[d.lesson] # {} THEN d.id = NewId(d.lesson) ELSE d.id > Olds + Lessons

Stored(ds, p, n) ==
  /\ ds \subseteq Dec
  /\ \A d \in ds : Origin(d, p) /\ d.id <= Olds + Lessons + n
  /\ \A d, e \in ds : d.id = e.id \/ (d.lesson = e.lesson /\ d.lesson # 0) => d = e
  /\ \A d \in ds : d.status = "superseded" => \E e \in ds : e.id = d.by

StoreInv == Stored(store, plan, created)

\* A worker has an entry of the plan; its replacement is there before the old decision
\* is marked, and it creates a decision only for a lesson that retires nothing.
WorkerInv ==
  /\ worker.at # "out" => plan.saved /\ worker.lesson \in L
                          /\ worker.todo \subseteq plan.acts[worker.lesson]
  /\ worker.at = "create" => plan.acts[worker.lesson] = {}
  /\ worker.at = "mark" => \E e \in store : e.id = NewId(worker.lesson)

\* What is done to a decision is one relation, and one lesson supersedes it.
PlanInv ==
  \A o \in O, l, k \in L : o \in plan.acts[l] /\ o \in plan.acts[k] =>
    /\ plan.rel[<<l, o>>] = plan.rel[<<k, o>>]
    /\ plan.rel[<<l, o>>] = "supersedes" => l = k

LessonInv == TypeInv /\ StoreInv /\ WorkerInv /\ PlanInv

-----------------------------------------------------------------------------
\* Cardinality, as what it says of elements.
LEMMA AtMostOne ==
  ASSUME NEW S, \A x, y \in S : x = y
  PROVE  Cardinality(S) <= 1
<1>1. CASE S = {}
  BY <1>1, FS_EmptySet
<1>2. CASE S # {}
  <2>1. PICK x \in S : S = {x}
    BY <1>2
  <2> QED
    BY <2>1, FS_Singleton
<1> QED
  BY <1>1, <1>2

LEMMA NoTwo ==
  ASSUME NEW S, IsFiniteSet(S), ~(Cardinality(S) > 1), NEW x \in S, NEW y \in S
  PROVE  x = y
<1> SUFFICES ASSUME x # y PROVE FALSE
  OBVIOUS
<1> DEFINE X == {x}
<1>1. IsFiniteSet(X) /\ Cardinality(X) = 1 /\ y \notin X /\ X \cup {y} \subseteq S
  BY FS_Singleton
<1> HIDE DEF X
<1>2. Cardinality(X \cup {y}) = 2
  BY <1>1, FS_AddElement
<1>3. Cardinality(X \cup {y}) <= Cardinality(S)
  BY <1>1, FS_Subset
<1> QED
  BY <1>2, <1>3, FS_CardinalityType

\* The least of a set of numbers is one of them.
LEMMA MinIn ==
  ASSUME NEW S \in SUBSET Nat, S # {}
  PROVE  Min(S) \in S
<1>1. PICK n \in S : \A m \in S : <<m, n>> \notin OpToRel(<, Nat)
  BY WFMin, NatLessThanWellFounded, Zenon
<1>2. \A m \in S : ~(m < n)
  BY <1>1, Zenon DEF OpToRel
<1>3. \A m \in S : n <= m
  BY <1>2
<1> QED
  BY <1>3 DEF Min

-----------------------------------------------------------------------------
\* What validate_pairs leaves is consistent: pairs on one decision agree.
LEMMA TargetsAgree ==
  ASSUME NEW claim, NEW changes, NEW o \in O, NEW l \in L, NEW k \in L,
         Relations(claim, changes)[<<l, o>>] # "unrelated",
         Relations(claim, changes)[<<k, o>>] # "unrelated"
  PROVE  Relations(claim, changes)[<<l, o>>] = Relations(claim, changes)[<<k, o>>]
<1> DEFINE relation == [p \in Pairs |-> RelationOf(claim[p], changes)]
           conflicts == Conflicts(claim, relation)
           live == {p \in Pairs : relation[p] # "unrelated"}
           targets(x) == {p \in live : p[2] = x}
           kinds(x) == {relation[p] : p \in targets(x)}
<1>1. /\ <<l, o>> \in Pairs /\ <<k, o>> \in Pairs
      /\ Relations(claim, changes) =
           [p \in Pairs |-> IF p \in conflicts THEN "unrelated" ELSE relation[p]]
  BY DEF Relations, Pairs
<1>2. /\ <<l, o>> \notin conflicts /\ <<k, o>> \notin conflicts
      /\ relation[<<l, o>>] = Relations(claim, changes)[<<l, o>>]
      /\ relation[<<k, o>>] = Relations(claim, changes)[<<k, o>>]
  <2> HIDE DEF conflicts, relation
  <2> QED
    BY <1>1
<1>3. <<l, o>> \in targets(o) /\ <<k, o>> \in targets(o)
  BY <1>1, <1>2
<1>4. UNION {targets(x) : x \in {y \in O : Cardinality(kinds(y)) > 1}} \subseteq conflicts
  BY DEF Conflicts
<1>5. ~(Cardinality(kinds(o)) > 1)
  <2> HIDE DEF conflicts, targets, kinds
  <2> QED
    BY <1>2, <1>3, <1>4
<1>6. IsFiniteSet(kinds(o))
  <2>1. kinds(o) \subseteq Relation
    BY DEF RelationOf, Relation
  <2>2. IsFiniteSet(Relation)
    <3>1. Relation = {"supersedes"} \cup {"retracts"} \cup {"unrelated"}
      BY DEF Relation
    <3>2. \A x, y, z : IsFiniteSet({x} \cup {y} \cup {z})
      BY FS_Singleton, FS_Union
    <3> QED
      BY <3>1, <3>2
  <2> QED
    BY <2>1, <2>2, FS_Subset
<1>7. relation[<<l, o>>] \in kinds(o) /\ relation[<<k, o>>] \in kinds(o)
  BY <1>3
<1>8. relation[<<l, o>>] = relation[<<k, o>>]
  <2> HIDE DEF kinds, relation
  <2> QED
    BY <1>5, <1>6, <1>7, NoTwo
<1> QED
  BY <1>2, <1>8

\* A plan does one thing to a decision.
LEMMA PlannedOnce ==
  ASSUME NEW claim, NEW changes, NEW primary, NEW o \in O,
         NEW l \in L, NEW k \in L,
         o \in Acts(Relations(claim, changes), primary, l),
         o \in Acts(Relations(claim, changes), primary, k)
  PROVE  /\ Relations(claim, changes)[<<l, o>>] = Relations(claim, changes)[<<k, o>>]
         /\ Relations(claim, changes)[<<l, o>>] = "supersedes" => l = k
<1> DEFINE rel == Relations(claim, changes)
<1> HIDE DEF rel
<1>1. rel[<<l, o>>] \in {"retracts", "supersedes"} /\ rel[<<k, o>>] \in {"retracts", "supersedes"}
  BY DEF Acts, rel
<1>2. rel[<<l, o>>] = rel[<<k, o>>]
  BY <1>1, TargetsAgree DEF rel
<1>3. ASSUME rel[<<l, o>>] = "supersedes" PROVE l = k
  BY <1>2, <1>3 DEF Acts, rel
<1> QED
  BY <1>2, <1>3 DEF rel
-----------------------------------------------------------------------------
\* The store after a write.

\* Rewriting a decision in place keeps where it comes from.
LEMMA Rewritten ==
  ASSUME NEW p, NEW n \in Nat, Stored(store, p, n), NEW old \in store, NEW d \in Dec,
         d.id = old.id, d.lesson = old.lesson,
         d.status = "superseded" => \E e \in store : e.id = d.by
  PROVE  /\ Stored(Put(d), p, n)
         /\ \A e \in store : \E q \in Put(d) : q.id = e.id
<1>1. \A q \in Put(d) : q = d \/ (q \in store /\ q.id # old.id)
  BY DEF Put
<1>2. d \in Put(d) /\ \A e \in store : e.id # old.id => e \in Put(d)
  BY DEF Put
<1>3. \A e \in store : \E q \in Put(d) : q.id = e.id
  BY <1>2
<1>4. Put(d) \subseteq Dec /\ \A q \in Put(d) : Origin(q, p) /\ q.id <= Olds + Lessons + n
  BY <1>1 DEF Stored, Origin
<1>5. \A q, r \in Put(d) : q.id = r.id \/ (q.lesson = r.lesson /\ q.lesson # 0) => q = r
  BY <1>1 DEF Stored
<1>6. \A q \in Put(d) : q.status = "superseded" => \E e \in Put(d) : e.id = q.by
  BY <1>1, <1>3 DEF Stored
<1> QED
  BY <1>3, <1>4, <1>5, <1>6 DEF Stored

\* A decision for a lesson that has none is a new one.
LEMMA Added ==
  ASSUME NEW p, NEW n \in Nat, NEW m \in Nat, n <= m,
         Stored(store, p, n), NEW d \in Dec,
         \A e \in store : e.id # d.id /\ e.lesson # d.lesson,
         Origin(d, p), d.lesson # 0, d.id <= Olds + Lessons + m, d.status = "active"
  PROVE  /\ Stored(Put(d), p, m)
         /\ \A e \in store : \E q \in Put(d) : q.id = e.id
<1> USE LessonAssumption
<1>1. \A q \in Put(d) : q = d \/ q \in store
  BY DEF Put
<1>2. d \in Put(d) /\ store \subseteq Put(d)
  BY DEF Put
<1>3. Put(d) \subseteq Dec /\ \A q \in Put(d) : Origin(q, p) /\ q.id <= Olds + Lessons + m
  BY <1>1 DEF Stored, Dec
<1>4. \A q, r \in Put(d) : q.id = r.id \/ (q.lesson = r.lesson /\ q.lesson # 0) => q = r
  BY <1>1 DEF Stored
<1>5. \A q \in Put(d) : q.status = "superseded" => \E e \in Put(d) : e.id = q.by
  BY <1>1, <1>2 DEF Stored
<1> QED
  BY <1>2, <1>3, <1>4, <1>5 DEF Stored

\* The invariant's parts, as facts.
LEMMA LessonFacts ==
  ASSUME LessonInv
  PROVE  /\ plan \in Plans /\ created \in Nat /\ Olds \in Nat /\ Lessons \in Nat
         /\ Stored(store, plan, created) /\ store \subseteq Dec
         /\ O \subseteq Nat /\ L \subseteq Nat /\ \A l \in L : NewId(l) \in Nat /\ l # 0
BY LessonAssumption DEF LessonInv, TypeInv, StoreInv, Stored, O, L, NewId

\* A worker acts on a decision its entry names.
LEMMA ActCases ==
  ASSUME LessonInv, NEW o \in O, Act(o)
  PROVE  worker.at = "act" /\ o \in worker.todo /\ (SupersedeStep(o) \/ RetractStep(o))
<1>1. worker.todo \in SUBSET Nat
  BY LessonFacts DEF LessonInv, TypeInv
<1>2. worker.todo # {} /\ o = Min(worker.todo) /\ worker.at = "act"
  BY DEF Act
<1>3. o \in worker.todo
  BY <1>1, <1>2, MinIn
<1> QED
  BY <1>2, <1>3 DEF Act

\* Every variable keeps its type.
LEMMA TypeStep ==
  ASSUME LessonInv, [LessonNext]_lessonVars
  PROVE  TypeInv'
<1>1. ASSUME NEW claim, NEW changes, NEW primary, MakePlan(claim, changes, primary) PROVE TypeInv'
  <2> DEFINE rel == Relations(claim, Verified(changes))
  <2>1. rel \in [Pairs -> Relation]
    BY DEF Relations, RelationOf, Relation
  <2>2. [l \in L |-> Acts(rel, primary, l)] \in [L -> SUBSET O]
    BY DEF Acts
  <2>3. /\ plan' = [saved |-> TRUE, rel |-> rel, done |-> {},
                    acts |-> [l \in L |-> Acts(rel, primary, l)]]
        /\ UNCHANGED <<worker, created>>
    BY <1>1 DEF MakePlan
  <2> HIDE DEF rel
  <2> QED
    BY <2>1, <2>2, <2>3 DEF LessonInv, TypeInv, Plans
<1>2. ASSUME Enter PROVE TypeInv'
  <2>1. Min(Pending) \in L
    BY <1>2, LessonFacts, MinIn DEF Enter, Pending
  <2>2. plan.acts[Min(Pending)] \in SUBSET O
    BY <2>1, LessonFacts DEF Plans
  <2> QED
    BY <1>2, <2>1, <2>2, LessonFacts DEF Enter, EntryOf, LessonInv, TypeInv
<1>3. ASSUME NEW o \in O, worker.at = "act", o \in worker.todo, SupersedeStep(o) PROVE TypeInv'
  <2>1. worker.lesson \in L
    BY <1>3 DEF LessonInv, WorkerInv
  <2>2. NewId(worker.lesson) \in Nat
    BY <2>1, LessonFacts
  <2>3. plan' = plan /\ created' = created
    BY <1>3 DEF SupersedeStep, Degrade
  <2>4. CASE worker' = [worker EXCEPT !.at = "mark", !.todo = {o} \cup @]
    BY <2>3, <2>4 DEF LessonInv, TypeInv
  <2>5. CASE worker' = [worker EXCEPT !.todo = @ \ {o}, !.id = NewId(worker.lesson)]
    BY <2>2, <2>3, <2>5 DEF LessonInv, TypeInv
  <2>6. CASE worker' = Out
    BY <2>3, <2>6 DEF Out, LessonInv, TypeInv
  <2> QED
    BY <1>3, <2>4, <2>5, <2>6 DEF SupersedeStep, Degrade
<1>4. ASSUME NEW o \in O, worker.at = "act", o \in worker.todo, RetractStep(o) PROVE TypeInv'
  BY <1>4 DEF RetractStep, Degrade, Out, LessonInv, TypeInv
<1>5. ASSUME MarkOld PROVE TypeInv'
  <2>1. worker.lesson \in L
    BY <1>5 DEF MarkOld, LessonInv, WorkerInv
  <2>2. NewId(worker.lesson) \in Nat
    BY <2>1, LessonFacts
  <2> QED
    BY <1>5, <2>2 DEF MarkOld, LessonInv, TypeInv
<1>6. ASSUME ActsDone PROVE TypeInv'
  BY <1>6 DEF ActsDone, LessonInv, TypeInv
<1>7. ASSUME Create PROVE TypeInv'
  <2>1. plan' = plan /\ created' \in Nat /\ \A d \in store : d.id \in Nat
    <3>1. plan' = plan /\ created' \in {created, created + 1}
      BY <1>7 DEF Create
    <3> QED
      BY <3>1, LessonFacts DEF Dec
  <2>2. ASSUME NEW d \in store, worker' = [worker EXCEPT !.at = "tag", !.id = d.id]
        PROVE  TypeInv'
    BY <2>1, <2>2 DEF LessonInv, TypeInv
  <2>3. CASE worker' = [worker EXCEPT !.at = "tag", !.id = Olds + Lessons + created']
    <3>1. Olds + Lessons + created' \in Nat
      BY <2>1, LessonFacts
    <3> QED
      BY <2>1, <2>3, <3>1 DEF LessonInv, TypeInv
  <2> QED
    BY <1>7, <2>2, <2>3 DEF Create, Recovered
<1>8. ASSUME Tag PROVE TypeInv'
  BY <1>8 DEF Tag, LessonInv, TypeInv
<1>9. ASSUME SavePlan PROVE TypeInv'
  <2>1. worker.lesson \in L
    BY <1>9 DEF SavePlan, LessonInv, WorkerInv
  <2> QED
    BY <1>9, <2>1 DEF SavePlan, Out, LessonInv, TypeInv, Plans
<1>10. ASSUME Dies PROVE TypeInv'
  BY <1>10 DEF Dies, Degrade, Out, LessonInv, TypeInv
<1>11. ASSUME NEW o \in O, RetiredElsewhere(o) PROVE TypeInv'
  BY <1>11 DEF RetiredElsewhere, LessonInv, TypeInv
<1>12. ASSUME UNCHANGED lessonVars PROVE TypeInv'
  BY <1>12 DEF lessonVars, LessonInv, TypeInv
<1> QED
  BY <1>1, <1>2, <1>3, <1>4, <1>5, <1>6, <1>7, <1>8, <1>9, <1>10, <1>11, <1>12,
     ActCases
  DEF LessonNext

\* However the plan is replayed, a lesson is stored once.
LEMMA StoreStep ==
  ASSUME LessonInv, [LessonNext]_lessonVars
  PROVE  StoreInv'
<1>1. ASSUME NEW claim, NEW changes, NEW primary, MakePlan(claim, changes, primary) PROVE StoreInv'
  <2>1. \A d \in store : d.lesson = 0
    BY <1>1 DEF MakePlan
  <2> QED
    BY <1>1, <2>1 DEF MakePlan, LessonInv, StoreInv, Stored, Origin
<1>2. ASSUME Enter PROVE StoreInv'
  BY <1>2 DEF Enter, LessonInv, StoreInv, Stored, Origin
<1>3. ASSUME NEW o \in O, worker.at = "act", o \in worker.todo, SupersedeStep(o) PROVE StoreInv'
  <2>1. /\ plan' = plan /\ created' = created /\ plan.saved
        /\ worker.lesson \in L /\ worker.todo \subseteq plan.acts[worker.lesson]
    BY <1>3 DEF SupersedeStep, Degrade, LessonInv, WorkerInv
  <2>2. CASE store' = store
    BY <2>1, <2>2 DEF LessonInv, StoreInv
  <2>3. ASSUME Get(NewId(worker.lesson)) = {},
               store' = Put(Decision(NewId(worker.lesson), worker.lesson))
        PROVE  StoreInv'
    <3> DEFINE d == Decision(NewId(worker.lesson), worker.lesson)
    <3>1. NewId(worker.lesson) \in Nat /\ worker.lesson \in Nat /\ worker.lesson # 0
          /\ NewId(worker.lesson) <= Olds + Lessons + created /\ 0 \in Nat
      BY <2>1, LessonFacts DEF NewId, L
    <3>2. /\ d \in Dec /\ d.id = NewId(worker.lesson) /\ d.lesson = worker.lesson
          /\ d.status = "active"
      BY <3>1 DEF Decision, Dec
    <3> HIDE DEF d
    <3>3. plan.acts[worker.lesson] # {}
      BY <1>3, <2>1
    <3>4. \A e \in store : e.id # d.id /\ e.lesson # d.lesson
      BY <2>1, <2>3, <3>1, <3>2, <3>3, LessonFacts DEF Get, Stored, Origin
    <3>5. Origin(d, plan)
      BY <2>1, <3>1, <3>2, <3>3 DEF Origin
    <3>6. Stored(Put(d), plan, created)
      BY <3>1, <3>2, <3>4, <3>5, LessonFacts, Added
    <3> QED
      BY <2>1, <2>3, <3>6 DEF StoreInv, d
  <2> QED
    BY <1>3, <2>2, <2>3 DEF SupersedeStep, Degrade
<1>4. ASSUME NEW o \in O, worker.at = "act", o \in worker.todo, RetractStep(o) PROVE StoreInv'
  <2>1. plan' = plan /\ created' = created
    BY <1>4 DEF RetractStep, Degrade
  <2>2. ASSUME NEW old \in store, store' = Put([old EXCEPT !.status = "retracted"]) PROVE StoreInv'
    <3>1. old \in Dec
      BY LessonFacts
    <3> DEFINE d == [old EXCEPT !.status = "retracted"]
    <3>2. d \in Dec /\ d.id = old.id /\ d.lesson = old.lesson /\ (d.status = "superseded" => FALSE)
      BY <3>1 DEF Dec
    <3> HIDE DEF d
    <3> QED
      BY <2>2, <2>1, <3>2, LessonFacts, Rewritten DEF StoreInv, d
  <2>3. CASE store' = store
    BY <2>1, <2>3 DEF LessonInv, StoreInv
  <2> QED
    BY <1>4, <2>2, <2>3 DEF RetractStep, Degrade, Get
<1>5. ASSUME MarkOld PROVE StoreInv'
  <2>1. plan' = plan /\ created' = created /\ worker.lesson \in L
        /\ \E e \in store : e.id = NewId(worker.lesson)
    BY <1>5 DEF MarkOld, LessonInv, WorkerInv
  <2>2. ASSUME NEW old \in store, store' = Put([old EXCEPT !.status = "superseded", !.by = NewId(worker.lesson)]) PROVE StoreInv'
    <3>1. old \in Dec
      BY LessonFacts
    <3> DEFINE d == [old EXCEPT !.status = "superseded", !.by = NewId(worker.lesson)]
    <3>2. d \in Dec /\ d.id = old.id /\ d.lesson = old.lesson /\ (d.status = "superseded" => \E e \in store : e.id = d.by)
      BY <3>1, <2>1, LessonFacts DEF Dec
    <3> HIDE DEF d
    <3> QED
      BY <2>2, <2>1, <3>2, LessonFacts, Rewritten DEF StoreInv, d
  <2> QED
    BY <1>5, <2>2 DEF MarkOld, Get
<1>6. ASSUME ActsDone PROVE StoreInv'
  BY <1>6 DEF ActsDone, LessonInv, StoreInv, Stored, Origin
<1>7. ASSUME Create PROVE StoreInv'
  <2>1. plan' = plan /\ plan.saved /\ worker.lesson \in L /\ plan.acts[worker.lesson] = {}
    BY <1>7 DEF Create, LessonInv, WorkerInv
  <2>2. CASE UNCHANGED <<store, created>>
    BY <2>1, <2>2 DEF LessonInv, StoreInv
  <2>3. ASSUME Recovered(worker.lesson) = {}, created' = created + 1,
               store' = Put(Decision(Olds + Lessons + created', worker.lesson))
        PROVE  StoreInv'
    <3> DEFINE d == Decision(Olds + Lessons + created', worker.lesson)
    <3>1. Olds + Lessons + created' \in Nat /\ worker.lesson \in Nat /\ worker.lesson # 0
          /\ 0 \in Nat /\ created' \in Nat /\ created <= created'
      BY <2>1, <2>3, LessonFacts
    <3>2. /\ d \in Dec /\ d.id = Olds + Lessons + created' /\ d.lesson = worker.lesson
          /\ d.status = "active"
      BY <3>1 DEF Decision, Dec
    <3> HIDE DEF d
    <3>3. \A e \in store : e.id # d.id /\ e.lesson # d.lesson
      BY <2>3, <3>1, <3>2, LessonFacts DEF Recovered, Stored, Dec
    <3>4. Origin(d, plan)
      BY <2>1, <2>3, <3>1, <3>2, LessonFacts DEF Origin
    <3>5. d.id <= Olds + Lessons + created'
      BY <3>1, <3>2
    <3>6. Stored(Put(d), plan, created')
      BY <3>1, <3>2, <3>3, <3>4, <3>5, LessonFacts, Added
    <3> QED
      BY <2>1, <2>3, <3>6 DEF StoreInv, d
  <2> QED
    BY <1>7, <2>2, <2>3 DEF Create
<1>8. ASSUME Tag PROVE StoreInv'
  <2>1. plan' = plan /\ created' = created
    BY <1>8 DEF Tag
  <2>2. ASSUME NEW old \in store, store' = Put([old EXCEPT !.tagged = TRUE]) PROVE StoreInv'
    <3>1. old \in Dec
      BY LessonFacts
    <3> DEFINE d == [old EXCEPT !.tagged = TRUE]
    <3>2. d \in Dec /\ d.id = old.id /\ d.lesson = old.lesson /\ (d.status = "superseded" => \E e \in store : e.id = d.by)
      BY <3>1, LessonFacts DEF Dec, Stored
    <3> HIDE DEF d
    <3> QED
      BY <2>2, <2>1, <3>2, LessonFacts, Rewritten DEF StoreInv, d
  <2> QED
    BY <1>8, <2>2 DEF Tag, Get
<1>9. ASSUME SavePlan PROVE StoreInv'
  BY <1>9 DEF SavePlan, LessonInv, TypeInv, Plans, StoreInv, Stored, Origin
<1>10. ASSUME Dies PROVE StoreInv'
  BY <1>10 DEF Dies, Degrade, LessonInv, StoreInv, Stored, Origin
<1>11. ASSUME NEW o \in O, RetiredElsewhere(o) PROVE StoreInv'
  <2>1. plan' = plan /\ created' = created
    BY <1>11 DEF RetiredElsewhere
  <2>2. ASSUME NEW old \in store, store' = Put([old EXCEPT !.status = "retracted"]) PROVE StoreInv'
    <3>1. old \in Dec
      BY LessonFacts
    <3> DEFINE d == [old EXCEPT !.status = "retracted"]
    <3>2. d \in Dec /\ d.id = old.id /\ d.lesson = old.lesson /\ (d.status = "superseded" => FALSE)
      BY <3>1 DEF Dec
    <3> HIDE DEF d
    <3> QED
      BY <2>2, <2>1, <3>2, LessonFacts, Rewritten DEF StoreInv, d
  <2> QED
    BY <1>11, <2>2 DEF RetiredElsewhere, Get
<1>12. ASSUME UNCHANGED lessonVars PROVE StoreInv'
  BY <1>12 DEF lessonVars, LessonInv, StoreInv, Stored, Origin
<1> QED
  BY <1>1, <1>2, <1>3, <1>4, <1>5, <1>6, <1>7, <1>8, <1>9, <1>10, <1>11, <1>12,
     ActCases
  DEF LessonNext

\* A worker goes on with what the plan says.
LEMMA WorkerStep ==
  ASSUME LessonInv, [LessonNext]_lessonVars
  PROVE  WorkerInv'
<1>1. ASSUME NEW claim, NEW changes, NEW primary, MakePlan(claim, changes, primary) PROVE WorkerInv'
  BY <1>1 DEF MakePlan, LessonInv, TypeInv, WorkerInv
<1>2. ASSUME Enter PROVE WorkerInv'
  <2>1. Min(Pending) \in L
    BY <1>2, LessonFacts, MinIn DEF Enter, Pending
  <2> QED
    BY <1>2, <2>1 DEF Enter, EntryOf, LessonInv, TypeInv, WorkerInv
<1>3. ASSUME NEW o \in O, worker.at = "act", o \in worker.todo, SupersedeStep(o) PROVE WorkerInv'
  <2>1. plan' = plan /\ plan.saved /\ worker.lesson \in L
        /\ worker.todo \subseteq plan.acts[worker.lesson]
    BY <1>3 DEF SupersedeStep, Degrade, LessonInv, WorkerInv
  <2>2. ASSUME worker' = [worker EXCEPT !.at = "mark", !.todo = {o} \cup @],
               store' = IF Get(NewId(worker.lesson)) = {}
                        THEN Put(Decision(NewId(worker.lesson), worker.lesson)) ELSE store
        PROVE  WorkerInv'
    <3>1. \E e \in store' : e.id = NewId(worker.lesson)
      <4>1. CASE Get(NewId(worker.lesson)) = {}
        <5> DEFINE d == Decision(NewId(worker.lesson), worker.lesson)
        <5>1. d.id = NewId(worker.lesson)
          BY DEF Decision
        <5>2. store' = Put(d)
          BY <2>2, <4>1
        <5> HIDE DEF d
        <5>3. d \in Put(d)
          BY DEF Put
        <5> QED
          BY <5>1, <5>2, <5>3
      <4>2. CASE Get(NewId(worker.lesson)) # {}
        BY <2>2, <4>2 DEF Get
      <4> QED
        BY <4>1, <4>2
    <3>2. worker'.lesson = worker.lesson /\ worker'.at = "mark"
          /\ worker'.todo = {o} \cup worker.todo
      BY <2>2 DEF LessonInv, TypeInv
    <3> QED
      BY <1>3, <2>1, <3>1, <3>2 DEF WorkerInv
  <2>3. CASE worker' = [worker EXCEPT !.todo = @ \ {o}, !.id = NewId(worker.lesson)]
    BY <1>3, <2>1, <2>3 DEF LessonInv, TypeInv, WorkerInv
  <2>4. CASE worker' = Out
    BY <2>4 DEF Out, WorkerInv
  <2> QED
    BY <1>3, <2>2, <2>3, <2>4 DEF SupersedeStep, Degrade
<1>4. ASSUME NEW o \in O, worker.at = "act", o \in worker.todo, RetractStep(o) PROVE WorkerInv'
  <2>1. CASE worker' = Out
    BY <2>1 DEF Out, WorkerInv
  <2>2. CASE worker' = [worker EXCEPT !.todo = @ \ {o}] /\ plan' = plan
    BY <1>4, <2>2 DEF LessonInv, TypeInv, WorkerInv
  <2> QED
    BY <1>4, <2>1, <2>2 DEF RetractStep, Degrade
<1>5. ASSUME MarkOld PROVE WorkerInv'
  BY <1>5 DEF MarkOld, LessonInv, TypeInv, WorkerInv
<1>6. ASSUME ActsDone PROVE WorkerInv'
  BY <1>6 DEF ActsDone, LessonInv, TypeInv, WorkerInv
<1>7. ASSUME Create PROVE WorkerInv'
  BY <1>7 DEF Create, LessonInv, TypeInv, WorkerInv
<1>8. ASSUME Tag PROVE WorkerInv'
  BY <1>8 DEF Tag, LessonInv, TypeInv, WorkerInv
<1>9. ASSUME SavePlan PROVE WorkerInv'
  BY <1>9 DEF SavePlan, Out, WorkerInv
<1>10. ASSUME Dies PROVE WorkerInv'
  BY <1>10 DEF Dies, Degrade, Out, WorkerInv
<1>11. ASSUME NEW o \in O, RetiredElsewhere(o) PROVE WorkerInv'
  BY <1>11 DEF RetiredElsewhere, LessonInv, TypeInv, WorkerInv
<1>12. ASSUME UNCHANGED lessonVars PROVE WorkerInv'
  BY <1>12 DEF lessonVars, LessonInv, TypeInv, WorkerInv
<1> QED
  BY <1>1, <1>2, <1>3, <1>4, <1>5, <1>6, <1>7, <1>8, <1>9, <1>10, <1>11, <1>12,
     ActCases
  DEF LessonNext

\* A plan is made once, and consistent.
LEMMA PlanStep ==
  ASSUME LessonInv, [LessonNext]_lessonVars
  PROVE  PlanInv'
<1>1. ASSUME NEW claim, NEW changes, NEW primary, MakePlan(claim, changes, primary) PROVE PlanInv'
  <2> DEFINE rel == Relations(claim, Verified(changes))
  <2>1. plan'.rel = rel /\ \A l \in L : plan'.acts[l] = Acts(rel, primary, l)
    BY <1>1 DEF MakePlan
  <2>2. ASSUME NEW o \in O, NEW l \in L, NEW k \in L,
               o \in Acts(rel, primary, l), o \in Acts(rel, primary, k)
        PROVE  rel[<<l, o>>] = rel[<<k, o>>] /\ (rel[<<l, o>>] = "supersedes" => l = k)
    BY <2>2, PlannedOnce
  <2> HIDE DEF rel
  <2> QED
    BY <2>1, <2>2 DEF PlanInv
<1>2. ASSUME Enter PROVE PlanInv'
  BY <1>2 DEF Enter, LessonInv, PlanInv
<1>3. ASSUME NEW o \in O, worker.at = "act", o \in worker.todo, SupersedeStep(o) PROVE PlanInv'
  BY <1>3 DEF SupersedeStep, Degrade, LessonInv, PlanInv
<1>4. ASSUME NEW o \in O, worker.at = "act", o \in worker.todo, RetractStep(o) PROVE PlanInv'
  BY <1>4 DEF RetractStep, Degrade, LessonInv, PlanInv
<1>5. ASSUME MarkOld PROVE PlanInv'
  BY <1>5 DEF MarkOld, LessonInv, PlanInv
<1>6. ASSUME ActsDone PROVE PlanInv'
  BY <1>6 DEF ActsDone, LessonInv, PlanInv
<1>7. ASSUME Create PROVE PlanInv'
  BY <1>7 DEF Create, LessonInv, PlanInv
<1>8. ASSUME Tag PROVE PlanInv'
  BY <1>8 DEF Tag, LessonInv, PlanInv
<1>9. ASSUME SavePlan PROVE PlanInv'
  BY <1>9 DEF SavePlan, LessonInv, TypeInv, Plans, PlanInv
<1>10. ASSUME Dies PROVE PlanInv'
  BY <1>10 DEF Dies, Degrade, LessonInv, PlanInv
<1>11. ASSUME NEW o \in O, RetiredElsewhere(o) PROVE PlanInv'
  BY <1>11 DEF RetiredElsewhere, LessonInv, PlanInv
<1>12. ASSUME UNCHANGED lessonVars PROVE PlanInv'
  BY <1>12 DEF lessonVars, LessonInv, PlanInv
<1> QED
  BY <1>1, <1>2, <1>3, <1>4, <1>5, <1>6, <1>7, <1>8, <1>9, <1>10, <1>11, <1>12,
     ActCases
  DEF LessonNext

LEMMA LessonStarts == LessonInit => LessonInv
<1> USE LessonAssumption
<1> SUFFICES ASSUME LessonInit PROVE LessonInv
  OBVIOUS
<1>1. TypeInv /\ WorkerInv /\ PlanInv
  BY DEF LessonInit, NoPlan, Out, TypeInv, Plans, Relation, WorkerInv, PlanInv
<1>2. \A d \in store : \E o \in O : d = Decision(o, 0)
  BY DEF LessonInit
<1>3. \A o \in O : /\ Decision(o, 0) \in Dec /\ Decision(o, 0).id = o
                   /\ Decision(o, 0).lesson = 0 /\ Decision(o, 0).status = "active"
  BY DEF Decision, Dec, O
<1>4. \A o \in O : o <= Olds + Lessons + created
  BY DEF O, LessonInit
<1>5. StoreInv
  BY <1>2, <1>3, <1>4 DEF StoreInv, Stored, Origin
<1> QED
  BY <1>1, <1>5 DEF LessonInv

LEMMA LessonInvariance == LessonSpec => []LessonInv
<1>1. LessonInit => LessonInv
  BY LessonStarts
<1>2. LessonInv /\ [LessonNext]_lessonVars => LessonInv'
  BY TypeStep, StoreStep, WorkerStep, PlanStep DEF LessonInv
<1> QED
  BY <1>1, <1>2, PTL DEF LessonSpec

\* Whatever dies and is replayed, a lesson is stored at most once, and a decision
\* replaced by a lesson points to a decision that is there (lesson_lifecycle.apply_plan).
THEOREM LessonStoredOnceAlways == LessonSpec => []LessonStoredOnce
<1>1. LessonInv => LessonStoredOnce
  <2> SUFFICES ASSUME LessonInv PROVE LessonStoredOnce
    OBVIOUS
  <2>1. ASSUME NEW l \in L PROVE Cardinality({d \in store : d.lesson = l}) <= 1
    <3>1. \A d, e \in {f \in store : f.lesson = l} : d = e
      BY LessonFacts DEF Stored
    <3> QED
      BY <3>1, AtMostOne
  <2>2. \A d \in store : d.status = "superseded" => \E e \in store : e.id = d.by
    BY LessonFacts DEF Stored
  <2> QED
    BY <2>1, <2>2 DEF LessonStoredOnce
<1> QED
  BY LessonInvariance, <1>1, PTL

\* What a plan does to a stored decision is done by one lesson, by one relation
\* (lesson_lifecycle.validate_pairs and the choice of a successor in build_plan).
THEOREM OneActionAlways == LessonSpec => []OneActionPerTarget
<1>1. LessonInv => OneActionPerTarget
  <2> SUFFICES ASSUME LessonInv, NEW o \in O
               PROVE  /\ Cardinality({l \in L : o \in plan.acts[l]
                                                /\ plan.rel[<<l, o>>] = "supersedes"}) <= 1
                      /\ Cardinality({plan.rel[<<l, o>>] :
                                        l \in {x \in L : o \in plan.acts[x]}}) <= 1
    BY DEF OneActionPerTarget
  <2>1. \A l, k \in {x \in L : o \in plan.acts[x] /\ plan.rel[<<x, o>>] = "supersedes"} : l = k
    BY DEF LessonInv, PlanInv
  <2>2. \A a, b \in {plan.rel[<<l, o>>] : l \in {x \in L : o \in plan.acts[x]}} : a = b
    BY DEF LessonInv, PlanInv
  <2> QED
    BY <2>1, <2>2, AtMostOne
<1> QED
  BY LessonInvariance, <1>1, PTL

\* Replays store a lesson once, and a rule is treated by one lesson.
THEOREM LessonsReplaySafelyAlways == LessonSpec => []LessonsReplaySafely
BY LessonStoredOnceAlways, OneActionAlways, PTL DEF LessonsReplaySafely

-----------------------------------------------------------------------------
(* CaptureSlices: every byte of the range is in one slice, or passed over. *)

\* What is accounted for lies below the position, and the file is read there.
Accounted ==
  /\ newlines \subseteq 1..size /\ size \in 0..MaxSize /\ fpos \in Nat
  /\ first \in Nat /\ position \in first..limit /\ limit \in 0..MaxSize
  /\ position < limit => fpos = position
  /\ skipped \subseteq 1..position /\ written \subseteq 1..position
  /\ \A s \in slices : s \subseteq 1..position

\* No slice is larger than the cap, and no byte is in two places.
Apart ==
  /\ Cardinality(written) <= Cap /\ \A s \in slices : Cardinality(s) <= Cap
  /\ \A s, t \in slices : s = t \/ s \cap t = {}
  /\ \A s \in slices : s \cap skipped = {}
  /\ slicing = "open" => written \cap skipped = {} /\ \A s \in slices : s \cap written = {}

\* While the transcript is left alone nothing is missing, and slices end where records do.
Whole ==
  size = MaxSize =>
    /\ Copied \cup skipped = (first + 1)..position
    /\ \A s \in slices \ {{}} : Max(s) \in newlines \cup {limit}
    /\ slicing = "open" /\ written # {} => position \in written \cap (newlines \cup {limit})

SliceInv == Accounted /\ Apart /\ Whole

\* Where a line ends: at a newline or at the end of the file.
LEMMA LineEnds ==
  ASSUME Accounted, NEW from \in 0..size
  PROVE  /\ LineEnd(from) \in from..size
         /\ LineEnd(from) \in newlines \cup {size}
         /\ from < size => from < LineEnd(from)
<1> USE SliceAssumption
<1> DEFINE ends == {e \in newlines \cup {size} : e > from} \cup {size}
<1>1. ends \in SUBSET Nat /\ ends # {} /\ \A e \in ends : e \in from..size
  <2>1. size \in Nat /\ from \in Nat /\ from <= size
    BY DEF Accounted
  <2>2. \A e \in newlines \cup {size} : e \in Nat /\ e <= size
    BY <2>1 DEF Accounted
  <2>3. \A e \in ends : e \in newlines \cup {size} /\ (e = size \/ e > from)
    OBVIOUS
  <2>4. size \in ends
    OBVIOUS
  <2> HIDE DEF ends
  <2>5. \A e \in ends : e \in Nat /\ from <= e /\ e <= size
    BY <2>1, <2>2, <2>3
  <2> QED
    BY <2>1, <2>4, <2>5
<1>2. from < size => \A e \in ends : from < e
  BY DEF Accounted
<1>3. ends \subseteq newlines \cup {size} /\ LineEnd(from) = Min(ends)
  BY DEF LineEnd
<1> HIDE DEF ends
<1>4. Min(ends) \in ends
  BY <1>1, MinIn
<1> QED
  BY <1>1, <1>2, <1>3, <1>4

\* Bytes of one slice more.
LEMMA UnionAdd ==
  ASSUME NEW S, NEW t
  PROVE  UNION (S \cup {t}) = (UNION S) \cup t
<1>1. \A x : x \in UNION (S \cup {t}) <=> x \in (UNION S) \cup t
  BY Zenon
<1> QED
  BY <1>1

\* What one readline gives.
LEMMA LineFacts ==
  ASSUME SliceInv, MoreRoom, fpos < size
  PROVE  /\ fpos = position /\ Room \in Nat /\ Room > 0
         /\ Room <= Cap - Cardinality(written) /\ position + Room <= limit
         /\ ReadTo(fpos, Room) \in (position + 1)..(position + Room)
         /\ ReadTo(fpos, Room) <= size
         /\ ReadTo(fpos, Room) \in newlines \cup {size, position + Room}
         /\ Line = (position + 1)..ReadTo(fpos, Room)
         /\ IsFiniteSet(Line) /\ Cardinality(Line) = ReadTo(fpos, Room) - position
<1> USE SliceAssumption
<1>1. fpos = position /\ position \in Nat /\ limit \in Nat /\ position < limit /\ size \in Nat
  BY DEF SliceInv, Accounted, MoreRoom
<1>2. IsFiniteSet(written) /\ Cardinality(written) \in Nat /\ Cardinality(written) < Cap
  <2>1. IsFiniteSet(1..position)
    BY <1>1, FS_Interval
  <2>2. IsFiniteSet(written)
    BY <2>1, FS_Subset DEF SliceInv, Accounted
  <2> QED
    BY <2>2, FS_CardinalityType DEF MoreRoom
<1>3. Room \in Nat /\ Room > 0 /\ Room <= Cap - Cardinality(written) /\ position + Room <= limit
  BY <1>1, <1>2 DEF Room, Min2
<1>4. /\ LineEnd(fpos) \in (position + 1)..size /\ LineEnd(fpos) \in newlines \cup {size}
  BY <1>1, LineEnds DEF SliceInv
<1>5. /\ ReadTo(fpos, Room) \in (position + 1)..(position + Room)
      /\ ReadTo(fpos, Room) <= size
      /\ ReadTo(fpos, Room) \in newlines \cup {size, position + Room}
  BY <1>1, <1>3, <1>4 DEF ReadTo, Min2
<1>6. Line = (position + 1)..ReadTo(fpos, Room)
  BY <1>1 DEF Line
<1>7. IsFiniteSet(Line) /\ Cardinality(Line) = ReadTo(fpos, Room) - position
  <2> DEFINE n == ReadTo(fpos, Room)
  <2>1. n \in Nat /\ position + 1 \in Int /\ n >= position + 1
    BY <1>1, <1>5, <1>3
  <2> HIDE DEF n
  <2>2. IsFiniteSet((position + 1)..n) /\ Cardinality((position + 1)..n) = n - (position + 1) + 1
    BY <2>1, FS_Interval
  <2> QED
    BY <1>1, <1>6, <2>1, <2>2 DEF n
<1> QED
  BY <1>1, <1>3, <1>5, <1>6, <1>7

\* The last byte of a slice.
LEMMA MaxOfSlice ==
  ASSUME NEW n \in Nat, NEW S \in SUBSET (1..n), n \in S
  PROVE  Max(S) = n
<1>1. n \in S /\ \A y \in S : n >= y
  <2> SUFFICES ASSUME NEW y \in S PROVE n >= y
    OBVIOUS
  <2>1. y \in 1..n
    OBVIOUS
  <2> QED
    BY <2>1
<1>2. \A x \in S : (\A y \in S : x >= y) => x = n
  <2> SUFFICES ASSUME NEW x \in S, \A y \in S : x >= y PROVE x = n
    OBVIOUS
  <2>1. x \in Nat /\ x <= n /\ x >= n
    OBVIOUS
  <2> QED
    BY <2>1
<1> HIDE DEF Max
<1> QED
  BY <1>1, <1>2 DEF Max

\* A slice is finished.
LEMMA Closed ==
  ASSUME SliceInv, slicing = "open", CloseSlice, fpos' \in Nat,
         UNCHANGED <<newlines, size, first, limit, position, start, written, skipped>>,
         position < limit => fpos' = position
  PROVE  SliceInv'
<1>1. Accounted'
  BY DEF SliceInv, Accounted, CloseSlice
<1>2. Apart'
  BY DEF SliceInv, Apart, CloseSlice
<1>3. Whole'
  <2>1. Copied' = Copied
    <3>1. Copied = (UNION slices) \cup written
      BY DEF Copied
    <3>2. Copied' = UNION (slices \cup {written})
      BY DEF Copied, CloseSlice
    <3> QED
      BY <3>1, <3>2, UnionAdd
  <2>2. ASSUME size = MaxSize, written # {} PROVE Max(written) \in newlines \cup {limit}
    <3>1. position \in Nat /\ written \in SUBSET (1..position) /\ position \in written
      BY <2>2 DEF SliceInv, Accounted, Whole
    <3>2. Max(written) = position
      BY <3>1, MaxOfSlice
    <3> QED
      BY <2>2, <3>2 DEF SliceInv, Whole
  <2> QED
    BY <2>1, <2>2 DEF SliceInv, Whole, CloseSlice
<1> QED
  BY <1>1, <1>2, <1>3 DEF SliceInv

LEMMA SliceStep ==
  ASSUME SliceInv, [SliceNext]_sliceVars
  PROVE  SliceInv'
<1> USE SliceAssumption
<1>1. CASE OpenSlice
  <2>1. Accounted' /\ Apart'
    BY <1>1, FS_EmptySet DEF OpenSlice, SliceInv, Accounted, Apart
  <2>2. Copied' = Copied
    BY <1>1 DEF OpenSlice, Copied
  <2> QED
    BY <1>1, <2>1, <2>2 DEF OpenSlice, SliceInv, Whole
<1>2. CASE AllSliced
  <2>1. Copied' = Copied
    BY <1>2 DEF AllSliced, Copied
  <2> QED
    BY <1>2, <2>1 DEF AllSliced, SliceInv, Accounted, Apart, Whole
<1>3. CASE Shrunk
  <2>1. fpos = position /\ position < limit /\ size # MaxSize
    BY <1>3 DEF Shrunk, MoreRoom, SliceInv, Accounted
  <2>2. Accounted'
    <3>1. /\ limit' = position /\ position' = position /\ slices' = slices \cup {written}
          /\ UNCHANGED <<newlines, size, first, fpos, written, skipped>>
      BY <1>3, <2>1 DEF Shrunk, CloseSlice
    <3>2. position \in 0..MaxSize /\ position \in first..position
      BY <2>1 DEF SliceInv, Accounted
    <3> QED
      <4>1. \A s \in slices' : s \subseteq 1..position
        BY <3>1 DEF SliceInv, Accounted
      <4> QED
        BY <3>1, <3>2, <4>1 DEF SliceInv, Accounted
  <2>3. Apart'
    BY <1>3 DEF Shrunk, MoreRoom, CloseSlice, SliceInv, Apart
  <2> QED
    BY <1>3, <2>1, <2>2, <2>3 DEF Shrunk, SliceInv, Whole
<1>4. CASE Copy
  <2> DEFINE n == ReadTo(fpos, Room)
  <2>1. /\ fpos = position /\ Room \in Nat /\ Room <= Cap - Cardinality(written)
        /\ position + Room <= limit /\ n \in (position + 1)..(position + Room)
        /\ n <= size /\ n \in newlines \cup {size, position + Room}
        /\ Line = (position + 1)..n /\ IsFiniteSet(Line) /\ Cardinality(Line) = n - position
    BY <1>4, LineFacts DEF Copy
  <2>2. /\ position \in Nat /\ limit \in Nat /\ n \in Nat /\ n <= limit /\ first \in Nat
        /\ first <= position /\ position < n /\ limit <= MaxSize /\ size \in Nat
    BY <2>1 DEF SliceInv, Accounted
  <2>3. /\ position' = n /\ fpos' = n /\ written' = written \cup ((position + 1)..n)
        /\ slicing = "open" /\ UNCHANGED <<newlines, size, first, limit, slices, skipped, slicing>>
    BY <1>4, <2>1, <2>2 DEF Copy, MoreRoom
  <2>4. n \in newlines \/ n = limit \/ size # MaxSize
    <3>1. Complete \/ Cardinality(Line) # Room
      BY <1>4 DEF Copy, CutShort
    <3>2. CASE Complete
      BY <2>1, <2>2, <3>2 DEF Complete
    <3>3. CASE Cardinality(Line) # Room
      BY <2>1, <2>2, <3>3
    <3> QED
      BY <3>1, <3>2, <3>3
  <2> HIDE DEF n
  <2>5. Accounted'
    BY <2>2, <2>3 DEF SliceInv, Accounted
  <2>6. Cardinality(written') <= Cap
    <3>1. IsFiniteSet(written)
      <4>1. IsFiniteSet(1..position)
        BY <2>2, FS_Interval
      <4> QED
        BY <4>1, FS_Subset DEF SliceInv, Accounted
    <3>2. Cardinality(written \cap Line) \in Nat /\ Cardinality(written) \in Nat
      BY <2>1, <3>1, FS_Subset, FS_CardinalityType
    <3>3. Cardinality(written \cup Line) =
            Cardinality(written) + Cardinality(Line) - Cardinality(written \cap Line)
      BY <2>1, <3>1, FS_Union
    <3> QED
      BY <2>1, <2>2, <2>3, <3>2, <3>3
  <2>7. Apart'
    <3>1. \A x \in (position + 1)..n : x \notin 1..position
      BY <2>2
    <3> DEFINE Line1 == (position + 1)..n
    <3>2. written' = written \cup Line1 /\ slices' = slices /\ skipped' = skipped /\ slicing = "open"
      BY <2>3
    <3> HIDE DEF Line1
    <3>3. /\ skipped \cap Line1 = {} /\ \A s \in slices : s \cap Line1 = {}
      BY <3>1 DEF SliceInv, Accounted, Line1
    <3> QED
      BY <2>6, <3>2, <3>3 DEF SliceInv, Apart
  <2>8. Whole'
    <3>1. Copied' = Copied \cup ((position + 1)..n)
      <4> DEFINE Line1 == (position + 1)..n
      <4>1. /\ written' = written \cup Line1 /\ slices' = slices /\ slicing = "open"
            /\ slicing' = "open"
        BY <2>3
      <4> HIDE DEF Line1
      <4>2. Copied = (UNION slices) \cup written /\ Copied' = (UNION slices) \cup written'
        BY <4>1, Zenon DEF Copied
      <4>3. Copied' = Copied \cup Line1
        BY <4>1, <4>2
      <4> QED
        BY <4>3 DEF Line1
    <3>2. (first + 1)..n = ((first + 1)..position) \cup ((position + 1)..n)
      BY <2>2
    <3>3. n \in written'
      BY <2>2, <2>3
    <3> QED
      BY <2>3, <2>4, <3>1, <3>2, <3>3 DEF SliceInv, Whole
  <2> QED
    BY <2>5, <2>7, <2>8 DEF SliceInv
<1>5. CASE LeaveForNext
  <2>1. position \in Nat
    BY DEF SliceInv, Accounted
  <2> QED
    BY <1>5, <2>1, Closed DEF LeaveForNext, SeekBack, MoreRoom
<1>6. CASE SkipRecord
  <2> DEFINE n == position'
  <2>1. ReadTo(fpos, Room) \in 0..size /\ ReadTo(fpos, Room) > position
    BY <1>6, LineFacts DEF SkipRecord, SliceInv, Accounted
  <2>2. RecordEnd \in ReadTo(fpos, Room)..size
    BY <2>1, LineEnds DEF RecordEnd, SliceInv
  <2>3. /\ position \in Nat /\ limit \in Nat /\ first \in Nat /\ first <= position
        /\ position < limit /\ size \in Nat
    BY <1>6 DEF SkipRecord, MoreRoom, SliceInv, Accounted
  <2>4. n \in Nat /\ position < n /\ n <= limit /\ (n < limit => fpos' = n) /\ fpos' \in Nat
    BY <1>6, <2>1, <2>2, <2>3 DEF SkipRecord, PassedOver, Min2
  <2>5. /\ skipped' = skipped \cup ((position + 1)..n) /\ written = {} /\ slicing = "open"
        /\ UNCHANGED <<newlines, size, first, limit, written, slices, slicing>>
    BY <1>6 DEF SkipRecord, MoreRoom
  <2>6. \A x \in (position + 1)..n : x \notin 1..position
    BY <2>3, <2>4
  <2>7. Accounted'
    BY <2>3, <2>4, <2>5 DEF SliceInv, Accounted
  <2>8. Apart'
    BY <2>5, <2>6 DEF SliceInv, Apart, Accounted
  <2>9. Whole'
    <3>1. Copied' = Copied
      BY <2>5 DEF Copied
    <3>2. (first + 1)..n = ((first + 1)..position) \cup ((position + 1)..n)
      BY <2>3, <2>4
    <3> QED
      BY <2>5, <3>1, <3>2 DEF SliceInv, Whole
  <2> QED
    BY <2>7, <2>8, <2>9 DEF SliceInv
<1>7. CASE SliceFull
  BY <1>7, Closed DEF SliceFull, SliceInv, Accounted
<1>8. ASSUME NEW n \in 0..MaxSize, Shrinks(n) PROVE SliceInv'
  <2>1. size' # MaxSize /\ size' \in 0..MaxSize /\ newlines' \subseteq 1..size'
    BY <1>8 DEF Shrinks, SliceInv, Accounted
  <2> QED
    BY <1>8, <2>1 DEF Shrinks, SliceInv, Accounted, Apart, Whole
<1>9. CASE UNCHANGED sliceVars
  <2>1. Copied' = Copied
    BY <1>9 DEF sliceVars, Copied
  <2> QED
    BY <1>9, <2>1 DEF sliceVars, SliceInv, Accounted, Apart, Whole
<1> QED
  BY <1>1, <1>2, <1>3, <1>4, <1>5, <1>6, <1>7, <1>8, <1>9 DEF SliceNext

\* However the records fall on the slice boundaries, and however the transcript shrinks
\* under the reader, no byte is in two slices; and one left alone is cut at record
\* boundaries with nothing missing.
THEOREM SlicesPartitionAlways == SliceSpec => []SlicesPartition
<1> USE SliceAssumption
<1>1. SliceInit => SliceInv
  <2> SUFFICES ASSUME SliceInit PROVE SliceInv
    OBVIOUS
  <2>1. Accounted
    BY DEF SliceInit, Accounted
  <2>2. Apart
    BY FS_EmptySet DEF SliceInit, Apart
  <2>3. Copied = {} /\ skipped = {} /\ slices = {} /\ (first + 1)..position = {}
    BY <2>1 DEF SliceInit, Copied, Accounted
  <2> QED
    BY <2>1, <2>2, <2>3 DEF SliceInv, Whole, SliceInit
<1>2. SliceInv /\ [SliceNext]_sliceVars => SliceInv'
  BY SliceStep
<1>3. SliceInv => SlicesPartition
  <2> SUFFICES ASSUME SliceInv PROVE SlicesPartition
    OBVIOUS
  <2>1. Copied \cap skipped = {}
    <3>1. \A x \in Copied : (\E s \in slices : x \in s) \/ (slicing = "open" /\ x \in written)
      BY Zenon DEF Copied
    <3> QED
      BY <3>1 DEF SliceInv, Apart
  <2> QED
    BY <2>1 DEF SliceInv, Apart, Whole, SlicesPartition
<1> QED
  BY <1>1, <1>2, <1>3, PTL DEF SliceSpec

-----------------------------------------------------------------------------
(* EventStream: the frames that wait for the viewer grow from the one it   *)
(* received last on, and the promise on disk covers what was issued.       *)
Grows(s) == \A i, j \in 1..Len(s) : i < j => s[i] < s[j]
AtMost(s, n) == \A i \in 1..Len(s) : s[i] <= n
Above(n, s) == \A i \in 1..Len(s) : n < s[i]
Precedes(r, s) == \A i \in 1..Len(r), j \in 1..Len(s) : r[i] < s[j]

StreamTypes ==
    /\ file \in Nat /\ seq \in Nat /\ ceiling \in Nat /\ last \in Nat
    /\ torn \in BOOLEAN /\ seqLoaded \in BOOLEAN /\ seqWarned \in BOOLEAN
    /\ ring \in Seq(Nat) /\ replay \in Seq(Nat) /\ queue \in Seq(Nat)

\* In one life of the daemon numbers only grow.
RingInv ==
    /\ Grows(ring) /\ AtMost(ring, seq)
    /\ ~seqLoaded => ring = <<>> /\ replay = <<>> /\ queue = <<>>

\* What waits for the viewer: the replay, then the queue.
WaitInv ==
    /\ Grows(replay) /\ Above(last, replay) /\ AtMost(replay, seq)
    /\ Grows(queue) /\ AtMost(queue, seq)
    /\ Precedes(replay, queue)

\* Until a warning, what is on disk covers what was issued, and nobody has more.
PromiseInv ==
    ~seqWarned =>
      /\ seqLoaded => ~torn /\ file = ceiling /\ seq <= file /\ last <= seq
      /\ ~seqLoaded => last <= file
      /\ Above(last, queue)

StreamInv == StreamTypes /\ RingInv /\ WaitInv /\ PromiseInv

\* A sequence with nothing in it keeps every order.
LEMMA EmptyKeeps ==
  ASSUME NEW n, NEW s
  PROVE  /\ <<>> \in Seq(Nat) /\ Grows(<<>>) /\ AtMost(<<>>, n) /\ Above(n, <<>>)
         /\ Precedes(<<>>, s) /\ Precedes(s, <<>>)
<1>1. Len(<<>>) = 0 /\ 1..0 = {}
  OBVIOUS
<1> QED
  BY <1>1 DEF Grows, AtMost, Above, Precedes

LEMMA AtMostLater ==
  ASSUME NEW s \in Seq(Nat), NEW m \in Nat, NEW n \in Nat, m <= n, AtMost(s, m)
  PROVE  AtMost(s, n)
<1>1. \A i \in 1..Len(s) : s[i] \in Nat
  OBVIOUS
<1> QED
  BY <1>1 DEF AtMost

\* A number above all of them goes to the end.
LEMMA AppendKeeps ==
  ASSUME NEW s \in Seq(Nat), NEW m \in Nat, NEW n \in Nat, m < n, Grows(s), AtMost(s, m)
  PROVE  /\ Append(s, n) \in Seq(Nat) /\ Append(s, n) # <<>> /\ Grows(Append(s, n)) /\ AtMost(Append(s, n), n)
         /\ \A k \in Nat : k < n /\ Above(k, s) => Above(k, Append(s, n))
         /\ \A r \in Seq(Nat) : AtMost(r, m) /\ Precedes(r, s) => Precedes(r, Append(s, n))
<1> DEFINE t == Append(s, n)
<1>1. /\ t \in Seq(Nat) /\ t # <<>> /\ Len(t) = Len(s) + 1 /\ t[Len(s) + 1] = n
      /\ \A i \in 1..Len(s) : t[i] = s[i]
  BY AppendProperties
<1>2. Len(s) \in Nat /\ \A i \in 1..Len(s) : s[i] \in Nat /\ s[i] < n
  BY DEF AtMost
<1> HIDE DEF t
<1>3. \A i \in 1..Len(t) : (i \in 1..Len(s) /\ t[i] = s[i] /\ s[i] < n) \/ (i = Len(s) + 1 /\ t[i] = n)
  BY <1>1, <1>2
<1>4. Grows(t)
  <2> SUFFICES ASSUME NEW i \in 1..Len(t), NEW j \in 1..Len(t), i < j  PROVE t[i] < t[j]
    BY DEF Grows
  <2>1. i \in 1..Len(s) /\ t[i] = s[i] /\ s[i] < n
    BY <1>1, <1>2, <1>3
  <2>2. (j \in 1..Len(s) /\ t[j] = s[j]) \/ t[j] = n
    BY <1>3
  <2> QED
    BY <2>1, <2>2 DEF Grows
<1>5. AtMost(t, n)
  BY <1>2, <1>3 DEF AtMost
<1>6. ASSUME NEW k \in Nat, k < n, Above(k, s)  PROVE Above(k, t)
  BY <1>3, <1>6 DEF Above
<1>7. ASSUME NEW r \in Seq(Nat), AtMost(r, m), Precedes(r, s)  PROVE Precedes(r, t)
  <2>1. \A i \in 1..Len(r) : r[i] \in Nat /\ r[i] < n
    BY <1>7 DEF AtMost
  <2> QED
    BY <1>3, <1>7, <2>1 DEF Precedes
<1> QED
  BY <1>1, <1>4, <1>5, <1>6, <1>7 DEF t

\* The first goes: the others are above it.
LEMMA TailKeeps ==
  ASSUME NEW s \in Seq(Nat), s # <<>>, Grows(s)
  PROVE  /\ Tail(s) \in Seq(Nat) /\ Grows(Tail(s)) /\ Head(s) \in Nat /\ Above(Head(s), Tail(s))
         /\ \A n \in Nat : AtMost(s, n) => AtMost(Tail(s), n) /\ Head(s) <= n
         /\ \A n \in Nat : Above(n, s) => Above(n, Tail(s)) /\ n < Head(s)
         /\ \A r \in Seq(Nat) : Precedes(s, r) => Precedes(Tail(s), r) /\ Above(Head(s), r)
<1> DEFINE t == Tail(s)
<1>1. /\ t \in Seq(Nat) /\ Len(t) = Len(s) - 1 /\ Len(s) \in Nat /\ Len(s) > 0
      /\ Head(s) \in Nat
      /\ \A i \in 1..Len(t) : t[i] = s[i + 1]
  BY HeadTailProperties, EmptySeq
<1>2. Head(s) = s[1] /\ 1 \in 1..Len(s)
  BY <1>1
<1> HIDE DEF t
<1>3. \A i \in 1..Len(t) : i \in Nat /\ i + 1 \in 1..Len(s) /\ 1 < i + 1 /\ t[i] = s[i + 1]
  BY <1>1
<1>4. Grows(t)
  <2> SUFFICES ASSUME NEW i \in 1..Len(t), NEW j \in 1..Len(t), i < j  PROVE t[i] < t[j]
    BY DEF Grows
  <2>1. i + 1 \in 1..Len(s) /\ t[i] = s[i + 1] /\ j + 1 \in 1..Len(s) /\ t[j] = s[j + 1] /\ i + 1 < j + 1
    BY <1>3
  <2> QED
    BY <2>1 DEF Grows
<1>5. Above(Head(s), t)
  BY <1>2, <1>3 DEF Above, Grows
<1>6. ASSUME NEW n \in Nat, AtMost(s, n)  PROVE AtMost(t, n) /\ Head(s) <= n
  BY <1>2, <1>3, <1>6 DEF AtMost
<1>7. ASSUME NEW n \in Nat, Above(n, s)  PROVE Above(n, t) /\ n < Head(s)
  BY <1>2, <1>3, <1>7 DEF Above
<1>8. ASSUME NEW r \in Seq(Nat), Precedes(s, r)  PROVE Precedes(t, r) /\ Above(Head(s), r)
  BY <1>2, <1>3, <1>8 DEF Precedes, Above
<1> QED
  BY <1>1, <1>4, <1>5, <1>6, <1>7, <1>8 DEF t

\* The frames after a number are the end of the ring.
LEMMA AfterIs ==
  ASSUME ring \in Seq(Nat), Grows(ring), NEW n \in Nat
  PROVE  /\ After(n) \in Seq(Nat) /\ Grows(After(n)) /\ Above(n, After(n))
         /\ \A m \in Nat : AtMost(ring, m) => AtMost(After(n), m)
         /\ ring = <<>> => After(n) = <<>>
<1> DEFINE newer == {i \in 1..Len(ring) : ring[i] > n}
           Seen(k) == \A i \in DOMAIN ring : i > k <=> ring[i] > n
<1>1. Len(ring) \in Nat /\ DOMAIN ring = 1..Len(ring) /\ \A i \in 1..Len(ring) : ring[i] \in Nat
  OBVIOUS
<1>2. \E k \in 0..Len(ring) : Seen(k)
  <2>1. CASE newer = {}
    <3>1. \A i \in 1..Len(ring) : ~(ring[i] > n) /\ ~(i > Len(ring))
      BY <1>1, <2>1
    <3>2. Seen(Len(ring)) /\ Len(ring) \in 0..Len(ring)
      BY <1>1, <3>1
    <3> HIDE DEF Seen
    <3> QED
      BY <3>2
  <2>2. CASE newer # {}
    <3>1. newer \in SUBSET Nat
      BY <1>1
    <3> DEFINE m == CHOOSE x \in newer : \A j \in newer : <<j, x>> \notin OpToRel(<, Nat)
    <3>2. m \in newer /\ \A j \in newer : <<j, m>> \notin OpToRel(<, Nat)
      <4> HIDE DEF newer
      <4> QED
        BY <2>2, <3>1, WFMin, NatLessThanWellFounded, Zenon
    <3>3. PICK l \in newer : \A j \in newer : <<j, l>> \notin OpToRel(<, Nat)
      BY <3>2, Zenon
    <3>4. \A j \in newer : ~(j < l)
      <4> HIDE DEF newer
      <4> QED
        BY <3>1, <3>3, Zenon DEF OpToRel
    <3>5. l \in 1..Len(ring) /\ ring[l] > n /\ \A j \in 1..Len(ring) : j < l => ~(ring[j] > n)
      BY <3>3, <3>4
    <3>6. \A j \in 1..Len(ring) : l <= j => ring[j] > n
      <4> SUFFICES ASSUME NEW j \in 1..Len(ring), l < j  PROVE ring[j] > n
        BY <1>1, <3>5
      <4>1. ring[l] < ring[j]
        BY <3>5 DEF Grows
      <4> QED
        BY <4>1, <1>1, <3>5
    <3>7. l - 1 \in 0..Len(ring)
      BY <1>1, <3>5
    <3>8. Seen(l - 1)
      BY <1>1, <3>5, <3>6
    <3> QED
      BY <3>7, <3>8
  <2> QED
    BY <2>1, <2>2
<1> DEFINE seen == CHOOSE k \in 0..Len(ring) : Seen(k)
<1>3. seen \in 0..Len(ring) /\ Seen(seen)
  <2> HIDE DEF Seen
  <2> QED
    BY <1>2, Zenon
<1>4. After(n) = SubSeq(ring, seen + 1, Len(ring))
  BY DEF After
<1> HIDE DEF seen
<1>s. seen \in Nat /\ seen <= Len(ring) /\ seen + 1 \in Int
  BY <1>1, <1>3
<1>l. Len(ring) - (seen + 1) + 1 = Len(ring) - seen /\ Len(ring) - seen \in Nat
  BY <1>1, <1>s
<1>5. seen + 1 \in Int /\ Len(ring) \in Int /\ \A i \in (seen + 1)..Len(ring) : ring[i] \in Nat
  BY <1>1, <1>3
<1>6. /\ After(n) \in Seq(Nat)
      /\ Len(After(n)) = IF seen + 1 <= Len(ring) THEN Len(ring) - (seen + 1) + 1 ELSE 0
      /\ \A i \in 1..(Len(ring) - (seen + 1) + 1) : After(n)[i] = ring[(seen + 1) + i - 1]
  BY <1>4, <1>5, SubSeqProperties
<1>7. /\ Len(After(n)) = Len(ring) - seen
      /\ \A i \in 1..Len(After(n)) : /\ seen + i \in 1..Len(ring) /\ seen + i > seen
                                     /\ After(n)[i] = ring[seen + i]
  <2>1. Len(After(n)) = Len(ring) - seen
    <3>1. Len(After(n)) = IF seen + 1 <= Len(ring) THEN Len(ring) - (seen + 1) + 1 ELSE 0
      BY <1>6
    <3>2. CASE seen + 1 <= Len(ring)
      BY <1>l, <3>1, <3>2
    <3>3. CASE ~(seen + 1 <= Len(ring))
      <4>1. Len(ring) = seen
        <5>1. Len(ring) \in Nat
          BY <1>1
        <5>2. seen \in Nat /\ seen <= Len(ring)
          BY <1>s
        <5> QED
          BY <3>3, <5>1, <5>2
      <4> QED
        BY <1>s, <3>1, <3>3, <4>1
    <3> QED
      BY <3>2, <3>3
  <2>2. ASSUME NEW i \in 1..Len(After(n))
        PROVE  seen + i \in 1..Len(ring) /\ seen + i > seen /\ After(n)[i] = ring[seen + i]
    <3>1. i \in 1..(Len(ring) - seen) /\ i \in Nat /\ i > 0 /\ i <= Len(ring) - seen
      BY <1>l, <2>1
    <3>2. i \in 1..(Len(ring) - (seen + 1) + 1)
      BY <1>l, <3>1
    <3>3. (seen + 1) + i - 1 = seen + i
      BY <1>s, <3>1
    <3>4. After(n)[i] = ring[seen + i]
      BY <1>6, <3>2, <3>3
    <3> QED
      BY <1>1, <1>s, <3>1, <3>4
  <2> QED
    BY <2>1, <2>2
<1>8. Above(n, After(n))
  BY <1>1, <1>3, <1>7 DEF Above
<1>9. Grows(After(n))
  <2> SUFFICES ASSUME NEW i \in 1..Len(After(n)), NEW j \in 1..Len(After(n)), i < j
               PROVE  After(n)[i] < After(n)[j]
    BY DEF Grows
  <2>1. /\ After(n)[i] = ring[seen + i] /\ seen + i \in 1..Len(ring)
        /\ After(n)[j] = ring[seen + j] /\ seen + j \in 1..Len(ring) /\ seen + i < seen + j
    BY <1>1, <1>3, <1>7
  <2> QED
    BY <2>1 DEF Grows
<1>10. ASSUME NEW m \in Nat, AtMost(ring, m)  PROVE AtMost(After(n), m)
  BY <1>7, <1>10 DEF AtMost
<1>11. ASSUME ring = <<>>  PROVE After(n) = <<>>
  BY <1>3, <1>6, <1>7, <1>11, EmptySeq
<1> QED
  BY <1>6, <1>8, <1>9, <1>10, <1>11

StreamConstants == Block \in Nat \ {0}

\* A number above every one issued in this life of the daemon.
LEMMA NextSeqIs ==
  ASSUME StreamConstants, StreamInv, NextSeq
  PROVE  /\ seq' \in Nat /\ seqLoaded' = TRUE /\ file' \in Nat /\ ceiling' \in Nat
         /\ torn' \in BOOLEAN /\ seqWarned' \in BOOLEAN
         /\ Base \in Nat /\ Base < seq' /\ (seqLoaded => Base = seq)
         /\ ~seqWarned' => ~seqWarned /\ ~torn' /\ file' = ceiling' /\ seq' <= file' /\ last < seq'
<1> USE DEF StreamConstants, StreamInv, StreamTypes, PromiseInv
<1>1. Base \in Nat /\ (seqLoaded => Base = seq) /\ (~seqLoaded /\ ~torn => Base = file)
  BY DEF Base, Resumed
<1>2. seq' = Base + 1 /\ seqLoaded' = TRUE
  BY DEF NextSeq, Next1
<1>3. NewCeiling \in Nat /\ NewCeiling >= seq'
  BY <1>1, <1>2 DEF NewCeiling, Next1
<1>4. \/ /\ Reserves /\ ceiling' = NewCeiling
         /\ \/ file' = NewCeiling /\ torn' = FALSE /\ seqWarned' = (seqWarned \/ (~seqLoaded /\ torn))
            \/ seqWarned' = TRUE /\ UNCHANGED <<file, torn>>
      \/ ~Reserves /\ UNCHANGED <<ceiling, file, torn, seqWarned>>
  BY DEF NextSeq
<1>5. ~Reserves => seqLoaded /\ seq' < ceiling
  BY <1>1, <1>2 DEF Reserves, Next1
<1>6. file' \in Nat /\ ceiling' \in Nat /\ torn' \in BOOLEAN /\ seqWarned' \in BOOLEAN
  BY <1>3, <1>4
<1>7. ASSUME ~seqWarned'
      PROVE  ~seqWarned /\ ~torn' /\ file' = ceiling' /\ seq' <= file' /\ last < seq'
  <2>1. ~seqWarned /\ ~torn'
    BY <1>4, <1>5, <1>7
  <2>2. file' = ceiling' /\ seq' <= file'
    BY <1>2, <1>1, <1>3, <1>4, <1>5, <1>7
  <2>3. last <= Base
    BY <1>1, <1>4, <1>5, <1>7
  <2> QED
    BY <1>1, <1>2, <2>1, <2>2, <2>3
<1> QED
  BY <1>1, <1>2, <1>6, <1>7

LEMMA StreamStep == ASSUME StreamConstants PROVE StreamInv /\ [EventNext]_eventVars => StreamInv'
<1> SUFFICES ASSUME StreamInv, [EventNext]_eventVars  PROVE StreamInv'
  OBVIOUS
<1>t. StreamTypes /\ RingInv /\ WaitInv /\ PromiseInv
  BY DEF StreamInv
<1>n. ASSUME NextSeq
      PROVE  /\ seq' \in Nat /\ Base \in Nat /\ Base < seq' /\ seqLoaded' = TRUE
             /\ file' \in Nat /\ ceiling' \in Nat /\ torn' \in BOOLEAN /\ seqWarned' \in BOOLEAN
             /\ ~seqWarned' => ~seqWarned /\ ~torn' /\ file' = ceiling' /\ seq' <= file' /\ last < seq'
             /\ AtMost(ring, Base) /\ AtMost(queue, Base) /\ AtMost(replay, Base)
             /\ AtMost(ring, seq') /\ AtMost(queue, seq') /\ AtMost(replay, seq')
  <2>1. /\ seq' \in Nat /\ seqLoaded' = TRUE
        /\ file' \in Nat /\ ceiling' \in Nat /\ torn' \in BOOLEAN /\ seqWarned' \in BOOLEAN
        /\ Base \in Nat /\ Base < seq' /\ (seqLoaded => Base = seq)
        /\ ~seqWarned' => ~seqWarned /\ ~torn' /\ file' = ceiling' /\ seq' <= file' /\ last < seq'
    BY <1>n, NextSeqIs
  <2>2. Base \in Nat /\ Base <= seq'
    BY <2>1
  <2>4. AtMost(ring, Base) /\ AtMost(queue, Base) /\ AtMost(replay, Base)
    BY <1>t, <2>1, EmptyKeeps DEF RingInv, WaitInv
  <2>5. AtMost(ring, seq') /\ AtMost(queue, seq') /\ AtMost(replay, seq')
    BY <1>t, <2>1, <2>2, <2>4, AtMostLater DEF StreamTypes
  <2> QED
    BY <2>1, <2>4, <2>5
<1>1. CASE EmitSpan
  <2>1. NextSeq /\ UNCHANGED <<ring, replay, queue, last>>
    BY <1>1 DEF EmitSpan
  <2>2. StreamTypes' /\ RingInv' /\ WaitInv'
    BY <1>n, <1>t, <2>1 DEF StreamTypes, RingInv, WaitInv
  <2>3. PromiseInv'
    BY <1>n, <1>t, <2>1 DEF StreamTypes, PromiseInv
  <2> QED
    BY <2>2, <2>3 DEF StreamInv
<1>2. CASE EmitFrame
  <2>1. NextSeq /\ UNCHANGED <<replay, last>>
    BY <1>2 DEF EmitFrame
  <2>2. PICK longer : longer = Append(ring, seq')
    OBVIOUS
  <2>3. longer \in Seq(Nat) /\ longer # <<>> /\ Grows(longer) /\ AtMost(longer, seq')
    BY <1>n, <1>t, <2>1, <2>2, AppendKeeps DEF StreamTypes, RingInv
  <2>4. ring' = longer \/ ring' = Tail(longer)
    BY <1>2, <2>2 DEF EmitFrame, Retained
  <2>5. ring' \in Seq(Nat) /\ Grows(ring') /\ AtMost(ring', seq')
    BY <1>n, <2>1, <2>3, <2>4, TailKeeps
  <2>6. queue' = queue \/ queue' = Append(queue, seq')
    BY <1>2 DEF EmitFrame
  <2>7. /\ queue' \in Seq(Nat) /\ Grows(queue') /\ AtMost(queue', seq') /\ Precedes(replay, queue')
        /\ ~seqWarned' => Above(last, queue')
    <3>1. CASE queue' = queue
      BY <1>n, <1>t, <2>1, <3>1 DEF StreamTypes, WaitInv, PromiseInv
    <3>2. CASE queue' = Append(queue, seq')
      <4>1. /\ Append(queue, seq') \in Seq(Nat) /\ Grows(Append(queue, seq')) /\ AtMost(Append(queue, seq'), seq')
            /\ \A k \in Nat : k < seq' /\ Above(k, queue) => Above(k, Append(queue, seq'))
            /\ \A r \in Seq(Nat) : AtMost(r, Base) /\ Precedes(r, queue) => Precedes(r, Append(queue, seq'))
        BY <1>n, <1>t, <2>1, AppendKeeps DEF StreamTypes, WaitInv
      <4> QED
        BY <1>n, <1>t, <2>1, <3>2, <4>1 DEF StreamTypes, WaitInv, PromiseInv
    <3> QED
      BY <2>6, <3>1, <3>2
  <2>8. StreamTypes' /\ RingInv' /\ WaitInv'
    BY <1>n, <1>t, <2>1, <2>5, <2>7 DEF StreamTypes, RingInv, WaitInv
  <2>9. PromiseInv'
    BY <1>n, <1>t, <2>1, <2>7 DEF StreamTypes, PromiseInv
  <2> QED
    BY <2>8, <2>9 DEF StreamInv
<1>3. CASE Connect
  <2>1. UNCHANGED <<file, torn, seq, ceiling, seqLoaded, seqWarned, ring, last>> /\ queue' = <<>>
    BY <1>3 DEF Connect
  <2>2. replay' = <<>> \/ replay' = After(last)
    BY <1>3 DEF Connect
  <2>3. /\ After(last) \in Seq(Nat) /\ Grows(After(last)) /\ Above(last, After(last))
        /\ AtMost(After(last), seq) /\ (ring = <<>> => After(last) = <<>>)
    BY <1>t, AfterIs DEF StreamTypes, RingInv
  <2>4. /\ replay' \in Seq(Nat) /\ Grows(replay') /\ Above(last, replay') /\ AtMost(replay', seq)
        /\ ring = <<>> => replay' = <<>>
    BY <2>2, <2>3, EmptyKeeps
  <2> QED
    BY <1>t, <2>1, <2>4, EmptyKeeps DEF StreamInv, StreamTypes, RingInv, WaitInv, PromiseInv
<1>4. CASE Register \/ UNCHANGED eventVars
  <2>1. UNCHANGED <<file, torn, seq, ceiling, seqLoaded, seqWarned, ring, replay, queue, last>>
    BY <1>4 DEF Register, eventVars
  <2> QED
    BY <1>t, <2>1 DEF StreamInv, StreamTypes, RingInv, WaitInv, PromiseInv
<1>5. CASE Deliver
  <2>1. UNCHANGED <<file, torn, seq, ceiling, seqLoaded, seqWarned, ring>>
    BY <1>5 DEF Deliver
  <2>2. CASE replay # <<>> /\ last' = Head(replay) /\ replay' = Tail(replay) /\ UNCHANGED queue
    <3>1. /\ replay' \in Seq(Nat) /\ Grows(replay') /\ last' \in Nat /\ Above(last', replay')
          /\ AtMost(replay', seq) /\ last' <= seq /\ last < last'
          /\ Precedes(replay', queue) /\ Above(last', queue)
      BY <1>t, <2>2, TailKeeps DEF StreamTypes, WaitInv
    <3>2. seqLoaded
      BY <1>t, <2>2 DEF RingInv
    <3> QED
      BY <1>t, <2>1, <2>2, <3>1, <3>2 DEF StreamInv, StreamTypes, RingInv, WaitInv, PromiseInv
  <2>3. CASE replay = <<>> /\ queue # <<>> /\ queue' = Tail(queue) /\ last' \in {last, Head(queue)} /\ UNCHANGED replay
    <3>1. /\ queue' \in Seq(Nat) /\ Grows(queue') /\ Head(queue) \in Nat /\ Above(Head(queue), queue')
          /\ AtMost(queue', seq) /\ Head(queue) <= seq
          /\ ~seqWarned => Above(last, queue')
      BY <1>t, <2>3, TailKeeps DEF StreamTypes, WaitInv, PromiseInv
    <3>2. seqLoaded
      BY <1>t, <2>3 DEF RingInv
    <3>3. StreamTypes' /\ RingInv'
      BY <1>t, <2>1, <2>3, <3>1, <3>2 DEF StreamTypes, RingInv
    <3>4. WaitInv'
      BY <1>t, <2>1, <2>3, <3>1, EmptyKeeps DEF WaitInv
    <3>5. PromiseInv'
      BY <1>t, <2>1, <2>3, <3>1, <3>2 DEF PromiseInv
    <3> QED
      BY <3>3, <3>4, <3>5 DEF StreamInv
  <2> QED
    BY <1>5, <2>2, <2>3 DEF Deliver, Receive
<1>6. CASE Disconnect
  <2>1. /\ UNCHANGED <<file, torn, seq, ceiling, seqLoaded, seqWarned, ring, last>>
        /\ replay' = <<>> /\ queue' = <<>>
    BY <1>6 DEF Disconnect, Leaves
  <2> QED
    BY <1>t, <2>1, EmptyKeeps DEF StreamInv, StreamTypes, RingInv, WaitInv, PromiseInv
<1>7. CASE EventCrash
  <2>1. /\ UNCHANGED <<file, last, seqWarned>> /\ torn' \in {torn, Reserves \/ torn}
        /\ seq' = 0 /\ ceiling' = 0 /\ seqLoaded' = FALSE
        /\ ring' = <<>> /\ replay' = <<>> /\ queue' = <<>>
    BY <1>7 DEF EventCrash, Leaves
  <2>2. torn' \in BOOLEAN
    BY <1>t, <2>1 DEF StreamTypes, Reserves
  <2>3. ~seqWarned => last <= file
    BY <1>t DEF StreamTypes, PromiseInv
  <2> QED
    BY <1>t, <2>1, <2>2, <2>3, EmptyKeeps DEF StreamInv, StreamTypes, RingInv, WaitInv, PromiseInv
<1> QED
  BY <1>1, <1>2, <1>3, <1>4, <1>5, <1>6, <1>7 DEF EventNext

\* The numbers of the frames a viewer receives only grow, across replays, reconnections and
\* restarts of the daemon in the middle of a write, unless a warning said they might not:
\* for any ring, queue and block of numbers (events_server._next_seq, progress_stream).
THEOREM FramesComeInOrder == ASSUME StreamConstants PROVE EventSpec => OrderKept
<1>1. EventInit => StreamInv
  <2> SUFFICES ASSUME EventInit  PROVE StreamInv
    OBVIOUS
  <2>1. StreamTypes
    BY EmptyKeeps DEF EventInit, StreamTypes
  <2>2. RingInv /\ WaitInv
    BY EmptyKeeps DEF EventInit, RingInv, WaitInv
  <2>3. PromiseInv
    BY EmptyKeeps DEF EventInit, PromiseInv
  <2> QED
    BY <2>1, <2>2, <2>3 DEF StreamInv
<1>2. StreamInv /\ [EventNext]_eventVars => [last' # last => last' > last \/ seqWarned]_eventVars
  <2> SUFFICES ASSUME StreamInv, EventNext, last' # last  PROVE last' > last \/ seqWarned
    OBVIOUS
  <2>1. Deliver
    BY DEF EventNext, EmitSpan, EmitFrame, Connect, Register, Disconnect, EventCrash
  <2>2. CASE replay # <<>> /\ last' = Head(replay)
    BY <2>2, TailKeeps DEF StreamInv, StreamTypes, WaitInv
  <2>3. CASE replay = <<>> /\ queue # <<>> /\ last' = Head(queue)
    BY <2>3, TailKeeps DEF StreamInv, StreamTypes, WaitInv, PromiseInv
  <2> QED
    BY <2>1, <2>2, <2>3 DEF Deliver, Receive
<1> QED
  BY <1>1, <1>2, StreamStep, PTL DEF EventSpec, OrderKept
=============================================================================
