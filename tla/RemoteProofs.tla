---------------------------- MODULE RemoteProofs ----------------------------
(***************************************************************************)
(* Proofs about the two records of what the remote service was told, and   *)
(* about what a command says of its answers, for every value of the        *)
(* constants.                                                              *)
(*                                                                         *)
(* MirrorChannel, for any keys and any number of operations, identities    *)
(* and replaced databases: no delete leaves for the host for a key that a  *)
(* restore, a reset or a copied backup took away; what the baselines say   *)
(* is what the host holds, but for what is uncertain; and the sidecar      *)
(* explains the identity in the file it saw.                               *)
(*                                                                         *)
(* ReportOutbox, for any fingerprints, senders, caps and number of reports:*)
(* a report leaves the outbox for a reason only, and has one sender at a   *)
(* time.                                                                   *)
(*                                                                         *)
(* HostedRequest, for any number of failing answers and changes by others: *)
(* nobody is told that there is nothing because of a failure.              *)
(***************************************************************************)
EXTENDS MirrorChannel, ReportOutbox, HostedRequest, FiniteSetTheorems, TLAPS

Ids == Nat \X Nat
Ends == {"none", "committed", "rejected", "verified", "cancelled_unsent",
         "cancelled_by_rebind"}
Row == [op : Nat, man : Nat, key : Keys, act : {"put", "check", "delete"},
        st : {"staged", "sent_uncertain", "terminal"}, cp : Ids, gen : Int, end : Ends]

TypeInv ==
  /\ source \in [id : Ids, file : Nat, items : SUBSET Keys]
  /\ backup \in [id : Ids, items : SUBSET Keys]
  /\ sidecar \in [state : Witness, id : Ids, pending : Ids, file : Nat, gen : Int,
                  paired : Ids, complete : Nat]
  /\ base \in [Keys -> [present : BOOLEAN, elig : Nat]]
  /\ rows \subseteq Row
  /\ snapshots \subseteq [man : Nat, items : SUBSET Keys]
  /\ phase \in {"idle", "cas", "replace", "fence", "save"}
  /\ stamp \in Nat /\ lost \subseteq Keys

\* Operations are numbered in turn, and a snapshot has the number of one.
OpInv ==
  /\ IsFiniteSet(OpIds) /\ OpIds = 1..Cardinality(OpIds)
  /\ \A s \in snapshots : s.man \in OpIds

\* Incarnations are never reused: what a rebind prepares is newer than the one
\* in force, and that is as new as any operation's.
IncarnationInv ==
  /\ source.id[1] <= stamp /\ backup.id[1] <= stamp
  /\ sidecar.id[1] <= stamp /\ sidecar.pending[1] <= stamp
  /\ source.id # NoId => source.id[1] > 0
  /\ backup.id # NoId => backup.id[1] > 0
  /\ sidecar.pending # NoId => sidecar.pending[1] > 0
  /\ \A r \in rows : r.cp[1] <= sidecar.id[1]
  /\ sidecar.state = "none" =>
       sidecar.file = 0 /\ sidecar.pending = NoId /\ rows = {} /\ snapshots = {}
         /\ phase \notin {"fence", "save"} /\ \A k \in Keys : base[k].elig = 0
  /\ sidecar.state # "none" => sidecar.id[1] > 0
  /\ sidecar.state = "checkpoint_pending" => sidecar.pending[1] = sidecar.id[1]
  /\ sidecar.pending # NoId /\ sidecar.pending[1] # sidecar.id[1] =>
       sidecar.id[1] < sidecar.pending[1]
  /\ phase \in {"fence", "save"} =>
       sidecar.pending # NoId /\ sidecar.pending[1] # sidecar.id[1]

\* Each replacement of the database is a file the sidecar has not seen.
FileInv == sidecar.file <= source.file /\ 0 < source.file

\* While the file is the one the sidecar saw, a lost key has no eligibility in its
\* incarnation, no operation that would give it one, and no manifest that would
\* give such an operation.
LostInv ==
  /\ lost \cap source.items = {}
  /\ source.file = sidecar.file => \A k \in lost :
       /\ base[k].elig # sidecar.id[1]
       /\ \A r \in rows : r.key = k /\ r.act # "delete" /\ Open(r)
            => r.cp[1] # sidecar.id[1]
       /\ \A s \in snapshots : k \in s.items =>
            \A r \in rows : r.man = s.man => r.cp[1] # sidecar.id[1]

\* At the start nothing is paired.
LEMMA MirrorStart == MirrorInit => TypeInv /\ OpInv /\ IncarnationInv /\ FileInv /\ LostInv
<1> SUFFICES ASSUME MirrorInit
             PROVE  TypeInv /\ OpInv /\ IncarnationInv /\ FileInv /\ LostInv
  OBVIOUS
<1>1. TypeInv /\ IncarnationInv /\ FileInv /\ LostInv
  BY DEF MirrorInit, TypeInv, Ids, NoId, Witness, IncarnationInv, FileInv, LostInv
<1>2. OpIds = {}
  BY DEF MirrorInit, OpIds
<1>3. OpInv
  BY <1>2, FS_EmptySet DEF OpInv, MirrorInit
<1> QED
  BY <1>1, <1>3

\* The next number is new.
LEMMA NextOpIsNew ==
  ASSUME OpInv
  PROVE  /\ NextOp \in Nat /\ NextOp \notin OpIds
         /\ IsFiniteSet(OpIds \cup {NextOp})
         /\ OpIds \cup {NextOp} = 1..Cardinality(OpIds \cup {NextOp})
<1> DEFINE n == Cardinality(OpIds)
<1>1. n \in Nat /\ IsFiniteSet(OpIds) /\ OpIds = 1..n /\ NextOp = n + 1
  BY FS_CardinalityType DEF OpInv, NextOp
<1>2. NextOp \notin OpIds
  <2> HIDE DEF n
  <2> QED BY <1>1
<1>3. IsFiniteSet(OpIds \cup {NextOp}) /\ Cardinality(OpIds \cup {NextOp}) = n + 1
  BY <1>1, <1>2, FS_AddElement
<1>4. OpIds \cup {NextOp} = 1..(n + 1)
  <2> HIDE DEF n
  <2> QED BY <1>1
<1> QED
  <2> HIDE DEF n
  <2> QED BY <1>1, <1>2, <1>3, <1>4

\* A row of the same operation: only what became of it may differ.
SameRow(q, r) ==
  /\ q \in Row /\ q.op = r.op /\ q.man = r.man /\ q.key = r.key /\ q.act = r.act
  /\ q.cp = r.cp /\ q.gen = r.gen /\ (Open(q) => Open(r))

\* No row comes or goes.
RowsKept ==
  /\ \A q \in rows' : \E r \in rows : SameRow(q, r)
  /\ \A r \in rows : \E q \in rows' : SameRow(q, r)

\* Sending and settling an operation keep its row.
LEMMA RowMoves ==
  ASSUME TypeInv, NEW r \in rows, NEW q, SameRow(q, r), rows' = (rows \ {r}) \cup {q}
  PROVE  RowsKept
BY DEF RowsKept, SameRow, TypeInv

LEMMA RowCloses ==
  ASSUME NEW r \in Row, NEW e \in Ends,
         NEW q, q = [r EXCEPT !.st = "terminal", !.end = e]
  PROVE  SameRow(q, r) /\ ~Open(q)
BY DEF Row, SameRow, Open

LEMMA RowsStay ==
  ASSUME TypeInv,
         \/ \E r \in rows, c \in BOOLEAN : Send(r, c)
         \/ \E r \in rows : \/ Acknowledge(r) \/ AcknowledgeRefusal(r)
                            \/ CloseUnsent(r) \/ VerifiedCheck(r)
         \/ RebindSave
  PROVE  RowsKept
<1>1. ASSUME NEW r \in rows, NEW c \in BOOLEAN, Send(r, c) PROVE RowsKept
  <2>1. [r EXCEPT !.st = "sent_uncertain"] =
          [op |-> r.op, man |-> r.man, key |-> r.key, act |-> r.act, st |-> "sent_uncertain",
           cp |-> r.cp, gen |-> r.gen, end |-> r.end]
    BY DEF TypeInv, Row
  <2>2. SameRow([r EXCEPT !.st = "sent_uncertain"], r)
    BY <1>1, <2>1 DEF SameRow, TypeInv, Row, Send
  <2> QED
    BY <1>1, <2>2, RowMoves DEF Send, Move
<1>2. ASSUME NEW r \in rows,
             Acknowledge(r) \/ AcknowledgeRefusal(r) \/ CloseUnsent(r) \/ VerifiedCheck(r)
      PROVE  RowsKept
  <2>1. \/ Close(r, "committed") \/ Close(r, "rejected")
        \/ Close(r, "cancelled_unsent") \/ Close(r, "verified")
    BY <1>2 DEF Acknowledge, AcknowledgeRefusal, CloseUnsent, VerifiedCheck
  <2>2. PICK e \in Ends : Close(r, e)
    BY <2>1 DEF Ends
  <2> DEFINE q == [r EXCEPT !.st = "terminal", !.end = e]
  <2>3. rows' = (rows \ {r}) \cup {q}
    BY <2>2 DEF Close, Move
  <2>4. SameRow(q, r)
    BY RowCloses DEF TypeInv
  <2> HIDE DEF q
  <2> QED
    BY <2>3, <2>4, RowMoves
<1>3. CASE RebindSave
  <2> DEFINE cl(r) == [r EXCEPT !.st = "terminal", !.end = "cancelled_by_rebind"]
             new(r) == IF Open(r) THEN cl(r) ELSE r
  <2>1. ASSUME NEW r \in rows PROVE SameRow(new(r), r)
    <3>1. r \in Row
      BY DEF TypeInv
    <3>2. SameRow(cl(r), r)
      BY <3>1, RowCloses DEF Ends
    <3>3. SameRow(r, r)
      BY <3>1 DEF SameRow
    <3> QED
      BY <3>2, <3>3
  <2>2. rows' = {new(r) : r \in rows}
    BY <1>3 DEF RebindSave
  <2> HIDE DEF new
  <2> QED
    BY <2>1, <2>2 DEF RowsKept
<1> QED
  BY <1>1, <1>2, <1>3

\* A rebind leaves no operation open.
LEMMA RebindClosesAll == ASSUME TypeInv, RebindSave PROVE \A r \in rows' : ~Open(r)
<1> DEFINE cl(r) == [r EXCEPT !.st = "terminal", !.end = "cancelled_by_rebind"]
<1>1. ASSUME NEW r \in rows PROVE ~Open(cl(r))
  BY RowCloses DEF TypeInv, Ends
<1>2. rows' = {IF Open(r) THEN cl(r) ELSE r : r \in rows}
  BY DEF RebindSave
<1> HIDE DEF cl
<1> QED
  BY <1>1, <1>2

\* Staging adds one row, under the next number, of what the source holds.
StagedRow(q, k) ==
  /\ rows' = rows \cup {q} /\ q.op = NextOp /\ q.man = NextOp /\ q.key = k
  /\ q.cp = Current /\ (q.act # "delete" => k \in source.items)

LEMMA RowStaged ==
  ASSUME TypeInv, OpInv, NEW k \in Keys, Stage(k)
  PROVE  \E q \in Row : StagedRow(q, k)
<1>1. PICK a \in Plan(k) : rows' = rows \cup {Unit(NextOp, NextOp, k, a)}
  BY DEF Stage
<1>2. a \in {"put", "check", "delete"} /\ (a # "delete" => k \in source.items)
  BY DEF Plan
<1>3. NextOp \in Nat /\ Current \in Ids
  BY NextOpIsNew DEF Current, TypeInv
<1>4. Unit(NextOp, NextOp, k, a) \in Row
  BY <1>2, <1>3 DEF Unit, Row, TypeInv, Ends
<1> QED
  BY <1>1, <1>2, <1>4 DEF Unit, StagedRow

\* Extending adds one to a manifest, of what that froze, as old as the rest of it.
ExtendedRow(q, s, k) ==
  /\ rows' = rows \cup {q} /\ q.op = NextOp /\ q.man = s.man /\ q.key = k
  /\ \E old \in rows : old.man = s.man /\ q.cp = old.cp
  /\ q.act # "delete" => k \in s.items

LEMMA RowExtended ==
  ASSUME TypeInv, OpInv, NEW s \in snapshots, NEW k \in Keys, Extend(s, k)
  PROVE  \E q \in Row : ExtendedRow(q, s, k)
<1>1. PICK old \in {r \in rows : r.man = s.man}, a \in {"put", "delete"} :
        /\ a = IF k \in s.items THEN "put" ELSE "delete"
        /\ rows' = rows \cup {[Unit(NextOp, s.man, k, a) EXCEPT !.cp = old.cp,
                                                               !.gen = old.gen]}
  BY DEF Extend
<1> DEFINE u == Unit(NextOp, s.man, k, a)
           q == [u EXCEPT !.cp = old.cp, !.gen = old.gen]
<1>2. NextOp \in Nat /\ Current \in Ids /\ s.man \in Nat /\ sidecar.gen \in Int
  BY NextOpIsNew DEF Current, TypeInv
<1>3. /\ u \in Row /\ u.op = NextOp /\ u.man = s.man /\ u.key = k /\ u.act = a
  BY <1>2 DEF Unit, Row, Ends
<1>4. old \in Row /\ old.man = s.man
  BY DEF TypeInv
<1>5. /\ q \in Row /\ q.op = u.op /\ q.man = u.man /\ q.key = u.key /\ q.act = u.act
      /\ q.cp = old.cp
  <2> HIDE DEF u
  <2> QED
    BY <1>3, <1>4 DEF Row
<1>6. rows' = rows \cup {q}
  BY <1>1
<1> HIDE DEF q, u
<1> QED
  BY <1>1, <1>3, <1>4, <1>5, <1>6 DEF ExtendedRow

\* What each step writes into the sidecar.
Bound == [state |-> "active", id |-> source.id, pending |-> sidecar.pending,
          file |-> source.file, gen |-> 1, paired |-> source.id,
          complete |-> sidecar.complete]
Announced == [state |-> "checkpoint_pending", id |-> sidecar.id,
              pending |-> <<source.id[1], stamp + 1>>, file |-> sidecar.file,
              gen |-> sidecar.gen, paired |-> sidecar.paired,
              complete |-> sidecar.complete]
Staged == [state |-> "active", id |-> Current, pending |-> NoId, file |-> sidecar.file,
           gen |-> sidecar.gen, paired |-> sidecar.paired, complete |-> sidecar.complete]
Recovering == [state |-> "recovery_required", id |-> sidecar.id, pending |-> Candidate,
               file |-> sidecar.file, gen |-> sidecar.gen, paired |-> sidecar.paired,
               complete |-> sidecar.complete]
Rebound == [state |-> "active", id |-> sidecar.pending, pending |-> NoId,
            file |-> source.file, gen |-> sidecar.gen + 1, paired |-> sidecar.pending,
            complete |-> sidecar.complete]

LEMMA SidecarFields ==
  ASSUME TypeInv
  PROVE  /\ sidecar.id \in Ids /\ sidecar.pending \in Ids /\ source.id \in Ids
         /\ source.file \in Nat /\ source.id[1] \in Nat
         /\ <<stamp + 1, stamp + 1>> \in Ids /\ <<source.id[1], stamp + 1>> \in Ids
         /\ Candidate \in Ids /\ Current \in Ids
BY DEF TypeInv, Ids, Candidate, Current

LEMMA SidecarBinds ==
  ASSUME TypeInv, Bind
  PROVE  sidecar' = Bound
BY DEF Bound, Bind, TypeInv

LEMMA SidecarAnnounces ==
  ASSUME TypeInv, Checkpoint
  PROVE  sidecar' = Announced
BY DEF Announced, Checkpoint, Announce, TypeInv

LEMMA SidecarStages ==
  ASSUME TypeInv, NEW k \in Keys, Stage(k)
  PROVE  sidecar' = Staged
BY DEF Staged, Stage, TypeInv

LEMMA SidecarRecovers ==
  ASSUME TypeInv, Rebind
  PROVE  sidecar' = Recovering
<1>1. MarkRecovery(sidecar) =
        [state |-> "recovery_required", id |-> sidecar.id, pending |-> sidecar.pending,
         file |-> sidecar.file, gen |-> sidecar.gen, paired |-> sidecar.paired,
         complete |-> sidecar.complete]
  BY DEF Rebind, MarkRecovery, TypeInv
<1> QED
  BY <1>1 DEF Recovering, Rebind

LEMMA SidecarRebinds ==
  ASSUME TypeInv, RebindSave
  PROVE  sidecar' = Rebound
BY DEF Rebound, RebindSave, TypeInv

\* Every variable keeps its type.
LEMMA TypeStep ==
  TypeInv /\ OpInv /\ [MirrorNext]_mirrorVars => TypeInv'
<1> SUFFICES ASSUME TypeInv, OpInv, [MirrorNext]_mirrorVars PROVE TypeInv'
  OBVIOUS
<1>1. ASSUME (\E k \in Keys : Remember(k) \/ Forget(k)) \/ BackUp PROVE TypeInv'
  BY <1>1 DEF Remember, Forget, BackUp, TypeInv, Ids, Row, Witness, NoId
<1>2. ASSUME PreparePair PROVE TypeInv'
  BY <1>2 DEF PreparePair, TypeInv, Ids, Row, Witness, NoId
<1>3. ASSUME Bind PROVE TypeInv'
  <2>1. sidecar' = Bound
    BY <1>3, SidecarBinds
  <2> QED
    BY <1>3, <2>1
    DEF Bind, Bound, TypeInv, Ids, NoId, Witness
<1>4. ASSUME Checkpoint PROVE TypeInv'
  <2>1. sidecar' = Announced
    BY <1>4, SidecarAnnounces
  <2> QED
    BY <1>4, <2>1, SidecarFields
    DEF Checkpoint, Announced, TypeInv, Ids, NoId, Witness
<1>5. ASSUME CheckpointCas \/ ResumeCheckpoint PROVE TypeInv'
  BY <1>5 DEF CheckpointCas, ResumeCheckpoint, TypeInv, Ids, Row, Witness, NoId
<1>6. ASSUME BeginReplace PROVE TypeInv'
  BY <1>6 DEF BeginReplace, MarkRecovery, TypeInv, Ids, Row, Witness, NoId
<1>7. ASSUME Restore \/ Reset \/ CopiedByHand PROVE TypeInv'
  BY <1>7 DEF Restore, Reset, CopiedByHand, Replaced, TypeInv, Ids, Row, Witness, NoId
<1>8. ASSUME Rebind PROVE TypeInv'
  <2>1. sidecar' = Recovering
    BY <1>8, SidecarRecovers
  <2>2. Candidate \in Ids
    BY SidecarFields
  <2>3. /\ stamp' \in Nat /\ phase' = "fence"
       /\ UNCHANGED <<source, backup, base, rows, snapshots, lost>>
    BY <1>8 DEF Rebind, TypeInv
  <2> QED
    BY <2>1, <2>2, <2>3
    DEF Recovering, TypeInv, Ids, NoId, Witness
<1>9. ASSUME RebindCas PROVE TypeInv'
  BY <1>9 DEF RebindCas, TypeInv, Ids, Row, Witness, NoId
<1>10. ASSUME RebindSave PROVE TypeInv'
  <2>1. RowsKept
    BY <1>10, RowsStay
  <2>2. sidecar' = Rebound
    BY <1>10, SidecarRebinds
  <2>3. rows' \subseteq Row
    BY <2>1 DEF RowsKept, SameRow
  <2>4. phase' = "idle" /\ UNCHANGED <<source, backup, snapshots, stamp, lost>>
    BY <1>10 DEF RebindSave
  <2>5. base' \in [Keys -> [present : BOOLEAN, elig : Nat]]
    BY <1>10 DEF RebindSave, TypeInv
  <2> QED
    BY <2>2, <2>3, <2>4, <2>5
    DEF Rebound, TypeInv, Ids, NoId, Witness
<1>11. ASSUME NEW k \in Keys, Stage(k) PROVE TypeInv'
  <2>1. PICK q \in Row : StagedRow(q, k)
    BY <1>11, RowStaged
  <2>2. sidecar' = Staged
    BY <1>11, SidecarStages
  <2>3. Current \in Ids /\ NextOp \in Nat
    BY SidecarFields, NextOpIsNew
  <2>4. rows' \subseteq Row
    BY <2>1 DEF StagedRow, TypeInv
  <2> QED
    BY <1>11, <2>2, <2>3, <2>4
    DEF Stage, Staged, TypeInv, Ids, NoId, Witness
<1>12. ASSUME NEW s \in snapshots, NEW k \in Keys, Extend(s, k) PROVE TypeInv'
  <2>1. PICK q \in Row : ExtendedRow(q, s, k)
    BY <1>12, RowExtended
  <2>2. rows' \subseteq Row
    BY <2>1 DEF ExtendedRow, TypeInv
  <2> QED
    BY <1>12, <2>2
    DEF Extend, TypeInv, Ids, NoId, Witness
<1>13. ASSUME NEW r \in rows, NEW c \in BOOLEAN, Send(r, c) PROVE TypeInv'
  <2>1. RowsKept
    BY <1>13, RowsStay
  <2>2. rows' \subseteq Row
    BY <2>1 DEF RowsKept, SameRow
  <2> QED
    BY <1>13, <2>2
    DEF Send, TypeInv, Ids, NoId, Witness
<1>14. ASSUME NEW r \in rows, Acknowledge(r) PROVE TypeInv'
  <2>1. RowsKept
    BY <1>14, RowsStay
  <2>2. rows' \subseteq Row
    BY <2>1 DEF RowsKept, SameRow
  <2>3. Baseline(r) \in [present : BOOLEAN, elig : Nat]
    BY DEF Baseline, TypeInv, Row, Ids
  <2> QED
    BY <1>14, <2>2, <2>3
    DEF Acknowledge, TypeInv, Ids, NoId, Witness
<1>15. ASSUME NEW r \in rows,
             AcknowledgeRefusal(r) \/ CloseUnsent(r) \/ VerifiedCheck(r) PROVE TypeInv'
  <2>1. RowsKept
    BY <1>15, RowsStay
  <2>2. rows' \subseteq Row
    BY <2>1 DEF RowsKept, SameRow
  <2> QED
    BY <1>15, <2>2
    DEF AcknowledgeRefusal, CloseUnsent, VerifiedCheck, TypeInv, Ids, NoId, Witness
<1>16. ASSUME NEW s \in snapshots, Cleanup(s) PROVE TypeInv'
  BY <1>16 DEF Cleanup, TypeInv, Ids, Row, Witness, NoId
<1>17. ASSUME HostSteps \/ CommandDies PROVE TypeInv'
  BY <1>17 DEF HostSteps, HostApplies, RequestLost, FencePartition, CommandDies, TypeInv, Ids,
     Row, Witness, NoId
<1>18. CASE UNCHANGED mirrorVars
  BY <1>18 DEF mirrorVars, TypeInv, Ids, Row, Witness, NoId
<1> QED
  BY <1>1, <1>2, <1>3, <1>4, <1>5, <1>6, <1>7, <1>8, <1>9, <1>10, <1>11, <1>12, <1>13,
     <1>14, <1>15, <1>16, <1>17, <1>18
  DEF MirrorNext, UserSteps, CommandSteps

\* Numbers are given out once, and kept while a snapshot needs them.
LEMMA OpStep ==
  TypeInv /\ OpInv /\ [MirrorNext]_mirrorVars => OpInv'
<1> SUFFICES ASSUME TypeInv, OpInv, [MirrorNext]_mirrorVars PROVE OpInv'
  OBVIOUS
<1>1. ASSUME (\E k \in Keys : Remember(k) \/ Forget(k)) \/ BackUp PROVE OpInv'
  BY <1>1 DEF Remember, Forget, BackUp, OpInv, OpIds
<1>2. ASSUME PreparePair PROVE OpInv'
  BY <1>2 DEF PreparePair, OpInv, OpIds
<1>3. ASSUME Bind PROVE OpInv'
  BY <1>3 DEF Bind, OpInv, OpIds
<1>4. ASSUME Checkpoint PROVE OpInv'
  BY <1>4 DEF Checkpoint, Announce, Continuity, OpInv, OpIds
<1>5. ASSUME CheckpointCas \/ ResumeCheckpoint PROVE OpInv'
  BY <1>5 DEF CheckpointCas, ResumeCheckpoint, OpInv, OpIds
<1>6. ASSUME BeginReplace PROVE OpInv'
  BY <1>6 DEF BeginReplace, MarkRecovery, OpInv, OpIds
<1>7. ASSUME Restore \/ Reset \/ CopiedByHand PROVE OpInv'
  BY <1>7 DEF Restore, Reset, CopiedByHand, Replaced, OpInv, OpIds
<1>8. ASSUME Rebind PROVE OpInv'
  BY <1>8 DEF Rebind, MarkRecovery, Candidate, OpInv, OpIds
<1>9. ASSUME RebindCas PROVE OpInv'
  BY <1>9 DEF RebindCas, OpInv, OpIds
<1>10. ASSUME RebindSave PROVE OpInv'
  <2>1. RowsKept
    BY <1>10, RowsStay
  <2>2. UNCHANGED <<outcomes, snapshots>>
    BY <1>10 DEF RebindSave
  <2>3. OpIds' = OpIds
    BY <2>1, <2>2 DEF RowsKept, SameRow, OpIds
  <2> QED
    BY <2>2, <2>3 DEF OpInv
<1>11. ASSUME NEW k \in Keys, Stage(k) PROVE OpInv'
  <2>1. PICK q \in Row : StagedRow(q, k)
    BY <1>11, RowStaged
  <2>2. OpIds' = OpIds \cup {NextOp}
    BY <1>11, <2>1 DEF Stage, StagedRow, OpIds
  <2>3. \A s \in snapshots' : s.man \in OpIds'
    BY <1>11, <2>2 DEF Stage, OpInv
  <2> QED
    BY <2>2, <2>3, NextOpIsNew DEF OpInv
<1>12. ASSUME NEW s \in snapshots, NEW k \in Keys, Extend(s, k) PROVE OpInv'
  <2>1. PICK q \in Row : ExtendedRow(q, s, k)
    BY <1>12, RowExtended
  <2>2. OpIds' = OpIds \cup {NextOp}
    BY <1>12, <2>1 DEF Extend, ExtendedRow, OpIds
  <2>3. \A t \in snapshots' : t.man \in OpIds'
    BY <1>12, <2>2 DEF Extend, OpInv
  <2> QED
    BY <2>2, <2>3, NextOpIsNew DEF OpInv
<1>13. ASSUME NEW r \in rows, NEW c \in BOOLEAN, Send(r, c) PROVE OpInv'
  <2>1. RowsKept
    BY <1>13, RowsStay
  <2>2. OpIds' = OpIds
    BY <1>13, <2>1 DEF RowsKept, SameRow, OpIds, Send
  <2> QED
    BY <1>13, <2>2 DEF OpInv, Send
<1>14. ASSUME NEW r \in rows, Acknowledge(r) PROVE OpInv'
  <2>1. RowsKept
    BY <1>14, RowsStay
  <2>2. DOMAIN outcomes' = DOMAIN outcomes \cup {r.op}
    BY <1>14 DEF Acknowledge
  <2>3. OpIds' = OpIds
    BY <2>1, <2>2 DEF RowsKept, SameRow, OpIds
  <2> QED
    BY <1>14, <2>3 DEF OpInv, Acknowledge
<1>15. ASSUME NEW r \in rows,
             AcknowledgeRefusal(r) \/ CloseUnsent(r) \/ VerifiedCheck(r) PROVE OpInv'
  <2>1. RowsKept
    BY <1>15, RowsStay
  <2>2. DOMAIN outcomes' \in {DOMAIN outcomes, DOMAIN outcomes \cup {r.op}}
    BY <1>15 DEF AcknowledgeRefusal, CloseUnsent, VerifiedCheck
  <2>3. OpIds' = OpIds
    BY <2>1, <2>2 DEF RowsKept, SameRow, OpIds
  <2> QED
    BY <1>15, <2>3 DEF OpInv, AcknowledgeRefusal, CloseUnsent, VerifiedCheck
<1>16. ASSUME NEW s \in snapshots, Cleanup(s) PROVE OpInv'
  <2>1. OpIds' = OpIds
    BY <1>16 DEF Cleanup, OpIds
  <2> QED
    BY <1>16, <2>1 DEF Cleanup, OpInv
<1>17. ASSUME HostSteps \/ CommandDies PROVE OpInv'
  BY <1>17 DEF HostSteps, HostApplies, RequestLost, FencePartition, CommandDies, OpInv, OpIds
<1>18. CASE UNCHANGED mirrorVars
  BY <1>18 DEF mirrorVars, OpInv, OpIds
<1> QED
  BY <1>1, <1>2, <1>3, <1>4, <1>5, <1>6, <1>7, <1>8, <1>9, <1>10, <1>11, <1>12, <1>13,
     <1>14, <1>15, <1>16, <1>17, <1>18
  DEF MirrorNext, UserSteps, CommandSteps

\* A new incarnation is newer than all before it.
LEMMA IncarnationStep ==
  TypeInv /\ OpInv /\ IncarnationInv /\ [MirrorNext]_mirrorVars => IncarnationInv'
<1> SUFFICES ASSUME TypeInv, OpInv, IncarnationInv, [MirrorNext]_mirrorVars PROVE IncarnationInv'
  OBVIOUS
<1>1. ASSUME (\E k \in Keys : Remember(k) \/ Forget(k)) \/ BackUp PROVE IncarnationInv'
  BY <1>1 DEF Remember, Forget, BackUp, TypeInv, Ids, Row, Witness, NoId, IncarnationInv
<1>2. ASSUME PreparePair PROVE IncarnationInv'
  BY <1>2 DEF PreparePair, TypeInv, Ids, Row, Witness, NoId, IncarnationInv
<1>3. ASSUME Bind PROVE IncarnationInv'
  <2>1. sidecar' = Bound
    BY <1>3, SidecarBinds
  <2>2. /\ phase = "idle" /\ sidecar.state = "none" /\ source.id # NoId
       /\ UNCHANGED <<source, backup, base, rows, snapshots, phase, stamp, lost>>
    BY <1>3 DEF Bind
  <2>3. source.id[1] > 0
    BY <2>2
    DEF IncarnationInv, TypeInv, Ids, NoId
  <2> QED
    BY <2>1, <2>2, <2>3
    DEF Bound, IncarnationInv, TypeInv, Ids, NoId, Witness
<1>4. ASSUME Checkpoint PROVE IncarnationInv'
  <2>1. sidecar' = Announced
    BY <1>4, SidecarAnnounces
  <2> QED
    BY <1>4, <2>1
    DEF Checkpoint, Continuity, Announced, IncarnationInv, TypeInv, Ids, NoId,
        Witness
<1>5. ASSUME CheckpointCas \/ ResumeCheckpoint PROVE IncarnationInv'
  BY <1>5 DEF CheckpointCas, ResumeCheckpoint, TypeInv, Ids, Row, Witness, NoId,
     IncarnationInv
<1>6. ASSUME BeginReplace PROVE IncarnationInv'
  BY <1>6 DEF BeginReplace, MarkRecovery, TypeInv, Ids, Row, Witness, NoId, IncarnationInv
<1>7. ASSUME Restore \/ Reset \/ CopiedByHand PROVE IncarnationInv'
  BY <1>7 DEF Restore, Reset, CopiedByHand, Replaced, TypeInv, Ids, Row, Witness, NoId,
     IncarnationInv
<1>8. ASSUME Rebind PROVE IncarnationInv'
  <2>1. sidecar' = Recovering
    BY <1>8, SidecarRecovers
  <2> QED
    BY <1>8, <2>1
    DEF Rebind, Recovering, Candidate, IncarnationInv, TypeInv, Ids, NoId, Witness
<1>9. ASSUME RebindCas PROVE IncarnationInv'
  BY <1>9 DEF RebindCas, TypeInv, Ids, Row, Witness, NoId, IncarnationInv
<1>10. ASSUME RebindSave PROVE IncarnationInv'
  <2>1. RowsKept
    BY <1>10, RowsStay
  <2>2. sidecar' = Rebound
    BY <1>10, SidecarRebinds
  <2>3. phase' = "idle" /\ UNCHANGED <<source, backup, snapshots, stamp, lost>>
    BY <1>10 DEF RebindSave
  <2>4. phase = "save" /\ base' = [k \in Keys |-> [base[k] EXCEPT !.elig = 0]]
    BY <1>10 DEF RebindSave
  <2>5. \A q \in rows' : q.cp[1] <= sidecar.id[1] /\ sidecar.id[1] \in Nat /\ q.cp[1] \in Nat
    BY <2>1 DEF RowsKept, SameRow, Row, IncarnationInv, TypeInv, Ids
  <2> QED
    BY <2>2, <2>3, <2>4, <2>5
    DEF Rebound, IncarnationInv, TypeInv, Ids, NoId, Witness
<1>11. ASSUME NEW k \in Keys, Stage(k) PROVE IncarnationInv'
  <2>1. PICK q \in Row : StagedRow(q, k)
    BY <1>11, RowStaged
  <2>2. sidecar' = Staged
    BY <1>11, SidecarStages
  <2> QED
    BY <1>11, <2>1, <2>2
    DEF Stage, StagedRow, Staged, Current, IncarnationInv, TypeInv, Ids, Row,
        Witness, NoId
<1>12. ASSUME NEW s \in snapshots, NEW k \in Keys, Extend(s, k) PROVE IncarnationInv'
  <2>1. PICK q \in Row : ExtendedRow(q, s, k)
    BY <1>12, RowExtended
  <2> QED
    BY <1>12, <2>1
    DEF Extend, ExtendedRow, IncarnationInv, TypeInv, Ids, Row, Witness, NoId
<1>13. ASSUME NEW r \in rows, NEW c \in BOOLEAN, Send(r, c) PROVE IncarnationInv'
  <2>1. RowsKept
    BY <1>13, RowsStay
  <2> QED
    BY <1>13, <2>1
    DEF RowsKept, SameRow, Send, Continuity, IncarnationInv, TypeInv, Ids, Row,
        Witness, NoId
<1>14. ASSUME NEW r \in rows, Acknowledge(r) PROVE IncarnationInv'
  <2>1. RowsKept
    BY <1>14, RowsStay
  <2> QED
    BY <1>14, <2>1
    DEF RowsKept, SameRow, Acknowledge, Baseline, IncarnationInv, TypeInv, Ids,
        Row, Witness, NoId
<1>15. ASSUME NEW r \in rows,
             AcknowledgeRefusal(r) \/ CloseUnsent(r) \/ VerifiedCheck(r) PROVE IncarnationInv'
  <2>1. RowsKept
    BY <1>15, RowsStay
  <2> QED
    BY <1>15, <2>1
    DEF RowsKept, SameRow, AcknowledgeRefusal, CloseUnsent, VerifiedCheck,
        IncarnationInv, TypeInv, Ids, Row, Witness, NoId
<1>16. ASSUME NEW s \in snapshots, Cleanup(s) PROVE IncarnationInv'
  <2>1. sidecar' \in [state : {sidecar.state}, id : {sidecar.id}, pending : {sidecar.pending},
                       file : {sidecar.file}, gen : Int, paired : Ids, complete : Nat]
    BY <1>16 DEF Cleanup, TypeInv
  <2>2. rows' \subseteq rows /\ snapshots' \subseteq snapshots
       /\ UNCHANGED <<source, backup, base, phase, stamp>>
    BY <1>16 DEF Cleanup
  <2> QED
    BY <2>1, <2>2
    DEF IncarnationInv, TypeInv, Ids, NoId, Witness
<1>17. ASSUME HostSteps \/ CommandDies PROVE IncarnationInv'
  <2>1. /\ UNCHANGED <<source, backup, sidecar, base, rows, snapshots, stamp>>
        /\ phase' = phase \/ phase' = "idle"
    BY <1>17 DEF HostSteps, HostApplies, RequestLost, FencePartition, CommandDies
  <2> QED
    BY <2>1 DEF IncarnationInv
<1>18. CASE UNCHANGED mirrorVars
  BY <1>18 DEF mirrorVars, TypeInv, Ids, Row, Witness, NoId, IncarnationInv
<1> QED
  BY <1>1, <1>2, <1>3, <1>4, <1>5, <1>6, <1>7, <1>8, <1>9, <1>10, <1>11, <1>12, <1>13,
     <1>14, <1>15, <1>16, <1>17, <1>18
  DEF MirrorNext, UserSteps, CommandSteps

\* Only a rebind or the first binding takes up the file that is there.
LEMMA FileStep ==
  TypeInv /\ FileInv /\ [MirrorNext]_mirrorVars => FileInv'
<1> SUFFICES ASSUME TypeInv, FileInv, [MirrorNext]_mirrorVars PROVE FileInv'
  OBVIOUS
<1>1. ASSUME (\E k \in Keys : Remember(k) \/ Forget(k)) \/ BackUp PROVE FileInv'
  BY <1>1 DEF Remember, Forget, BackUp, TypeInv, FileInv
<1>2. ASSUME PreparePair PROVE FileInv'
  BY <1>2 DEF PreparePair, TypeInv, FileInv
<1>3. ASSUME Bind PROVE FileInv'
  <2>1. sidecar' = Bound
    BY <1>3, SidecarBinds
  <2>2. /\ phase = "idle" /\ sidecar.state = "none" /\ source.id # NoId
       /\ UNCHANGED <<source, backup, base, rows, snapshots, phase, stamp, lost>>
    BY <1>3 DEF Bind
  <2> QED
    BY <2>1, <2>2
    DEF Bound, FileInv, TypeInv
<1>4. ASSUME Checkpoint PROVE FileInv'
  BY <1>4 DEF Checkpoint, Announce, Continuity, TypeInv, FileInv
<1>5. ASSUME CheckpointCas \/ ResumeCheckpoint PROVE FileInv'
  BY <1>5 DEF CheckpointCas, ResumeCheckpoint, TypeInv, FileInv
<1>6. ASSUME BeginReplace PROVE FileInv'
  BY <1>6 DEF BeginReplace, MarkRecovery, TypeInv, FileInv
<1>7. ASSUME Restore \/ Reset \/ CopiedByHand PROVE FileInv'
  BY <1>7 DEF Restore, Reset, CopiedByHand, Replaced, TypeInv, FileInv
<1>8. ASSUME Rebind PROVE FileInv'
  BY <1>8 DEF Rebind, MarkRecovery, Candidate, TypeInv, FileInv
<1>9. ASSUME RebindCas PROVE FileInv'
  BY <1>9 DEF RebindCas, TypeInv, FileInv
<1>10. ASSUME RebindSave PROVE FileInv'
  <2>1. sidecar' = Rebound
    BY <1>10, SidecarRebinds
  <2>2. phase' = "idle" /\ UNCHANGED <<source, backup, snapshots, stamp, lost>>
    BY <1>10 DEF RebindSave
  <2> QED
    BY <2>1, <2>2
    DEF Rebound, FileInv, TypeInv
<1>11. ASSUME NEW k \in Keys, Stage(k) PROVE FileInv'
  BY <1>11 DEF Stage, Unit, Current, Plan, TypeInv, FileInv
<1>12. ASSUME NEW s \in snapshots, NEW k \in Keys, Extend(s, k) PROVE FileInv'
  BY <1>12 DEF Extend, Unit, Current, TypeInv, FileInv
<1>13. ASSUME NEW r \in rows, NEW c \in BOOLEAN, Send(r, c) PROVE FileInv'
  BY <1>13 DEF Send, Move, Open, TypeInv, FileInv
<1>14. ASSUME NEW r \in rows, Acknowledge(r) PROVE FileInv'
  BY <1>14 DEF Acknowledge, Close, Move, Baseline, TypeInv, FileInv
<1>15. ASSUME NEW r \in rows,
             AcknowledgeRefusal(r) \/ CloseUnsent(r) \/ VerifiedCheck(r) PROVE FileInv'
  BY <1>15 DEF AcknowledgeRefusal, CloseUnsent, Unsent, VerifiedCheck, Close, Move, Open,
     TypeInv, FileInv
<1>16. ASSUME NEW s \in snapshots, Cleanup(s) PROVE FileInv'
  BY <1>16 DEF Cleanup, TypeInv, FileInv
<1>17. ASSUME HostSteps \/ CommandDies PROVE FileInv'
  BY <1>17 DEF HostSteps, HostApplies, RequestLost, FencePartition, CommandDies, TypeInv, FileInv
<1>18. CASE UNCHANGED mirrorVars
  BY <1>18 DEF mirrorVars, TypeInv, FileInv
<1> QED
  BY <1>1, <1>2, <1>3, <1>4, <1>5, <1>6, <1>7, <1>8, <1>9, <1>10, <1>11, <1>12, <1>13,
     <1>14, <1>15, <1>16, <1>17, <1>18
  DEF MirrorNext, UserSteps, CommandSteps

\* A lost key gets no eligibility in the incarnation that lost it.
LEMMA LostStep ==
  TypeInv /\ OpInv /\ IncarnationInv /\ FileInv /\ LostInv /\ [MirrorNext]_mirrorVars => LostInv'
<1> SUFFICES ASSUME TypeInv, OpInv, IncarnationInv, FileInv, LostInv, [MirrorNext]_mirrorVars PROVE LostInv'
  OBVIOUS
<1>1. ASSUME (\E k \in Keys : Remember(k) \/ Forget(k)) \/ BackUp PROVE LostInv'
  BY <1>1 DEF Remember, Forget, BackUp, TypeInv, Ids, Row, Witness, NoId, IncarnationInv,
     FileInv, LostInv
<1>2. ASSUME PreparePair PROVE LostInv'
  BY <1>2 DEF PreparePair, TypeInv, Ids, Row, Witness, NoId, IncarnationInv, FileInv,
     LostInv
<1>3. ASSUME Bind PROVE LostInv'
  <2>1. sidecar' = Bound
    BY <1>3, SidecarBinds
  <2>2. /\ phase = "idle" /\ sidecar.state = "none" /\ source.id # NoId
       /\ UNCHANGED <<source, backup, base, rows, snapshots, phase, stamp, lost>>
    BY <1>3 DEF Bind
  <2>3. source.id[1] > 0 /\ rows = {} /\ snapshots = {} /\ \A k \in Keys : base[k].elig = 0
    BY <2>2
    DEF IncarnationInv, TypeInv, Ids, NoId
  <2> QED
    BY <2>1, <2>2, <2>3
    DEF Bound, LostInv, TypeInv
<1>4. ASSUME Checkpoint PROVE LostInv'
  <2>1. sidecar' = Announced
    BY <1>4, SidecarAnnounces
  <2> QED
    BY <1>4, <2>1
    DEF Checkpoint, Announced, LostInv
<1>5. ASSUME CheckpointCas \/ ResumeCheckpoint PROVE LostInv'
  BY <1>5 DEF CheckpointCas, ResumeCheckpoint, TypeInv, Ids, Row, Witness, NoId,
     IncarnationInv, FileInv, LostInv
<1>6. ASSUME BeginReplace PROVE LostInv'
  BY <1>6 DEF BeginReplace, MarkRecovery, TypeInv, Ids, Row, Witness, NoId,
     IncarnationInv, FileInv, LostInv
<1>7. ASSUME Restore \/ Reset \/ CopiedByHand PROVE LostInv'
  BY <1>7 DEF Restore, Reset, CopiedByHand, Replaced, TypeInv, Ids, Row, Witness, NoId,
     IncarnationInv, FileInv, LostInv
<1>8. ASSUME Rebind PROVE LostInv'
  <2>1. sidecar' = Recovering
    BY <1>8, SidecarRecovers
  <2> QED
    BY <1>8, <2>1
    DEF Rebind, Recovering, LostInv
<1>9. ASSUME RebindCas PROVE LostInv'
  BY <1>9 DEF RebindCas, TypeInv, Ids, Row, Witness, NoId, IncarnationInv, FileInv,
     LostInv
<1>10. ASSUME RebindSave PROVE LostInv'
  <2>1. RowsKept
    BY <1>10, RowsStay
  <2>2. sidecar' = Rebound
    BY <1>10, SidecarRebinds
  <2>3. \A r \in rows' : ~Open(r)
    BY <1>10, RebindClosesAll
  <2>4. phase' = "idle" /\ UNCHANGED <<source, backup, snapshots, stamp, lost>>
    BY <1>10 DEF RebindSave
  <2>5. phase = "save" /\ base' = [k \in Keys |-> [base[k] EXCEPT !.elig = 0]]
    BY <1>10 DEF RebindSave
  <2>6. sidecar.id[1] \in Nat /\ sidecar.pending[1] \in Nat /\ sidecar.id[1] < sidecar.pending[1]
    BY <2>5 DEF IncarnationInv, TypeInv, Ids
  <2>7. \A q \in rows' : q.cp[1] \in Nat /\ q.cp[1] < sidecar.pending[1]
    BY <2>1, <2>6 DEF RowsKept, SameRow, Row, IncarnationInv, TypeInv, Ids
  <2> QED
    BY <2>2, <2>3, <2>4, <2>5, <2>6, <2>7
    DEF Rebound, LostInv, TypeInv
<1>11. ASSUME NEW k \in Keys, Stage(k) PROVE LostInv'
  <2>1. PICK q \in Row : StagedRow(q, k)
    BY <1>11, RowStaged
  <2>2. sidecar' = Staged
    BY <1>11, SidecarStages
  <2>3. /\ source.id = Current /\ source.file = sidecar.file
        /\ snapshots' = snapshots \cup {[man |-> NextOp, items |-> source.items]}
        /\ UNCHANGED <<source, base, lost>>
    BY <1>11 DEF Stage
  <2>4. Current[1] = sidecar.id[1]
    BY <1>11 DEF Stage, Current, IncarnationInv
  <2>5. \A s \in snapshots : s.man # NextOp
    BY NextOpIsNew DEF OpInv
  <2>6. \A r \in rows : r.man = NextOp => r.man \in Nat
    BY DEF TypeInv, Row
  <2> QED
    BY <2>1, <2>2, <2>3, <2>4, <2>5, <2>6
    DEF StagedRow, Staged, LostInv
<1>12. ASSUME NEW s \in snapshots, NEW k \in Keys, Extend(s, k) PROVE LostInv'
  <2>1. PICK q \in Row : ExtendedRow(q, s, k)
    BY <1>12, RowExtended
  <2> QED
    BY <1>12, <2>1
    DEF Extend, ExtendedRow, TypeInv, Ids, Row, Witness, NoId, IncarnationInv,
        FileInv, LostInv
<1>13. ASSUME NEW r \in rows, NEW c \in BOOLEAN, Send(r, c) PROVE LostInv'
  <2>1. RowsKept
    BY <1>13, RowsStay
  <2> QED
    BY <1>13, <2>1
    DEF RowsKept, SameRow, Send, TypeInv, Ids, Row, Witness, NoId, IncarnationInv,
        FileInv, LostInv
<1>14. ASSUME NEW r \in rows, Acknowledge(r) PROVE LostInv'
  <2>1. RowsKept
    BY <1>14, RowsStay
  <2> QED
    BY <1>14, <2>1
    DEF RowsKept, SameRow, Acknowledge, Baseline, Open, TypeInv, Ids, Row,
        Witness, NoId, IncarnationInv, FileInv, LostInv
<1>15. ASSUME NEW r \in rows,
             AcknowledgeRefusal(r) \/ CloseUnsent(r) \/ VerifiedCheck(r) PROVE LostInv'
  <2>1. RowsKept
    BY <1>15, RowsStay
  <2> QED
    BY <1>15, <2>1
    DEF RowsKept, SameRow, AcknowledgeRefusal, CloseUnsent, VerifiedCheck, TypeInv,
        Ids, Row, Witness, NoId, IncarnationInv, FileInv, LostInv
<1>16. ASSUME NEW s \in snapshots, Cleanup(s) PROVE LostInv'
  BY <1>16 DEF Cleanup, TypeInv, Ids, Row, Witness, NoId, IncarnationInv, FileInv, LostInv
<1>17. ASSUME HostSteps \/ CommandDies PROVE LostInv'
  BY <1>17
  DEF HostSteps, HostApplies, RequestLost, FencePartition, CommandDies, LostInv, Open
<1>18. CASE UNCHANGED mirrorVars
  BY <1>18 DEF mirrorVars, TypeInv, Ids, Row, Witness, NoId, IncarnationInv, FileInv,
     LostInv
<1> QED
  BY <1>1, <1>2, <1>3, <1>4, <1>5, <1>6, <1>7, <1>8, <1>9, <1>10, <1>11, <1>12, <1>13,
     <1>14, <1>15, <1>16, <1>17, <1>18
  DEF MirrorNext, UserSteps, CommandSteps

MirrorInv == TypeInv /\ OpInv /\ IncarnationInv /\ FileInv /\ LostInv

LEMMA MirrorInvariance == MirrorSpec => []MirrorInv
<1>1. MirrorInv /\ [MirrorNext]_mirrorVars => MirrorInv'
  BY TypeStep, OpStep, IncarnationStep, FileStep, LostStep DEF MirrorInv
<1> QED
  BY MirrorStart, <1>1, PTL DEF MirrorSpec, MirrorInv

\* Only Send puts a request on the wire.
LEMMA OnlySendAsks ==
  ASSUME MirrorNext, NEW q \in wire' \ wire
  PROVE  \E r \in rows, c \in BOOLEAN : Send(r, c) /\ q.key = r.key /\ q.act = r.act
<1>1. CASE \E r \in rows, c \in BOOLEAN : Send(r, c)
  BY <1>1 DEF Send
<1>2. CASE UserSteps
  BY <1>2 DEF UserSteps, BackUp, CopiedByHand, Remember, Forget
<1>3. CASE HostSteps
  BY <1>3 DEF HostSteps, HostApplies, RequestLost, FencePartition
<1>4. CASE \/ PreparePair \/ Bind \/ Checkpoint \/ CheckpointCas \/ ResumeCheckpoint
           \/ BeginReplace \/ Restore \/ Reset \/ Rebind \/ RebindCas \/ RebindSave \/ CommandDies
  BY <1>4
  DEF PreparePair, Bind, Checkpoint, CheckpointCas, ResumeCheckpoint, BeginReplace, Restore,
      Reset, Rebind, RebindCas, RebindSave, CommandDies
<1>5. CASE \/ \E k \in Keys : Stage(k)
           \/ \E s \in snapshots : Cleanup(s) \/ \E k \in Keys : Extend(s, k)
           \/ \E r \in rows : \/ Acknowledge(r) \/ AcknowledgeRefusal(r)
                              \/ CloseUnsent(r) \/ VerifiedCheck(r)
  BY <1>5 DEF Stage, Cleanup, Extend, Acknowledge, AcknowledgeRefusal, CloseUnsent, VerifiedCheck
<1> QED
  BY <1>1, <1>2, <1>3, <1>4, <1>5 DEF MirrorNext, CommandSteps

\* A key that vanished because the database was restored, reset or copied over is
\* never the subject of a delete that leaves for the host.
THEOREM NothingLostIsEverDeleted == MirrorSpec => NothingLostIsDeleted
<1>1. MirrorInv /\ [MirrorNext]_mirrorVars => [DeletesNothingLost]_mirrorVars
  <2> SUFFICES ASSUME MirrorInv, MirrorNext, NEW q \in wire' \ wire, q.act = "delete"
               PROVE  q.key \notin lost
    BY DEF DeletesNothingLost
  <2>1. PICK r \in rows, c \in BOOLEAN : Send(r, c) /\ q.key = r.key /\ q.act = r.act
    BY OnlySendAsks
  <2>2. source.id = sidecar.id /\ source.file = sidecar.file
    BY <2>1 DEF Send, Continuity
  <2>3. base[q.key].elig = sidecar.id[1]
    BY <2>1, <2>2 DEF Send, AuthorizeDelete
  <2> QED
    BY <2>2, <2>3 DEF MirrorInv, LostInv
<1> QED
  BY MirrorInvariance, <1>1, PTL DEF MirrorSpec, NothingLostIsDeleted

-----------------------------------------------------------------------------
\* What the sidecar says of the identity in the file, at each point of a command: a
\* checkpoint announces it, a rebind marks the sidecar before it writes the database.
HandInv ==
  /\ HandshakeExplains
  /\ phase = "cas" => sidecar.state = "checkpoint_pending"
  /\ phase \in {"fence", "save"} => sidecar.state = "recovery_required"
  /\ phase = "save" => source.id = sidecar.pending /\ \A r \in rows : r.st # "sent_uncertain"

Request == [op : Nat, key : Keys, act : {"put", "check", "delete"}, gen : Int, cp : Ids]
HostType ==
  /\ host \in [gen : [Partitions -> Int], cp : [Partitions -> Ids],
               items : SUBSET Keys, done : SUBSET Nat]
  /\ wire \subseteq Request

\* Of the requests under way, one that the host may still apply is an operation the
\* sidecar holds as uncertain; and a key has one open operation at most.
WireInv ==
  /\ sidecar.state = "none" => wire = {}
  /\ host.done \subseteq OpIds /\ \A w \in wire : w.op \in OpIds
  /\ \A r, q \in rows : r.op = q.op \/ (r.key = q.key /\ Open(r) /\ Open(q)) => r = q
  /\ \A r \in rows : r.gen <= sidecar.gen /\ (r.st = "staged" => r.op \notin host.done)
  /\ \A w \in wire : w.gen <= host.gen["data"]
  /\ \A w \in wire, r \in rows : w.op = r.op =>
       w.key = r.key /\ w.act = r.act /\ w.gen = r.gen /\ r.st # "staged"
  /\ \A w \in wire : w.op \notin host.done /\ w.act # "check" /\ w.gen = host.gen["data"]
        => \E r \in rows : r.op = w.op /\ r.st = "sent_uncertain"

\* An uncertain operation that was applied is what the host shows of its key, and only
\* a put or a delete of that kind makes the baseline differ from the host.
BaseInv ==
  /\ \A r \in rows : r.st = "sent_uncertain" /\ r.op \in host.done
        => (r.key \in host.items <=> r.act # "delete")
  /\ \A k \in Keys : \/ (base[k].present <=> k \in host.items)
                     \/ \E r \in rows : r.key = k /\ r.st = "sent_uncertain"
                                        /\ r.op \in host.done /\ r.act # "check"

LEMMA HostStart == MirrorInit => HostType /\ HandInv /\ WireInv /\ BaseInv
<1> SUFFICES ASSUME MirrorInit PROVE HostType /\ HandInv /\ WireInv /\ BaseInv
  OBVIOUS
<1>1. HostType
  BY DEF MirrorInit, HostType, Partitions, Ids, NoId
<1>2. HandInv
  BY DEF MirrorInit, HandInv, HandshakeExplains
<1>3. rows = {} /\ wire = {} /\ host.items = {} /\ host.done = {} /\ \A k \in Keys : base[k].present = FALSE
  BY DEF MirrorInit
<1>4. WireInv
  BY <1>3 DEF WireInv
<1>5. BaseInv
  BY <1>3 DEF BaseInv
<1> QED
  BY <1>1, <1>2, <1>4, <1>5

-----------------------------------------------------------------------------
\* The identity in the file is explained by the sidecar.
LEMMA HandStep ==
  TypeInv /\ OpInv /\ IncarnationInv /\ FileInv /\ HandInv /\ [MirrorNext]_mirrorVars => HandInv'
<1> SUFFICES ASSUME TypeInv, OpInv, IncarnationInv, FileInv, HandInv, [MirrorNext]_mirrorVars
             PROVE  HandInv'
  OBVIOUS
<1>0. sidecar.file \in Nat /\ source.file \in Nat
      /\ (sidecar.state = "none" => sidecar.file # source.file /\ phase \notin {"cas", "fence", "save"})
  BY DEF TypeInv, FileInv, IncarnationInv, HandInv
<1>1. ASSUME (\E k \in Keys : Remember(k) \/ Forget(k)) \/ BackUp PROVE HandInv'
  BY <1>1 DEF Remember, Forget, BackUp, HandInv, HandshakeExplains, TypeInv
<1>2. ASSUME PreparePair PROVE HandInv'
  BY <1>0, <1>2 DEF PreparePair, HandInv, HandshakeExplains, TypeInv
<1>3. ASSUME Bind PROVE HandInv'
  <2>1. sidecar' = Bound
    BY <1>3, SidecarBinds
  <2> QED
    BY <1>3, <2>1 DEF Bind, Bound, HandInv, HandshakeExplains
<1>4. ASSUME Checkpoint PROVE HandInv'
  <2>1. sidecar' = Announced
    BY <1>4, SidecarAnnounces
  <2> QED
    BY <1>4, <2>1 DEF Checkpoint, Continuity, Announced, HandInv, HandshakeExplains
<1>5. ASSUME CheckpointCas \/ ResumeCheckpoint PROVE HandInv'
  BY <1>5 DEF CheckpointCas, ResumeCheckpoint, HandInv, HandshakeExplains, TypeInv
<1>6. ASSUME BeginReplace PROVE HandInv'
  BY <1>0, <1>6 DEF BeginReplace, MarkRecovery, HandInv, HandshakeExplains, TypeInv
<1>7. ASSUME Restore \/ Reset \/ CopiedByHand PROVE HandInv'
  <2>1. source'.file = source.file + 1 /\ UNCHANGED <<sidecar, rows>> /\ phase' = "idle"
    BY <1>7 DEF Restore, Reset, CopiedByHand, Replaced
  <2> QED
    BY <1>0, <2>1 DEF HandInv, HandshakeExplains, FileInv
<1>8. ASSUME Rebind PROVE HandInv'
  <2>1. sidecar' = Recovering
    BY <1>8, SidecarRecovers
  <2> QED
    BY <1>8, <2>1 DEF Rebind, Recovering, HandInv, HandshakeExplains
<1>9. ASSUME RebindCas PROVE HandInv'
  BY <1>9 DEF RebindCas, HandInv, HandshakeExplains, TypeInv
<1>10. ASSUME RebindSave PROVE HandInv'
  <2>1. sidecar' = Rebound
    BY <1>10, SidecarRebinds
  <2> QED
    BY <1>10, <2>1 DEF RebindSave, Rebound, HandInv, HandshakeExplains
<1>11. ASSUME NEW k \in Keys, Stage(k) PROVE HandInv'
  <2>1. sidecar' = Staged
    BY <1>11, SidecarStages
  <2> QED
    BY <1>11, <2>1 DEF Stage, Staged, HandInv, HandshakeExplains
<1>12. ASSUME NEW s \in snapshots, NEW k \in Keys, Extend(s, k) PROVE HandInv'
  BY <1>12 DEF Extend, HandInv, HandshakeExplains
<1>13. ASSUME NEW r \in rows, NEW c \in BOOLEAN, Send(r, c) PROVE HandInv'
  BY <1>13 DEF Send, HandInv, HandshakeExplains
<1>14. ASSUME NEW r \in rows, Acknowledge(r) PROVE HandInv'
  <2>1. sidecar'.state = sidecar.state /\ sidecar'.id = sidecar.id
        /\ sidecar'.pending = sidecar.pending /\ sidecar'.file = sidecar.file
    BY <1>14 DEF Acknowledge, TypeInv
  <2> QED
    BY <1>14, <2>1 DEF Acknowledge, HandInv, HandshakeExplains
<1>15. ASSUME NEW r \in rows,
             AcknowledgeRefusal(r) \/ CloseUnsent(r) \/ VerifiedCheck(r) PROVE HandInv'
  BY <1>15 DEF AcknowledgeRefusal, CloseUnsent, VerifiedCheck, HandInv, HandshakeExplains
<1>16. ASSUME NEW s \in snapshots, Cleanup(s) PROVE HandInv'
  <2>1. sidecar'.state = sidecar.state /\ sidecar'.id = sidecar.id
        /\ sidecar'.pending = sidecar.pending /\ sidecar'.file = sidecar.file
    BY <1>16 DEF Cleanup, TypeInv
  <2> QED
    BY <1>16, <2>1 DEF Cleanup, HandInv, HandshakeExplains
<1>17. ASSUME HostSteps \/ CommandDies PROVE HandInv'
  BY <1>17 DEF HostSteps, HostApplies, RequestLost, FencePartition, CommandDies, HandInv,
     HandshakeExplains
<1>18. CASE UNCHANGED mirrorVars
  BY <1>18 DEF mirrorVars, HandInv, HandshakeExplains
<1> QED
  BY <1>1, <1>2, <1>3, <1>4, <1>5, <1>6, <1>7, <1>8, <1>9, <1>10, <1>11, <1>12, <1>13,
     <1>14, <1>15, <1>16, <1>17, <1>18
  DEF MirrorNext, UserSteps, CommandSteps

-----------------------------------------------------------------------------
\* Most steps leave the rows, the wire, the host and the baselines alone.
QuietSteps ==
  \/ UserSteps \/ PreparePair \/ Checkpoint \/ CheckpointCas \/ ResumeCheckpoint
  \/ BeginReplace \/ Restore \/ Reset \/ Rebind \/ RebindCas \/ CommandDies
  \/ UNCHANGED mirrorVars

LEMMA QuietStep ==
  ASSUME TypeInv, QuietSteps
  PROVE  /\ UNCHANGED <<rows, wire, host, base, outcomes>>
         /\ sidecar'.gen = sidecar.gen /\ (sidecar'.state = "none" => sidecar.state = "none")
<1>1. CASE UserSteps
  BY <1>1 DEF UserSteps, BackUp, CopiedByHand, Remember, Forget
<1>2. CASE PreparePair \/ CheckpointCas \/ ResumeCheckpoint \/ Restore \/ Reset \/ RebindCas
           \/ CommandDies
  BY <1>2 DEF PreparePair, CheckpointCas, ResumeCheckpoint, Restore, Reset, RebindCas, CommandDies
<1>3. CASE Checkpoint
  <2>1. sidecar' = Announced
    BY <1>3, SidecarAnnounces
  <2> QED
    BY <1>3, <2>1 DEF Checkpoint, Announced
<1>4. CASE BeginReplace
  BY <1>4 DEF BeginReplace, MarkRecovery, TypeInv
<1>5. CASE Rebind
  <2>1. sidecar' = Recovering
    BY <1>5, SidecarRecovers
  <2> QED
    BY <1>5, <2>1 DEF Rebind, Recovering
<1>6. CASE UNCHANGED mirrorVars
  BY <1>6 DEF mirrorVars
<1> QED
  BY <1>1, <1>2, <1>3, <1>4, <1>5, <1>6 DEF QuietSteps

\* The other steps, one by one.
LEMMA MirrorCases ==
  ASSUME [MirrorNext]_mirrorVars
  PROVE  \/ QuietSteps \/ Bind \/ RebindSave
         \/ \E k \in Keys : Stage(k)
         \/ \E s \in snapshots : Cleanup(s) \/ \E k \in Keys : Extend(s, k)
         \/ \E r \in rows : \/ \E c \in BOOLEAN : Send(r, c)
                            \/ Acknowledge(r) \/ AcknowledgeRefusal(r)
                            \/ CloseUnsent(r) \/ VerifiedCheck(r)
         \/ HostSteps
BY DEF MirrorNext, CommandSteps, QuietSteps

\* One row settled or sent.
Moves(r, q) == q \in Row /\ SameRow(q, r) /\ rows' = (rows \ {r}) \cup {q}

LEMMA SendMoves ==
  ASSUME TypeInv, NEW r \in rows, NEW c \in BOOLEAN, Send(r, c)
  PROVE  \E q : Moves(r, q) /\ q.st = "sent_uncertain"
<1> DEFINE q == [r EXCEPT !.st = "sent_uncertain"]
<1>1. r \in Row /\ Open(r)
  BY DEF TypeInv, Send
<1>2. q \in Row /\ SameRow(q, r) /\ q.st = "sent_uncertain"
  BY <1>1 DEF SameRow, Row
<1>3. rows' = (rows \ {r}) \cup {q}
  BY DEF Send, Move
<1> QED
  BY <1>2, <1>3 DEF Moves

LEMMA CloseMoves ==
  ASSUME TypeInv, NEW r \in rows,
         Acknowledge(r) \/ AcknowledgeRefusal(r) \/ CloseUnsent(r) \/ VerifiedCheck(r)
  PROVE  \E q : Moves(r, q) /\ q.st = "terminal"
<1>1. \/ Close(r, "committed") \/ Close(r, "rejected")
      \/ Close(r, "cancelled_unsent") \/ Close(r, "verified")
  BY DEF Acknowledge, AcknowledgeRefusal, CloseUnsent, VerifiedCheck
<1>2. PICK e \in Ends : Close(r, e)
  BY <1>1 DEF Ends
<1> DEFINE q == [r EXCEPT !.st = "terminal", !.end = e]
<1>3. rows' = (rows \ {r}) \cup {q}
  BY <1>2 DEF Close, Move
<1>4. SameRow(q, r) /\ q.st = "terminal"
  BY RowCloses DEF TypeInv, Row
<1> HIDE DEF q
<1> QED
  BY <1>3, <1>4 DEF Moves, SameRow

\* No number is forgotten.
LEMMA OpIdsGrow ==
  ASSUME TypeInv, OpInv, [MirrorNext]_mirrorVars
  PROVE  OpIds \subseteq OpIds'
<1>1. CASE QuietSteps \/ Bind \/ HostSteps
  <2>1. UNCHANGED <<rows, outcomes>>
    BY <1>1, QuietStep DEF Bind, HostSteps, HostApplies, RequestLost, FencePartition
  <2> QED
    BY <2>1 DEF OpIds
<1>2. CASE RebindSave
  <2>1. RowsKept /\ UNCHANGED outcomes
    BY <1>2, RowsStay DEF RebindSave
  <2> QED
    BY <2>1 DEF RowsKept, SameRow, OpIds
<1>3. ASSUME NEW k \in Keys, Stage(k) PROVE OpIds \subseteq OpIds'
  BY <1>3, RowStaged DEF StagedRow, OpIds, Stage
<1>4. ASSUME NEW s \in snapshots, NEW k \in Keys, Extend(s, k) PROVE OpIds \subseteq OpIds'
  <2>1. rows \subseteq rows' /\ UNCHANGED outcomes
    BY <1>4, RowExtended DEF ExtendedRow, Extend
  <2> QED
    BY <2>1 DEF OpIds
<1>5. ASSUME NEW s \in snapshots, Cleanup(s) PROVE OpIds \subseteq OpIds'
  BY <1>5 DEF Cleanup, OpIds
<1>6. ASSUME NEW r \in rows, (\E c \in BOOLEAN : Send(r, c)) \/ Acknowledge(r) \/ AcknowledgeRefusal(r)
             \/ CloseUnsent(r) \/ VerifiedCheck(r)
      PROVE  OpIds \subseteq OpIds'
  <2>1. RowsKept
    BY <1>6, RowsStay
  <2>2. DOMAIN outcomes \subseteq DOMAIN outcomes'
    BY <1>6 DEF Send, Acknowledge, AcknowledgeRefusal, CloseUnsent, VerifiedCheck
  <2> QED
    BY <2>1, <2>2 DEF RowsKept, SameRow, OpIds
<1> QED
  BY <1>1, <1>2, <1>3, <1>4, <1>5, <1>6, MirrorCases

\* The host and the wire keep their types.
LEMMA HostTypeStep ==
  TypeInv /\ HostType /\ [MirrorNext]_mirrorVars => HostType'
<1> SUFFICES ASSUME TypeInv, HostType, [MirrorNext]_mirrorVars PROVE HostType'
  OBVIOUS
<1>1. CASE UNCHANGED <<host, wire>>
  BY <1>1 DEF HostType
<1>2. CASE Bind
  <2> DEFINE g == [p \in Partitions |-> 1]
             c == [p \in Partitions |-> source.id]
  <2>1. g \in [Partitions -> Int] /\ c \in [Partitions -> Ids]
    BY SidecarFields
  <2>2. host' = [host EXCEPT !.gen = g, !.cp = c] /\ wire' = wire
    BY <1>2 DEF Bind
  <2> HIDE DEF g, c
  <2> QED
    BY <2>1, <2>2 DEF HostType
<1>3. ASSUME NEW r \in rows, NEW c \in BOOLEAN, Send(r, c) PROVE HostType'
  <2>1. r \in Row
    BY DEF TypeInv
  <2> QED
    BY <1>3, <2>1 DEF Send, HostType, Request, Row
<1>4. ASSUME NEW q \in wire, HostApplies(q) PROVE HostType'
  <2>1. q \in Request /\ "data" \in Partitions
    BY DEF HostType, Partitions
  <2>2. wire' \subseteq Request
    BY <1>4 DEF HostApplies, HostType
  <2>3. CASE host' = host
    BY <2>2, <2>3 DEF HostType
  <2>4. CASE host' = [host EXCEPT !.done = @ \cup {q.op}, !.cp["data"] = q.cp,
                        !.items = IF q.act = "delete" THEN @ \ {q.key} ELSE @ \cup {q.key}]
    BY <2>1, <2>2, <2>4 DEF HostType, Request
  <2> QED
    BY <1>4, <2>3, <2>4 DEF HostApplies
<1>5. ASSUME NEW q \in wire, RequestLost(q) PROVE HostType'
  BY <1>5 DEF RequestLost, HostType
<1>6. ASSUME NEW p \in Partitions, FencePartition(p) PROVE HostType'
  <2>1. sidecar.gen + 1 \in Int /\ sidecar.pending \in Ids
    BY SidecarFields DEF TypeInv
  <2> DEFINE g == [host.gen EXCEPT ![p] = sidecar.gen + 1]
             c == [host.cp EXCEPT ![p] = sidecar.pending]
  <2>2. g \in [Partitions -> Int] /\ c \in [Partitions -> Ids]
    BY <2>1 DEF HostType
  <2>3. host' = [host EXCEPT !.gen = g, !.cp = c] /\ wire' = wire
    BY <1>6 DEF FencePartition, HostType
  <2> HIDE DEF g, c
  <2> QED
    BY <2>2, <2>3 DEF HostType
<1>7. CASE QuietSteps
  BY <1>1, <1>7, QuietStep
<1>8. CASE \/ RebindSave \/ \E k \in Keys : Stage(k)
           \/ \E s \in snapshots : Cleanup(s) \/ \E k \in Keys : Extend(s, k)
           \/ \E r \in rows : \/ Acknowledge(r) \/ AcknowledgeRefusal(r)
                              \/ CloseUnsent(r) \/ VerifiedCheck(r)
  BY <1>1, <1>8 DEF RebindSave, Stage, Cleanup, Extend, Acknowledge, AcknowledgeRefusal,
     CloseUnsent, VerifiedCheck
<1> QED
  BY <1>2, <1>3, <1>4, <1>5, <1>6, <1>7, <1>8, MirrorCases DEF HostSteps

\* What the steps of the sidecar other than a pairing keep of it.
LEMMA SidecarKeeps ==
  ASSUME TypeInv,
         \/ \E k \in Keys : Stage(k)
         \/ \E s \in snapshots : Cleanup(s) \/ \E k \in Keys : Extend(s, k)
         \/ \E r \in rows : \/ \E c \in BOOLEAN : Send(r, c)
                            \/ Acknowledge(r) \/ AcknowledgeRefusal(r)
                            \/ CloseUnsent(r) \/ VerifiedCheck(r)
         \/ HostSteps
  PROVE  sidecar'.gen = sidecar.gen /\ (sidecar'.state = "none" => sidecar.state = "none")
<1>1. CASE \E k \in Keys : Stage(k)
  BY <1>1, SidecarStages DEF Staged
<1>2. CASE \/ \E s \in snapshots : Cleanup(s)
           \/ \E r \in rows : Acknowledge(r)
  BY <1>2 DEF Cleanup, Acknowledge, TypeInv
<1>3. CASE \/ \E s \in snapshots, k \in Keys : Extend(s, k)
           \/ \E r \in rows : \/ \E c \in BOOLEAN : Send(r, c) \/ AcknowledgeRefusal(r)
                              \/ CloseUnsent(r) \/ VerifiedCheck(r)
           \/ HostSteps
  BY <1>3 DEF Extend, Send, AcknowledgeRefusal, CloseUnsent, VerifiedCheck, HostSteps, HostApplies,
     RequestLost, FencePartition
<1> QED
  BY <1>1, <1>2, <1>3

\* A row that is settled, or sent again: the requests of its number are still explained.
LEMMA MovesKeepWire ==
  ASSUME TypeInv, HostType, OpInv, WireInv, NEW r \in rows, NEW q, Moves(r, q), q.st # "staged",
         host' = host, OpIds \subseteq OpIds', sidecar'.gen = sidecar.gen,
         sidecar'.state # "none" \/ wire' = {},
         \A w \in wire' : w \in wire \/ (w.op = r.op /\ w.key = r.key /\ w.act = r.act
                                         /\ w.gen = r.gen /\ w.gen <= host.gen["data"]),
         \/ q.st = "sent_uncertain"
         \/ \A w \in wire' : w.op = r.op =>
              w.op \in host.done \/ w.act = "check" \/ w.gen # host.gen["data"]
  PROVE  WireInv'
<1>1. /\ \A a \in rows' : a = q \/ (a \in rows /\ a # r)
      /\ q.op = r.op /\ q.key = r.key /\ q.act = r.act /\ q.gen = r.gen /\ (Open(q) => Open(r))
  BY DEF Moves, SameRow
<1>2. \A a \in rows : a.op = r.op \/ (a.key = r.key /\ Open(a) /\ Open(r)) => a = r
  BY DEF WireInv
<1>3. \A a, b \in rows' : a.op = b.op \/ (a.key = b.key /\ Open(a) /\ Open(b)) => a = b
  BY <1>1, <1>2 DEF WireInv
<1>4. \A a \in rows' : a.gen <= sidecar'.gen /\ (a.st = "staged" => a.op \notin host'.done)
  BY <1>1 DEF WireInv
<1>5. r.op \in OpIds
  BY DEF OpIds
<1>6. host'.done \subseteq OpIds' /\ \A w \in wire' : w.op \in OpIds' /\ w.gen <= host'.gen["data"]
  BY <1>5 DEF WireInv
<1>7. \A w \in wire', a \in rows' : w.op = a.op =>
        w.key = a.key /\ w.act = a.act /\ w.gen = a.gen /\ a.st # "staged"
  BY <1>1, <1>2 DEF WireInv
<1>8. ASSUME NEW w \in wire', w.op \notin host'.done, w.act # "check", w.gen = host'.gen["data"]
      PROVE  \E a \in rows' : a.op = w.op /\ a.st = "sent_uncertain"
  <2>1. CASE w.op = r.op
    <3>1. q.st = "sent_uncertain" /\ q \in rows'
      BY <1>8, <2>1 DEF Moves
    <3> QED
      BY <1>1, <2>1, <3>1
  <2>2. CASE w.op # r.op
    <3>1. PICK a \in rows : a.op = w.op /\ a.st = "sent_uncertain"
      BY <1>8, <2>2 DEF WireInv
    <3> QED
      BY <2>2, <3>1 DEF Moves
  <2> QED
    BY <2>1, <2>2
<1> QED
  BY <1>3, <1>4, <1>6, <1>7, <1>8 DEF WireInv

\* A request that the host may apply is one the sidecar still holds as uncertain.
LEMMA WireStep ==
  ASSUME TypeInv, OpInv, IncarnationInv, HandInv, HostType, WireInv, BaseInv,
         [MirrorNext]_mirrorVars
  PROVE  WireInv'
<1>0. OpIds \subseteq OpIds'
  BY OpIdsGrow
<1>1. CASE QuietSteps
  <2>1. UNCHANGED <<rows, wire, host>> /\ sidecar'.gen = sidecar.gen
        /\ (sidecar'.state = "none" => sidecar.state = "none")
    BY <1>1, QuietStep
  <2> QED
    BY <1>0, <2>1 DEF WireInv, Open
<1>2. CASE Bind
  <2>1. rows = {} /\ wire = {} /\ UNCHANGED <<rows, wire>> /\ host'.done = host.done
    BY <1>2 DEF Bind, IncarnationInv, WireInv, HostType
  <2> QED
    BY <1>0, <2>1 DEF WireInv
<1>3. CASE RebindSave
  <2>1. sidecar' = Rebound /\ RowsKept /\ \A r \in rows' : ~Open(r)
    BY <1>3, SidecarRebinds, RowsStay, RebindClosesAll
  <2>2. UNCHANGED <<wire, host>> /\ \A r \in rows : r.st # "sent_uncertain"
    BY <1>3 DEF RebindSave, HandInv
  <2>3. sidecar'.gen = sidecar.gen + 1 /\ sidecar.gen \in Int /\ sidecar'.state # "none"
    BY <2>1 DEF Rebound, TypeInv
  <2> DEFINE new(r) == IF Open(r) THEN [r EXCEPT !.st = "terminal", !.end = "cancelled_by_rebind"]
                       ELSE r
  <2>4. rows' = {new(r) : r \in rows}
    BY <1>3 DEF RebindSave
  <2>5. ASSUME NEW r \in rows PROVE SameRow(new(r), r) /\ r \in Row
    <3>1. r \in Row /\ "cancelled_by_rebind" \in Ends
      BY DEF TypeInv, Ends
    <3>2. SameRow([r EXCEPT !.st = "terminal", !.end = "cancelled_by_rebind"], r)
      BY <3>1, RowCloses
    <3>3. SameRow(r, r)
      BY <3>1 DEF SameRow
    <3> QED
      BY <3>1, <3>2, <3>3
  <2> HIDE DEF new
  <2>6. \A a, b \in rows' : a.op = b.op => a = b
    BY <2>4, <2>5 DEF SameRow, WireInv
  <2>7. \A a \in rows' : a.gen <= sidecar'.gen /\ a.st # "staged"
    BY <2>1, <2>3, <2>4, <2>5 DEF SameRow, WireInv, Open, Row
  <2>8. \A w \in wire, a \in rows' : w.op = a.op => w.key = a.key /\ w.act = a.act /\ w.gen = a.gen
    BY <2>4, <2>5 DEF SameRow, WireInv
  <2>9. host'.done \subseteq OpIds' /\ \A w \in wire' : w.op \in OpIds' /\ w.gen <= host'.gen["data"]
    BY <1>0, <2>2 DEF WireInv
  <2>10. \A w \in wire' : ~(w.op \notin host'.done /\ w.act # "check" /\ w.gen = host'.gen["data"])
    BY <2>2 DEF WireInv
  <2> QED
    BY <2>1, <2>2, <2>3, <2>6, <2>7, <2>8, <2>9, <2>10 DEF WireInv
<1>4. ASSUME NEW q \in Row, rows' = rows \cup {q}, q.op = NextOp, q.st = "staged", q.gen <= sidecar.gen,
             ~Busy(q.key), UNCHANGED <<wire, host>>, sidecar'.gen = sidecar.gen,
             sidecar'.state = "none" => sidecar.state = "none"
      PROVE  WireInv'
  <2>1. NextOp \notin OpIds /\ \A r \in rows : r.op \in OpIds
    BY NextOpIsNew DEF OpIds
  <2>2. \A r \in rows : ~(Open(r) /\ r.key = q.key)
    BY <1>4 DEF Busy
  <2>3. \A a, b \in rows' : a.op = b.op \/ (a.key = b.key /\ Open(a) /\ Open(b)) => a = b
    BY <1>4, <2>1, <2>2 DEF WireInv
  <2>4. \A a \in rows' : a.gen <= sidecar'.gen /\ (a.st = "staged" => a.op \notin host'.done)
    BY <1>4, <2>1 DEF WireInv
  <2>5. \A w \in wire', a \in rows' : w.op = a.op =>
          w.key = a.key /\ w.act = a.act /\ w.gen = a.gen /\ a.st # "staged"
    BY <1>4, <2>1 DEF WireInv
  <2>6. host'.done \subseteq OpIds' /\ \A w \in wire' : w.op \in OpIds' /\ w.gen <= host'.gen["data"]
    BY <1>0, <1>4 DEF WireInv
  <2>7. \A w \in wire' : w.op \notin host'.done /\ w.act # "check" /\ w.gen = host'.gen["data"]
          => \E r \in rows' : r.op = w.op /\ r.st = "sent_uncertain"
    BY <1>4 DEF WireInv
  <2>8. sidecar'.state = "none" => wire' = {}
    BY <1>4 DEF WireInv
  <2> QED
    BY <2>3, <2>4, <2>5, <2>6, <2>7, <2>8 DEF WireInv
<1>5. ASSUME NEW k \in Keys, Stage(k) PROVE WireInv'
  <2>1. PICK a \in Plan(k) : rows' = rows \cup {Unit(NextOp, NextOp, k, a)}
    BY <1>5 DEF Stage
  <2>2. a \in {"put", "check", "delete"} /\ NextOp \in Nat /\ Current \in Ids /\ sidecar.gen \in Int
    BY NextOpIsNew DEF Plan, Current, TypeInv
  <2> DEFINE q == Unit(NextOp, NextOp, k, a)
  <2>3. q \in Row /\ q.op = NextOp /\ q.st = "staged" /\ q.gen <= sidecar.gen /\ q.key = k
    BY <2>2 DEF Unit, Row, Ends
  <2>4. UNCHANGED <<wire, host>> /\ ~Busy(k)
    BY <1>5 DEF Stage
  <2>5. rows' = rows \cup {q}
    BY <2>1
  <2> HIDE DEF q
  <2> QED
    BY <1>4, <1>5, <2>3, <2>4, <2>5, SidecarKeeps
<1>6. ASSUME NEW s \in snapshots, NEW k \in Keys, Extend(s, k) PROVE WireInv'
  <2>1. PICK old \in {r \in rows : r.man = s.man}, a \in {"put", "delete"} :
          rows' = rows \cup {[Unit(NextOp, s.man, k, a) EXCEPT !.cp = old.cp, !.gen = old.gen]}
    BY <1>6 DEF Extend
  <2> DEFINE u == Unit(NextOp, s.man, k, a)
             q == [u EXCEPT !.cp = old.cp, !.gen = old.gen]
  <2>2. NextOp \in Nat /\ Current \in Ids /\ s.man \in Nat /\ sidecar.gen \in Int
    BY NextOpIsNew DEF Current, TypeInv
  <2>3. u \in Row /\ u.op = NextOp /\ u.st = "staged" /\ u.key = k
    BY <2>2 DEF Unit, Row, Ends
  <2>4. old \in Row /\ old.gen <= sidecar.gen
    BY DEF TypeInv, WireInv
  <2>5. q \in Row /\ q.op = NextOp /\ q.st = "staged" /\ q.gen <= sidecar.gen /\ q.key = k
    <3> HIDE DEF u
    <3> QED
      BY <2>3, <2>4 DEF Row
  <2>6. UNCHANGED <<wire, host>> /\ ~Busy(k)
    BY <1>6 DEF Extend
  <2>7. rows' = rows \cup {q}
    BY <2>1
  <2> HIDE DEF q, u
  <2> QED
    BY <1>4, <1>6, <2>5, <2>6, <2>7, SidecarKeeps
<1>7. ASSUME NEW r \in rows, NEW c \in BOOLEAN, Send(r, c) PROVE WireInv'
  <2>1. PICK q : Moves(r, q) /\ q.st = "sent_uncertain"
    BY <1>7, SendMoves
  <2>2. /\ wire' = wire \cup {[op |-> r.op, key |-> r.key, act |-> r.act, gen |-> r.gen, cp |-> r.cp]}
        /\ host' = host /\ sidecar' = sidecar /\ sidecar.state = "active"
        /\ host.gen["data"] = sidecar.gen
    BY <1>7 DEF Send, Continuity
  <2>3. r.gen <= host.gen["data"]
    BY <2>2 DEF WireInv
  <2>4. \A w \in wire' : w \in wire \/ (w.op = r.op /\ w.key = r.key /\ w.act = r.act
                                        /\ w.gen = r.gen /\ w.gen <= host.gen["data"])
    BY <2>2, <2>3
  <2> QED
    BY <1>0, <2>1, <2>2, <2>4, MovesKeepWire
<1>8. ASSUME NEW r \in rows,
             Acknowledge(r) \/ AcknowledgeRefusal(r) \/ CloseUnsent(r) \/ VerifiedCheck(r)
      PROVE  WireInv'
  <2>1. PICK q : Moves(r, q) /\ q.st = "terminal"
    BY <1>8, CloseMoves
  <2>2. UNCHANGED <<wire, host>> /\ sidecar'.gen = sidecar.gen
        /\ (sidecar'.state = "none" => sidecar.state = "none")
    BY <1>8, SidecarKeeps DEF Acknowledge, AcknowledgeRefusal, CloseUnsent, VerifiedCheck
  <2>3. ASSUME NEW w \in wire, w.op = r.op
        PROVE  w.op \in host.done \/ w.act = "check" \/ w.gen # host.gen["data"]
    <3>1. w.act = r.act /\ w.gen = r.gen /\ r.st # "staged"
      BY <2>3 DEF WireInv
    <3> QED
      BY <1>8, <2>3, <3>1 DEF Acknowledge, AcknowledgeRefusal, CloseUnsent, VerifiedCheck,
         Observed, Fenced, Unsent
  <2>4. sidecar'.state # "none" \/ wire' = {}
    BY <2>2 DEF WireInv
  <2> QED
    BY <1>0, <2>1, <2>2, <2>3, <2>4, MovesKeepWire
<1>9. ASSUME NEW s \in snapshots, Cleanup(s) PROVE WireInv'
  <2>1. UNCHANGED <<wire, host>> /\ sidecar'.gen = sidecar.gen
        /\ (sidecar'.state = "none" => sidecar.state = "none")
    BY <1>9, SidecarKeeps DEF Cleanup
  <2>2. rows' \subseteq rows /\ \A r \in rows : r.st = "sent_uncertain" => r \in rows'
    BY <1>9 DEF Cleanup, Open
  <2>3. \A w \in wire : w.op \notin host.done /\ w.act # "check" /\ w.gen = host.gen["data"]
          => \E r \in rows' : r.op = w.op /\ r.st = "sent_uncertain"
    BY <2>2 DEF WireInv
  <2> QED
    BY <1>0, <2>1, <2>2, <2>3 DEF WireInv
<1>10. ASSUME NEW w \in wire, HostApplies(w) PROVE WireInv'
  <2>1. wire' \subseteq wire /\ UNCHANGED <<rows, sidecar>>
    BY <1>10 DEF HostApplies
  <2>2. host'.gen = host.gen /\ host'.done \in {host.done, host.done \cup {w.op}}
        /\ host.done \subseteq host'.done
    BY <1>10 DEF HostApplies, HostType
  <2>3. \A r \in rows : r.st = "staged" => r.op # w.op
    BY DEF WireInv
  <2>4. w.op \in OpIds
    BY DEF WireInv
  <2>5. \A r \in rows' : r.gen <= sidecar'.gen /\ (r.st = "staged" => r.op \notin host'.done)
    BY <2>1, <2>2, <2>3 DEF WireInv
  <2>6. host'.done \subseteq OpIds' /\ \A v \in wire' : v.op \in OpIds' /\ v.gen <= host'.gen["data"]
    BY <1>0, <2>1, <2>2, <2>4 DEF WireInv
  <2>7. \A v \in wire' : v.op \notin host'.done /\ v.act # "check" /\ v.gen = host'.gen["data"]
          => \E r \in rows' : r.op = v.op /\ r.st = "sent_uncertain"
    BY <2>1, <2>2 DEF WireInv
  <2> QED
    BY <2>1, <2>5, <2>6, <2>7 DEF WireInv, Open
<1>11. ASSUME NEW w \in wire, RequestLost(w) PROVE WireInv'
  BY <1>0, <1>11 DEF RequestLost, WireInv, Open
<1>12. ASSUME NEW p \in Partitions, FencePartition(p) PROVE WireInv'
  <2>1. UNCHANGED <<rows, wire, sidecar>> /\ host'.done = host.done /\ host'.items = host.items
    BY <1>12 DEF FencePartition, HostType
  <2>2. /\ host.gen["data"] \in Int /\ sidecar.gen \in Int
        /\ host'.gen["data"] = host.gen["data"]
           \/ (host.gen["data"] = sidecar.gen /\ host'.gen["data"] = sidecar.gen + 1)
    BY <1>12 DEF FencePartition, HostType, TypeInv, Partitions
  <2>3. \A w \in wire : w.gen \in Int
    BY DEF HostType, Request
  <2>4. \A w \in wire' : w.gen <= host'.gen["data"]
    BY <2>1, <2>2, <2>3 DEF WireInv
  <2>5. \A w \in wire' : w.op \notin host'.done /\ w.act # "check" /\ w.gen = host'.gen["data"]
          => \E r \in rows' : r.op = w.op /\ r.st = "sent_uncertain"
    BY <2>1, <2>2, <2>3 DEF WireInv
  <2> QED
    BY <1>0, <2>1, <2>4, <2>5 DEF WireInv, Open
<1> QED
  BY <1>1, <1>2, <1>3, <1>5, <1>6, <1>7, <1>8, <1>9, <1>10, <1>11, <1>12, MirrorCases
  DEF HostSteps

\* Settling or sending an operation keeps the baselines explained, when it leaves the host
\* alone and an applied operation becomes its key's baseline.
LEMMA MovesKeepBase ==
  ASSUME TypeInv, WireInv, BaseInv, NEW r \in rows, NEW q, Moves(r, q), host' = host,
         q.st = "sent_uncertain" => r.op \notin host.done \/ r.st = "sent_uncertain",
         \A k \in Keys \ {r.key} : base'[k].present = base[k].present,
         \/ base'[r.key].present <=> r.key \in host.items
         \/ base'[r.key].present = base[r.key].present
            /\ (q.st = "sent_uncertain" \/ r.act = "check" \/ r.op \notin host.done
                \/ r.st # "sent_uncertain")
  PROVE  BaseInv'
<1>1. /\ \A a \in rows' : a = q \/ (a \in rows /\ a # r)
      /\ \A a \in rows : a = r \/ a \in rows'
      /\ q \in rows' /\ q.op = r.op /\ q.key = r.key /\ q.act = r.act
  BY DEF Moves, SameRow
<1>2. \A a \in rows' : a.st = "sent_uncertain" /\ a.op \in host'.done
        => (a.key \in host'.items <=> a.act # "delete")
  BY <1>1 DEF BaseInv
<1>3. ASSUME NEW k \in Keys
      PROVE  \/ (base'[k].present <=> k \in host'.items)
             \/ \E a \in rows' : a.key = k /\ a.st = "sent_uncertain"
                                 /\ a.op \in host'.done /\ a.act # "check"
  <2>1. CASE base[k].present <=> k \in host.items
    BY <2>1
  <2>2. ASSUME NEW a \in rows, a.key = k, a.st = "sent_uncertain", a.op \in host.done,
               a.act # "check"
        PROVE  \/ (base'[k].present <=> k \in host'.items)
               \/ \E b \in rows' : b.key = k /\ b.st = "sent_uncertain"
                                   /\ b.op \in host'.done /\ b.act # "check"
    <3>1. CASE a # r
      BY <1>1, <2>2, <3>1
    <3>2. CASE a = r /\ q.st = "sent_uncertain"
      BY <1>1, <2>2, <3>2
    <3>3. CASE a = r /\ q.st # "sent_uncertain"
      BY <2>2, <3>3
    <3> QED
      BY <3>1, <3>2, <3>3
  <2> QED
    BY <2>1, <2>2 DEF BaseInv
<1> QED
  BY <1>2, <1>3 DEF BaseInv

\* The baselines say what the host holds, but for what is uncertain.
LEMMA BaseStep ==
  ASSUME TypeInv, OpInv, IncarnationInv, HandInv, HostType, WireInv, BaseInv,
         [MirrorNext]_mirrorVars
  PROVE  BaseInv'
<1>0. \A k \in Keys : base[k] \in [present : BOOLEAN, elig : Nat]
  BY DEF TypeInv
<1>1. CASE QuietSteps
  <2>1. UNCHANGED <<rows, host, base>>
    BY <1>1, QuietStep
  <2> QED
    BY <2>1 DEF BaseInv
<1>2. CASE Bind
  <2>1. UNCHANGED <<rows, base>> /\ host'.done = host.done /\ host'.items = host.items
    BY <1>2 DEF Bind, HostType
  <2> QED
    BY <2>1 DEF BaseInv
<1>3. CASE RebindSave
  <2>1. host' = host /\ (\A r \in rows : r.st # "sent_uncertain") /\ \A r \in rows' : ~Open(r)
    BY <1>3, RebindClosesAll DEF RebindSave, HandInv
  <2>2. \A k \in Keys : base'[k].present = base[k].present
    BY <1>0, <1>3 DEF RebindSave
  <2> QED
    BY <2>1, <2>2 DEF BaseInv, Open
<1>4. ASSUME NEW q, rows' = rows \cup {q}, q.st = "staged", UNCHANGED <<host, base>>
      PROVE  BaseInv'
  BY <1>4 DEF BaseInv
<1>5. ASSUME NEW k \in Keys, Stage(k) PROVE BaseInv'
  <2>1. PICK a \in Plan(k) : rows' = rows \cup {Unit(NextOp, NextOp, k, a)}
    BY <1>5 DEF Stage
  <2>2. Unit(NextOp, NextOp, k, a).st = "staged" /\ UNCHANGED <<host, base>>
    BY <1>5 DEF Unit, Stage
  <2> QED
    BY <1>4, <2>1, <2>2
<1>6. ASSUME NEW s \in snapshots, NEW k \in Keys, Extend(s, k) PROVE BaseInv'
  <2>1. PICK old \in {r \in rows : r.man = s.man}, a \in {"put", "delete"} :
          rows' = rows \cup {[Unit(NextOp, s.man, k, a) EXCEPT !.cp = old.cp, !.gen = old.gen]}
    BY <1>6 DEF Extend
  <2>2. [Unit(NextOp, s.man, k, a) EXCEPT !.cp = old.cp, !.gen = old.gen].st = "staged"
    BY DEF Unit
  <2>3. UNCHANGED <<host, base>>
    BY <1>6 DEF Extend
  <2> QED
    BY <1>4, <2>1, <2>2, <2>3
<1>7. ASSUME NEW r \in rows, NEW c \in BOOLEAN, Send(r, c) PROVE BaseInv'
  <2>1. PICK q : Moves(r, q) /\ q.st = "sent_uncertain"
    BY <1>7, SendMoves
  <2>2. UNCHANGED <<host, base>> /\ Open(r) /\ r \in Row
    BY <1>7 DEF Send, TypeInv
  <2>3. r.op \notin host.done \/ r.st = "sent_uncertain"
    BY <2>2 DEF WireInv, Open, Row
  <2> QED
    BY <2>1, <2>2, <2>3, MovesKeepBase
<1>8. ASSUME NEW r \in rows, Acknowledge(r) PROVE BaseInv'
  <2>1. PICK q : Moves(r, q) /\ q.st = "terminal"
    BY <1>8, CloseMoves
  <2>2. r \in Row /\ r.key \in Keys /\ host' = host
    BY <1>8 DEF Acknowledge, TypeInv, Row
  <2>3. base' = [base EXCEPT ![r.key] = Baseline(r)]
    BY <1>8 DEF Acknowledge
  <2>4. base'[r.key] = Baseline(r) /\ \A k \in Keys \ {r.key} : base'[k].present = base[k].present
    BY <2>2, <2>3 DEF TypeInv
  <2>5. r.key \in host.items <=> r.act # "delete"
    BY <1>8 DEF Acknowledge, Observed, BaseInv
  <2>6. Baseline(r).present <=> r.act # "delete"
    BY DEF Baseline
  <2> QED
    BY <2>1, <2>2, <2>4, <2>5, <2>6, MovesKeepBase
<1>9. ASSUME NEW r \in rows, AcknowledgeRefusal(r) \/ CloseUnsent(r) \/ VerifiedCheck(r)
      PROVE  BaseInv'
  <2>1. PICK q : Moves(r, q) /\ q.st = "terminal"
    BY <1>9, CloseMoves
  <2>2. UNCHANGED <<host, base>>
    BY <1>9 DEF AcknowledgeRefusal, CloseUnsent, VerifiedCheck
  <2>3. r.act = "check" \/ r.op \notin host.done \/ r.st # "sent_uncertain"
    BY <1>9 DEF AcknowledgeRefusal, CloseUnsent, VerifiedCheck, Fenced, Observed, Unsent
  <2> QED
    BY <2>1, <2>2, <2>3, MovesKeepBase
<1>10. ASSUME NEW s \in snapshots, Cleanup(s) PROVE BaseInv'
  <2>1. rows' \subseteq rows /\ \A r \in rows : r.st = "sent_uncertain" => r \in rows'
    BY <1>10 DEF Cleanup, Open
  <2>2. UNCHANGED <<host, base>>
    BY <1>10 DEF Cleanup
  <2> QED
    BY <2>1, <2>2 DEF BaseInv
<1>11. ASSUME NEW w \in wire, HostApplies(w) PROVE BaseInv'
  <2>1. UNCHANGED <<rows, base>> /\ w \in Request
    BY <1>11 DEF HostApplies, HostType
  <2>2. CASE host' = host
    BY <2>1, <2>2 DEF BaseInv
  <2>3. CASE /\ w.op \notin host.done /\ w.gen = host.gen["data"]
             /\ w.act = "check" => w.key \in host.items
             /\ host' = [host EXCEPT !.done = @ \cup {w.op}, !.cp["data"] = w.cp,
                           !.items = IF w.act = "delete" THEN @ \ {w.key} ELSE @ \cup {w.key}]
    <3>1. /\ host'.done = host.done \cup {w.op}
          /\ host'.items = IF w.act = "delete" THEN host.items \ {w.key}
                           ELSE host.items \cup {w.key}
      BY <2>3 DEF HostType
    <3>2. \A r \in rows : r.op = w.op => r.key = w.key /\ r.act = w.act
      BY DEF WireInv
    <3>3. CASE w.act = "check"
      <4>1. host'.items = host.items
        BY <2>3, <3>1, <3>3
      <4>2. \A r \in rows : r.st = "sent_uncertain" /\ r.op \in host'.done
              => (r.key \in host'.items <=> r.act # "delete")
        BY <2>3, <3>1, <3>2, <3>3, <4>1 DEF BaseInv
      <4> QED
        BY <2>1, <3>1, <4>1, <4>2 DEF BaseInv
    <3>4. CASE w.act # "check"
      <4>1. PICK r \in rows : r.op = w.op /\ r.st = "sent_uncertain"
        BY <2>3, <3>4 DEF WireInv
      <4>2. r.key = w.key /\ r.act = w.act
        BY <3>2, <4>1
      <4>3. \A a \in rows : a.key = w.key /\ a.st = "sent_uncertain" => a = r
        BY <4>1, <4>2 DEF WireInv, Open
      <4>4. w.key \in host'.items <=> w.act # "delete"
        BY <3>1
      <4>5. \A k \in Keys : k # w.key => (k \in host'.items <=> k \in host.items)
        BY <3>1
      <4>6. \A a \in rows : a.op = w.op => a = r
        BY <4>1 DEF WireInv
      <4>7. \A a \in rows : a.key \in Keys
        BY DEF TypeInv, Row
      <4>8. \A a \in rows' : a.st = "sent_uncertain" /\ a.op \in host'.done
              => (a.key \in host'.items <=> a.act # "delete")
        BY <2>1, <3>1, <4>2, <4>3, <4>4, <4>5, <4>6, <4>7 DEF BaseInv
      <4>9. ASSUME NEW k \in Keys
            PROVE  \/ (base'[k].present <=> k \in host'.items)
                   \/ \E a \in rows' : a.key = k /\ a.st = "sent_uncertain"
                                       /\ a.op \in host'.done /\ a.act # "check"
        <5>1. CASE k = w.key
          BY <2>1, <3>1, <3>4, <4>1, <4>2, <5>1
        <5>2. CASE k # w.key
          BY <2>1, <3>1, <4>5, <5>2 DEF BaseInv
        <5> QED
          BY <5>1, <5>2
      <4> QED
        BY <4>8, <4>9 DEF BaseInv
    <3> QED
      BY <3>3, <3>4
  <2> QED
    BY <1>11, <2>2, <2>3 DEF HostApplies
<1>12. ASSUME NEW w \in wire, RequestLost(w) PROVE BaseInv'
  BY <1>12 DEF RequestLost, BaseInv
<1>13. ASSUME NEW p \in Partitions, FencePartition(p) PROVE BaseInv'
  <2>1. UNCHANGED <<rows, base>> /\ host'.done = host.done /\ host'.items = host.items
    BY <1>13 DEF FencePartition, HostType
  <2> QED
    BY <2>1 DEF BaseInv
<1> QED
  BY <1>1, <1>2, <1>3, <1>5, <1>6, <1>7, <1>8, <1>9, <1>10, <1>11, <1>12, <1>13, MirrorCases
  DEF HostSteps

-----------------------------------------------------------------------------
LEMMA HostInvariance == MirrorSpec => [](MirrorInv /\ HostType /\ HandInv /\ WireInv /\ BaseInv)
<1>1. MirrorInv /\ HostType /\ HandInv /\ WireInv /\ BaseInv /\ [MirrorNext]_mirrorVars
        => HostType' /\ HandInv' /\ WireInv' /\ BaseInv'
  BY HostTypeStep, HandStep, WireStep, BaseStep DEF MirrorInv
<1> QED
  BY HostStart, MirrorInvariance, <1>1, PTL DEF MirrorSpec

\* What a baseline says is what the host holds, unless an operation on the key is still
\* uncertain; and the sidecar explains the identity in the file it saw, so that a death
\* between the two checkpoints needs no rebind (mirror_outcomes, mirror_state).
THEOREM BaselineAndHandshake == MirrorSpec => [](BaselineMatchesHost /\ HandshakeExplains)
<1>1. BaseInv /\ HandInv => BaselineMatchesHost /\ HandshakeExplains
  BY DEF BaseInv, HandInv, BaselineMatchesHost
<1> QED
  BY HostInvariance, <1>1, PTL

\* The mirror is sound: both of these, and no lost key is deleted at the host.
THEOREM MirrorIsSoundAlways == MirrorSpec => MirrorIsSound
BY NothingLostIsEverDeleted, BaselineAndHandshake DEF MirrorIsSound

-----------------------------------------------------------------------------
(* The report outbox *)

File == [print : Prints, rep : Nat, by : Senders \cup {"queued", "dead"},
         expired : BOOLEAN, old : BOOLEAN]
Sender == [at : {"idle", "flushing", "posting", "ok", "failed", "receipted"},
           todo : SUBSET Prints, print : Prints \cup {"none"}, rep : Nat, late : BOOLEAN]

\* A set of files in which a report and a fingerprint occur once.
Sound(fs, n) ==
  /\ fs \subseteq File
  /\ \A f \in fs : f.rep <= n /\ (f.by = "queued" => ~f.expired)
  /\ \A f, g \in fs : f.rep = g.rep \/ f.print = g.print => f = g

OutTypes == /\ receipts \subseteq Nat /\ made \in Nat
            /\ sender \in [Senders -> Sender]

\* What a sender in time posts is in its own claim, if it is anywhere, and has no
\* receipt; and no other sender in time posts it.
InTime(s) == sender[s].at = "posting" /\ ~sender[s].late
HoldInv ==
  \A s \in Senders : InTime(s) =>
    /\ sender[s].rep \notin receipts /\ sender[s].rep <= made
    /\ \A f \in files : f.rep = sender[s].rep => f.by = s /\ ~f.expired
    /\ \A t \in Senders \ {s} : InTime(t) => sender[t].rep # sender[s].rep

\* A sender removes its claim only after it wrote the receipt.
PostInv == \A s \in Senders : sender[s].at = "receipted" => sender[s].rep \in receipts

OutInv == OutTypes /\ Sound(files, made) /\ HoldInv /\ PostInv

-----------------------------------------------------------------------------
\* The same report, whatever became of its claim.
SameReport(q, f) == q \in File /\ q.print = f.print /\ q.rep = f.rep
                    /\ (q.by = "queued" => ~q.expired)

\* A set of reports in which each is one of a sound set, in one form, is sound.
LEMMA SoundImage ==
  ASSUME NEW n \in Nat, NEW fs, Sound(fs, n), NEW gs,
         \A q \in gs : \E f \in fs : SameReport(q, f),
         \A q, r \in gs, f \in fs : SameReport(q, f) /\ SameReport(r, f) => q = r
  PROVE  Sound(gs, n)
BY DEF Sound, SameReport

LEMMA SoundSubset ==
  ASSUME NEW n \in Nat, NEW fs, Sound(fs, n), NEW gs \in SUBSET fs
  PROVE  Sound(gs, n)
BY DEF Sound

LEMMA SoundMore ==
  ASSUME NEW n \in Nat, NEW m \in Nat, NEW fs, Sound(fs, n), n <= m
  PROVE  Sound(fs, m)
BY DEF Sound, File

LEMMA SoundMove ==
  ASSUME NEW n \in Nat, NEW fs, Sound(fs, n), NEW f \in fs, NEW q, SameReport(q, f)
  PROVE  Sound((fs \ {f}) \cup {q}, n)
BY DEF Sound, SameReport

\* Three forms of a file: back in the queue, of a dead sender, too old.
Back(f) == [f EXCEPT !.by = "queued", !.expired = FALSE]

LEMMA BackIsSame ==
  ASSUME NEW f \in File
  PROVE  SameReport(Back(f), f) /\ Back(f).by = "queued" /\ Back(f).old = f.old
BY DEF Back, SameReport, File

LEMMA SelfIsSame ==
  ASSUME NEW n \in Nat, NEW fs, Sound(fs, n), NEW f \in fs
  PROVE  f \in File /\ SameReport(f, f)
BY DEF Sound, SameReport

\* Recovery of the claims keeps a directory sound; what it drops has a receipt or is
\* too old; and a file it leaves alone is as it was.
Form(f) == IF f.by = "queued" \/ ClaimAlive(f) THEN f ELSE Back(f)
Kept(fs) == {g \in fs : g.rep \notin receipts /\ (ClaimAlive(g) \/ ~g.old)}

LEMMA RecoveredFiles ==
  ASSUME NEW n \in Nat, NEW fs, Sound(fs, n)
  PROVE  /\ Sound(AfterRecovery(fs), n)
         /\ \A q \in AfterRecovery(fs) : \E f \in fs :
              SameReport(q, f) /\ q.rep \notin receipts /\ (q = f \/ (q.by = "queued" /\ ~ClaimAlive(f)))
         /\ \A f \in fs : f.rep \in receipts \/ f.rep \in TooOld(fs)
                          \/ \E q \in AfterRecovery(fs) : SameReport(q, f)
<1>1. AfterRecovery(fs) = {Form(f) : f \in Kept(fs)}
  BY DEF AfterRecovery, Form, Kept, Back
<1>2. ASSUME NEW f \in fs PROVE SameReport(Form(f), f) /\ (Form(f) = f \/ (Form(f).by = "queued" /\ ~ClaimAlive(f)))
  BY SelfIsSame, BackIsSame DEF Form
<1>3. Kept(fs) \subseteq fs /\ \A f \in Kept(fs) : f.rep \notin receipts
  BY DEF Kept
<1>4. \A q \in AfterRecovery(fs) : \E f \in Kept(fs) : q = Form(f)
  BY <1>1
<1>5. ASSUME NEW q \in AfterRecovery(fs), NEW r \in AfterRecovery(fs), NEW f \in fs,
             SameReport(q, f), SameReport(r, f)
      PROVE  q = r
  <2>1. PICK g \in Kept(fs), h \in Kept(fs) : q = Form(g) /\ r = Form(h)
    BY <1>4
  <2>2. g.rep = f.rep /\ h.rep = f.rep
    BY <1>2, <1>3, <1>5, <2>1 DEF SameReport
  <2>3. g = h
    BY <1>3, <2>2 DEF Sound
  <2> QED
    BY <2>1, <2>3
<1>6. \A q \in AfterRecovery(fs) : \E f \in fs :
        SameReport(q, f) /\ q.rep \notin receipts /\ (q = f \/ (q.by = "queued" /\ ~ClaimAlive(f)))
  BY <1>2, <1>3, <1>4 DEF SameReport
<1>7. Sound(AfterRecovery(fs), n)
  BY <1>5, <1>6, SoundImage
<1>8. ASSUME NEW f \in fs
      PROVE  f.rep \in receipts \/ f.rep \in TooOld(fs) \/ \E q \in AfterRecovery(fs) : SameReport(q, f)
  <2>1. CASE f \in Kept(fs)
    BY <1>1, <1>2, <2>1
  <2>2. CASE f \notin Kept(fs)
    BY <2>2 DEF Kept, TooOld
  <2> QED
    BY <2>1, <2>2
<1> QED
  BY <1>6, <1>7, <1>8

\* A released claim goes back to the queue and replaces nothing.
LEMMA PutBackFiles ==
  ASSUME NEW n \in Nat, NEW fs, Sound(fs, n), NEW s \in Senders,
         NEW mine \in SUBSET fs, \A m \in mine : m.by = s
  PROVE  /\ Sound(PutBack(fs, mine), n)
         /\ \A q \in PutBack(fs, mine) : q \in fs \ mine \/ \E m \in mine : SameReport(q, m)
         /\ \A f \in fs : \E q \in PutBack(fs, mine) : SameReport(q, f)
<1>1. {f \in Queued(fs) : \E m \in mine : f.print = m.print} = {}
  BY OutboxAssumption DEF Queued, Sound
<1>2. PutBack(fs, mine) = (fs \ mine) \cup {Back(m) : m \in mine}
  BY <1>1 DEF PutBack, Back
<1>3. \A m \in fs : SameReport(Back(m), m) /\ SameReport(m, m)
  BY SelfIsSame, BackIsSame
<1>4. \A q \in PutBack(fs, mine) : q \in fs \ mine \/ \E m \in mine : q = Back(m)
  BY <1>2
<1>5. ASSUME NEW q \in PutBack(fs, mine), NEW r \in PutBack(fs, mine), NEW f \in fs,
             SameReport(q, f), SameReport(r, f)
      PROVE  q = r
  <2>1. \A p \in PutBack(fs, mine) : SameReport(p, f) =>
          p = IF f \in mine THEN Back(f) ELSE f
    BY <1>3, <1>4 DEF SameReport, Sound
  <2> QED
    BY <1>5, <2>1
<1>6. Sound(PutBack(fs, mine), n)
  <2>1. \A q \in PutBack(fs, mine) : \E f \in fs : SameReport(q, f)
    BY <1>3, <1>4
  <2> QED
    BY <1>5, <2>1, SoundImage
<1> QED
  BY <1>2, <1>3, <1>4, <1>6
-----------------------------------------------------------------------------
\* One step of the outbox.

\* The invariant's parts, as facts.
LEMMA OutFacts ==
  ASSUME OutInv
  PROVE  /\ receipts \subseteq Nat /\ made \in Nat /\ sender \in [Senders -> Sender]
         /\ Sound(files, made) /\ files \subseteq File
         /\ \A f \in files : f.rep \in Nat /\ f.rep <= made
BY DEF OutInv, OutTypes, Sound, File

\* Receipts, counters and senders keep their types.
LEMMA TypesStep ==
  ASSUME OutInv, [OutboxNext]_outboxVars
  PROVE  OutTypes'
<1>1. ASSUME NEW p \in Prints, NEW m \in BOOLEAN, Enqueue(p, m) PROVE OutTypes'
  BY <1>1 DEF Enqueue, OutInv, OutTypes
<1>2. ASSUME NEW p \in Prints, NEW m \in BOOLEAN, Suppressed(p, m) PROVE OutTypes'
  BY <1>2 DEF Suppressed, OutInv, OutTypes, Sender, Idle
<1>3. ASSUME NEW p \in Prints, HookFails(p) \/ Consume(p) PROVE OutTypes'
  BY <1>3 DEF HookFails, Consume, OutInv, OutTypes, Sender, Idle
<1>4. ASSUME NEW s \in Senders, Flush(s) PROVE OutTypes'
  <2>1. {f.print : f \in Queued(AfterRecovery(files))} \subseteq Prints
    BY OutFacts, RecoveredFiles DEF Queued, Sound, File
  <2> QED
    BY <1>4, <2>1 DEF Flush, OutInv, OutTypes, Sender
<1>5. ASSUME NEW s \in Senders, NEW p \in Prints, Claim(s, p) PROVE OutTypes'
  <2>1. CASE Skip(s, p)
    BY <1>5, <2>1 DEF Claim, Skip, OutInv, OutTypes, Sender
  <2>2. ASSUME NEW f \in Queued(files),
               sender' = [sender EXCEPT ![s] = [at |-> "posting", todo |-> sender[s].todo \ {p},
                                                print |-> p, rep |-> f.rep, late |-> FALSE]]
        PROVE  OutTypes'
    <3>1. f.rep \in Nat
      BY OutFacts DEF Queued
    <3>2. receipts' = receipts /\ made' = made
      BY <1>5 DEF Claim
    <3> QED
      BY <2>2, <3>1, <3>2 DEF OutInv, OutTypes, Sender
  <2> QED
    BY <1>5, <2>1, <2>2 DEF Claim
<1>6. ASSUME NEW s \in Senders, FlushEnds(s) \/ ResultGone(s) PROVE OutTypes'
  <2>1. CASE FlushEnds(s)
    BY <2>1 DEF FlushEnds, OutInv, OutTypes, Sender, Idle
  <2>2. CASE ResultGone(s)
    BY <2>2 DEF ResultGone, BackToList, OutInv, OutTypes, Sender, Idle
  <2> QED
    BY <1>6, <2>1, <2>2
<1>7. ASSUME NEW s \in Senders, NEW ok \in BOOLEAN, Post(s, ok) PROVE OutTypes'
  BY <1>7 DEF Post, OutInv, OutTypes, Sender, Idle
<1>8. ASSUME NEW f \in files, LeaseExpires(f) PROVE OutTypes'
  BY <1>8 DEF LeaseExpires, OutInv, OutTypes, Sender
<1>9. ASSUME NEW s \in Senders, Receipt(s) PROVE OutTypes'
  BY <1>9 DEF Receipt, OutInv, OutTypes, Sender, Idle
<1>10. ASSUME NEW s \in Senders, RemoveClaim(s) PROVE OutTypes'
  BY <1>10 DEF RemoveClaim, BackToList, OutInv, OutTypes, Sender, Idle
<1>11. ASSUME NEW s \in Senders, Return(s) PROVE OutTypes'
  BY <1>11 DEF Return, BackToList, OutInv, OutTypes, Sender, Idle
<1>12. ASSUME NEW s \in Senders, Exit(s) PROVE OutTypes'
  BY <1>12 DEF Exit, OutInv, OutTypes, Sender, Idle
<1>13. ASSUME NEW s \in Senders, Killed(s) PROVE OutTypes'
  BY <1>13 DEF Killed, OutInv, OutTypes, Sender, Idle
<1>14. ASSUME OptOut PROVE OutTypes'
  BY <1>14 DEF OptOut, OutInv, OutTypes, Sender, Idle
<1>15. ASSUME NEW old \in SUBSET files, NewDay(old) PROVE OutTypes'
  BY <1>15 DEF NewDay, OutInv, OutTypes, Sender, Idle
<1>16. ASSUME UNCHANGED outboxVars PROVE OutTypes'
  BY <1>16 DEF outboxVars, OutInv, OutTypes
<1> QED
  BY <1>1, <1>2, <1>3, <1>4, <1>5, <1>6, <1>7, <1>8, <1>9, <1>10, <1>11, <1>12,
     <1>13, <1>14, <1>15, <1>16
  DEF OutboxNext

\* A report and a fingerprint stay in one file.
LEMMA SoundStep ==
  ASSUME OutInv, [OutboxNext]_outboxVars
  PROVE  Sound(files', made')
<1>1. ASSUME NEW p \in Prints, NEW m \in BOOLEAN, Enqueue(p, m) PROVE Sound(files', made')
  <2> DEFINE fs == AfterRecovery(files)
  <2>1. Sound(fs, made)
    BY OutFacts, RecoveredFiles
  <2> HIDE DEF fs
  <2>2. made' = made + 1 /\ (\A f \in fs : f.print # p)
        /\ \E out \in SUBSET Queued(fs) : files' = (fs \ out) \cup {New(p)}
    BY <1>1 DEF Enqueue, Accepts, fs
  <2>3. New(p) \in File /\ New(p).rep = made + 1 /\ New(p).print = p /\ ~New(p).expired
    BY OutFacts DEF New, File
  <2> QED
    BY <2>1, <2>2, <2>3, OutFacts DEF Sound, File
<1>2. ASSUME NEW p \in Prints, NEW m \in BOOLEAN, Suppressed(p, m) PROVE Sound(files', made')
  BY <1>2, OutFacts, RecoveredFiles DEF Suppressed
<1>3. ASSUME NEW p \in Prints, HookFails(p) \/ Consume(p) PROVE Sound(files', made')
  BY <1>3, OutFacts DEF HookFails, Consume
<1>4. ASSUME NEW s \in Senders, Flush(s) PROVE Sound(files', made')
  <2>1. files' \in {AfterRecovery(files), {}} /\ made' = made
    BY <1>4 DEF Flush
  <2> QED
    BY <2>1, OutFacts, RecoveredFiles, SoundSubset
<1>5. ASSUME NEW s \in Senders, NEW p \in Prints, Claim(s, p) PROVE Sound(files', made')
  <2>1. made' = made
    BY <1>5 DEF Claim
  <2>2. CASE files' \subseteq files
    BY <2>1, <2>2, OutFacts, SoundSubset
  <2>3. ASSUME NEW f \in Queued(files), files' = (files \ {f}) \cup {[f EXCEPT !.by = s]}
        PROVE  Sound(files', made')
    <3>1. f \in files /\ f \in File /\ ~f.expired
      BY OutFacts DEF Queued, Sound
    <3>2. SameReport([f EXCEPT !.by = s], f)
      BY <3>1 DEF SameReport, File
    <3> QED
      BY <2>1, <2>3, <3>1, <3>2, OutFacts, SoundMove
  <2> QED
    BY <1>5, <2>2, <2>3 DEF Claim
<1>6. ASSUME NEW s \in Senders, FlushEnds(s) \/ ResultGone(s) PROVE Sound(files', made')
  BY <1>6, OutFacts DEF FlushEnds, ResultGone
<1>7. ASSUME NEW s \in Senders, NEW ok \in BOOLEAN, Post(s, ok) PROVE Sound(files', made')
  BY <1>7, OutFacts DEF Post
<1>8. ASSUME NEW f \in files, LeaseExpires(f) PROVE Sound(files', made')
  <2>1. f \in File /\ f.by # "queued"
    BY <1>8, OutFacts, OutboxAssumption DEF LeaseExpires
  <2>2. SameReport([f EXCEPT !.expired = TRUE], f)
    BY <2>1 DEF SameReport, File
  <2> QED
    BY <1>8, <2>2, OutFacts, SoundMove DEF LeaseExpires
<1>9. ASSUME NEW s \in Senders, Receipt(s) PROVE Sound(files', made')
  BY <1>9, OutFacts DEF Receipt
<1>10. ASSUME NEW s \in Senders, RemoveClaim(s) PROVE Sound(files', made')
  BY <1>10, OutFacts, SoundSubset DEF RemoveClaim
<1>11. ASSUME NEW s \in Senders, Return(s) PROVE Sound(files', made')
  <2>1. Held(s) \subseteq files /\ \A m \in Held(s) : m.by = s
    BY DEF Held
  <2> QED
    BY <1>11, <2>1, OutFacts, PutBackFiles DEF Return
<1>12. ASSUME NEW s \in Senders, Exit(s) PROVE Sound(files', made')
  <2> DEFINE mine == {f \in files : f.by = s}
  <2>1. mine \in SUBSET files /\ \A m \in mine : m.by = s
    OBVIOUS
  <2>2. files' = PutBack(files, mine) /\ made' = made
    BY <1>12 DEF Exit
  <2> HIDE DEF mine
  <2> QED
    BY <2>1, <2>2, OutFacts, PutBackFiles
<1>13. ASSUME NEW s \in Senders, Killed(s) PROVE Sound(files', made')
  <2> DEFINE form(f) == IF f.by = s THEN [f EXCEPT !.by = "dead"] ELSE f
  <2>1. ASSUME NEW f \in files PROVE SameReport(form(f), f)
    BY OutFacts, SelfIsSame DEF SameReport, File
  <2>2. files' = {form(f) : f \in files} /\ made' = made
    BY <1>13 DEF Killed
  <2> HIDE DEF form
  <2>3. \A q \in files', r \in files', f \in files : SameReport(q, f) /\ SameReport(r, f) => q = r
    BY <2>1, <2>2, OutFacts DEF Sound, SameReport
  <2> QED
    BY <2>1, <2>2, <2>3, OutFacts, SoundImage
<1>14. ASSUME OptOut PROVE Sound(files', made')
  BY <1>14, OutFacts DEF OptOut
<1>15. ASSUME NEW old \in SUBSET files, NewDay(old) PROVE Sound(files', made')
  <2> DEFINE form(f) == IF f \in old THEN [f EXCEPT !.old = TRUE] ELSE f
  <2>1. ASSUME NEW f \in files PROVE SameReport(form(f), f)
    BY OutFacts, SelfIsSame DEF SameReport, File
  <2>2. files' = {form(f) : f \in files} /\ made' = made
    BY <1>15 DEF NewDay
  <2> HIDE DEF form
  <2>3. \A q \in files', r \in files', f \in files : SameReport(q, f) /\ SameReport(r, f) => q = r
    BY <2>1, <2>2, OutFacts DEF Sound, SameReport
  <2> QED
    BY <2>1, <2>2, <2>3, OutFacts, SoundImage
<1>16. ASSUME UNCHANGED outboxVars PROVE Sound(files', made')
  BY <1>16, OutFacts DEF outboxVars
<1> QED
  BY <1>1, <1>2, <1>3, <1>4, <1>5, <1>6, <1>7, <1>8, <1>9, <1>10, <1>11, <1>12,
     <1>13, <1>14, <1>15, <1>16
  DEF OutboxNext

\* HoldInv holds still when every claim in time is left as it is, and what a sender
\* posts in time it posted in time before.
LEMMA HoldKept ==
  ASSUME OutInv, receipts' = receipts, made' \in Nat, made <= made',
         \A s \in Senders : InTime(s)' => InTime(s) /\ sender'[s].rep = sender[s].rep,
         \A q \in files' : q.rep > made \/ \E f \in files :
           q.rep = f.rep /\ (f.by \in Senders /\ ~f.expired /\ InTime(f.by)'
                              => q.by = f.by /\ ~q.expired)
  PROVE  HoldInv'
<1> SUFFICES ASSUME NEW s \in Senders, InTime(s)'
             PROVE  /\ sender'[s].rep \notin receipts' /\ sender'[s].rep <= made'
                    /\ \A q \in files' : q.rep = sender'[s].rep => q.by = s /\ ~q.expired
                    /\ \A t \in Senders \ {s} : InTime(t)' => sender'[t].rep # sender'[s].rep
  BY DEF HoldInv
<1>1. InTime(s) /\ sender'[s].rep = sender[s].rep /\ sender[s].rep \in Nat /\ made \in Nat
  BY DEF OutInv, OutTypes, Sender
<1>2. /\ sender[s].rep \notin receipts /\ sender[s].rep <= made
      /\ \A f \in files : f.rep = sender[s].rep => f.by = s /\ ~f.expired
      /\ \A t \in Senders \ {s} : InTime(t) => sender[t].rep # sender[s].rep
  BY <1>1 DEF OutInv, HoldInv
<1>3. ASSUME NEW q \in files', q.rep = sender'[s].rep PROVE q.by = s /\ ~q.expired
  BY <1>1, <1>2, <1>3
<1> QED
  BY <1>1, <1>2, <1>3

\* A sender in time keeps its claim to itself.
LEMMA HoldStep ==
  ASSUME OutInv, [OutboxNext]_outboxVars
  PROVE  HoldInv'
<1>1. ASSUME NEW p \in Prints, NEW m \in BOOLEAN, Enqueue(p, m) PROVE HoldInv'
  <2>1. \A q \in AfterRecovery(files) : \E f \in files :
           q.rep = f.rep /\ (f.by \in Senders /\ ~f.expired => q = f)
    BY OutFacts, RecoveredFiles DEF SameReport, ClaimAlive
  <2>2. made' = made + 1 /\ UNCHANGED <<receipts, sender>>
        /\ files' \subseteq AfterRecovery(files) \cup {New(p)}
    BY <1>1 DEF Enqueue, Queued
  <2>3. New(p).rep = made + 1
    BY DEF New
  <2> QED
    BY <2>1, <2>2, <2>3, OutFacts, HoldKept DEF InTime
<1>2. ASSUME NEW p \in Prints, NEW m \in BOOLEAN, Suppressed(p, m) PROVE HoldInv'
  <2>1. \A q \in AfterRecovery(files) : \E f \in files :
           q.rep = f.rep /\ (f.by \in Senders /\ ~f.expired => q = f)
    BY OutFacts, RecoveredFiles DEF SameReport, ClaimAlive
  <2> QED
    BY <1>2, <2>1, OutFacts, HoldKept DEF Suppressed, InTime
<1>3. ASSUME NEW p \in Prints, HookFails(p) \/ Consume(p) PROVE HoldInv'
  BY <1>3, OutFacts, HoldKept DEF InTime, HookFails, Consume
<1>4. ASSUME NEW s \in Senders, Flush(s) PROVE HoldInv'
  <2>1. \A q \in AfterRecovery(files) : \E f \in files :
           q.rep = f.rep /\ (f.by \in Senders /\ ~f.expired => q = f)
    BY OutFacts, RecoveredFiles DEF SameReport, ClaimAlive
  <2>2. files' \in {AfterRecovery(files), {}} /\ UNCHANGED <<receipts, made>>
    BY <1>4 DEF Flush
  <2>3. \A t \in Senders : InTime(t)' => InTime(t) /\ sender'[t].rep = sender[t].rep
    BY <1>4, OutFacts DEF Flush, InTime, Sender
  <2> QED
    BY <2>1, <2>2, <2>3, OutFacts, HoldKept
<1>5. ASSUME NEW s \in Senders, NEW p \in Prints, Claim(s, p) PROVE HoldInv'
  <2>1. UNCHANGED <<receipts, made>> /\ sender[s].at = "flushing"
    BY <1>5 DEF Claim
  <2>2. CASE files' \subseteq files /\ Skip(s, p)
    <3>1. \A t \in Senders : InTime(t)' => InTime(t) /\ sender'[t].rep = sender[t].rep
      BY <2>1, <2>2, OutFacts DEF Skip, InTime, Sender
    <3> QED
      BY <2>1, <2>2, <3>1, OutFacts, HoldKept
  <2>3. ASSUME NEW f \in Queued(files), f.rep \notin receipts,
               files' = (files \ {f}) \cup {[f EXCEPT !.by = s]},
               sender' = [sender EXCEPT ![s] = [at |-> "posting", todo |-> sender[s].todo \ {p},
                                                print |-> p, rep |-> f.rep, late |-> FALSE]]
        PROVE  HoldInv'
    <3>1. f \in files /\ f \in File /\ f.by = "queued" /\ ~f.expired /\ f.rep <= made
      BY OutFacts DEF Queued, Sound
    <3>2. [f EXCEPT !.by = s].rep = f.rep /\ [f EXCEPT !.by = s].by = s
          /\ ~[f EXCEPT !.by = s].expired
      BY <3>1 DEF File
    <3>3. sender'[s].rep = f.rep /\ \A t \in Senders \ {s} : sender'[t] = sender[t]
      BY <2>3, OutFacts
    <3>4. \A g \in files : g.rep = f.rep => g = f
      BY <3>1, OutFacts DEF Sound
    <3>5. \A t \in Senders \ {s} : InTime(t) => sender[t].rep # f.rep
      BY <3>1, OutboxAssumption DEF OutInv, HoldInv
    <3>6. \A q \in files' : (q.rep = f.rep => q.by = s /\ ~q.expired)
                             /\ (q.rep # f.rep => q \in files)
      BY <2>3, <3>2, <3>4
    <3>7. ASSUME NEW t \in Senders \ {s}, InTime(t)'
          PROVE  /\ sender'[t].rep \notin receipts' /\ sender'[t].rep <= made'
                 /\ \A q \in files' : q.rep = sender'[t].rep => q.by = t /\ ~q.expired
                 /\ \A u \in Senders \ {t} : InTime(u)' => sender'[u].rep # sender'[t].rep
      <4>1. InTime(t) /\ sender'[t].rep = sender[t].rep
        BY <3>3, <3>7 DEF InTime
      <4>2. \A u \in Senders \ {s} : InTime(u)' => InTime(u) /\ sender'[u].rep = sender[u].rep
        BY <3>3 DEF InTime
      <4> QED
        BY <2>1, <3>3, <3>5, <3>6, <4>1, <4>2 DEF OutInv, HoldInv
    <3>8. \A t \in Senders \ {s} : InTime(t)' => sender'[t].rep # sender'[s].rep
      BY <3>3, <3>5 DEF InTime
    <3> QED
      BY <2>1, <2>3, <3>1, <3>3, <3>6, <3>7, <3>8 DEF HoldInv
  <2> QED
    BY <1>5, <2>2, <2>3 DEF Claim
<1>6. ASSUME NEW s \in Senders, FlushEnds(s) \/ ResultGone(s) PROVE HoldInv'
  <2>1. \A t \in Senders : InTime(t)' => InTime(t) /\ sender'[t].rep = sender[t].rep
    <3>1. CASE FlushEnds(s)
      BY <3>1, OutFacts DEF FlushEnds, Idle, InTime
    <3>2. CASE ResultGone(s)
      BY <3>2, OutFacts DEF ResultGone, BackToList, Idle, InTime
    <3> QED
      BY <1>6, <3>1, <3>2
  <2> QED
    BY <1>6, <2>1, OutFacts, HoldKept DEF FlushEnds, ResultGone
<1>7. ASSUME NEW s \in Senders, NEW ok \in BOOLEAN, Post(s, ok) PROVE HoldInv'
  <2>1. \A t \in Senders : InTime(t)' => InTime(t) /\ sender'[t].rep = sender[t].rep
    BY <1>7, OutFacts DEF Post, Sender, InTime
  <2> QED
    BY <1>7, <2>1, OutFacts, HoldKept DEF Post
<1>8. ASSUME NEW f \in files, LeaseExpires(f) PROVE HoldInv'
  <2>1. f \in File /\ f.by \in Senders /\ UNCHANGED <<receipts, made>>
    BY <1>8, OutFacts DEF LeaseExpires
  <2>2. /\ \A t \in Senders : InTime(t)' => InTime(t) /\ sender'[t].rep = sender[t].rep
        /\ ~InTime(f.by)'
    BY <1>8, <2>1, OutFacts DEF LeaseExpires, Sender, InTime
  <2>3. \A q \in files' : q \in files \/ q.rep = f.rep
    BY <1>8, <2>1 DEF LeaseExpires, File
  <2> QED
    BY <2>1, <2>2, <2>3, OutFacts, HoldKept
<1>9. ASSUME NEW s \in Senders, Receipt(s) PROVE HoldInv'
  <2>1. PICK f \in files : f.by = s /\ f.rep = sender[s].rep
    BY <1>9 DEF Receipt, Held
  <2>2. UNCHANGED <<files, made>> /\ receipts' = receipts \cup {sender[s].rep} /\ ~InTime(s)
        /\ \A t \in Senders : InTime(t)' => t # s /\ InTime(t) /\ sender'[t] = sender[t]
    BY <1>9, OutFacts DEF Receipt, Sender, InTime
  <2>3. \A t \in Senders \ {s} : InTime(t) => sender[t].rep # sender[s].rep
    BY <2>1 DEF OutInv, HoldInv
  <2> QED
    BY <2>2, <2>3 DEF OutInv, HoldInv
<1>10. ASSUME NEW s \in Senders, RemoveClaim(s) PROVE HoldInv'
  <2>1. \A t \in Senders : InTime(t)' => InTime(t) /\ sender'[t].rep = sender[t].rep
    BY <1>10, OutFacts DEF RemoveClaim, BackToList, Idle, InTime
  <2> QED
    BY <1>10, <2>1, OutFacts, HoldKept DEF RemoveClaim
<1>11. ASSUME NEW s \in Senders, Return(s) PROVE HoldInv'
  <2>1. Held(s) \in SUBSET files /\ \A m \in Held(s) : m.by = s
    BY DEF Held
  <2>2. /\ \A t \in Senders : InTime(t)' => InTime(t) /\ sender'[t].rep = sender[t].rep
        /\ ~InTime(s)' /\ UNCHANGED <<receipts, made>> /\ files' = PutBack(files, Held(s))
    BY <1>11, OutFacts DEF Return, BackToList, Idle, InTime
  <2>3. \A q \in files' : \E f \in files : q.rep = f.rep /\ (q = f \/ f.by = s)
    BY <2>1, <2>2, OutFacts, PutBackFiles DEF SameReport
  <2> QED
    BY <2>2, <2>3, OutFacts, HoldKept
<1>12. ASSUME NEW s \in Senders, Exit(s) PROVE HoldInv'
  <2> DEFINE mine == {f \in files : f.by = s}
  <2>1. mine \in SUBSET files /\ \A m \in mine : m.by = s
    OBVIOUS
  <2>2. /\ \A t \in Senders : InTime(t)' => InTime(t) /\ sender'[t].rep = sender[t].rep
        /\ ~InTime(s)' /\ UNCHANGED <<receipts, made>> /\ files' = PutBack(files, mine)
    BY <1>12, OutFacts DEF Exit, Idle, InTime
  <2> HIDE DEF mine
  <2>3. \A q \in files' : \E f \in files : q.rep = f.rep /\ (q = f \/ f.by = s)
    BY <2>1, <2>2, OutFacts, PutBackFiles DEF SameReport
  <2> QED
    BY <2>2, <2>3, OutFacts, HoldKept
<1>13. ASSUME NEW s \in Senders, Killed(s) PROVE HoldInv'
  <2>1. /\ \A t \in Senders : InTime(t)' => InTime(t) /\ sender'[t].rep = sender[t].rep
        /\ ~InTime(s)' /\ UNCHANGED <<receipts, made>>
    BY <1>13, OutFacts DEF Killed, Idle, InTime
  <2>2. \A q \in files' : \E f \in files : q.rep = f.rep /\ (q = f \/ f.by = s)
    BY <1>13, OutFacts DEF Killed, File
  <2> QED
    BY <2>1, <2>2, OutFacts, HoldKept
<1>14. ASSUME OptOut PROVE HoldInv'
  BY <1>14, OutFacts, HoldKept DEF InTime, OptOut
<1>15. ASSUME NEW old \in SUBSET files, NewDay(old) PROVE HoldInv'
  <2>1. \A q \in files' : \E f \in files : q.rep = f.rep /\ q.by = f.by /\ q.expired = f.expired
    BY <1>15, OutFacts DEF NewDay, File
  <2> QED
    BY <1>15, <2>1, OutFacts, HoldKept DEF NewDay, InTime
<1>16. ASSUME UNCHANGED outboxVars PROVE HoldInv'
  BY <1>16, OutFacts, HoldKept DEF InTime, outboxVars
<1> QED
  BY <1>1, <1>2, <1>3, <1>4, <1>5, <1>6, <1>7, <1>8, <1>9, <1>10, <1>11, <1>12,
     <1>13, <1>14, <1>15, <1>16
  DEF OutboxNext

\* A delivered report has its receipt before its claim goes.
LEMMA PostStep ==
  ASSUME OutInv, [OutboxNext]_outboxVars
  PROVE  PostInv'
<1>1. ASSUME NEW p \in Prints, NEW m \in BOOLEAN, Enqueue(p, m) PROVE PostInv'
  BY <1>1 DEF Enqueue, OutInv, OutTypes, Sender, Idle, PostInv
<1>2. ASSUME NEW p \in Prints, NEW m \in BOOLEAN, Suppressed(p, m) PROVE PostInv'
  BY <1>2 DEF Suppressed, OutInv, OutTypes, Sender, Idle, PostInv
<1>3. ASSUME NEW p \in Prints, HookFails(p) \/ Consume(p) PROVE PostInv'
  BY <1>3 DEF HookFails, Consume, OutInv, OutTypes, Sender, Idle, PostInv
<1>4. ASSUME NEW s \in Senders, Flush(s) PROVE PostInv'
  BY <1>4 DEF Flush, OutInv, OutTypes, Sender, Idle, PostInv
<1>5. ASSUME NEW s \in Senders, NEW p \in Prints, Claim(s, p) PROVE PostInv'
  <2>1. receipts' = receipts /\ \A t \in Senders : sender'[t].at = "receipted" => sender'[t] = sender[t]
    BY <1>5, OutFacts DEF Claim, Skip, Sender
  <2> QED
    BY <2>1 DEF OutInv, PostInv
<1>6. ASSUME NEW s \in Senders, FlushEnds(s) \/ ResultGone(s) PROVE PostInv'
  <2>1. CASE FlushEnds(s)
    BY <2>1, OutFacts DEF FlushEnds, Idle, OutInv, PostInv
  <2>2. CASE ResultGone(s)
    BY <2>2, OutFacts DEF ResultGone, BackToList, Idle, OutInv, PostInv
  <2> QED
    BY <1>6, <2>1, <2>2
<1>7. ASSUME NEW s \in Senders, NEW ok \in BOOLEAN, Post(s, ok) PROVE PostInv'
  BY <1>7 DEF Post, OutInv, OutTypes, Sender, Idle, PostInv
<1>8. ASSUME NEW f \in files, LeaseExpires(f) PROVE PostInv'
  BY <1>8 DEF LeaseExpires, OutInv, OutTypes, Sender, Idle, PostInv
<1>9. ASSUME NEW s \in Senders, Receipt(s) PROVE PostInv'
  BY <1>9 DEF Receipt, OutInv, OutTypes, Sender, Idle, PostInv
<1>10. ASSUME NEW s \in Senders, RemoveClaim(s) PROVE PostInv'
  BY <1>10 DEF RemoveClaim, BackToList, OutInv, OutTypes, Sender, Idle, PostInv
<1>11. ASSUME NEW s \in Senders, Return(s) PROVE PostInv'
  BY <1>11 DEF Return, BackToList, OutInv, OutTypes, Sender, Idle, PostInv
<1>12. ASSUME NEW s \in Senders, Exit(s) PROVE PostInv'
  BY <1>12 DEF Exit, OutInv, OutTypes, Sender, Idle, PostInv
<1>13. ASSUME NEW s \in Senders, Killed(s) PROVE PostInv'
  BY <1>13 DEF Killed, OutInv, OutTypes, Sender, Idle, PostInv
<1>14. ASSUME OptOut PROVE PostInv'
  BY <1>14 DEF OptOut, OutInv, OutTypes, Sender, Idle, PostInv
<1>15. ASSUME NEW old \in SUBSET files, NewDay(old) PROVE PostInv'
  BY <1>15 DEF NewDay, OutInv, OutTypes, Sender, Idle, PostInv
<1>16. ASSUME UNCHANGED outboxVars PROVE PostInv'
  BY <1>16 DEF outboxVars, OutInv, OutTypes, Sender, Idle, PostInv
<1> QED
  BY <1>1, <1>2, <1>3, <1>4, <1>5, <1>6, <1>7, <1>8, <1>9, <1>10, <1>11, <1>12,
     <1>13, <1>14, <1>15, <1>16
  DEF OutboxNext

\* What leaves has a receipt or was dropped on purpose.
LEMMA LeavesStep ==
  ASSUME OutInv, [OutboxNext]_outboxVars
  PROVE  LeavesForAReason
<1>1. ASSUME NEW p \in Prints, NEW m \in BOOLEAN, Enqueue(p, m) PROVE LeavesForAReason
  <2>1. PICK out \in SUBSET Queued(AfterRecovery(files)) :
          /\ files' = (AfterRecovery(files) \ out) \cup {New(p)}
          /\ gone' = gone \cup {f.rep : f \in out} \cup TooOld(files)
    BY <1>1 DEF Enqueue
  <2>2. receipts' = receipts
    BY <1>1 DEF Enqueue
  <2>3. ASSUME NEW f \in files PROVE f.rep \in Stored(files') \cup receipts' \cup gone'
    <3>1. CASE f.rep \in receipts \/ f.rep \in TooOld(files)
      BY <2>1, <2>2, <3>1
    <3>2. ASSUME NEW q \in AfterRecovery(files), SameReport(q, f)
          PROVE  f.rep \in Stored(files') \cup receipts' \cup gone'
      BY <2>1, <3>2 DEF SameReport, Stored
    <3> QED
      BY <3>1, <3>2, OutFacts, RecoveredFiles
  <2> QED
    BY <2>3 DEF LeavesForAReason, Stored
<1>2. ASSUME NEW p \in Prints, NEW m \in BOOLEAN, Suppressed(p, m) PROVE LeavesForAReason
  <2>1. \A f \in files : f.rep \in receipts \/ f.rep \in TooOld(files)
                         \/ f.rep \in Stored(AfterRecovery(files))
    BY OutFacts, RecoveredFiles DEF SameReport, Stored
  <2> QED
    BY <1>2, <2>1 DEF Suppressed, LeavesForAReason, Stored
<1>3. ASSUME NEW p \in Prints, HookFails(p) \/ Consume(p) PROVE LeavesForAReason
  BY <1>3 DEF HookFails, Consume, LeavesForAReason
<1>4. ASSUME NEW s \in Senders, Flush(s) PROVE LeavesForAReason
  <2>1. \A f \in files : f.rep \in receipts \/ f.rep \in TooOld(files)
                         \/ f.rep \in Stored(AfterRecovery(files))
    BY OutFacts, RecoveredFiles DEF SameReport, Stored
  <2> QED
    BY <1>4, <2>1 DEF Flush, LeavesForAReason, Stored
<1>5. ASSUME NEW s \in Senders, NEW p \in Prints, Claim(s, p) PROVE LeavesForAReason
  <2>1. receipts' = receipts
    BY <1>5 DEF Claim
  <2>2. CASE UNCHANGED files
    BY <2>2 DEF LeavesForAReason
  <2>3. ASSUME NEW f \in Queued(files), files' = (files \ {f}) \cup {[f EXCEPT !.by = s]}
        PROVE  LeavesForAReason
    <3>1. [f EXCEPT !.by = s].rep = f.rep
      BY OutFacts DEF Queued, File
    <3> QED
      BY <2>3, <3>1 DEF LeavesForAReason, Stored
  <2>4. ASSUME NEW f \in Queued(files), files' = files \ {f}, gone' = gone \cup {f.rep}
        PROVE  LeavesForAReason
    BY <2>4 DEF LeavesForAReason, Stored
  <2> QED
    BY <1>5, <2>2, <2>3, <2>4 DEF Claim
<1>6. ASSUME NEW s \in Senders, FlushEnds(s) \/ ResultGone(s) PROVE LeavesForAReason
  BY <1>6 DEF FlushEnds, ResultGone, BackToList, LeavesForAReason
<1>7. ASSUME NEW s \in Senders, NEW ok \in BOOLEAN, Post(s, ok) PROVE LeavesForAReason
  BY <1>7 DEF Post, LeavesForAReason
<1>8. ASSUME NEW f \in files, LeaseExpires(f) PROVE LeavesForAReason
  <2>1. [f EXCEPT !.expired = TRUE].rep = f.rep
    BY OutFacts DEF File
  <2> QED
    BY <1>8, <2>1 DEF LeaseExpires, LeavesForAReason, Stored
<1>9. ASSUME NEW s \in Senders, Receipt(s) PROVE LeavesForAReason
  BY <1>9 DEF Receipt, LeavesForAReason
<1>10. ASSUME NEW s \in Senders, RemoveClaim(s) PROVE LeavesForAReason
  <2>1. sender[s].rep \in receipts'
    BY <1>10 DEF RemoveClaim, OutInv, PostInv
  <2> QED
    BY <1>10, <2>1 DEF RemoveClaim, Held, LeavesForAReason, Stored
<1>11. ASSUME NEW s \in Senders, Return(s) PROVE LeavesForAReason
  <2>1. Held(s) \in SUBSET files /\ \A m \in Held(s) : m.by = s
    BY DEF Held
  <2>2. \A f \in files : f.rep \in Stored(PutBack(files, Held(s)))
    BY <2>1, OutFacts, PutBackFiles DEF SameReport, Stored
  <2> QED
    BY <1>11, <2>2 DEF Return, LeavesForAReason, Stored
<1>12. ASSUME NEW s \in Senders, Exit(s) PROVE LeavesForAReason
  <2> DEFINE mine == {f \in files : f.by = s}
  <2>1. mine \in SUBSET files /\ \A m \in mine : m.by = s
    OBVIOUS
  <2>2. files' = PutBack(files, mine)
    BY <1>12 DEF Exit
  <2> HIDE DEF mine
  <2>3. \A f \in files : f.rep \in Stored(files')
    BY <2>1, <2>2, OutFacts, PutBackFiles DEF SameReport, Stored
  <2> QED
    BY <2>3 DEF LeavesForAReason, Stored
<1>13. ASSUME NEW s \in Senders, Killed(s) PROVE LeavesForAReason
  <2>1. \A f \in files : [f EXCEPT !.by = "dead"].rep = f.rep
    BY OutFacts DEF File
  <2>2. \A f \in files : f.rep \in Stored(files')
    BY <1>13, <2>1 DEF Killed, Stored
  <2> QED
    BY <2>2 DEF LeavesForAReason, Stored
<1>14. ASSUME OptOut PROVE LeavesForAReason
  BY <1>14 DEF OptOut, LeavesForAReason
<1>15. ASSUME NEW old \in SUBSET files, NewDay(old) PROVE LeavesForAReason
  <2>1. \A f \in files : [f EXCEPT !.old = TRUE].rep = f.rep
    BY OutFacts DEF File
  <2>2. \A f \in files : f.rep \in Stored(files')
    BY <1>15, <2>1 DEF NewDay, Stored
  <2> QED
    BY <2>2 DEF LeavesForAReason, Stored
<1>16. ASSUME UNCHANGED outboxVars PROVE LeavesForAReason
  BY <1>16 DEF outboxVars, LeavesForAReason
<1> QED
  BY <1>1, <1>2, <1>3, <1>4, <1>5, <1>6, <1>7, <1>8, <1>9, <1>10, <1>11, <1>12,
     <1>13, <1>14, <1>15, <1>16
  DEF OutboxNext

LEMMA OutboxStarts == OutboxInit => OutInv
BY DEF OutboxInit, OutInv, OutTypes, Sound, HoldInv, PostInv, InTime, Idle, Sender

LEMMA OutboxInvariance == OutboxSpec => []OutInv
<1>1. OutInv /\ [OutboxNext]_outboxVars => OutInv'
  BY TypesStep, SoundStep, HoldStep, PostStep DEF OutInv
<1> QED
  BY OutboxStarts, <1>1, PTL DEF OutboxSpec

\* A report leaves the outbox only with a receipt, or because reports were turned off,
\* it was too old, or a full queue pushed the oldest out (report_outbox.py, every
\* removal of a report or of a claim).
THEOREM ReportsLeaveOnlyForAReason ==
  OutboxSpec => ReportsLeaveForAReason
<1>1. OutInv /\ [OutboxNext]_outboxVars => [LeavesForAReason]_outboxVars
  BY LeavesStep
<1> QED
  BY OutboxInvariance, <1>1, PTL DEF OutboxSpec, ReportsLeaveForAReason

\* Two senders have the same report at the transport at once only when the lease of
\* one ran out, and what has a receipt is not posted again (report_outbox.flush).
THEOREM OneSenderAlways == OutboxSpec => []OneSenderPerReport
<1>1. OutInv => OneSenderPerReport
  BY DEF OutInv, HoldInv, InTime, OneSenderPerReport
<1> QED
  BY OutboxInvariance, <1>1, PTL

\* The outbox keeps its reports: both of these, for any fingerprints, senders and caps
\* (report_outbox.enqueue, flush and _pending).
THEOREM ReportsAreKeptAlways == OutboxSpec => ReportsAreKept
BY ReportsLeaveOnlyForAReason, OneSenderAlways DEF ReportsAreKept

-----------------------------------------------------------------------------
(* HostedRequest: what a command has got, lost and been told, stage by     *)
(* stage.                                                                  *)
CallFields == {"kind", "at", "plain", "key", "team", "web", "by", "mismatch", "got", "odd", "lost", "told", "hint"}
Keeps(c, d, changed) == \A f \in CallFields \ changed : d[f] = c[f]

AloneStages == {"add", "index", "ask", "search", "list", "get", "why", "status"}
RecallStages == {"snapshot", "query", "recent", "meaning", "lessons", "compose"}
Stages == AloneStages \cup RecallStages \cup {"provenance"}

CommandInv ==
  /\ DOMAIN call = CallFields
  /\ call.web \in {"none", "web"}
  /\ call.at \in {"none", "start", "built", "told"} \cup Stages
  /\ call.at \in Stages /\ call.kind \notin {"index", "hook"} => call.mismatch = Mismatch
  /\ call.at \in AloneStages => call.kind = call.at
  /\ call.at = "provenance" => call.kind = "why"
  /\ call.at \in RecallStages => call.kind \in {"recall", "hook"}
  /\ call.kind = "recall" => call.lost = {}
  /\ call.at \in {"start", "built"} \cup RecallStages => call.by \in {"query", "recent"}
  /\ IF call.at = "none" THEN call.lost = {} ELSE call.kind \in Kinds

NothingYet == call.at # "told" => line = 0 /\ code = "old" /\ call.told = "nothing"

\* What there is was found, or its loss is on record.
FoundInv ==
  ~call.odd /\ ~moved =>
    /\ call.at \in {"meaning", "lessons", "compose"} /\ "memory" \in held => "memory" \in call.got \cup call.lost
    /\ call.at = "compose" /\ "decision" \in held => "decision" \in call.got \cup call.lost

HostedInv == CommandInv /\ NothingYet /\ FoundInv /\ FailuresSurface /\ EmptyIsExplained

LEMMA SaysIs ==
  ASSUME DOMAIN call = CallFields, NEW c, NEW what, DOMAIN c = CallFields, Says(c, what)
  PROVE  /\ DOMAIN call' = CallFields /\ call'.at = "told" /\ call'.told = what
         /\ Keeps(c, call', {"at", "told"})
BY DEF Says, CallFields, Keeps

LEMMA NotesIs ==
  ASSUME DOMAIN call = CallFields, NEW c, DOMAIN c = CallFields, NotesEmpty(c)
  PROVE  /\ DOMAIN call' = CallFields /\ call'.at = "told" /\ call'.told = "empty"
         /\ call'.hint = (c.mismatch /\ c.kind \in Listing)
         /\ Keeps(c, call', {"at", "told", "hint"})
BY DEF NotesEmpty, CallFields, Keeps

LEMMA TookIs ==
  ASSUME DOMAIN call = CallFields, NEW r
  PROVE  /\ DOMAIN Took(r) = CallFields
         /\ Took(r).odd = (call.odd \/ r \in {"odd", "null"})
         /\ Took(r).got = (IF r = "full" THEN call.got \cup Found ELSE call.got)
         /\ Keeps(call, Took(r), {"odd", "got"})
BY DEF Took, CallFields, Keeps

\* A command that ends with what is neither empty nor a success.
LEMMA PlainEnd ==
  ASSUME HostedInv, call.at # "none", NEW c, DOMAIN c = CallFields, c.web = call.web, c.kind = call.kind, c.lost = call.lost,
         NEW what, what \notin {"empty", "added", "replaced", "refused"}, Says(c, what)
  PROVE  HostedInv'
<1>1. /\ DOMAIN call' = CallFields /\ call'.at = "told" /\ call'.told = what
      /\ call'.web = call.web /\ call'.kind = call.kind /\ call'.lost = call.lost
  BY SaysIs DEF HostedInv, CommandInv, Keeps, CallFields
<1> QED
  BY <1>1 DEF HostedInv, CommandInv, NothingYet, FoundInv, FailuresSurface, EmptyIsExplained,
              Stages, AloneStages, RecallStages

\* A command that is told that there is nothing.
LEMMA EmptyEnd ==
  ASSUME HostedInv, call.at \in Stages, UNCHANGED <<held, moved>>, NEW c, DOMAIN c = CallFields,
         Keeps(call, c, {"odd", "got"}), NotesEmpty(c),
         ~c.odd /\ ~moved => Wanted \cap held \subseteq (IF call.kind = "hook" THEN call.lost ELSE {})
  PROVE  HostedInv'
<1>1. /\ DOMAIN call' = CallFields /\ call'.at = "told" /\ call'.told = "empty"
      /\ call'.hint = (call.mismatch /\ call.kind \in Listing)
      /\ call'.kind = call.kind /\ call'.web = call.web /\ call'.team = call.team
      /\ call'.lost = call.lost /\ call'.odd = c.odd
  BY NotesIs DEF HostedInv, CommandInv, Keeps, CallFields
<1>2. CommandInv' /\ NothingYet' /\ FoundInv'
  BY <1>1 DEF HostedInv, CommandInv, NothingYet, FoundInv, Stages, AloneStages, RecallStages
<1>3. FailuresSurface'
  <2>1. Wanted' = Wanted
    BY <1>1 DEF Wanted
  <2> QED
    BY <1>1, <2>1 DEF FailuresSurface
<1>4. EmptyIsExplained'
  <2>1. call.kind \in Listing /\ call.web # "none" /\ call.team = "other" => call.mismatch
    BY DEF HostedInv, CommandInv, Mismatch, Listing
  <2> QED
    BY <1>1, <2>1 DEF EmptyIsExplained
<1> QED
  BY <1>2, <1>3, <1>4 DEF HostedInv

\* A command that goes on with its next stage.
LEMMA GoesOn ==
  ASSUME HostedInv, call.at \in Stages, UNCHANGED <<held, moved, line, code>>, NEW c, call' = c,
         DOMAIN c = CallFields, Keeps(call, c, {"at", "got", "odd", "lost"}),
         c.at \in Stages \ AloneStages, c.at = "provenance" => call.kind = "why",
         c.at \in RecallStages => call.at \in RecallStages,
         call.kind = "recall" => c.lost = {},
         FoundInv'
  PROVE  HostedInv'
<1>1. /\ call'.kind = call.kind /\ call'.web = call.web /\ call'.team = call.team
      /\ call'.mismatch = call.mismatch /\ call'.told = call.told /\ call'.by = call.by
  BY DEF Keeps, CallFields
<1>2. Mismatch' = Mismatch
  BY <1>1 DEF Mismatch
<1>3. CommandInv'
  BY <1>1, <1>2 DEF HostedInv, CommandInv, Stages, AloneStages, RecallStages
<1>4. NothingYet' /\ FailuresSurface' /\ EmptyIsExplained'
  BY <1>1 DEF HostedInv, NothingYet, FailuresSurface, EmptyIsExplained, Stages, AloneStages, RecallStages
<1> QED
  BY <1>3, <1>4 DEF HostedInv

LEMMA BeforeRequests ==
  HostedInv /\ (Begin \/ Construct \/ Warn) => HostedInv'
<1> SUFFICES ASSUME HostedInv, Begin \/ Construct \/ Warn  PROVE HostedInv'
  OBVIOUS
<1>1. UNCHANGED <<held, line, code, moved>> /\ call.at # "told" /\ DOMAIN call = CallFields
  BY DEF Begin, Construct, Warn, Local, HostedInv, CommandInv
<1>2. line = 0 /\ code = "old" /\ call.told = "nothing"
  BY <1>1 DEF HostedInv, NothingYet
<1>3. CASE Begin
  <2>1. PICK kind \in Kinds, plain, key \in BOOLEAN, team \in {"none", "web", "other"}, by \in {"query", "recent"} :
          /\ plain \/ kind \in {"add", "search", "list", "get", "index"}
          /\ by = "query" \/ kind \in {"recall", "hook"}
          /\ Goes([NoCall EXCEPT !.kind = kind, !.plain = plain, !.key = key, !.team = team,
                                 !.by = by, !.at = "start"])
    BY <1>3, Zenon DEF Begin
  <2>2. /\ DOMAIN NoCall = CallFields /\ NoCall.web = "none" /\ NoCall.lost = {} /\ NoCall.told = "nothing"
    BY DEF NoCall, CallFields
  <2>3. /\ DOMAIN call' = CallFields /\ call'.at = "start" /\ call'.kind = kind
        /\ call'.web = "none" /\ call'.lost = {} /\ call'.told = "nothing" /\ call'.by \in {"query", "recent"}
    BY <2>1, <2>2 DEF CallFields, Goes
  <2> QED
    BY <1>1, <1>2, <2>3 DEF HostedInv, CommandInv, NothingYet, FoundInv, FailuresSurface, EmptyIsExplained,
                            Stages, AloneStages, RecallStages
<1>4. CASE Construct
  <2>1. call.at = "start"
    BY <1>4 DEF Construct
  <2>2. /\ DOMAIN call' = CallFields /\ call'.at = "built" /\ call'.kind = call.kind
        /\ call'.web \in {"none", "web"} /\ call'.lost = call.lost /\ call'.told = call.told /\ call'.by = call.by
    BY <1>1, <1>4 DEF Construct, Goes, To, CallFields, HostedInv, CommandInv
  <2>3. call.kind \in Kinds
    BY <2>1 DEF HostedInv, CommandInv
  <2> QED
    BY <2>1, <2>3, <1>1, <1>2, <2>2 DEF HostedInv, CommandInv, NothingYet, FoundInv, FailuresSurface, EmptyIsExplained,
                            Stages, AloneStages, RecallStages
<1>5. CASE Warn
  <2>1. PICK m : m = (call.kind \notin {"index", "hook"} /\ Mismatch)
    OBVIOUS
  <2>2. call.at = "built" /\ call' = [To(FirstStage) EXCEPT !.mismatch = m]
    BY <1>5, <2>1 DEF Warn, Goes
  <2>3. /\ DOMAIN call' = CallFields /\ call'.at = FirstStage /\ call'.mismatch = m
        /\ call'.kind = call.kind /\ call'.web = call.web /\ call'.team = call.team
        /\ call'.lost = call.lost /\ call'.told = call.told /\ call'.by = call.by
    BY <1>1, <2>2 DEF To, CallFields
  <2>4. call.kind \in Kinds
    BY <2>2 DEF HostedInv, CommandInv
  <2>5. \/ call'.at \in AloneStages /\ call'.kind = call'.at
        \/ call'.at = "snapshot" /\ call'.kind \in {"recall", "hook"}
    BY <2>3, <2>4 DEF FirstStage, Kinds, AloneStages
  <2>6. Mismatch' = Mismatch
    BY <2>3 DEF Mismatch
  <2>7. CommandInv'
    <3>1. ASSUME call'.kind \notin {"index", "hook"}  PROVE call'.mismatch = Mismatch'
      <4>1. call'.kind \notin {"index", "hook"} /\ call'.mismatch = (call'.kind \notin {"index", "hook"} /\ Mismatch')
        BY <2>1, <2>3, <2>6, <3>1
      <4> QED
        BY <4>1 DEF Mismatch
    <3>2. /\ DOMAIN call' = CallFields /\ call'.web \in {"none", "web"}
          /\ call'.at \in Stages /\ call'.at # "none" /\ call'.kind \in Kinds
          /\ call'.kind = "recall" => call'.lost = {}
          /\ call'.by \in {"query", "recent"}
      BY <2>2, <2>3, <2>4, <2>5 DEF HostedInv, CommandInv, Stages, AloneStages, RecallStages
    <3>3. /\ call'.at \in AloneStages => call'.kind = call'.at
          /\ call'.at = "provenance" => call'.kind = "why"
          /\ call'.at \in RecallStages => call'.kind \in {"recall", "hook"}
      BY <2>5 DEF AloneStages, RecallStages
    <3> QED
      BY <3>1, <3>2, <3>3 DEF CommandInv
  <2>8. NothingYet' /\ FoundInv' /\ FailuresSurface' /\ EmptyIsExplained'
    BY <1>1, <1>2, <2>3, <2>5 DEF NothingYet, FoundInv, FailuresSurface, EmptyIsExplained, AloneStages
  <2> QED
    BY <2>7, <2>8 DEF HostedInv
<1> QED
  BY <1>3, <1>4, <1>5

LEMMA OthersStep == HostedInv /\ OthersChange => HostedInv'
<1> SUFFICES ASSUME HostedInv, OthersChange  PROVE HostedInv'
  OBVIOUS
<1>1. UNCHANGED <<line, code, call>> /\ call.at # "told" /\ moved' = (moved \/ call.at \notin {"none", "start"})
  BY DEF OthersChange
<1>2. CommandInv' /\ NothingYet'
  BY <1>1 DEF HostedInv, CommandInv, NothingYet, Mismatch
<1>3. FoundInv' /\ FailuresSurface' /\ EmptyIsExplained'
  BY <1>1 DEF HostedInv, NothingYet, FoundInv, FailuresSurface, EmptyIsExplained
<1> QED
  BY <1>2, <1>3 DEF HostedInv

\* What a request leaves alone, and what an answer says of the workspace.
LEMMA ExchangeIs ==
  ASSUME HostedInv, NEW r, Exchange(r)
  PROVE  /\ UNCHANGED <<held, moved>> /\ r \in Replies
         /\ call.at # "add" => line' = line
         /\ call.at # "index" => code' = code
         /\ call.at = "add" /\ r = "full" => line' = line + 1
         /\ call.at = "index" /\ r = "full" => code' = "new"
         /\ r = "none" => Found = {}
BY DEF Exchange, Usual

\* A command that ends with a success, or refused: what it says is so.
LEMMA TrueEnd ==
  ASSUME HostedInv, call.at # "none", NEW c, DOMAIN c = CallFields, c.web = call.web, c.kind = call.kind,
         c.lost = call.lost, NEW what, Says(c, what), what # "empty",
         what = "added" => line' = 1, what = "replaced" => code' = "new",
         what = "refused" => line' = 0 /\ code' = "old"
  PROVE  HostedInv'
<1>1. /\ DOMAIN call' = CallFields /\ call'.at = "told" /\ call'.told = what
      /\ call'.web = call.web /\ call'.kind = call.kind /\ call'.lost = call.lost
  BY SaysIs DEF HostedInv, CommandInv, Keeps, CallFields
<1> QED
  BY <1>1 DEF HostedInv, CommandInv, NothingYet, FoundInv, FailuresSurface, EmptyIsExplained,
              Stages, AloneStages, RecallStages

LEMMA RefusesStep == HostedInv /\ (RefuseShortId \/ RefuseOptions \/ RefuseIndex) => HostedInv'
<1> SUFFICES ASSUME HostedInv, RefuseShortId \/ RefuseOptions \/ RefuseIndex  PROVE HostedInv'
  OBVIOUS
<1>1. call.at \notin {"none", "told"} /\ UNCHANGED <<line, code>> /\ DOMAIN call = CallFields
  BY DEF RefuseShortId, RefuseOptions, RefuseIndex, Local, HostedInv, CommandInv
<1>2. line = 0 /\ code = "old"
  BY <1>1 DEF HostedInv, NothingYet
<1>3. Says(call, "refused") \/ Says(call, "failed")
  BY DEF RefuseShortId, RefuseOptions, RefuseIndex
<1> QED
  BY <1>1, <1>2, <1>3, TrueEnd

\* What the commands of one request do with its answer.
LEMMA RequestsStep ==
  ASSUME HostedInv, NEW r,
         Ask(r) \/ Add(r) \/ Search(r) \/ ListMemories(r) \/ Get(r) \/ Status(r) \/ Index(r) \/ Provenance(r)
  PROVE  HostedInv'
<1>1. /\ Exchange(r) /\ call.at \in Stages /\ DOMAIN call = CallFields
      /\ call.at \in AloneStages \cup {"provenance"}
  BY DEF Ask, Add, Search, ListMemories, Get, Status, Index, Provenance, Sent, Stages, AloneStages,
         HostedInv, CommandInv
<1>2. /\ UNCHANGED <<held, moved>>
      /\ call.at = "add" /\ r = "full" => line' = line + 1
      /\ call.at = "index" /\ r = "full" => code' = "new"
      /\ r = "none" => Found = {}
  BY <1>1, ExchangeIs
<1>3. line = 0 /\ call.at # "none"
  BY <1>1 DEF HostedInv, NothingYet, Stages, AloneStages, RecallStages
<1>4. /\ DOMAIN Took(r) = CallFields /\ Keeps(call, Took(r), {"odd", "got"})
      /\ Took(r).kind = call.kind /\ Took(r).web = call.web /\ Took(r).lost = call.lost
  BY <1>1, TookIs DEF Keeps, CallFields
<1>5. CASE \E what \in {"answered", "failed", "shown", "missing"} : Says(Took(r), what)
  <2>1. PICK what \in {"answered", "failed", "shown", "missing"} : Says(Took(r), what)
    BY <1>5
  <2> QED
    BY <1>3, <1>4, <2>1, PlainEnd
<1>6. CASE call.at = "add" /\ r = "full" /\ Says(Took(r), "added")
  BY <1>2, <1>3, <1>4, <1>6, TrueEnd
<1>7. CASE call.at = "index" /\ r = "full" /\ Says(Took(r), "replaced")
  BY <1>2, <1>3, <1>4, <1>7, TrueEnd
<1>8. CASE call.at \in {"search", "list"} /\ r = "none" /\ NotesEmpty(Took(r))
  <2>1. call.kind = call.at
    BY <1>8 DEF HostedInv, CommandInv, AloneStages
  <2>2. Wanted = {"memory"} /\ Reads = {"memory"}
    BY <1>8, <2>1 DEF Wanted, Reads
  <2>3. Wanted \cap held = {}
    BY <1>2, <1>8, <2>2 DEF Found
  <2> QED
    BY <1>1, <1>2, <1>4, <1>8, <2>3, EmptyEnd
<1>9. CASE Ask(r) \/ Add(r) \/ Index(r)
  BY <1>5, <1>6, <1>7, <1>9 DEF Ask, Add, Index, Sent
<1>10. CASE Get(r) \/ Status(r) \/ Provenance(r)
  BY <1>5, <1>10 DEF Get, Status, Provenance
<1>11. CASE Search(r) \/ ListMemories(r)
  BY <1>5, <1>8, <1>11 DEF Search, ListMemories, Sent
<1> QED
  BY <1>9, <1>10, <1>11

LEMMA WhyStep == ASSUME HostedInv, NEW r, Why(r) PROVE HostedInv'
<1>1. Exchange(r) /\ call.at = "why" /\ call.at \in Stages /\ DOMAIN call = CallFields /\ call.kind = "why"
  BY DEF Why, Sent, Stages, AloneStages, HostedInv, CommandInv
<1>2. UNCHANGED <<held, moved, line, code>> /\ r \in Replies /\ (r = "none" => Found = {})
  BY <1>1, ExchangeIs
<1>3. /\ DOMAIN Took(r) = CallFields /\ Keeps(call, Took(r), {"odd", "got"})
      /\ Took(r).kind = call.kind /\ Took(r).web = call.web /\ Took(r).lost = call.lost
      /\ Took(r).odd = (call.odd \/ r \in {"odd", "null"})
  BY <1>1, TookIs DEF Keeps, CallFields
<1>4. CASE call' = [Took(r) EXCEPT !.at = "provenance"]
  <2>1. PICK c : c = call'
    OBVIOUS
  <2>2. /\ DOMAIN c = CallFields /\ c.at = "provenance" /\ c.lost = call.lost
        /\ Keeps(call, c, {"at", "got", "odd", "lost"})
    BY <1>3, <1>4, <2>1 DEF Keeps, CallFields
  <2>3. FoundInv'
    BY <2>1, <2>2 DEF FoundInv
  <2>4. c.at \in Stages \ AloneStages /\ c.at \notin RecallStages
    BY <2>2 DEF Stages, AloneStages, RecallStages
  <2> QED
    BY <1>1, <1>2, <2>1, <2>2, <2>3, <2>4, GoesOn
<1>5. CASE r = "none" /\ NotesEmpty(Took(r))
  <2>1. Wanted = {"decision"} /\ Reads = {"decision"}
    BY <1>1 DEF Wanted, Reads
  <2> QED
    BY <1>1, <1>2, <1>3, <1>5, <2>1, EmptyEnd DEF Found
<1>6. CASE Says(Took(r), "failed")
  BY <1>1, <1>3, <1>6, PlainEnd
<1>7. CASE r \in {"odd", "null"} /\ Says(Took(r), "empty")
  <2>1. /\ DOMAIN call' = CallFields /\ call'.at = "told" /\ call'.told = "empty"
        /\ call'.web = call.web /\ call'.kind = call.kind /\ call'.lost = call.lost
        /\ call'.odd = Took(r).odd
    BY <1>1, <1>3, <1>7, SaysIs DEF Keeps, CallFields
  <2>2. Took(r).odd
    BY <1>3, <1>7
  <2>3. call'.odd
    BY <2>1, <2>2, Zenon
  <2> QED
    BY <1>1, <2>1, <2>3 DEF HostedInv, CommandInv, NothingYet, FoundInv, FailuresSurface, EmptyIsExplained,
                      Stages, AloneStages, RecallStages
<1>8. r \in {"full", "none", "error", "odd", "null"}
  BY <1>2 DEF Replies
<1>9. CASE r \in {"full", "none", "error"}
  BY <1>4, <1>5, <1>6, <1>9 DEF Why, Goes
<1>10. CASE r \in {"odd", "null"}
  <2>1. \E what \in {"empty"} \cup (IF r = "odd" THEN {"failed"} ELSE {}) : Says(Took(r), what)
    BY <1>10 DEF Why
  <2> QED
    BY <1>6, <1>7, <1>10, <2>1
<1> QED
  BY <1>8, <1>9, <1>10

\* What a search finds, or fails to find, is accounted for.
LEMMA TakenIsFound ==
  ASSUME HostedInv, NEW r, Exchange(r), r # "error", NEW row, Reads = {row}, row \in held
  PROVE  Took(r).odd \/ row \in Took(r).got
<1>1. r \in {"full", "none", "odd", "null"} /\ (r = "none" => Found = {}) /\ DOMAIN call = CallFields
  BY ExchangeIs DEF Replies, HostedInv, CommandInv
<1>2. /\ Took(r).odd = (call.odd \/ r \in {"odd", "null"})
      /\ Took(r).got = (IF r = "full" THEN call.got \cup Found ELSE call.got)
  BY <1>1, TookIs
<1>3. Found = {row}
  BY DEF Found
<1>4. CASE r \in {"odd", "null"}
  BY <1>2, <1>4
<1>5. CASE r = "full"
  BY <1>2, <1>3, <1>5
<1> QED
  BY <1>1, <1>3, <1>4, <1>5

LEMMA SnapshotStep == ASSUME HostedInv, NEW r, Snapshot(r) \/ SkipSnapshot PROVE HostedInv'
<1>1. /\ call.at = "snapshot" /\ DOMAIN call = CallFields /\ call.kind \in {"recall", "hook"}
      /\ call.by \in {"query", "recent"}
  BY DEF Snapshot, SkipSnapshot, Sent, HostedInv, CommandInv, RecallStages
<1>2. UNCHANGED <<held, moved, line, code>>
  BY <1>1, ExchangeIs DEF Snapshot, SkipSnapshot, Sent, Local
<1>3. /\ DOMAIN Took(r) = CallFields /\ Keeps(call, Took(r), {"odd", "got"}) /\ Took(r).lost = call.lost
  BY <1>1, TookIs DEF Keeps, CallFields
<1>4. CASE ~Says(call, "failed")
  <2>1. PICK c : c = call'
    OBVIOUS
  <2>2. \/ c = To(call.by)
        \/ c = [Took(r) EXCEPT !.at = call.by]
        \/ c = [To(call.by) EXCEPT !.lost = @ \cup Reads] /\ call.kind # "recall"
    BY <1>4, <2>1 DEF Snapshot, SkipSnapshot, Loses, Raises, Goes
  <2>3. /\ DOMAIN c = CallFields /\ c.at = call.by /\ Keeps(call, c, {"at", "got", "odd", "lost"})
        /\ call.kind = "recall" => c.lost = call.lost
    BY <1>1, <1>3, <2>2 DEF To, Keeps, CallFields
  <2>4. call.kind = "recall" => c.lost = {}
    BY <2>3 DEF HostedInv, CommandInv
  <2>5. FoundInv'
    BY <1>1, <2>1, <2>3 DEF FoundInv
  <2>6. call.at \in Stages /\ call.at \in RecallStages /\ c.at \in Stages \ AloneStages /\ c.at # "provenance"
    BY <1>1, <2>3 DEF Stages, AloneStages, RecallStages
  <2> QED
    BY <1>2, <2>1, <2>3, <2>4, <2>5, <2>6, GoesOn
<1>5. CASE Says(call, "failed")
  BY <1>1, <1>5, PlainEnd
<1> QED
  BY <1>4, <1>5

LEMMA CandidatesStep == ASSUME HostedInv, NEW r, Candidates(r) PROVE HostedInv'
<1>1. /\ call.at \in {"query", "recent", "meaning"} /\ Exchange(r) /\ DOMAIN call = CallFields
      /\ call.at \in Stages /\ call.at \in RecallStages
  BY DEF Candidates, Sent, HostedInv, CommandInv, Stages, RecallStages
<1>2. UNCHANGED <<held, moved, line, code>> /\ Reads = {"memory"}
  BY <1>1, ExchangeIs DEF Reads
<1>3. /\ DOMAIN Took(r) = CallFields /\ Keeps(call, Took(r), {"odd", "got"}) /\ Took(r).lost = call.lost
  BY <1>1, TookIs DEF Keeps, CallFields
<1>4. CASE Says(call, "failed")
  BY <1>1, <1>4, PlainEnd
<1>5. CASE r # "error"
  <2>1. PICK next \in {"meaning", "lessons"} : call' = [Took(r) EXCEPT !.at = next]
    BY <1>5 DEF Candidates, Goes
  <2>2. PICK c : c = call'
    OBVIOUS
  <2>3. /\ DOMAIN c = CallFields /\ c.at = next /\ Keeps(call, c, {"at", "got", "odd", "lost"})
        /\ c.lost = call.lost /\ c.got = Took(r).got /\ c.odd = Took(r).odd
    BY <1>3, <2>1, <2>2 DEF Keeps, CallFields
  <2>4. "memory" \in held => Took(r).odd \/ "memory" \in Took(r).got
    BY <1>1, <1>2, <1>5, TakenIsFound
  <2>5. FoundInv'
    <3>1. ASSUME ~call'.odd, "memory" \in held  PROVE "memory" \in call'.got
      BY <2>2, <2>3, <2>4, <3>1, Zenon
    <3> QED
      BY <1>2, <2>2, <2>3, <3>1 DEF FoundInv
  <2>6. c.at \in Stages \ AloneStages /\ c.at # "provenance"
    BY <2>3 DEF Stages, AloneStages, RecallStages
  <2>7. call.kind = "recall" => c.lost = {}
    BY <2>3 DEF HostedInv, CommandInv
  <2> QED
    BY <1>1, <1>2, <2>2, <2>3, <2>5, <2>6, <2>7, GoesOn
<1>6. CASE ~Raises /\ call' = [To("lessons") EXCEPT !.got = @ \ {"memory"}, !.lost = @ \cup Reads]
  <2>1. PICK c : c = call'
    OBVIOUS
  <2>2. /\ DOMAIN c = CallFields /\ c.at = "lessons" /\ Keeps(call, c, {"at", "got", "odd", "lost"})
        /\ c.lost = call.lost \cup Reads
    BY <1>1, <1>6, <2>1 DEF To, Keeps, CallFields
  <2>3. FoundInv'
    BY <1>2, <2>1, <2>2 DEF FoundInv
  <2>4. c.at \in Stages \ AloneStages /\ c.at # "provenance" /\ call.kind # "recall"
    BY <1>6, <2>2 DEF Stages, AloneStages, RecallStages, Raises
  <2> QED
    BY <1>1, <1>2, <2>1, <2>2, <2>3, <2>4, GoesOn
<1> QED
  BY <1>4, <1>5, <1>6 DEF Candidates, Goes

LEMMA LessonsStep == ASSUME HostedInv, NEW r, HostedLessons(r) PROVE HostedInv'
<1>1. /\ call.at = "lessons" /\ Exchange(r) /\ DOMAIN call = CallFields
      /\ call.at \in Stages /\ call.at \in RecallStages
  BY DEF HostedLessons, Sent, HostedInv, CommandInv, Stages, RecallStages
<1>2. UNCHANGED <<held, moved, line, code>> /\ Reads = {"decision"}
  BY <1>1, ExchangeIs DEF Reads
<1>3. /\ DOMAIN Took(r) = CallFields /\ Keeps(call, Took(r), {"odd", "got"}) /\ Took(r).lost = call.lost
      /\ Took(r).odd = (call.odd \/ r \in {"odd", "null"})
      /\ Took(r).got = (IF r = "full" THEN call.got \cup Found ELSE call.got)
  BY <1>1, TookIs DEF Keeps, CallFields
<1>4. ~call.odd /\ ~moved /\ "memory" \in held => "memory" \in call.got \cup call.lost
  BY <1>1 DEF HostedInv, FoundInv
<1>5. CASE Says(call, "failed")
  BY <1>1, <1>5, PlainEnd
<1>6. CASE r \notin {"error", "null"}
  <2>1. PICK c : c = call'
    OBVIOUS
  <2>2. /\ DOMAIN c = CallFields /\ c.at = "compose" /\ Keeps(call, c, {"at", "got", "odd", "lost"})
        /\ c.lost = call.lost /\ c.got = Took(r).got /\ c.odd = Took(r).odd
    BY <1>3, <1>6, <2>1 DEF HostedLessons, Goes, Keeps, CallFields
  <2>3. call.got \subseteq c.got
    BY <1>3, <2>2
  <2>4. "decision" \in held => Took(r).odd \/ "decision" \in Took(r).got
    BY <1>1, <1>2, <1>6, TakenIsFound
  <2>5. FoundInv'
    <3>1. ASSUME ~call'.odd  PROVE ~call.odd /\ ~Took(r).odd
      <4>1. ~Took(r).odd
        BY <2>1, <2>2, <3>1, Zenon
      <4> QED
        BY <1>3, <4>1
    <3>2. ASSUME ~call'.odd, ~moved', "memory" \in held'  PROVE "memory" \in call'.got \cup call'.lost
      BY <1>2, <1>4, <2>1, <2>2, <2>3, <3>1, <3>2
    <3>3. ASSUME ~call'.odd, "decision" \in held'  PROVE "decision" \in call'.got
      BY <1>2, <2>1, <2>2, <2>4, <3>1, <3>3
    <3> QED
      BY <3>2, <3>3 DEF FoundInv
  <2>6. c.at \in Stages \ AloneStages /\ c.at # "provenance"
    BY <2>2 DEF Stages, AloneStages, RecallStages
  <2>7. call.kind = "recall" => c.lost = {}
    BY <2>2 DEF HostedInv, CommandInv
  <2> QED
    BY <1>1, <1>2, <2>1, <2>2, <2>5, <2>6, <2>7, GoesOn
<1>7. CASE ~Raises /\ call' = [To("compose") EXCEPT !.lost = @ \cup Reads]
  <2>1. PICK c : c = call'
    OBVIOUS
  <2>2. /\ DOMAIN c = CallFields /\ c.at = "compose" /\ Keeps(call, c, {"at", "got", "odd", "lost"})
        /\ c.lost = call.lost \cup Reads /\ c.got = call.got /\ c.odd = call.odd
    BY <1>1, <1>7, <2>1 DEF To, Keeps, CallFields
  <2>3. FoundInv'
    BY <1>2, <1>4, <2>1, <2>2 DEF FoundInv
  <2>4. c.at \in Stages \ AloneStages /\ c.at # "provenance" /\ call.kind # "recall"
    BY <1>7, <2>2 DEF Stages, AloneStages, RecallStages, Raises
  <2> QED
    BY <1>1, <1>2, <2>1, <2>2, <2>3, <2>4, GoesOn
<1> QED
  BY <1>5, <1>6, <1>7 DEF HostedLessons, Loses, Goes

LEMMA ComposeStep == HostedInv /\ Compose => HostedInv'
<1> SUFFICES ASSUME HostedInv, Compose  PROVE HostedInv'
  OBVIOUS
<1>1. /\ call.at = "compose" /\ DOMAIN call = CallFields /\ UNCHANGED <<held, moved>>
      /\ call.kind \in {"recall", "hook"} /\ (call.kind = "recall" => call.lost = {}) /\ call.at \in Stages
  BY DEF Compose, Local, HostedInv, CommandInv, Stages, RecallStages
<1>2. CASE call.got # {}
  <2>1. Says(call, "shown")
    BY <1>2 DEF Compose
  <2> QED
    BY <1>1, <2>1, PlainEnd
<1>3. CASE call.got = {}
  <2>1. NotesEmpty(call)
    BY <1>3 DEF Compose
  <2>2. Wanted = {"memory", "decision"}
    BY <1>1 DEF Wanted
  <2>3. ~call.odd /\ ~moved => Wanted \cap held \subseteq call.lost
    BY <1>1, <1>3, <2>2 DEF HostedInv, FoundInv
  <2>4. ~call.odd /\ ~moved => Wanted \cap held \subseteq (IF call.kind = "hook" THEN call.lost ELSE {})
    BY <1>1, <2>3
  <2>5. Keeps(call, call, {"odd", "got"})
    BY DEF Keeps
  <2> QED
    BY <1>1, <2>1, <2>4, <2>5, EmptyEnd
<1> QED
  BY <1>2, <1>3

LEMMA HostedStart == HostedInit => HostedInv
BY DEF HostedInit, HostedInv, CommandInv, NothingYet, FoundInv, FailuresSurface, EmptyIsExplained, NoCall,
       CallFields, Stages, AloneStages, RecallStages

LEMMA HostedStep == HostedInv /\ [HostedNext]_hostedVars => HostedInv'
<1> SUFFICES ASSUME HostedInv, [HostedNext]_hostedVars  PROVE HostedInv'
  OBVIOUS
<1>1. CASE UNCHANGED hostedVars
  BY <1>1 DEF hostedVars, HostedInv, CommandInv, NothingYet, FoundInv, FailuresSurface, EmptyIsExplained,
              Mismatch, Wanted
<1>2. CASE HostedNext
  BY <1>2, BeforeRequests, OthersStep, RefusesStep, RequestsStep, WhyStep, SnapshotStep, CandidatesStep,
     LessonsStep, ComposeStep, Zenon DEF HostedNext
<1> QED
  BY <1>1, <1>2

\* Nobody is told that nothing was found while something was there, that a line was added or
\* an index replaced when it was not: for any number of failures and changes by others
\* (remote_backend.RemoteMemory and the commands that use it).
THEOREM FailuresAlwaysSurface == HostedSpec => []FailuresSurface
<1>1. HostedInv => FailuresSurface
  BY DEF HostedInv
<1> QED
  BY <1>1, HostedStart, HostedStep, PTL DEF HostedSpec

\* An empty listing from a workspace that is not the web's says so (preflight.py,
\* workspace_mismatch).
THEOREM EmptyIsAlwaysExplained == HostedSpec => []EmptyIsExplained
<1>1. HostedInv => EmptyIsExplained
  BY DEF HostedInv
<1> QED
  BY <1>1, HostedStart, HostedStep, PTL DEF HostedSpec
=============================================================================
