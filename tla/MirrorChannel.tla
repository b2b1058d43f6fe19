--------------------------- MODULE MirrorChannel ---------------------------
(***************************************************************************)
(* The durable local state of the mirror between a Lite database           *)
(* (memory.db) and a hosted workspace: mirror_state.py, mirror_outcomes.py,*)
(* mirror_recovery.py, and the restore and reset of store_reset.py.        *)
(*                                                                         *)
(* A sidecar file holds a witness of the database's identity, the pending  *)
(* operations and the baselines (what the host acknowledged).  Every       *)
(* mutation runs under .mirror.lock and ends in one saved document, but    *)
(* checkpoint, rebind and restore write two files, and the process may die *)
(* between the two.  The host, the network and the planner that builds     *)
(* snapshots are not in the repository: they are modelled from the calls   *)
(* and checks made here, and their operators are mapped as external.       *)
(*                                                                         *)
(* An identity is <<incarnation, stamp>>: both are fresh uuids in the code,*)
(* numbers never reused here.  Payloads, hashes and groups are dropped: an *)
(* operation has one member, and a key is present or absent.               *)
(***************************************************************************)
EXTENDS Integers, FiniteSets

CONSTANTS Keys,        \* artifact keys
          MaxOps,      \* bound: operations ever staged
          MaxStamp,    \* bound: identities ever created
          MaxFiles     \* bound: database files ever put in place

VARIABLES source,      \* memory.db: id, file, items
          backup,      \* a copy of memory.db kept aside
          sidecar,     \* mirror.sqlite3, without its rows
          base,        \* baselines: hosted presence and delete eligibility
          rows,        \* pending operations
          snapshots,   \* frozen manifests still retained
          outcomes,    \* operations with a saved outcome
          host, wire,  \* hosted workspace; requests under way
          phase,       \* where the running command stands
          stamp, lost  \* last stamp handed out; keys a replacement dropped

mirrorVars == <<source, backup, sidecar, base, rows, snapshots, outcomes,
                host, wire, phase, stamp, lost>>

NoId == <<0, 0>>
Partitions == {"data", "ontology"}
Witness == {"none", "active", "checkpoint_pending", "recovery_required"}

Open(r) == r.st # "terminal"
OpIds == {r.op : r \in rows} \cup DOMAIN outcomes
NextOp == 1 + Cardinality(OpIds)

MirrorTypeOK ==
    /\ source.items \subseteq Keys /\ source.file \in 1..MaxFiles
    /\ sidecar.state \in Witness
    /\ base \in [Keys -> [present : BOOLEAN, elig : 0..MaxStamp]]
    /\ \A r \in rows : /\ r.key \in Keys /\ r.act \in {"put", "check", "delete"}
                       /\ r.st \in {"staged", "sent_uncertain", "terminal"}
    /\ outcomes \in [DOMAIN outcomes -> {"committed", "rejected", "closed"}]
    /\ phase \in {"idle", "cas", "replace", "fence", "save"}

MirrorInit ==
    /\ source = [id |-> NoId, file |-> 1, items |-> {}]
    /\ backup = [id |-> NoId, items |-> {}]
    /\ sidecar = [state |-> "none", id |-> NoId, pending |-> NoId, file |-> 0,
                  gen |-> 0, paired |-> NoId, complete |-> 0]
    /\ base = [k \in Keys |-> [present |-> FALSE, elig |-> 0]]
    /\ rows = {} /\ snapshots = {} /\ outcomes = [o \in {} |-> "committed"]
    /\ host = [gen |-> [p \in Partitions |-> 0], cp |-> [p \in Partitions |-> NoId],
               items |-> {}, done |-> {}]
    /\ wire = {} /\ phase = "idle" /\ stamp = 0 /\ lost = {}

-----------------------------------------------------------------------------
(* The user works in memory.db; .write.lock is never held across a call.   *)

Remember(k) ==
    /\ k \notin source.items
    /\ source' = [source EXCEPT !.items = @ \cup {k}]
    /\ lost' = lost \ {k}
    /\ UNCHANGED <<backup, sidecar, base, rows, snapshots, outcomes, host, wire, phase, stamp>>

Forget(k) ==
    /\ k \in source.items
    /\ source' = [source EXCEPT !.items = @ \ {k}]
    /\ UNCHANGED <<backup, sidecar, base, rows, snapshots, outcomes, host, wire, phase, stamp, lost>>

BackUp ==
    /\ backup' = [id |-> source.id, items |-> source.items]
    /\ UNCHANGED <<source, sidecar, base, rows, snapshots, outcomes, host, wire, phase, stamp, lost>>

(* Another file stands at the path of memory.db.                           *)
Replaced(id, items) ==
    /\ source.file < MaxFiles
    /\ source' = [id |-> id, file |-> source.file + 1, items |-> items]
    /\ lost' = (lost \cup source.items) \ items

-----------------------------------------------------------------------------
(* prepare_pair gives the database an identity; bind stores the pair the   *)
(* host made of it.  A death between them leaves an identity to reuse.     *)

PreparePair ==
    /\ phase = "idle" /\ sidecar.state = "none"
    /\ source.id = NoId /\ stamp < MaxStamp
    /\ stamp' = stamp + 1
    /\ source' = [source EXCEPT !.id = <<stamp + 1, stamp + 1>>]
    /\ UNCHANGED <<backup, sidecar, base, rows, snapshots, outcomes, host, wire, phase, lost>>

Bind ==
    /\ phase = "idle" /\ sidecar.state = "none" /\ source.id # NoId
    /\ sidecar' = [sidecar EXCEPT !.state = "active", !.id = source.id, !.file = source.file,
                                  !.gen = 1, !.paired = source.id]
    /\ host' = [host EXCEPT !.gen = [p \in Partitions |-> 1],
                            !.cp = [p \in Partitions |-> source.id]]
    /\ UNCHANGED <<source, backup, base, rows, snapshots, outcomes, wire, phase, stamp, lost>>

(* The check made before planning an absence and before every send.        *)
Continuity ==
    /\ sidecar.state = "active"
    /\ source.id = sidecar.id /\ source.file = sidecar.file
    /\ host.gen["data"] = sidecar.gen
    /\ host.cp["data"] \in {sidecar.paired, source.id}

(* The new identity is announced in the sidecar before the database has it.*)
MAnnounce == [sidecar EXCEPT !.pending = <<source.id[1], stamp + 1>>]
Announce == [sidecar EXCEPT !.state = "checkpoint_pending",
                            !.pending = <<source.id[1], stamp + 1>>]

Checkpoint ==
    /\ phase = "idle" /\ Continuity /\ stamp < MaxStamp
    /\ \A r \in rows : ~Open(r)
    /\ stamp' = stamp + 1
    /\ sidecar' = Announce
    /\ phase' = "cas"
    /\ UNCHANGED <<source, backup, base, rows, snapshots, outcomes, host, wire, lost>>

CheckpointCas ==
    /\ phase = "cas"
    /\ source' = IF source.id = sidecar.id THEN [source EXCEPT !.id = sidecar.pending] ELSE source
    /\ phase' = "idle"
    /\ UNCHANGED <<backup, sidecar, base, rows, snapshots, outcomes, host, wire, stamp, lost>>

ResumeCheckpoint ==
    /\ phase = "idle" /\ sidecar.state = "checkpoint_pending"
    /\ source.file = sidecar.file /\ source.id = sidecar.id
    /\ source' = [source EXCEPT !.id = sidecar.pending]
    /\ UNCHANGED <<backup, sidecar, base, rows, snapshots, outcomes, host, wire, phase, stamp, lost>>

-----------------------------------------------------------------------------
(* The planner freezes what the source holds: a put or a check of a present*)
(* key, a delete of an owned key the source no longer holds.               *)
Plan(k) == IF k \in source.items THEN {"put", "check"}
           ELSE IF base[k].present THEN {"delete"} ELSE {}

Current == IF sidecar.state = "checkpoint_pending" THEN sidecar.pending ELSE sidecar.id

Busy(k) == \E r \in rows : Open(r) /\ r.key = k

Unit(o, m, k, a) == [op |-> o, man |-> m, key |-> k, act |-> a, st |-> "staged",
                     cp |-> Current, gen |-> sidecar.gen, end |-> "none"]

(* The snapshot completes the handshake of a pending checkpoint.           *)
Stage(k) ==
    /\ phase = "idle" /\ sidecar.state \in {"active", "checkpoint_pending"}
    /\ source.id = Current /\ source.file = sidecar.file
    /\ NextOp <= MaxOps /\ ~Busy(k)
    /\ \E a \in Plan(k) : rows' = rows \cup {Unit(NextOp, NextOp, k, a)}
    /\ snapshots' = snapshots \cup {[man |-> NextOp, items |-> source.items]}
    /\ sidecar' = [sidecar EXCEPT !.state = "active", !.id = Current, !.pending = NoId]
    /\ UNCHANGED <<source, backup, base, outcomes, host, wire, phase, stamp, lost>>

(* extend appends an operation to a frozen manifest, by what it froze.     *)
Extend(s, k) ==
    /\ phase = "idle" /\ sidecar.state # "none"
    /\ NextOp <= MaxOps /\ ~Busy(k)
    /\ \E old \in {r \in rows : r.man = s.man}, a \in {"put", "delete"} :
         /\ a = IF k \in s.items THEN "put" ELSE "delete"
         /\ rows' = rows \cup {[Unit(NextOp, s.man, k, a) EXCEPT !.cp = old.cp, !.gen = old.gen]}
    /\ UNCHANGED <<source, backup, sidecar, base, snapshots, outcomes, host, wire, phase, stamp, lost>>

(* Consent of the current invocation, and a key acknowledged as present in *)
(* the running incarnation.                                                *)
MAuthorizeDelete(k, consent) == consent
AuthorizeDelete(k, consent) == consent /\ base[k].elig = source.id[1]

Move(r, q) == (rows \ {r}) \cup {q}

Send(r, consent) ==
    /\ phase = "idle" /\ Open(r) /\ Continuity
    /\ r.cp = source.id
    /\ \A e \in rows : e.key = r.key /\ Open(e) => e.op >= r.op
    /\ r.act = "delete" => AuthorizeDelete(r.key, consent)
    /\ rows' = Move(r, [r EXCEPT !.st = "sent_uncertain"])
    /\ wire' = wire \cup {[op |-> r.op, key |-> r.key, act |-> r.act, gen |-> r.gen, cp |-> r.cp]}
    /\ UNCHANGED <<source, backup, sidecar, base, snapshots, outcomes, host, phase, stamp, lost>>

(* The host applies an operation once, refuses a fenced generation, and    *)
(* only confirms by a check what it holds; a                               *)
(* request may also be lost, or arrive long after the sender gave it up.   *)
HostApplies(q) ==
    /\ q \in wire
    /\ wire' = wire \ {q}
    /\ host' = IF \/ q.op \in host.done \/ q.gen # host.gen["data"]
                  \/ q.act = "check" /\ q.key \notin host.items
               THEN host
               ELSE [host EXCEPT !.done = @ \cup {q.op},
                                 !.cp["data"] = q.cp,
                                 !.items = IF q.act = "delete" THEN @ \ {q.key}
                                           ELSE @ \cup {q.key}]
    /\ UNCHANGED <<source, backup, sidecar, base, rows, snapshots, outcomes, phase, stamp, lost>>

RequestLost(q) ==
    /\ q \in wire /\ wire' = wire \ {q}
    /\ UNCHANGED <<source, backup, sidecar, base, rows, snapshots, outcomes, host, phase, stamp, lost>>

-----------------------------------------------------------------------------
(* The host's word on an operation: its receipt, or, once its generation is*)
(* fenced, that it never will be applied; nothing before that.             *)
Observed(r) == r.op \in host.done
Fenced(r) == ~Observed(r) /\ r.gen # host.gen["data"]

Close(r, end) == rows' = Move(r, [r EXCEPT !.st = "terminal", !.end = end])

Baseline(r) ==
    LET active == sidecar.state = "active" /\ sidecar.id[1] = r.cp[1]
    IN [present |-> r.act # "delete",
        elig |-> IF active /\ r.act # "delete" THEN r.cp[1] ELSE 0]

(* acknowledge, reached by an answer or by a receipt query; rebind makes   *)
(* the same query before and after its fence.                              *)
Acknowledge(r) ==
    /\ phase \in {"idle", "fence"} /\ r.st = "sent_uncertain" /\ Observed(r)
    /\ outcomes' = [o \in DOMAIN outcomes \cup {r.op} |->
                      IF o = r.op THEN "committed" ELSE outcomes[o]]
    /\ base' = [base EXCEPT ![r.key] = Baseline(r)]
    /\ sidecar' = IF sidecar.state = "active" /\ r.cp = sidecar.id
                  THEN [sidecar EXCEPT !.paired = sidecar.id] ELSE sidecar
    /\ Close(r, "committed")
    /\ UNCHANGED <<source, backup, snapshots, host, wire, phase, stamp, lost>>

AcknowledgeRefusal(r) ==
    /\ phase \in {"idle", "fence"} /\ r.st = "sent_uncertain" /\ Fenced(r)
    /\ outcomes' = [o \in DOMAIN outcomes \cup {r.op} |->
                      IF o = r.op THEN "rejected" ELSE outcomes[o]]
    /\ Close(r, "rejected")
    /\ UNCHANGED <<source, backup, sidecar, base, snapshots, host, wire, phase, stamp, lost>>

MUnsent(r) == Open(r)
Unsent(r) == r.st = "staged"

CloseUnsent(r) ==
    /\ phase = "idle" /\ Unsent(r)
    /\ Close(r, "cancelled_unsent")
    /\ UNCHANGED <<source, backup, sidecar, base, snapshots, outcomes, host, wire, phase, stamp, lost>>

VerifiedCheck(r) ==
    /\ phase = "idle" /\ Open(r) /\ r.act = "check"
    /\ Close(r, "verified")
    /\ UNCHANGED <<source, backup, sidecar, base, snapshots, outcomes, host, wire, phase, stamp, lost>>

(* A manifest is complete when all it selected is there and nothing owned  *)
(* is left that it did not select.  The model keeps the numbers of the     *)
(* operations it drops in outcomes, so that none is used twice.            *)
Reconciled(s, mine) ==
    /\ \A r \in mine : r.end \in {"committed", "verified"}
    /\ \A k \in s.items : base[k].present /\ \E r \in mine : r.key = k
    /\ \A k \in Keys : base[k].present => k \in s.items

Cleanup(s) ==
    LET mine == {r \in rows : r.man = s.man}
        gone == {r.op : r \in mine} \ DOMAIN outcomes
    IN /\ phase = "idle" /\ \A r \in mine : ~Open(r)
       /\ sidecar' = IF Reconciled(s, mine) THEN [sidecar EXCEPT !.complete = s.man] ELSE sidecar
       /\ rows' = rows \ mine /\ snapshots' = snapshots \ {s}
       /\ outcomes' = [o \in DOMAIN outcomes \cup gone |->
                         IF o \in gone THEN "closed" ELSE outcomes[o]]
       /\ UNCHANGED <<source, backup, base, host, wire, phase, stamp, lost>>

-----------------------------------------------------------------------------
(* Restore and reset mark the sidecar before they touch a source file.     *)

MarkRecovery(s) == IF s.state = "none" THEN s ELSE [s EXCEPT !.state = "recovery_required"]

BeginReplace ==
    /\ phase = "idle" /\ source.file < MaxFiles
    /\ sidecar' = MarkRecovery(sidecar)
    /\ phase' = "replace"
    /\ UNCHANGED <<source, backup, base, rows, snapshots, outcomes, host, wire, stamp, lost>>

Restore ==
    /\ phase = "replace" /\ Replaced(backup.id, backup.items)
    /\ phase' = "idle"
    /\ UNCHANGED <<backup, sidecar, base, rows, snapshots, outcomes, host, wire, stamp>>

Reset ==
    /\ phase = "replace" /\ Replaced(NoId, {})
    /\ phase' = "idle"
    /\ UNCHANGED <<backup, sidecar, base, rows, snapshots, outcomes, host, wire, stamp>>

(* A person copies a backup over the database while no command runs.       *)
CopiedByHand ==
    /\ phase = "idle" /\ Replaced(backup.id, backup.items)
    /\ UNCHANGED <<backup, sidecar, base, rows, snapshots, outcomes, host, wire, phase, stamp>>

-----------------------------------------------------------------------------
(* rebind: mark, keep or make a candidate identity, collect old receipts,  *)
(* fence both partitions, collect again, then write database and sidecar.  *)

Candidate == IF sidecar.pending # NoId /\ sidecar.pending[1] # sidecar.id[1]
             THEN sidecar.pending ELSE <<stamp + 1, stamp + 1>>

Rebind ==
    /\ phase = "idle" /\ sidecar.state # "none"
    /\ stamp < MaxStamp \/ Candidate = sidecar.pending
    /\ sidecar' = [MarkRecovery(sidecar) EXCEPT !.pending = Candidate]
    /\ stamp' = IF Candidate = sidecar.pending THEN stamp ELSE stamp + 1
    /\ phase' = "fence"
    /\ UNCHANGED <<source, backup, base, rows, snapshots, outcomes, host, wire, lost>>

FencePartition(p) ==
    /\ phase = "fence" /\ host.gen[p] = sidecar.gen
    /\ host' = [host EXCEPT !.gen[p] = sidecar.gen + 1, !.cp[p] = sidecar.pending]
    /\ UNCHANGED <<source, backup, sidecar, base, rows, snapshots, outcomes, wire, phase, stamp, lost>>

BothFenced == \A p \in Partitions : /\ host.gen[p] = sidecar.gen + 1
                                    /\ host.cp[p] = sidecar.pending

RebindCas ==
    /\ phase = "fence" /\ BothFenced
    /\ \A r \in rows : r.st # "sent_uncertain"
    /\ source' = [source EXCEPT !.id = sidecar.pending]
    /\ phase' = "save"
    /\ UNCHANGED <<backup, sidecar, base, rows, snapshots, outcomes, host, wire, stamp, lost>>

RebindSave ==
    /\ phase = "save"
    /\ rows' = {IF Open(r) THEN [r EXCEPT !.st = "terminal", !.end = "cancelled_by_rebind"]
                ELSE r : r \in rows}
    /\ base' = [k \in Keys |-> [base[k] EXCEPT !.elig = 0]]
    /\ sidecar' = [sidecar EXCEPT !.state = "active", !.id = sidecar.pending, !.pending = NoId,
                                  !.file = source.file, !.gen = sidecar.gen + 1,
                                  !.paired = sidecar.pending]
    /\ phase' = "idle"
    /\ UNCHANGED <<source, backup, snapshots, outcomes, host, wire, stamp, lost>>

(* The process dies, or a callback raises: what was saved stays.           *)
CommandDies ==
    /\ phase # "idle" /\ phase' = "idle"
    /\ UNCHANGED <<source, backup, sidecar, base, rows, snapshots, outcomes, host, wire, stamp, lost>>

-----------------------------------------------------------------------------
UserSteps == BackUp \/ CopiedByHand \/ \E k \in Keys : Remember(k) \/ Forget(k)
CommandSteps ==
    \/ PreparePair \/ Bind \/ Checkpoint \/ CheckpointCas \/ ResumeCheckpoint
    \/ BeginReplace \/ Restore \/ Reset \/ Rebind \/ RebindCas \/ RebindSave \/ CommandDies
    \/ \E k \in Keys : Stage(k)
    \/ \E s \in snapshots : Cleanup(s) \/ \E k \in Keys : Extend(s, k)
    \/ \E r \in rows : \/ \E c \in BOOLEAN : Send(r, c)
                       \/ Acknowledge(r) \/ AcknowledgeRefusal(r)
                       \/ CloseUnsent(r) \/ VerifiedCheck(r)
HostSteps == \/ \E q \in wire : HostApplies(q) \/ RequestLost(q)
             \/ \E p \in Partitions : FencePartition(p)

MirrorNext == UserSteps \/ CommandSteps \/ HostSteps
MirrorSpec == MirrorInit /\ [][MirrorNext]_mirrorVars

-----------------------------------------------------------------------------
(* A key that vanished because the database was restored, reset or copied  *)
(* over is never the subject of a delete that leaves for the host: absence *)
(* authorises a delete only in the incarnation that acknowledged the key.  *)
DeletesNothingLost == \A q \in wire' \ wire : q.act = "delete" => q.key \notin lost
NothingLostIsDeleted == [][DeletesNothingLost]_mirrorVars

(* What the baselines say of a key is what the host holds, unless an       *)
(* operation on the key is still uncertain: an operation that was sent is  *)
(* never given up while the host may yet apply it.                         *)
BaselineMatchesHost ==
    \A k \in Keys : \/ \E r \in rows : r.key = k /\ r.st = "sent_uncertain"
                    \/ (base[k].present <=> k \in host.items)

(* While the file is the one the sidecar saw, the sidecar explains the     *)
(* identity in it, so that a death between the two writes of a checkpoint  *)
(* leaves nothing that only a rebind could repair.                         *)
HandshakeExplains ==
    source.file = sidecar.file =>
        \/ sidecar.state = "recovery_required"
        \/ sidecar.state = "checkpoint_pending" /\ source.id \in {sidecar.id, sidecar.pending}
        \/ sidecar.state = "active" /\ source.id = sidecar.id

(* The three, along every behaviour.                                       *)
MirrorIsSound == NothingLostIsDeleted /\ [](BaselineMatchesHost /\ HandshakeExplains)
=============================================================================
