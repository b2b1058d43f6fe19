---------------------------- MODULE CaptureRelease ----------------------------
(***************************************************************************)
(* release_held: the operator command that moves parked SessionEnd events  *)
(* back to the ledger, composed with the hooks and workers of              *)
(* CaptureLedger.  It lists the parked files, their sizes and then the     *)
(* ledger without a lock, and moves one file at a time under ledger.lock   *)
(* with decisions taken from that listing.                                 *)
(***************************************************************************)
EXTENDS CaptureLedger

VARIABLE op  \* pc, arguments and local variables of release_held, of which
             \* the operator runs one at a time

releaseVars == <<vars, op>>

IdleOp == [pc |-> "idle", force |-> FALSE, events |-> {}, snapshot |-> {},
           queued |-> {}, stale |-> {}]

RInit == Init /\ op = IdleOp

OpGoto(l) == op' = [op EXCEPT !.pc = l]

First(F)      == CHOOSE f \in F : \A g \in F : f.stamp <= g.stamp
\* The parked file being moved, and whether it is the newest of its path.
Head          == First(op.events)
Newest(t)     == CHOOSE f \in op.events :
                   /\ f.path = t
                   /\ \A g \in op.events : g.path = t => g.stamp <= f.stamp
Keep          == Newest(Head.path).id = Head.id
ActiveThen(i) == \E e \in op.snapshot : e.id = i
MarkedThen(i) == \E e \in op.snapshot : e.id = i /\ e.forced

\* List a parking lot and stat its transcripts; what the worker would park
\* again, or has no transcript, is left.  Without --force the hold refuses.
ReleaseList(d, force, withHold) ==
  /\ op.pc = "idle"
  /\ commands < MaxCommands /\ commands' = commands + 1
  /\ force \/ ~withHold
  /\ op' = [IdleOp EXCEPT !.pc = "snapshot", !.force = force,
              !.events = {f \in parked : /\ f.dir = d /\ f.path # NoPath
                                         /\ force \/ ~OverLimit(f.path)}]
  /\ op'.events # {}
  /\ UNCHANGED <<ledgerVars, parked, dataVars, worldVars, lockVars, localVars,
                 used, clock, faults>>

\* The ledger as it is now, still without the lock.
ReleaseSnapshot ==
  /\ op.pc = "snapshot"
  /\ op' = [op EXCEPT !.pc = "move", !.snapshot = Pending, !.queued = Pending]
  /\ UNCHANGED vars

\* Whether the event goes to the ledger, or is known to be there already.
MMoves == FALSE
Moves  == \/ ~ActiveThen(Head.id)
          \/ Keep /\ op.force /\ ~MarkedThen(Head.id)

\* The active events of its transcript it replaces.
MReplaces == {r \in Pending : r.path = Head.path /\ r.id # Head.id}
Replaces  == {r \in op.queued : r.path = Head.path /\ r.id # Head.id}

\* _release_one takes ledger.lock and decides by the snapshot.
ReleaseOne ==
  LET stale == IF Moves /\ Keep THEN Replaces ELSE {} IN
  /\ op.pc = "move"
  /\ ledgerLock = Nobody /\ ledgerLock' = Operator
  /\ op' = [op EXCEPT
       !.pc = IF stale # {} THEN "supersede" ELSE IF Moves THEN "append" ELSE "unlink",
       !.stale = stale,
       !.queued = IF Moves /\ Keep THEN {r \in @ : r.path # Head.path} ELSE @]
  /\ UNCHANGED <<ledgerVars, parked, dataVars, worldVars, workerLock, localVars,
                 used, clock, countVars>>

ReleaseSupersede ==
  LET r == Oldest(op.stale) IN
  /\ op.pc = "supersede"
  /\ Append(r, "superseded")
  /\ op' = [op EXCEPT !.stale = @ \ {r},
                      !.pc = IF op.stale = {r} THEN "append" ELSE @]
  /\ UNCHANGED <<parked, dataVars, worldVars, lockVars, localVars, used,
                 countVars>>

\* The newest event of a path is queued, an older one recorded as superseded.
ReleaseAppend ==
  LET e == [id |-> Head.id, path |-> Head.path, forced |-> Keep /\ op.force] IN
  /\ op.pc = "append"
  /\ Append(e, IF Keep THEN "queued" ELSE "superseded")
  /\ OpGoto("unlink")
  /\ UNCHANGED <<parked, dataVars, worldVars, lockVars, localVars, used,
                 countVars>>

NextEvent ==
  LET rest == op.events \ {Head} IN
  op' = IF rest = {} THEN IdleOp
                     ELSE [op EXCEPT !.pc = "move", !.events = rest, !.stale = {}]

MUnlink == UNCHANGED parked
Unlink  == parked' = parked \ {Head}

ReleaseUnlink ==
  /\ op.pc = "unlink"
  /\ Unlink
  /\ ledgerLock' = Nobody
  /\ NextEvent
  /\ UNCHANGED <<ledgerVars, dataVars, worldVars, workerLock, localVars, used,
                 clock, countVars>>

\* A Timeout or OSError leaves the event parked; its siblings go on.
ReleaseLeaves ==
  /\ \/ op.pc = "move" /\ ledgerLock # Nobody /\ UNCHANGED ledgerLock
     \/ op.pc \in {"supersede", "append", "unlink"} /\ ledgerLock' = Nobody
  /\ faults < MaxFaults /\ faults' = faults + 1
  /\ NextEvent
  /\ UNCHANGED <<ledgerVars, parked, dataVars, worldVars, workerLock, localVars,
                 used, clock, commands>>

ReleaseCrash ==
  /\ op.pc # "idle"
  /\ faults < MaxFaults /\ faults' = faults + 1
  /\ ledgerLock' = IF ledgerLock = Operator THEN Nobody ELSE ledgerLock
  /\ op' = IdleOp
  /\ UNCHANGED <<ledgerVars, parked, dataVars, worldVars, workerLock, localVars,
                 used, clock, commands>>

ReleaseNext ==
  \/ \E d \in Dirs, force \in BOOLEAN, b \in HoldSettings : ReleaseList(d, force, b)
  \/ ReleaseSnapshot \/ ReleaseOne \/ ReleaseSupersede \/ ReleaseAppend
  \/ ReleaseUnlink \/ ReleaseLeaves \/ ReleaseCrash

RNext == (Next /\ UNCHANGED op) \/ ReleaseNext

RSpec == RInit /\ [][RNext]_releaseVars

-----------------------------------------------------------------------------
(* Properties *)

\* The local variables of release_held have their types.
OpTypeOK ==
  /\ op.pc \in {"idle", "snapshot", "move", "supersede", "append", "unlink"}
  /\ op.force \in BOOLEAN /\ op.events \subseteq File
  /\ op.snapshot \subseteq Event /\ op.queued \subseteq Event
  /\ op.stale \subseteq op.snapshot

\* While release-held moves events its variables have their types and no
\* acknowledged SessionEnd is lost.
ReleasedSafely == OpTypeOK /\ NothingLost

\* "Re-queue every parked event once": an event whose capture is done never
\* goes back to the queue, whatever the listing release_held works from said,
\* unless a process died or a step of the command failed.
DoneIsNotRequeued ==
  [][\A i \in Ids : ledger[i].status = "done" /\ faults = 0
                      => ledger'[i].status \notin Active]_releaseVars

\* "A SessionEnd on a transcript the operator released never parks it again":
\* while a forced event of a transcript is queued no event of it is parked.
ReleasedNeverParkedAgain ==
  [][\A p \in Paths :
       (\E i \in Ids : /\ ledger[i].status = "queued" /\ ledger[i].forced
                       /\ ledger[i].path = p)
         => {f \in parked' : f.path = p} \subseteq parked]_releaseVars

\* "A newer event that replaces a forced one inherits the mark": outside of
\* release_held a forced event is superseded only when a forced one for its
\* transcript is queued.
ForcedMarkInherited ==
  [][\A i \in Ids :
       /\ ledgerLock # Operator
       /\ ledger[i].status = "queued" /\ ledger[i].forced
       /\ ledger'[i].status = "superseded"
       => \E j \in Ids : /\ ledger'[j].status = "queued" /\ ledger'[j].forced
                         /\ ledger'[j].path = ledger[i].path]_releaseVars
=============================================================================
