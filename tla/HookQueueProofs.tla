--------------------------- MODULE HookQueueProofs ---------------------------
(***************************************************************************)
(* Proofs about HookQueue, for every set of jobs and sessions and every    *)
(* setting of the limits: no published job is lost, the queue implements   *)
(* HookService, payloads outlive their records, retries are counted        *)
(* fairly, an undisturbed job is written once, and the jobs of a session   *)
(* start in order.                                                         *)
(*                                                                         *)
(* From PayloadKept on all but the limits hold until a file operation      *)
(* fails; each part of that invariant is proved from those before it.      *)
(***************************************************************************)
EXTENDS HookRequeue, FiniteSetTheorems, WellFoundedInduction, TLAPS

\* The record of a job in flight is in running/, until the unlink that
\* completes it.
ExecInv ==
  \A j \in Jobs : exec[j] # "no" =>
    running[j] # NoFile \/ (pc = "settled" /\ now = j /\ exec[j] = "ok")

\* Nothing is in flight while running/ is recovered.
QuietInv == pc \in {"down", "recover", "recovered"} => \A j \in Jobs : exec[j] = "no"

\* A job is taken for done only after it was written.
StoredInv == \A j \in Jobs : exec[j] \in {"committed", "ok"} => written[j] > 0

\* Between the two file operations of a settlement, a recovery or an adoption
\* the copy is there.
CopyInv ==
  /\ pc = "recovered" =>
       running[now] # NoFile /\ (queue[now] # NoFile \/ dead[now] # NoFile)
  /\ pc = "settled" =>
       /\ exec[now] \in {"ok", "fail", "free", "permanent"}
       /\ exec[now] = "ok" \/ queue[now] # NoFile \/ dead[now] # NoFile
  /\ pc = "adoptUnlink" => queue[now] # NoFile

\* What the scan still offers is in queue/.
PendingInv == pc = "claim" => pending \subseteq Files(queue)

FilesInv == ExecInv /\ QuietInv /\ StoredInv /\ CopyInv /\ PendingInv /\ JobNotLost

QueueInv == TypeOK /\ FilesInv

\* A non-empty set of jobs has an oldest one.
LEMMA OldestIn ==
  ASSUME TypeOK, NEW S \in SUBSET Jobs, S # {}
  PROVE  Oldest(S) \in S /\ \A k \in S : stamp[Oldest(S)] <= stamp[k]
<1> DEFINE T == {stamp[j] : j \in S}
<1>1. T \in SUBSET Nat /\ T # {}
  BY DEF TypeOK
<1>2. PICK n \in T : \A m \in T : <<m, n>> \notin OpToRel(<, Nat)
  <2> HIDE DEF T
  <2> QED
    BY <1>1, WFMin, NatLessThanWellFounded, Zenon
<1>3. \A m \in T : n <= m
  <2> HIDE DEF T
  <2>1. \A m \in T : ~(m < n)
    BY <1>1, <1>2, Zenon DEF OpToRel
  <2> QED
    BY <1>1, <2>1
<1>4. \E j \in S : \A k \in S : stamp[j] <= stamp[k]
  BY <1>3
<1> QED
  BY <1>4 DEF Oldest

\* At the start a job is new or a spill file.
LEMMA QueueStart == Init => QueueInv
<1> SUFFICES ASSUME Init PROVE QueueInv
  OBVIOUS
<1>1. spill \subseteq Jobs
  BY HookQueueAssumption DEF Init
<1>2. Cardinality(spill) \in Nat
  BY <1>1, FS_Subset, FS_CardinalityType, HookQueueAssumption
<1>3. stamp \in [Jobs -> Nat]
  BY <1>2 DEF Init
<1>4. TypeOK
  BY <1>1, <1>2, <1>3, HookQueueAssumption DEF Init, TypeOK, PCs, Record
<1>5. JobNotLost
  BY DEF Init, JobNotLost, Accepted, Held, Stored
<1>6. ExecInv /\ QuietInv /\ StoredInv /\ CopyInv /\ PendingInv
  BY DEF Init, ExecInv, QuietInv, StoredInv, CopyInv, PendingInv
<1> QED
  BY <1>4, <1>5, <1>6 DEF QueueInv, FilesInv

\* Every variable keeps its type.
LEMMA QueueType == TypeOK /\ ExecInv /\ [Next]_vars => TypeOK'
<1> SUFFICES ASSUME TypeOK, ExecInv, [Next]_vars PROVE TypeOK'
  OBVIOUS
<1> USE HookQueueAssumption
    DEF TypeOK, PCs, ExecInv, Record, Fresh, Files, hookVars, fileVars, threadVars, stopVars, storeVars, faultVars
<1>1. ASSUME NEW j \in Jobs, HookShed(j) PROVE TypeOK'
  BY <1>1 DEF HookShed
<1>2. ASSUME NEW j \in Jobs, HookWrite(j) PROVE TypeOK'
  BY <1>2 DEF HookWrite
<1>3. ASSUME NEW j \in Jobs, HookPublish(j) PROVE TypeOK'
  BY <1>3 DEF HookPublish
<1>4. ASSUME NEW j \in Jobs, Commit(j) PROVE TypeOK'
  BY <1>4 DEF Commit, SetExec, Least
<1>5. ASSUME NEW j \in Jobs, Succeed(j) PROVE TypeOK'
  BY <1>5 DEF Succeed, SetExec
<1>6. ASSUME NEW j \in Jobs, Fail(j) PROVE TypeOK'
  BY <1>6 DEF Fail, SetExec, Fault, Blame, Least
<1>7. ASSUME NEW j \in Jobs, FailFree(j) PROVE TypeOK'
  BY <1>7 DEF FailFree, SetExec, Blame, Least
<1>8. ASSUME NEW j \in Jobs, FailPermanent(j) PROVE TypeOK'
  BY <1>8 DEF FailPermanent, SetExec, Blame, Least
<1>9. ASSUME Start PROVE TypeOK'
  BY <1>9 DEF Start
<1>10. ASSUME NEW j \in Jobs, RecoverCopy(j) PROVE TypeOK'
  BY <1>10 DEF RecoverCopy, CopyRecord, Verdict, RecoverAs
<1>11. ASSUME RecoverUnlink PROVE TypeOK'
  BY <1>11 DEF RecoverUnlink, Unlink
<1>12. ASSUME RecoverDone PROVE TypeOK'
  BY <1>12 DEF RecoverDone
<1>13. ASSUME NEW j \in Jobs, Settle(j) PROVE TypeOK'
  BY <1>13 DEF Settle, CopyRecord, Verdict, Unlink, Finished
<1>14. ASSUME SettleRest PROVE TypeOK'
  BY <1>14 DEF SettleRest, Unlink
<1>15. ASSUME BeginPass PROVE TypeOK'
  BY <1>15 DEF BeginPass, Settled
<1>16. ASSUME NEW j \in Jobs, AdoptAgain(j) PROVE TypeOK'
  BY <1>16 DEF AdoptAgain, NextSpill
<1>17. ASSUME NEW j \in Jobs, AdoptReject(j) PROVE TypeOK'
  BY <1>17 DEF AdoptReject, NextSpill
<1>18. ASSUME NEW j \in Jobs, AdoptPayload(j) PROVE TypeOK'
  BY <1>18 DEF AdoptPayload, NextSpill
<1>19. ASSUME AdoptRecord PROVE TypeOK'
  BY <1>19 DEF AdoptRecord
<1>20. ASSUME AdoptUnlink PROVE TypeOK'
  BY <1>20 DEF AdoptUnlink
<1>21. ASSUME AdoptDone PROVE TypeOK'
  BY <1>21 DEF AdoptDone
<1>22. ASSUME Scan PROVE TypeOK'
  BY <1>22 DEF Scan
<1>23. ASSUME NEW j \in Jobs, Claim(j) PROVE TypeOK'
  BY <1>23 DEF Claim, Claimable, Others
<1>24. ASSUME NEW j \in Jobs, NotDue(j) PROVE TypeOK'
  BY <1>24 DEF NotDue, Claimable, Others
<1>25. ASSUME EndPass PROVE TypeOK'
  BY <1>25 DEF EndPass
<1>26. ASSUME MarkInterrupted PROVE TypeOK'
  BY <1>26 DEF MarkInterrupted, WriteMarker, Interrupted, Inflight, Fault, Settled
<1>27. ASSUME ConsumerEnds PROVE TypeOK'
  BY <1>27 DEF ConsumerEnds, Settled
<1>28. ASSUME NEW j \in Jobs, RecoverError(j) PROVE TypeOK'
  <2>1. pc' = "recover" /\ now' = NoJob /\ tried' \subseteq tried \cup {j} /\ errors' = errors + 1
    BY <1>28 DEF RecoverError, Fault
  <2>2. /\ queue' = queue \/ queue' = [queue EXCEPT ![j] = running[j]]
        /\ running' = running \/ running' = [running EXCEPT ![j] = NoFile]
    BY <1>28 DEF RecoverError, Unlink
  <2> QED
    BY <1>28, <2>1, <2>2 DEF RecoverError
<1>29. ASSUME NEW j \in Jobs, SettleError(j) PROVE TypeOK'
  <2>1. /\ pc' = "settle" /\ now' = NoJob /\ errors' = errors + 1
        /\ tried' = tried \/ tried' = tried \cup {j}
        /\ exec' = exec \/ exec' = [exec EXCEPT ![j] = "no"]
    BY <1>29 DEF SettleError, Fault
  <2>2. /\ dead' = dead \/ dead' = [dead EXCEPT ![j] = running[j]]
        /\ running' = running \/ running' = [running EXCEPT ![j] = NoFile]
    BY <1>29 DEF SettleError, Unlink
  <2>3. ioFail' \in [Jobs -> Nat]
    BY <1>29 DEF SettleError, Least
  <2> QED
    BY <1>29, <2>1, <2>2, <2>3 DEF SettleError
<1>30. ASSUME NEW j \in Jobs, ClaimError(j) PROVE TypeOK'
  BY <1>30 DEF ClaimError, Claimable, Others, Fault, Least
<1>31. ASSUME AdoptError PROVE TypeOK'
  BY <1>31 DEF AdoptError, Fault, NextSpill
<1>32. ASSUME RequestStop PROVE TypeOK'
  BY <1>32 DEF RequestStop
<1>33. ASSUME GiveUp PROVE TypeOK'
  BY <1>33 DEF GiveUp, WriteMarker, Fault
<1>34. ASSUME Exit PROVE TypeOK'
  BY <1>34 DEF Exit, Halt, Blame, Least
<1>35. ASSUME Die PROVE TypeOK'
  BY <1>35 DEF Die, Halt, Blame, Least
<1>36. CASE UNCHANGED vars
  BY <1>36 DEF vars
<1> QED
  BY <1>1, <1>2, <1>3, <1>4, <1>5, <1>6, <1>7, <1>8, <1>9, <1>10, <1>11, <1>12, <1>13,
     <1>14, <1>15, <1>16, <1>17, <1>18, <1>19, <1>20, <1>21, <1>22, <1>23, <1>24,
     <1>25, <1>26, <1>27, <1>28, <1>29, <1>30, <1>31, <1>32, <1>33, <1>34, <1>35,
     <1>36
  DEF Next, HookStep, JobStep, ConsumerStep, Recover, Adopt, FileError

\* Every step keeps FilesInv: a file is removed only when its job was written or
\* another file of the job is there.
LEMMA QueueFiles == QueueInv /\ [Next]_vars => FilesInv'
<1> SUFFICES ASSUME QueueInv, [Next]_vars PROVE FilesInv'
  OBVIOUS
<1> USE HookQueueAssumption
    DEF QueueInv, TypeOK, PCs, FilesInv, ExecInv, QuietInv, StoredInv, CopyInv, PendingInv,
        JobNotLost, Accepted, Held, Stored, HasRecord, Files, Record, Fresh, Inflight,
        hookVars, fileVars, threadVars, stopVars, storeVars, faultVars
<1>1. ASSUME NEW j \in Jobs, HookShed(j) PROVE FilesInv'
  BY <1>1 DEF HookShed
<1>2. ASSUME NEW j \in Jobs, HookWrite(j) PROVE FilesInv'
  BY <1>2 DEF HookWrite
<1>3. ASSUME NEW j \in Jobs, HookPublish(j) PROVE FilesInv'
  BY <1>3 DEF HookPublish
<1>4. ASSUME NEW j \in Jobs, Commit(j) PROVE FilesInv'
  BY <1>4 DEF Commit, SetExec, Least
<1>5. ASSUME NEW j \in Jobs, Succeed(j) PROVE FilesInv'
  BY <1>5 DEF Succeed, SetExec
<1>6. ASSUME NEW j \in Jobs, Fail(j) PROVE FilesInv'
  BY <1>6 DEF Fail, SetExec, Fault, Blame, Least
<1>7. ASSUME NEW j \in Jobs, FailFree(j) PROVE FilesInv'
  BY <1>7 DEF FailFree, SetExec, Blame, Least
<1>8. ASSUME NEW j \in Jobs, FailPermanent(j) PROVE FilesInv'
  BY <1>8 DEF FailPermanent, SetExec, Blame, Least
<1>9. ASSUME Start PROVE FilesInv'
  BY <1>9 DEF Start
<1>10. ASSUME NEW j \in Jobs, RecoverCopy(j) PROVE FilesInv'
  BY <1>10 DEF RecoverCopy, CopyRecord, Verdict, RecoverAs
<1>11. ASSUME RecoverUnlink PROVE FilesInv'
  BY <1>11 DEF RecoverUnlink, Unlink
<1>12. ASSUME RecoverDone PROVE FilesInv'
  BY <1>12 DEF RecoverDone
<1>13. ASSUME NEW j \in Jobs, Settle(j) PROVE FilesInv'
  BY <1>13 DEF Settle, CopyRecord, Verdict, Unlink, Finished
<1>14. ASSUME SettleRest PROVE FilesInv'
  BY <1>14 DEF SettleRest, Unlink
<1>15. ASSUME BeginPass PROVE FilesInv'
  BY <1>15 DEF BeginPass, Settled
<1>16. ASSUME NEW j \in Jobs, AdoptAgain(j) PROVE FilesInv'
  BY <1>16 DEF AdoptAgain, NextSpill
<1>17. ASSUME NEW j \in Jobs, AdoptReject(j) PROVE FilesInv'
  BY <1>17 DEF AdoptReject, NextSpill
<1>18. ASSUME NEW j \in Jobs, AdoptPayload(j) PROVE FilesInv'
  BY <1>18 DEF AdoptPayload, NextSpill
<1>19. ASSUME AdoptRecord PROVE FilesInv'
  BY <1>19 DEF AdoptRecord
<1>20. ASSUME AdoptUnlink PROVE FilesInv'
  BY <1>20 DEF AdoptUnlink
<1>21. ASSUME AdoptDone PROVE FilesInv'
  BY <1>21 DEF AdoptDone
<1>22. ASSUME Scan PROVE FilesInv'
  BY <1>22 DEF Scan
<1>23. ASSUME NEW j \in Jobs, Claim(j) PROVE FilesInv'
  <2>1. j \in pending
    BY <1>23, OldestIn DEF Claim, Claimable
  <2> QED
    BY <1>23, <2>1 DEF Claim, Claimable, Others
<1>24. ASSUME NEW j \in Jobs, NotDue(j) PROVE FilesInv'
  BY <1>24 DEF NotDue, Claimable, Others
<1>25. ASSUME EndPass PROVE FilesInv'
  BY <1>25 DEF EndPass
<1>26. ASSUME MarkInterrupted PROVE FilesInv'
  BY <1>26 DEF MarkInterrupted, WriteMarker, Interrupted, Inflight, Fault, Settled
<1>27. ASSUME ConsumerEnds PROVE FilesInv'
  BY <1>27 DEF ConsumerEnds, Settled
<1>28. ASSUME NEW j \in Jobs, RecoverError(j) PROVE FilesInv'
  BY <1>28 DEF RecoverError, Unlink, Fault
<1>29. ASSUME NEW j \in Jobs, SettleError(j) PROVE FilesInv'
  BY <1>29 DEF SettleError, Unlink, Fault, Finished, Least, Least
<1>30. ASSUME NEW j \in Jobs, ClaimError(j) PROVE FilesInv'
  <2>1. j \in pending
    BY <1>30, OldestIn DEF ClaimError, Claimable
  <2>2. queue[j] # NoFile
    BY <1>30, <2>1 DEF ClaimError, Claimable
  <2>3. pc' = pc /\ now' = now /\ exec' = exec /\ running' = running /\ pending' \subseteq pending \ {j}
    BY <1>30 DEF ClaimError, Others
  <2>4. CASE UNCHANGED <<queue, dead>>
    BY <1>30, <2>1, <2>2, <2>3, <2>4 DEF ClaimError, Claimable
  <2>5. CASE /\ dead' = [dead EXCEPT ![j] = queue[j]]
             /\ queue' = [queue EXCEPT ![j] = NoFile]
    BY <1>30, <2>1, <2>2, <2>3, <2>5 DEF ClaimError, Claimable
  <2> QED
    BY <1>30, <2>4, <2>5 DEF ClaimError
<1>31. ASSUME AdoptError PROVE FilesInv'
  BY <1>31 DEF AdoptError, Fault, NextSpill
<1>32. ASSUME RequestStop PROVE FilesInv'
  BY <1>32 DEF RequestStop
<1>33. ASSUME GiveUp PROVE FilesInv'
  BY <1>33 DEF GiveUp, WriteMarker, Fault
<1>34. ASSUME Exit PROVE FilesInv'
  BY <1>34 DEF Exit, Halt, Blame, Least
<1>35. ASSUME Die PROVE FilesInv'
  BY <1>35 DEF Die, Halt, Blame, Least
<1>36. CASE UNCHANGED vars
  BY <1>36 DEF vars
<1> QED
  BY <1>1, <1>2, <1>3, <1>4, <1>5, <1>6, <1>7, <1>8, <1>9, <1>10, <1>11, <1>12, <1>13,
     <1>14, <1>15, <1>16, <1>17, <1>18, <1>19, <1>20, <1>21, <1>22, <1>23, <1>24,
     <1>25, <1>26, <1>27, <1>28, <1>29, <1>30, <1>31, <1>32, <1>33, <1>34, <1>35,
     <1>36
  DEF Next, HookStep, JobStep, ConsumerStep, Recover, Adopt, FileError

\* QueueInv is an invariant of the queue.
LEMMA QueueInvariance == Spec => []QueueInv
<1>1. QueueInv /\ [Next]_vars => QueueInv'
  BY QueueType, QueueFiles DEF QueueInv, FilesInv
<1> QED
  BY QueueStart, <1>1, PTL DEF Spec

\* Every reachable state of the hook queue is well typed.
THEOREM HookTypeCorrect == Spec => []TypeOK
BY QueueInvariance, PTL DEF QueueInv

\* A published job that was not written is in queue/, running/ or dead/, whatever
\* dies or fails between two file operations.
THEOREM JobNotLostAlways == Spec => []JobNotLost
BY QueueInvariance, PTL DEF QueueInv, FilesInv

\* A step that touches neither a file nor a hook nor the store is a stutter.
LEMMA QuietStep ==
  ASSUME UNCHANGED <<hook, spill, queue, running, dead, written>>
  PROVE  UNCHANGED <<Accepted, Held, Stored>>
BY DEF Accepted, Held, Stored, HasRecord

\* A step that moves files about keeps what the service holds.
LEMMA FileStep ==
  ASSUME QueueInv, NEW j \in Jobs,
         \/ HookShed(j) \/ HookWrite(j) \/ RecoverCopy(j) \/ RecoverUnlink
         \/ RecoverError(j) \/ SettleRest \/ SettleError(j) \/ AdoptAgain(j)
         \/ AdoptUnlink \/ Claim(j) \/ ClaimError(j)
  PROVE  UNCHANGED <<Accepted, Held, Stored>>
<1> USE HookQueueAssumption
    DEF QueueInv, TypeOK, PCs, FilesInv, ExecInv, CopyInv, PendingInv, Accepted, Held,
        Stored, HasRecord, Files, Record, hookVars, fileVars, threadVars, stopVars,
        storeVars, faultVars
<1>1. CASE HookShed(j)
  BY <1>1 DEF HookShed
<1>2. CASE HookWrite(j)
  BY <1>2 DEF HookWrite
<1>3. CASE RecoverCopy(j)
  BY <1>3 DEF RecoverCopy, CopyRecord, Verdict
<1>4. CASE RecoverUnlink
  BY <1>4 DEF RecoverUnlink, Unlink
<1>5. CASE RecoverError(j)
  BY <1>5 DEF RecoverError, Unlink
<1>6. CASE SettleError(j)
  BY <1>6 DEF SettleError, Unlink, Finished
<1>7. CASE AdoptAgain(j)
  BY <1>7 DEF AdoptAgain
<1>8. CASE AdoptUnlink
  BY <1>8 DEF AdoptUnlink
<1>9. CASE SettleRest
  BY <1>9 DEF SettleRest, Unlink
<1>10. CASE Claim(j)
  <2>1. j \in pending /\ pc = "claim"
    BY <1>10, OldestIn DEF Claim, Claimable
  <2>2. queue[j] # NoFile
    BY <2>1
  <2> QED
    BY <1>10, <2>2 DEF Claim
<1>11. CASE ClaimError(j)
  <2>1. j \in pending /\ pc = "claim"
    BY <1>11, OldestIn DEF ClaimError, Claimable
  <2>2. queue[j] # NoFile
    BY <2>1
  <2> QED
    BY <1>11, <2>2 DEF ClaimError
<1> QED
  BY <1>1, <1>2, <1>3, <1>4, <1>5, <1>6, <1>7, <1>8, <1>9, <1>10, <1>11

\* What the queue does is what HookService may do.
LEMMA QueueStep ==
  QueueInv /\ [Next]_vars => [Service!ServiceNext]_<<Accepted, Held, Stored>>
<1> DEFINE Served == Service!ServiceNext \/ UNCHANGED <<Accepted, Held, Stored>>
<1> SUFFICES ASSUME QueueInv, [Next]_vars PROVE Served
  OBVIOUS
<1> USE DEF hookVars, fileVars, threadVars, stopVars, storeVars, faultVars
<1>1. ASSUME NEW j \in Jobs, HookPublish(j) PROVE Service!Accept(j)
  BY <1>1, HookQueueAssumption
  DEF HookPublish, Service!Accept, Accepted, Held, Stored, HasRecord, QueueInv, TypeOK,
      Fresh, Record
<1>2. ASSUME NEW j \in Jobs, Commit(j) PROVE Service!Store(j)
  <2>1. running[j] # NoFile
    BY <1>2 DEF Commit, SetExec, QueueInv, FilesInv, ExecInv
  <2> QED
    BY <1>2, <2>1
    DEF Commit, Service!Store, Accepted, Held, Stored, HasRecord, Least, QueueInv, TypeOK
<1>3. ASSUME NEW j \in Jobs, Settle(j)
      PROVE  Service!Forget(j) \/ UNCHANGED <<Accepted, Held, Stored>>
  <2>1. UNCHANGED <<hook, spill, written>>
    BY <1>3 DEF Settle
  <2>2. CASE exec[j] = "ok"
    <3>1. j \in Stored
      BY <2>2 DEF QueueInv, FilesInv, StoredInv, Stored
    <3>2. UNCHANGED <<queue, dead>> /\ running' = [running EXCEPT ![j] = NoFile]
      BY <1>3, <2>2 DEF Settle, Unlink
    <3>3. Held' = Held \ {j} \/ Held' = Held
      BY <2>1, <3>2 DEF Held, HasRecord, QueueInv, TypeOK
    <3> QED
      BY <2>1, <3>1, <3>3 DEF Service!Forget, Accepted, Stored
  <2>3. CASE exec[j] # "ok"
    <3>1. running[j] # NoFile /\ running' = running
      BY <1>3, <2>3 DEF Settle, Finished, QueueInv, FilesInv, ExecInv, TypeOK
    <3>2. \A k \in Jobs : k # j => queue'[k] = queue[k] /\ dead'[k] = dead[k]
      BY <1>3, <2>3 DEF Settle, CopyRecord, QueueInv, TypeOK
    <3> QED
      BY <2>1, <3>1, <3>2 DEF Accepted, Held, Stored, HasRecord
  <2> QED
    BY <2>2, <2>3
<1>4. ASSUME NEW j \in Jobs, AdoptReject(j) PROVE Service!Accept(j)
  BY <1>4
  DEF AdoptReject, NextSpill, Service!Accept, Accepted, Held, Stored, HasRecord, QueueInv,
      TypeOK
<1>5. ASSUME AdoptRecord PROVE Service!Accept(now)
  BY <1>5, HookQueueAssumption
  DEF AdoptRecord, Service!Accept, Accepted, Held, Stored, HasRecord, QueueInv, TypeOK,
      Fresh, Record
<1>6. ASSUME AdoptRecord PROVE now \in Jobs
  BY <1>6 DEF AdoptRecord, QueueInv, TypeOK
<1>7. ASSUME NEW j \in Jobs,
         \/ HookShed(j) \/ HookWrite(j) \/ RecoverCopy(j) \/ RecoverUnlink
         \/ RecoverError(j) \/ SettleRest \/ SettleError(j) \/ AdoptAgain(j)
         \/ AdoptUnlink \/ Claim(j) \/ ClaimError(j)
      PROVE UNCHANGED <<Accepted, Held, Stored>>
  BY <1>7, FileStep
<1>8. ASSUME SettleRest \/ RecoverUnlink \/ AdoptUnlink
      PROVE  \E j \in Jobs : TRUE
  BY <1>8 DEF SettleRest, RecoverUnlink, AdoptUnlink, QueueInv, TypeOK
<1>9. ASSUME NEW j \in Jobs, Succeed(j) PROVE UNCHANGED <<Accepted, Held, Stored>>
  BY <1>9, QuietStep DEF Succeed, SetExec
<1>10. ASSUME NEW j \in Jobs, Fail(j) PROVE UNCHANGED <<Accepted, Held, Stored>>
  BY <1>10, QuietStep DEF Fail, SetExec, Fault
<1>11. ASSUME NEW j \in Jobs, FailFree(j) PROVE UNCHANGED <<Accepted, Held, Stored>>
  BY <1>11, QuietStep DEF FailFree, SetExec
<1>12. ASSUME NEW j \in Jobs, FailPermanent(j) PROVE UNCHANGED <<Accepted, Held, Stored>>
  BY <1>12, QuietStep DEF FailPermanent, SetExec
<1>13. ASSUME Start PROVE UNCHANGED <<Accepted, Held, Stored>>
  BY <1>13, QuietStep DEF Start
<1>14. ASSUME RecoverDone PROVE UNCHANGED <<Accepted, Held, Stored>>
  BY <1>14, QuietStep DEF RecoverDone
<1>15. ASSUME BeginPass PROVE UNCHANGED <<Accepted, Held, Stored>>
  BY <1>15, QuietStep DEF BeginPass
<1>16. ASSUME NEW j \in Jobs, AdoptPayload(j) PROVE UNCHANGED <<Accepted, Held, Stored>>
  BY <1>16, QuietStep DEF AdoptPayload
<1>17. ASSUME AdoptDone PROVE UNCHANGED <<Accepted, Held, Stored>>
  BY <1>17, QuietStep DEF AdoptDone
<1>18. ASSUME Scan PROVE UNCHANGED <<Accepted, Held, Stored>>
  BY <1>18, QuietStep DEF Scan
<1>19. ASSUME NEW j \in Jobs, NotDue(j) PROVE UNCHANGED <<Accepted, Held, Stored>>
  BY <1>19, QuietStep DEF NotDue
<1>20. ASSUME EndPass PROVE UNCHANGED <<Accepted, Held, Stored>>
  BY <1>20, QuietStep DEF EndPass
<1>21. ASSUME MarkInterrupted PROVE UNCHANGED <<Accepted, Held, Stored>>
  BY <1>21, QuietStep DEF MarkInterrupted
<1>22. ASSUME ConsumerEnds PROVE UNCHANGED <<Accepted, Held, Stored>>
  BY <1>22, QuietStep DEF ConsumerEnds
<1>23. ASSUME AdoptError PROVE UNCHANGED <<Accepted, Held, Stored>>
  BY <1>23, QuietStep DEF AdoptError
<1>24. ASSUME RequestStop PROVE UNCHANGED <<Accepted, Held, Stored>>
  BY <1>24, QuietStep DEF RequestStop
<1>25. ASSUME GiveUp PROVE UNCHANGED <<Accepted, Held, Stored>>
  BY <1>25, QuietStep DEF GiveUp
<1>26. ASSUME Exit PROVE UNCHANGED <<Accepted, Held, Stored>>
  BY <1>26, QuietStep DEF Exit, Halt
<1>27. ASSUME Die PROVE UNCHANGED <<Accepted, Held, Stored>>
  BY <1>27, QuietStep DEF Die, Halt
<1>28. CASE UNCHANGED vars
  BY <1>28, QuietStep DEF vars
<1>29. CASE \E j \in Jobs : HookStep(j) \/ JobStep(j)
  BY <1>29, <1>1, <1>2, <1>7, <1>9, <1>10, <1>11, <1>12
  DEF HookStep, JobStep, Service!ServiceNext
<1> QED
  BY <1>3, <1>4, <1>5, <1>6, <1>7, <1>8, <1>13, <1>14, <1>15, <1>16, <1>17, <1>18, <1>19,
     <1>20, <1>21, <1>22, <1>23, <1>24, <1>25, <1>26, <1>27, <1>28, <1>29
  DEF Next, ConsumerStep, Recover, Adopt, FileError, Service!ServiceNext

\* The hook queue is an at-least-once job service: a published job is held until
\* it is in the store, and only a held job is stored.
THEOREM QueueImplementsService == Spec => ImplementsService
<1>1. Init => Service!ServiceInit
  BY HookQueueAssumption
  DEF Init, Service!ServiceInit, Accepted, Held, Stored, HasRecord
<1> QED
  BY <1>1, QueueInvariance, QueueStep, PTL
  DEF Spec, ImplementsService, Service!ServiceSpec, Service!serviceVars

-----------------------------------------------------------------------------
(* Payloads, retries and order *)

Resting == {"down", "recover", "recovered"}
Early   == {"new", "written", "shed"}

\* A job whose record is not published has no file but its payload; what is
\* being adopted is a spill file.
EarlyInv ==
  /\ \A j \in Jobs : hook[j] \in Early =>
       queue[j] = NoFile /\ running[j] = NoFile /\ exec[j] = "no" /\ j \notin spill
  /\ pc = "adoptRecord" => now \in spill

\* A job in flight is in running/ only, until its failure is copied; what is in
\* running/ is in flight, but for recovery; the adopted job is nowhere else.
FlightInv ==
  errors = 0 =>
    /\ tried = {}
    /\ \A j \in Jobs : exec[j] # "no" =>
         queue[j] = NoFile \/ (pc = "settled" /\ now = j /\ exec[j] # "ok")
    /\ \A j \in Jobs : running[j] # NoFile /\ exec[j] = "no" => pc \in Resting
    /\ pc = "settled" /\ exec[now] = "ok" => running[now] = NoFile
    /\ pc = "adoptRecord" =>
         queue[now] = NoFile /\ running[now] = NoFile /\ exec[now] = "no"

\* The spill files are adopted before the first job starts.
SpillInv ==
  errors = 0 =>
    /\ pc \in {"scan", "claim"} => spill = {}
    /\ \A j \in Jobs : exec[j] # "no" => spill = {}

\* Whatever has a record, or is about to, has a payload.
PayloadInv ==
  errors = 0 =>
    /\ \A j \in Jobs : \/ hook[j] = "written" \/ queue[j] # NoFile
                       \/ running[j] # NoFile \/ exec[j] # "no"
                       => j \in payload
    /\ pc = "adoptRecord" => now \in payload

\* What waits or runs has attempts left.
LimitInv ==
  \A j \in Jobs :
    /\ queue[j] # NoFile =>
         queue[j].attempts < MaxAttempts /\ queue[j].free <= MaxFree
    /\ running[j] # NoFile =>
         running[j].attempts < MaxAttempts /\ running[j].free <= MaxFree

\* A job that failed on a thread deserves one attempt more than its record has;
\* so does one that recovery finds, unless its interruption was marked.
OwedInv ==
  errors = 0 => \A j \in Jobs :
    /\ queue[j] # NoFile => queue[j].attempts <= blame[j]
    /\ dead[j] # NoFile => dead[j].attempts <= blame[j]
    /\ running[j] # NoFile =>
         /\ running[j].attempts <= blame[j]
         /\ exec[j] \in {"fail", "permanent"} => running[j].attempts < blame[j]
         /\ exec[j] = "free" =>
              running[j].free < MaxFree \/ running[j].attempts < blame[j]
         /\ exec[j] = "no" =>
              \/ running[j].attempts < blame[j]
              \/ j \in marker /\ running[j].free < MaxFree

\* Once the stop gave up, what still runs is marked.
GaveUpInv ==
  /\ \A j \in Jobs : blame[j] <= MaxAttempts
  /\ gaveUp => stop
  /\ errors = 0 /\ gaveUp /\ pc \notin Resting => Files(running) \subseteq marker

BlameInv == OwedInv /\ GaveUpInv

\* A job that was written has no record left but its own run's.
OnceInv ==
  deaths = 0 /\ errors = 0 /\ ~cut => \A j \in Jobs :
    /\ written[j] <= 1
    /\ exec[j] \notin {"no", "committed", "ok"} => written[j] = 0
    /\ written[j] > 0 =>
         /\ queue[j] = NoFile /\ (running[j] # NoFile => exec[j] # "no")
         /\ hook[j] \notin Early /\ j \notin spill
         /\ ~(pc = "adoptRecord" /\ now = j)

\* A record appears after it was written, and nothing has a later stamp.
ClockInv ==
  \A j \in Jobs : /\ stamp[j] <= clock /\ shown[j] <= clock
                  /\ hook[j] = "new" => shown[j] = 0
                  /\ shown[j] > 0 => stamp[j] <= shown[j]

\* The scan offers no job of a busy session, and with a job every older one of
\* its session.
ScanInv ==
  /\ pc = "claim" => \A j \in pending : session[j] \notin Busy
  /\ errors = 0 /\ pc = "claim" => \A j \in pending, k \in Jobs :
       session[k] = session[j] /\ queue[k] # NoFile /\ shown[k] < stamp[j]
       => k \in pending

RetryInv ==
  /\ EarlyInv /\ FlightInv /\ SpillInv /\ PayloadInv /\ LimitInv /\ BlameInv
  /\ OnceInv /\ ClockInv /\ ScanInv

\* At the start no job has a record.
LEMMA RetryStart == Init => RetryInv
<1> SUFFICES ASSUME Init PROVE RetryInv
  OBVIOUS
<1>1. Cardinality(spill) \in Nat
  BY FS_Subset, FS_CardinalityType, HookQueueAssumption DEF Init
<1>2. EarlyInv /\ FlightInv /\ SpillInv /\ PayloadInv
  BY DEF Init, EarlyInv, FlightInv, SpillInv, PayloadInv, Early
<1>3. LimitInv /\ BlameInv
  BY HookQueueAssumption DEF Init, LimitInv, BlameInv, OwedInv, GaveUpInv, Resting
<1>4. OnceInv /\ ClockInv /\ ScanInv
  BY <1>1 DEF Init, OnceInv, ClockInv, ScanInv
<1> QED
  BY <1>2, <1>3, <1>4 DEF RetryInv

\* A failed file operation is counted.
LEMMA ErrorStep == errors \in Nat /\ FileError => errors' # 0 /\ errors' \in Nat
BY DEF FileError, RecoverError, SettleError, ClaimError, AdoptError, Fault

\* The next spill file is one.
LEMMA NextSpillIn == ASSUME TypeOK, NEW j \in Jobs, NextSpill(j) PROVE j \in spill
<1>1. spill \ tried \in SUBSET Jobs /\ spill \ tried # {}
  BY DEF TypeOK, NextSpill
<1>2. Oldest(spill \ tried) \in spill \ tried
  BY <1>1, OldestIn, Zenon
<1> QED
  BY <1>2 DEF NextSpill

\* Only publishing or adopting a job gives it a record.
LEMMA EarlyStep ==
  TypeOK /\ PendingInv /\ EarlyInv /\ [Next]_vars => EarlyInv'
<1> SUFFICES ASSUME TypeOK, PendingInv, EarlyInv, [Next]_vars PROVE EarlyInv'
  OBVIOUS
<1> USE HookQueueAssumption
    DEF TypeOK, PendingInv, EarlyInv, Early, Files,
        hookVars, fileVars, threadVars, stopVars, storeVars, faultVars
<1>1. ASSUME NEW j \in Jobs, HookShed(j) \/ HookWrite(j) \/ HookPublish(j) PROVE EarlyInv'
  BY <1>1 DEF HookShed, HookWrite, HookPublish
<1>2. ASSUME NEW j \in Jobs,
             Commit(j) \/ Succeed(j) \/ Fail(j) \/ FailFree(j) \/ FailPermanent(j) PROVE EarlyInv'
  BY <1>2 DEF Commit, Succeed, Fail, FailFree, FailPermanent, SetExec, Fault
<1>3. ASSUME Start PROVE EarlyInv'
  BY <1>3 DEF Start
<1>4. ASSUME NEW j \in Jobs, RecoverCopy(j) PROVE EarlyInv'
  BY <1>4 DEF RecoverCopy, CopyRecord, Verdict
<1>5. ASSUME RecoverUnlink \/ RecoverDone PROVE EarlyInv'
  BY <1>5 DEF RecoverUnlink, RecoverDone, Unlink
<1>6. ASSUME NEW j \in Jobs, Settle(j) PROVE EarlyInv'
  BY <1>6 DEF Settle, CopyRecord, Verdict, Unlink, Finished
<1>7. ASSUME SettleRest PROVE EarlyInv'
  BY <1>7 DEF SettleRest, Unlink
<1>8. ASSUME BeginPass PROVE EarlyInv'
  BY <1>8 DEF BeginPass, Settled
<1>9. ASSUME NEW j \in Jobs, AdoptAgain(j) \/ AdoptReject(j) \/ AdoptPayload(j) PROVE EarlyInv'
  <2>1. j \in spill
    BY <1>9, NextSpillIn DEF AdoptAgain, AdoptReject, AdoptPayload
  <2> QED
    BY <1>9, <2>1 DEF AdoptAgain, AdoptReject, AdoptPayload
<1>10. ASSUME AdoptRecord PROVE EarlyInv'
  BY <1>10 DEF AdoptRecord
<1>11. ASSUME AdoptUnlink \/ AdoptDone PROVE EarlyInv'
  BY <1>11 DEF AdoptUnlink, AdoptDone
<1>12. ASSUME Scan PROVE EarlyInv'
  BY <1>12 DEF Scan
<1>13. ASSUME NEW j \in Jobs, Claim(j) PROVE EarlyInv'
  <2>1. j \in pending /\ pc = "claim"
    BY <1>13, OldestIn DEF Claim, Claimable
  <2> QED
    BY <1>13, <2>1 DEF Claim, Claimable, Others
<1>14. ASSUME (\E j \in Jobs : NotDue(j)) \/ EndPass PROVE EarlyInv'
  BY <1>14 DEF NotDue, EndPass, Others
<1>15. ASSUME MarkInterrupted \/ ConsumerEnds PROVE EarlyInv'
  BY <1>15 DEF MarkInterrupted, ConsumerEnds, Settled, WriteMarker, Interrupted, Fault
<1>16. ASSUME NEW j \in Jobs, RecoverError(j) PROVE EarlyInv'
  BY <1>16 DEF RecoverError, Unlink, Fault
<1>17. ASSUME NEW j \in Jobs, SettleError(j) PROVE EarlyInv'
  BY <1>17 DEF SettleError, Unlink, Fault
<1>18. ASSUME NEW j \in Jobs, ClaimError(j) PROVE EarlyInv'
  <2>1. j \in pending /\ pc = "claim"
    BY <1>18, OldestIn DEF ClaimError, Claimable
  <2> QED
    BY <1>18, <2>1 DEF ClaimError
<1>19. ASSUME AdoptError PROVE EarlyInv'
  BY <1>19 DEF AdoptError, Fault
<1>20. ASSUME RequestStop \/ GiveUp PROVE EarlyInv'
  BY <1>20 DEF RequestStop, GiveUp, WriteMarker, Fault
<1>21. ASSUME Exit \/ Die PROVE EarlyInv'
  BY <1>21 DEF Exit, Die, Halt
<1>22. CASE UNCHANGED vars
  BY <1>22 DEF vars
<1> QED
  BY <1>1, <1>2, <1>3, <1>4, <1>5, <1>6, <1>7, <1>8, <1>9, <1>10, <1>11, <1>12, <1>13,
     <1>14, <1>15, <1>16, <1>17, <1>18, <1>19, <1>20, <1>21, <1>22
  DEF Next, HookStep, JobStep, ConsumerStep, Recover, Adopt, FileError

\* A record is in one place of queue/ and running/ while its job is in flight.
LEMMA FlightStep ==
  QueueInv /\ EarlyInv /\ FlightInv /\ [Next]_vars => FlightInv'
<1> SUFFICES ASSUME QueueInv, EarlyInv, FlightInv, [Next]_vars PROVE FlightInv'
  OBVIOUS
<1> USE HookQueueAssumption
    DEF QueueInv, TypeOK, PCs, FilesInv, ExecInv, QuietInv, PendingInv, CopyInv,
        EarlyInv, Early, FlightInv, Resting, HasRecord, Files, Inflight, hookVars,
        fileVars, threadVars, stopVars, storeVars, faultVars
<1>1. ASSUME NEW j \in Jobs, HookShed(j) \/ HookWrite(j) \/ HookPublish(j) PROVE FlightInv'
  BY <1>1 DEF HookShed, HookWrite, HookPublish
<1>2. ASSUME NEW j \in Jobs,
             Commit(j) \/ Succeed(j) \/ Fail(j) \/ FailFree(j) \/ FailPermanent(j) PROVE FlightInv'
  BY <1>2 DEF Commit, Succeed, Fail, FailFree, FailPermanent, SetExec, Fault
<1>3. ASSUME Start PROVE FlightInv'
  BY <1>3 DEF Start
<1>4. ASSUME NEW j \in Jobs, RecoverCopy(j) PROVE FlightInv'
  BY <1>4 DEF RecoverCopy, CopyRecord, Verdict
<1>5. ASSUME RecoverUnlink \/ RecoverDone PROVE FlightInv'
  BY <1>5 DEF RecoverUnlink, RecoverDone, Unlink
<1>6. ASSUME NEW j \in Jobs, Settle(j) PROVE FlightInv'
  BY <1>6 DEF Settle, CopyRecord, Verdict, Unlink, Finished
<1>7. ASSUME SettleRest PROVE FlightInv'
  BY <1>7 DEF SettleRest, Unlink
<1>8. ASSUME BeginPass PROVE FlightInv'
  BY <1>8 DEF BeginPass, Settled
<1>9. ASSUME NEW j \in Jobs, AdoptAgain(j) \/ AdoptReject(j) \/ AdoptPayload(j) PROVE FlightInv'
  BY <1>9 DEF AdoptAgain, AdoptReject, AdoptPayload, NextSpill
<1>10. ASSUME AdoptRecord PROVE FlightInv'
  BY <1>10 DEF AdoptRecord
<1>11. ASSUME AdoptUnlink \/ AdoptDone PROVE FlightInv'
  BY <1>11 DEF AdoptUnlink, AdoptDone
<1>12. ASSUME Scan PROVE FlightInv'
  BY <1>12 DEF Scan
<1>13. ASSUME NEW j \in Jobs, Claim(j) PROVE FlightInv'
  <2>1. j \in pending /\ pc = "claim"
    BY <1>13, OldestIn DEF Claim, Claimable
  <2> QED
    BY <1>13, <2>1 DEF Claim, Claimable, Others
<1>14. ASSUME (\E j \in Jobs : NotDue(j)) \/ EndPass PROVE FlightInv'
  BY <1>14 DEF NotDue, EndPass, Others
<1>15. ASSUME MarkInterrupted \/ ConsumerEnds PROVE FlightInv'
  BY <1>15 DEF MarkInterrupted, ConsumerEnds, Settled, WriteMarker, Interrupted, Fault
<1>16. CASE FileError
  BY <1>16, ErrorStep DEF QueueInv, TypeOK
<1>17. ASSUME RequestStop \/ GiveUp PROVE FlightInv'
  BY <1>17 DEF RequestStop, GiveUp, WriteMarker, Fault
<1>18. ASSUME Exit \/ Die PROVE FlightInv'
  BY <1>18 DEF Exit, Die, Halt
<1>19. CASE UNCHANGED vars
  BY <1>19 DEF vars
<1> QED
  BY <1>1, <1>2, <1>3, <1>4, <1>5, <1>6, <1>7, <1>8, <1>9, <1>10, <1>11, <1>12, <1>13,
     <1>14, <1>15, <1>16, <1>17, <1>18, <1>19
  DEF Next, HookStep, JobStep, ConsumerStep, Recover, Adopt

\* Adoption ends with nothing left in hook-spill/.
LEMMA SpillStep ==
  QueueInv /\ FlightInv /\ SpillInv /\ [Next]_vars => SpillInv'
<1> SUFFICES ASSUME QueueInv, FlightInv, SpillInv, [Next]_vars PROVE SpillInv'
  OBVIOUS
<1> USE HookQueueAssumption
    DEF QueueInv, TypeOK, PCs, FilesInv, FlightInv, SpillInv, hookVars, fileVars,
        threadVars, stopVars, storeVars, faultVars
<1>1. ASSUME NEW j \in Jobs, HookShed(j) \/ HookWrite(j) \/ HookPublish(j) PROVE SpillInv'
  BY <1>1 DEF HookShed, HookWrite, HookPublish
<1>2. ASSUME NEW j \in Jobs,
             Commit(j) \/ Succeed(j) \/ Fail(j) \/ FailFree(j) \/ FailPermanent(j) PROVE SpillInv'
  BY <1>2 DEF Commit, Succeed, Fail, FailFree, FailPermanent, SetExec, Fault
<1>3. ASSUME Start PROVE SpillInv'
  BY <1>3 DEF Start
<1>4. ASSUME NEW j \in Jobs, RecoverCopy(j) PROVE SpillInv'
  BY <1>4 DEF RecoverCopy, CopyRecord, Verdict
<1>5. ASSUME RecoverUnlink \/ RecoverDone PROVE SpillInv'
  BY <1>5 DEF RecoverUnlink, RecoverDone, Unlink
<1>6. ASSUME NEW j \in Jobs, Settle(j) PROVE SpillInv'
  BY <1>6 DEF Settle, CopyRecord, Verdict, Unlink, Finished
<1>7. ASSUME SettleRest PROVE SpillInv'
  BY <1>7 DEF SettleRest, Unlink
<1>8. ASSUME BeginPass PROVE SpillInv'
  BY <1>8 DEF BeginPass, Settled
<1>9. ASSUME NEW j \in Jobs, AdoptAgain(j) \/ AdoptReject(j) \/ AdoptPayload(j) PROVE SpillInv'
  BY <1>9 DEF AdoptAgain, AdoptReject, AdoptPayload, NextSpill
<1>10. ASSUME AdoptRecord PROVE SpillInv'
  BY <1>10 DEF AdoptRecord
<1>11. ASSUME AdoptUnlink \/ AdoptDone PROVE SpillInv'
  BY <1>11 DEF AdoptUnlink, AdoptDone
<1>12. ASSUME Scan PROVE SpillInv'
  BY <1>12 DEF Scan
<1>13. ASSUME NEW j \in Jobs, Claim(j) PROVE SpillInv'
  <2>1. j \in pending /\ pc = "claim"
    BY <1>13, OldestIn DEF Claim, Claimable
  <2> QED
    BY <1>13, <2>1 DEF Claim, Claimable, Others
<1>14. ASSUME (\E j \in Jobs : NotDue(j)) \/ EndPass PROVE SpillInv'
  BY <1>14 DEF NotDue, EndPass, Others
<1>15. ASSUME MarkInterrupted \/ ConsumerEnds PROVE SpillInv'
  BY <1>15 DEF MarkInterrupted, ConsumerEnds, Settled, WriteMarker, Interrupted, Fault
<1>16. CASE FileError
  BY <1>16, ErrorStep DEF QueueInv, TypeOK
<1>17. ASSUME RequestStop \/ GiveUp PROVE SpillInv'
  BY <1>17 DEF RequestStop, GiveUp, WriteMarker, Fault
<1>18. ASSUME Exit \/ Die PROVE SpillInv'
  BY <1>18 DEF Exit, Die, Halt
<1>19. CASE UNCHANGED vars
  BY <1>19 DEF vars
<1> QED
  BY <1>1, <1>2, <1>3, <1>4, <1>5, <1>6, <1>7, <1>8, <1>9, <1>10, <1>11, <1>12, <1>13,
     <1>14, <1>15, <1>16, <1>17, <1>18, <1>19
  DEF Next, HookStep, JobStep, ConsumerStep, Recover, Adopt

\* A payload goes with the last record of its job, and comes before the first.
LEMMA PayloadStep ==
  QueueInv /\ EarlyInv /\ FlightInv /\ PayloadInv /\ [Next]_vars => PayloadInv'
<1> SUFFICES ASSUME QueueInv, EarlyInv, FlightInv, PayloadInv, [Next]_vars PROVE PayloadInv'
  OBVIOUS
<1> USE HookQueueAssumption
    DEF QueueInv, TypeOK, PCs, FilesInv, ExecInv, QuietInv, PendingInv, CopyInv,
        EarlyInv, Early, FlightInv, PayloadInv, Files, hookVars, fileVars, threadVars,
        stopVars, storeVars, faultVars
<1>1. ASSUME NEW j \in Jobs, HookShed(j) \/ HookWrite(j) \/ HookPublish(j) PROVE PayloadInv'
  BY <1>1 DEF HookShed, HookWrite, HookPublish
<1>2. ASSUME NEW j \in Jobs,
             Commit(j) \/ Succeed(j) \/ Fail(j) \/ FailFree(j) \/ FailPermanent(j) PROVE PayloadInv'
  BY <1>2 DEF Commit, Succeed, Fail, FailFree, FailPermanent, SetExec, Fault
<1>3. ASSUME Start PROVE PayloadInv'
  BY <1>3 DEF Start
<1>4. ASSUME NEW j \in Jobs, RecoverCopy(j) PROVE PayloadInv'
  BY <1>4 DEF RecoverCopy, CopyRecord, Verdict
<1>5. ASSUME RecoverUnlink \/ RecoverDone PROVE PayloadInv'
  BY <1>5 DEF RecoverUnlink, RecoverDone, Unlink
<1>6. ASSUME NEW j \in Jobs, Settle(j) PROVE PayloadInv'
  BY <1>6 DEF Settle, CopyRecord, Verdict, Unlink, Finished
<1>7. ASSUME SettleRest PROVE PayloadInv'
  BY <1>7 DEF SettleRest, Unlink
<1>8. ASSUME BeginPass PROVE PayloadInv'
  BY <1>8 DEF BeginPass, Settled
<1>9. ASSUME NEW j \in Jobs, AdoptAgain(j) \/ AdoptReject(j) \/ AdoptPayload(j) PROVE PayloadInv'
  BY <1>9 DEF AdoptAgain, AdoptReject, AdoptPayload, NextSpill
<1>10. ASSUME AdoptRecord PROVE PayloadInv'
  BY <1>10 DEF AdoptRecord
<1>11. ASSUME AdoptUnlink \/ AdoptDone PROVE PayloadInv'
  BY <1>11 DEF AdoptUnlink, AdoptDone
<1>12. ASSUME Scan PROVE PayloadInv'
  BY <1>12 DEF Scan
<1>13. ASSUME NEW j \in Jobs, Claim(j) PROVE PayloadInv'
  <2>1. j \in pending /\ pc = "claim"
    BY <1>13, OldestIn DEF Claim, Claimable
  <2> QED
    BY <1>13, <2>1 DEF Claim, Claimable, Others
<1>14. ASSUME (\E j \in Jobs : NotDue(j)) \/ EndPass PROVE PayloadInv'
  BY <1>14 DEF NotDue, EndPass, Others
<1>15. ASSUME MarkInterrupted \/ ConsumerEnds PROVE PayloadInv'
  BY <1>15 DEF MarkInterrupted, ConsumerEnds, Settled, WriteMarker, Interrupted, Fault
<1>16. CASE FileError
  BY <1>16, ErrorStep DEF QueueInv, TypeOK
<1>17. ASSUME RequestStop \/ GiveUp PROVE PayloadInv'
  BY <1>17 DEF RequestStop, GiveUp, WriteMarker, Fault
<1>18. ASSUME Exit \/ Die PROVE PayloadInv'
  BY <1>18 DEF Exit, Die, Halt
<1>19. CASE UNCHANGED vars
  BY <1>19 DEF vars
<1> QED
  BY <1>1, <1>2, <1>3, <1>4, <1>5, <1>6, <1>7, <1>8, <1>9, <1>10, <1>11, <1>12, <1>13,
     <1>14, <1>15, <1>16, <1>17, <1>18, <1>19
  DEF Next, HookStep, JobStep, ConsumerStep, Recover, Adopt

\* Nothing returns to queue/ without attempts left.
LEMMA LimitStep ==
  TypeOK /\ ExecInv /\ PendingInv /\ LimitInv /\ [Next]_vars => LimitInv'
<1> SUFFICES ASSUME TypeOK, ExecInv, PendingInv, LimitInv, [Next]_vars PROVE LimitInv'
  OBVIOUS
<1> USE HookQueueAssumption
    DEF TypeOK, PCs, ExecInv, PendingInv, LimitInv, Files, Record,
        Fresh, hookVars, fileVars, threadVars, stopVars, storeVars, faultVars
<1>1. ASSUME NEW j \in Jobs, HookShed(j) \/ HookWrite(j) \/ HookPublish(j) PROVE LimitInv'
  BY <1>1 DEF HookShed, HookWrite, HookPublish
<1>2. ASSUME NEW j \in Jobs,
             Commit(j) \/ Succeed(j) \/ Fail(j) \/ FailFree(j) \/ FailPermanent(j) PROVE LimitInv'
  BY <1>2 DEF Commit, Succeed, Fail, FailFree, FailPermanent, SetExec, Fault
<1>3. ASSUME Start PROVE LimitInv'
  BY <1>3 DEF Start
<1>4. ASSUME NEW j \in Jobs, RecoverCopy(j) PROVE LimitInv'
  BY <1>4 DEF RecoverCopy, CopyRecord, Verdict
<1>5. ASSUME RecoverUnlink \/ RecoverDone PROVE LimitInv'
  BY <1>5 DEF RecoverUnlink, RecoverDone, Unlink
<1>6. ASSUME NEW j \in Jobs, Settle(j) PROVE LimitInv'
  BY <1>6 DEF Settle, CopyRecord, Verdict, Unlink, Finished
<1>7. ASSUME SettleRest PROVE LimitInv'
  BY <1>7 DEF SettleRest, Unlink
<1>8. ASSUME BeginPass PROVE LimitInv'
  BY <1>8 DEF BeginPass, Settled
<1>9. ASSUME NEW j \in Jobs, AdoptAgain(j) \/ AdoptReject(j) \/ AdoptPayload(j) PROVE LimitInv'
  BY <1>9 DEF AdoptAgain, AdoptReject, AdoptPayload, NextSpill
<1>10. ASSUME AdoptRecord PROVE LimitInv'
  BY <1>10 DEF AdoptRecord
<1>11. ASSUME AdoptUnlink \/ AdoptDone PROVE LimitInv'
  BY <1>11 DEF AdoptUnlink, AdoptDone
<1>12. ASSUME Scan PROVE LimitInv'
  BY <1>12 DEF Scan
<1>13. ASSUME NEW j \in Jobs, Claim(j) PROVE LimitInv'
  <2>1. j \in pending /\ pc = "claim"
    BY <1>13, OldestIn DEF Claim, Claimable
  <2> QED
    BY <1>13, <2>1 DEF Claim, Claimable, Others
<1>14. ASSUME (\E j \in Jobs : NotDue(j)) \/ EndPass PROVE LimitInv'
  BY <1>14 DEF NotDue, EndPass, Others
<1>15. ASSUME MarkInterrupted \/ ConsumerEnds PROVE LimitInv'
  BY <1>15 DEF MarkInterrupted, ConsumerEnds, Settled, WriteMarker, Interrupted, Fault
<1>16. ASSUME NEW j \in Jobs, RecoverError(j) PROVE LimitInv'
  BY <1>16 DEF RecoverError, Unlink, Fault
<1>17. ASSUME NEW j \in Jobs, SettleError(j) PROVE LimitInv'
  BY <1>17 DEF SettleError, Unlink, Fault
<1>18. ASSUME NEW j \in Jobs, ClaimError(j) PROVE LimitInv'
  BY <1>18 DEF ClaimError, Claimable, Others, Fault
<1>19. ASSUME AdoptError PROVE LimitInv'
  BY <1>19 DEF AdoptError, Fault
<1>20. ASSUME RequestStop \/ GiveUp PROVE LimitInv'
  BY <1>20 DEF RequestStop, GiveUp, WriteMarker, Fault
<1>21. ASSUME Exit \/ Die PROVE LimitInv'
  BY <1>21 DEF Exit, Die, Halt
<1>22. CASE UNCHANGED vars
  BY <1>22 DEF vars
<1> QED
  BY <1>1, <1>2, <1>3, <1>4, <1>5, <1>6, <1>7, <1>8, <1>9, <1>10, <1>11, <1>12, <1>13,
     <1>14, <1>15, <1>16, <1>17, <1>18, <1>19, <1>20, <1>21, <1>22
  DEF Next, HookStep, JobStep, ConsumerStep, Recover, Adopt, FileError

\* An attempt is counted only for a failure, a death, or when no free retry is left.
LEMMA OwedStep ==
  QueueInv /\ EarlyInv /\ FlightInv /\ LimitInv /\ BlameInv /\ [Next]_vars => OwedInv'
<1> SUFFICES ASSUME QueueInv, EarlyInv, FlightInv, LimitInv, BlameInv, [Next]_vars PROVE OwedInv'
  OBVIOUS
<1> USE HookQueueAssumption
    DEF QueueInv, TypeOK, PCs, FilesInv, ExecInv, QuietInv, PendingInv, CopyInv,
        EarlyInv, Early, FlightInv, LimitInv, BlameInv, OwedInv, GaveUpInv, Resting,
        Files, Inflight, Record, Fresh, Least, hookVars, fileVars, threadVars, stopVars,
        storeVars, faultVars
<1>1. ASSUME NEW j \in Jobs, HookShed(j) \/ HookWrite(j) \/ HookPublish(j) PROVE OwedInv'
  BY <1>1 DEF HookShed, HookWrite, HookPublish
<1>2. ASSUME NEW j \in Jobs,
             Commit(j) \/ Succeed(j) \/ Fail(j) \/ FailFree(j) \/ FailPermanent(j) PROVE OwedInv'
  BY <1>2 DEF Commit, Succeed, Fail, FailFree, FailPermanent, SetExec, Blame, Fault
<1>3. ASSUME Start PROVE OwedInv'
  BY <1>3 DEF Start
<1>4. ASSUME NEW j \in Jobs, RecoverCopy(j) PROVE OwedInv'
  BY <1>4 DEF RecoverCopy, CopyRecord, Verdict, RecoverAs
<1>5. ASSUME RecoverUnlink \/ RecoverDone PROVE OwedInv'
  BY <1>5 DEF RecoverUnlink, RecoverDone, Unlink
<1>6. ASSUME NEW j \in Jobs, Settle(j) PROVE OwedInv'
  BY <1>6 DEF Settle, CopyRecord, Verdict, Unlink, Finished
<1>7. ASSUME SettleRest PROVE OwedInv'
  BY <1>7 DEF SettleRest, Unlink
<1>8. ASSUME BeginPass PROVE OwedInv'
  BY <1>8 DEF BeginPass, Settled
<1>9. ASSUME NEW j \in Jobs, AdoptAgain(j) \/ AdoptReject(j) \/ AdoptPayload(j) PROVE OwedInv'
  BY <1>9 DEF AdoptAgain, AdoptReject, AdoptPayload, NextSpill
<1>10. ASSUME AdoptRecord PROVE OwedInv'
  BY <1>10 DEF AdoptRecord
<1>11. ASSUME AdoptUnlink \/ AdoptDone PROVE OwedInv'
  BY <1>11 DEF AdoptUnlink, AdoptDone
<1>12. ASSUME Scan PROVE OwedInv'
  BY <1>12 DEF Scan
<1>13. ASSUME NEW j \in Jobs, Claim(j) PROVE OwedInv'
  <2>1. j \in pending /\ pc = "claim"
    BY <1>13, OldestIn DEF Claim, Claimable
  <2> QED
    BY <1>13, <2>1 DEF Claim, Claimable, Others
<1>14. ASSUME (\E j \in Jobs : NotDue(j)) \/ EndPass PROVE OwedInv'
  BY <1>14 DEF NotDue, EndPass, Others
<1>15. ASSUME MarkInterrupted \/ ConsumerEnds PROVE OwedInv'
  BY <1>15 DEF MarkInterrupted, ConsumerEnds, Settled, WriteMarker, Interrupted, Fault
<1>16. CASE FileError
  BY <1>16, ErrorStep DEF QueueInv, TypeOK
<1>17. ASSUME RequestStop \/ GiveUp PROVE OwedInv'
  BY <1>17 DEF RequestStop, GiveUp, WriteMarker, Fault
<1>18. ASSUME Exit \/ Die PROVE OwedInv'
  BY <1>18 DEF Exit, Die, Halt, Blame
<1>19. CASE UNCHANGED vars
  BY <1>19 DEF vars
<1> QED
  BY <1>1, <1>2, <1>3, <1>4, <1>5, <1>6, <1>7, <1>8, <1>9, <1>10, <1>11, <1>12, <1>13,
     <1>14, <1>15, <1>16, <1>17, <1>18, <1>19
  DEF Next, HookStep, JobStep, ConsumerStep, Recover, Adopt

\* A stop that gave up has marked what still runs.
LEMMA GaveUpStep ==
  QueueInv /\ FlightInv /\ BlameInv /\ [Next]_vars => GaveUpInv'
<1> SUFFICES ASSUME QueueInv, FlightInv, BlameInv, [Next]_vars PROVE GaveUpInv'
  OBVIOUS
<1> USE HookQueueAssumption
    DEF QueueInv, TypeOK, PCs, FilesInv, ExecInv, QuietInv, FlightInv, BlameInv,
        OwedInv, GaveUpInv, Resting, PidLive, Files, Inflight, Least, hookVars,
        fileVars, threadVars, stopVars, storeVars, faultVars
<1>1. ASSUME NEW j \in Jobs, HookShed(j) \/ HookWrite(j) \/ HookPublish(j) PROVE GaveUpInv'
  BY <1>1 DEF HookShed, HookWrite, HookPublish
<1>2. ASSUME NEW j \in Jobs,
             Commit(j) \/ Succeed(j) \/ Fail(j) \/ FailFree(j) \/ FailPermanent(j) PROVE GaveUpInv'
  BY <1>2 DEF Commit, Succeed, Fail, FailFree, FailPermanent, SetExec, Blame, Fault
<1>3. ASSUME Start PROVE GaveUpInv'
  BY <1>3 DEF Start
<1>4. ASSUME NEW j \in Jobs, RecoverCopy(j) PROVE GaveUpInv'
  BY <1>4 DEF RecoverCopy, CopyRecord, Verdict
<1>5. ASSUME RecoverUnlink \/ RecoverDone PROVE GaveUpInv'
  BY <1>5 DEF RecoverUnlink, RecoverDone, Unlink
<1>6. ASSUME NEW j \in Jobs, Settle(j) PROVE GaveUpInv'
  BY <1>6 DEF Settle, CopyRecord, Verdict, Unlink, Finished
<1>7. ASSUME SettleRest PROVE GaveUpInv'
  BY <1>7 DEF SettleRest, Unlink
<1>8. ASSUME BeginPass PROVE GaveUpInv'
  BY <1>8 DEF BeginPass, Settled
<1>9. ASSUME NEW j \in Jobs, AdoptAgain(j) \/ AdoptReject(j) \/ AdoptPayload(j) PROVE GaveUpInv'
  BY <1>9 DEF AdoptAgain, AdoptReject, AdoptPayload, NextSpill
<1>10. ASSUME AdoptRecord PROVE GaveUpInv'
  BY <1>10 DEF AdoptRecord
<1>11. ASSUME AdoptUnlink \/ AdoptDone PROVE GaveUpInv'
  BY <1>11 DEF AdoptUnlink, AdoptDone
<1>12. ASSUME Scan PROVE GaveUpInv'
  BY <1>12 DEF Scan
<1>13. ASSUME NEW j \in Jobs, Claim(j) PROVE GaveUpInv'
  <2>1. j \in pending /\ pc = "claim"
    BY <1>13, OldestIn DEF Claim, Claimable
  <2> QED
    BY <1>13, <2>1 DEF Claim, Claimable, Others
<1>14. ASSUME (\E j \in Jobs : NotDue(j)) \/ EndPass PROVE GaveUpInv'
  BY <1>14 DEF NotDue, EndPass, Others
<1>15. ASSUME MarkInterrupted \/ ConsumerEnds PROVE GaveUpInv'
  BY <1>15 DEF MarkInterrupted, ConsumerEnds, Settled, WriteMarker, Interrupted, Fault
<1>16. ASSUME NEW j \in Jobs, RecoverError(j) PROVE GaveUpInv'
  BY <1>16 DEF RecoverError, Unlink, Fault
<1>17. ASSUME NEW j \in Jobs, SettleError(j) PROVE GaveUpInv'
  BY <1>17 DEF SettleError, Unlink, Fault
<1>18. ASSUME NEW j \in Jobs, ClaimError(j) PROVE GaveUpInv'
  BY <1>18 DEF ClaimError, Claimable, Others, Fault
<1>19. ASSUME AdoptError PROVE GaveUpInv'
  BY <1>19 DEF AdoptError, Fault
<1>20. ASSUME RequestStop \/ GiveUp PROVE GaveUpInv'
  BY <1>20 DEF RequestStop, GiveUp, WriteMarker, Fault
<1>21. ASSUME Exit \/ Die PROVE GaveUpInv'
  BY <1>21 DEF Exit, Die, Halt, Blame
<1>22. CASE UNCHANGED vars
  BY <1>22 DEF vars
<1> QED
  BY <1>1, <1>2, <1>3, <1>4, <1>5, <1>6, <1>7, <1>8, <1>9, <1>10, <1>11, <1>12, <1>13,
     <1>14, <1>15, <1>16, <1>17, <1>18, <1>19, <1>20, <1>21, <1>22
  DEF Next, HookStep, JobStep, ConsumerStep, Recover, Adopt, FileError

\* A job that was written leaves no record to run again.
LEMMA OnceStep ==
  QueueInv /\ EarlyInv /\ FlightInv /\ SpillInv /\ OnceInv /\ [Next]_vars => OnceInv'
<1> SUFFICES ASSUME QueueInv, EarlyInv, FlightInv, SpillInv, OnceInv, [Next]_vars PROVE OnceInv'
  OBVIOUS
<1> USE HookQueueAssumption
    DEF QueueInv, TypeOK, PCs, FilesInv, ExecInv, QuietInv, StoredInv, PendingInv,
        CopyInv, EarlyInv, Early, FlightInv, SpillInv, OnceInv, Files, Inflight,
        Resting, Least, hookVars, fileVars, threadVars, stopVars, storeVars, faultVars
<1>1. ASSUME NEW j \in Jobs, HookShed(j) \/ HookWrite(j) \/ HookPublish(j) PROVE OnceInv'
  BY <1>1 DEF HookShed, HookWrite, HookPublish
<1>2. ASSUME NEW j \in Jobs,
             Commit(j) \/ Succeed(j) \/ Fail(j) \/ FailFree(j) \/ FailPermanent(j) PROVE OnceInv'
  BY <1>2 DEF Commit, Succeed, Fail, FailFree, FailPermanent, SetExec, Fault
<1>3. ASSUME Start PROVE OnceInv'
  BY <1>3 DEF Start
<1>4. ASSUME NEW j \in Jobs, RecoverCopy(j) PROVE OnceInv'
  BY <1>4 DEF RecoverCopy, CopyRecord, Verdict
<1>5. ASSUME RecoverUnlink \/ RecoverDone PROVE OnceInv'
  BY <1>5 DEF RecoverUnlink, RecoverDone, Unlink
<1>6. ASSUME NEW j \in Jobs, Settle(j) PROVE OnceInv'
  BY <1>6 DEF Settle, CopyRecord, Verdict, Unlink, Finished
<1>7. ASSUME SettleRest PROVE OnceInv'
  BY <1>7 DEF SettleRest, Unlink
<1>8. ASSUME BeginPass PROVE OnceInv'
  BY <1>8 DEF BeginPass, Settled
<1>9. ASSUME NEW j \in Jobs, AdoptAgain(j) \/ AdoptReject(j) \/ AdoptPayload(j) PROVE OnceInv'
  <2>1. j \in spill
    BY <1>9, NextSpillIn DEF AdoptAgain, AdoptReject, AdoptPayload
  <2> QED
    BY <1>9, <2>1 DEF AdoptAgain, AdoptReject, AdoptPayload
<1>10. ASSUME AdoptRecord PROVE OnceInv'
  BY <1>10 DEF AdoptRecord
<1>11. ASSUME AdoptUnlink \/ AdoptDone PROVE OnceInv'
  BY <1>11 DEF AdoptUnlink, AdoptDone
<1>12. ASSUME Scan PROVE OnceInv'
  BY <1>12 DEF Scan
<1>13. ASSUME NEW j \in Jobs, Claim(j) PROVE OnceInv'
  <2>1. j \in pending /\ pc = "claim"
    BY <1>13, OldestIn DEF Claim, Claimable
  <2> QED
    BY <1>13, <2>1 DEF Claim, Claimable, Others
<1>14. ASSUME (\E j \in Jobs : NotDue(j)) \/ EndPass PROVE OnceInv'
  BY <1>14 DEF NotDue, EndPass, Others
<1>15. ASSUME MarkInterrupted \/ ConsumerEnds PROVE OnceInv'
  BY <1>15 DEF MarkInterrupted, ConsumerEnds, Settled, WriteMarker, Interrupted, Fault
<1>16. CASE FileError
  BY <1>16, ErrorStep DEF QueueInv, TypeOK
<1>17. ASSUME RequestStop \/ GiveUp PROVE OnceInv'
  BY <1>17 DEF RequestStop, GiveUp, WriteMarker, Fault
<1>18. ASSUME Exit \/ Die PROVE OnceInv'
  BY <1>18 DEF Exit, Die, Halt
<1>19. CASE UNCHANGED vars
  BY <1>19 DEF vars
<1> QED
  BY <1>1, <1>2, <1>3, <1>4, <1>5, <1>6, <1>7, <1>8, <1>9, <1>10, <1>11, <1>12, <1>13,
     <1>14, <1>15, <1>16, <1>17, <1>18, <1>19
  DEF Next, HookStep, JobStep, ConsumerStep, Recover, Adopt

\* The clock moves with every record written or shown.
LEMMA ClockStep ==
  QueueInv /\ ClockInv /\ [Next]_vars => ClockInv'
<1> SUFFICES ASSUME QueueInv, ClockInv, [Next]_vars PROVE ClockInv'
  OBVIOUS
<1> USE HookQueueAssumption
    DEF QueueInv, TypeOK, PCs, FilesInv, ClockInv, hookVars, fileVars, threadVars,
        stopVars, storeVars, faultVars
<1>1. ASSUME NEW j \in Jobs, HookShed(j) \/ HookWrite(j) \/ HookPublish(j) PROVE ClockInv'
  BY <1>1 DEF HookShed, HookWrite, HookPublish
<1>2. ASSUME NEW j \in Jobs,
             Commit(j) \/ Succeed(j) \/ Fail(j) \/ FailFree(j) \/ FailPermanent(j) PROVE ClockInv'
  BY <1>2 DEF Commit, Succeed, Fail, FailFree, FailPermanent, SetExec, Fault
<1>3. ASSUME Start PROVE ClockInv'
  BY <1>3 DEF Start
<1>4. ASSUME NEW j \in Jobs, RecoverCopy(j) PROVE ClockInv'
  BY <1>4 DEF RecoverCopy, CopyRecord, Verdict
<1>5. ASSUME RecoverUnlink \/ RecoverDone PROVE ClockInv'
  BY <1>5 DEF RecoverUnlink, RecoverDone, Unlink
<1>6. ASSUME NEW j \in Jobs, Settle(j) PROVE ClockInv'
  BY <1>6 DEF Settle, CopyRecord, Verdict, Unlink, Finished
<1>7. ASSUME SettleRest PROVE ClockInv'
  BY <1>7 DEF SettleRest, Unlink
<1>8. ASSUME BeginPass PROVE ClockInv'
  BY <1>8 DEF BeginPass, Settled
<1>9. ASSUME NEW j \in Jobs, AdoptAgain(j) \/ AdoptReject(j) \/ AdoptPayload(j) PROVE ClockInv'
  BY <1>9 DEF AdoptAgain, AdoptReject, AdoptPayload, NextSpill
<1>10. ASSUME AdoptRecord PROVE ClockInv'
  BY <1>10 DEF AdoptRecord
<1>11. ASSUME AdoptUnlink \/ AdoptDone PROVE ClockInv'
  BY <1>11 DEF AdoptUnlink, AdoptDone
<1>12. ASSUME Scan PROVE ClockInv'
  BY <1>12 DEF Scan
<1>13. ASSUME NEW j \in Jobs, Claim(j) PROVE ClockInv'
  BY <1>13 DEF Claim, Claimable, Others
<1>14. ASSUME (\E j \in Jobs : NotDue(j)) \/ EndPass PROVE ClockInv'
  BY <1>14 DEF NotDue, EndPass, Others
<1>15. ASSUME MarkInterrupted \/ ConsumerEnds PROVE ClockInv'
  BY <1>15 DEF MarkInterrupted, ConsumerEnds, Settled, WriteMarker, Interrupted, Fault
<1>16. ASSUME NEW j \in Jobs, RecoverError(j) PROVE ClockInv'
  BY <1>16 DEF RecoverError, Unlink, Fault
<1>17. ASSUME NEW j \in Jobs, SettleError(j) PROVE ClockInv'
  BY <1>17 DEF SettleError, Unlink, Fault
<1>18. ASSUME NEW j \in Jobs, ClaimError(j) PROVE ClockInv'
  BY <1>18 DEF ClaimError, Claimable, Others, Fault
<1>19. ASSUME AdoptError PROVE ClockInv'
  BY <1>19 DEF AdoptError, Fault
<1>20. ASSUME RequestStop \/ GiveUp PROVE ClockInv'
  BY <1>20 DEF RequestStop, GiveUp, WriteMarker, Fault
<1>21. ASSUME Exit \/ Die PROVE ClockInv'
  BY <1>21 DEF Exit, Die, Halt
<1>22. CASE UNCHANGED vars
  BY <1>22 DEF vars
<1> QED
  BY <1>1, <1>2, <1>3, <1>4, <1>5, <1>6, <1>7, <1>8, <1>9, <1>10, <1>11, <1>12, <1>13,
     <1>14, <1>15, <1>16, <1>17, <1>18, <1>19, <1>20, <1>21, <1>22
  DEF Next, HookStep, JobStep, ConsumerStep, Recover, Adopt, FileError

\* While a pass starts jobs, a session is dropped with its oldest job.
LEMMA ScanStep ==
  QueueInv /\ EarlyInv /\ ClockInv /\ ScanInv /\ [Next]_vars => ScanInv'
<1> SUFFICES ASSUME QueueInv, EarlyInv, ClockInv, ScanInv, [Next]_vars PROVE ScanInv'
  OBVIOUS
<1> USE HookQueueAssumption
    DEF QueueInv, TypeOK, PCs, FilesInv, PendingInv, EarlyInv, Early, ClockInv, ScanInv,
        Busy, Inflight, Files, hookVars, fileVars, threadVars, stopVars, storeVars,
        faultVars
<1>1. ASSUME NEW j \in Jobs, HookShed(j) \/ HookWrite(j) \/ HookPublish(j) PROVE ScanInv'
  BY <1>1 DEF HookShed, HookWrite, HookPublish
<1>2. ASSUME NEW j \in Jobs,
             Commit(j) \/ Succeed(j) \/ Fail(j) \/ FailFree(j) \/ FailPermanent(j) PROVE ScanInv'
  BY <1>2 DEF Commit, Succeed, Fail, FailFree, FailPermanent, SetExec, Fault
<1>3. ASSUME Start PROVE ScanInv'
  BY <1>3 DEF Start
<1>4. ASSUME NEW j \in Jobs, RecoverCopy(j) PROVE ScanInv'
  BY <1>4 DEF RecoverCopy, CopyRecord, Verdict
<1>5. ASSUME RecoverUnlink \/ RecoverDone PROVE ScanInv'
  BY <1>5 DEF RecoverUnlink, RecoverDone, Unlink
<1>6. ASSUME NEW j \in Jobs, Settle(j) PROVE ScanInv'
  BY <1>6 DEF Settle, CopyRecord, Verdict, Unlink, Finished
<1>7. ASSUME SettleRest PROVE ScanInv'
  BY <1>7 DEF SettleRest, Unlink
<1>8. ASSUME BeginPass PROVE ScanInv'
  BY <1>8 DEF BeginPass, Settled
<1>9. ASSUME NEW j \in Jobs, AdoptAgain(j) \/ AdoptReject(j) \/ AdoptPayload(j) PROVE ScanInv'
  BY <1>9 DEF AdoptAgain, AdoptReject, AdoptPayload, NextSpill
<1>10. ASSUME AdoptRecord PROVE ScanInv'
  BY <1>10 DEF AdoptRecord
<1>11. ASSUME AdoptUnlink \/ AdoptDone PROVE ScanInv'
  BY <1>11 DEF AdoptUnlink, AdoptDone
<1>12. ASSUME Scan PROVE ScanInv'
  BY <1>12 DEF Scan
<1>13. ASSUME NEW j \in Jobs, Claim(j) PROVE ScanInv'
  <2>1. j \in pending /\ pc = "claim"
    BY <1>13, OldestIn DEF Claim, Claimable
  <2> QED
    BY <1>13, <2>1 DEF Claim, Claimable, Others
<1>14. ASSUME (\E j \in Jobs : NotDue(j)) \/ EndPass PROVE ScanInv'
  BY <1>14 DEF NotDue, EndPass, Others
<1>15. ASSUME MarkInterrupted \/ ConsumerEnds PROVE ScanInv'
  BY <1>15 DEF MarkInterrupted, ConsumerEnds, Settled, WriteMarker, Interrupted, Fault
<1>16. ASSUME NEW j \in Jobs, RecoverError(j) PROVE ScanInv'
  BY <1>16 DEF RecoverError, Unlink, Fault
<1>17. ASSUME NEW j \in Jobs, SettleError(j) PROVE ScanInv'
  BY <1>17 DEF SettleError, Unlink, Fault
<1>18. ASSUME NEW j \in Jobs, ClaimError(j) PROVE ScanInv'
  BY <1>18 DEF ClaimError, Claimable, Others, Fault
<1>19. ASSUME AdoptError PROVE ScanInv'
  BY <1>19 DEF AdoptError, Fault
<1>20. ASSUME RequestStop \/ GiveUp PROVE ScanInv'
  BY <1>20 DEF RequestStop, GiveUp, WriteMarker, Fault
<1>21. ASSUME Exit \/ Die PROVE ScanInv'
  BY <1>21 DEF Exit, Die, Halt
<1>22. CASE UNCHANGED vars
  BY <1>22 DEF vars
<1> QED
  BY <1>1, <1>2, <1>3, <1>4, <1>5, <1>6, <1>7, <1>8, <1>9, <1>10, <1>11, <1>12, <1>13,
     <1>14, <1>15, <1>16, <1>17, <1>18, <1>19, <1>20, <1>21, <1>22
  DEF Next, HookStep, JobStep, ConsumerStep, Recover, Adopt, FileError

\* RetryInv is an invariant of the queue.
LEMMA RetryInvariance == Spec => [](QueueInv /\ RetryInv)
<1>1. QueueInv /\ RetryInv /\ [Next]_vars => RetryInv'
  BY EarlyStep, FlightStep, SpillStep, PayloadStep, LimitStep, OwedStep, GaveUpStep,
     OnceStep, ClockStep, ScanStep
  DEF RetryInv, BlameInv, QueueInv, FilesInv
<1> QED
  BY QueueInvariance, RetryStart, <1>1, PTL DEF Spec

\* A record never waits or runs without the payload it names.
THEOREM PayloadKeptAlways == Spec => []PayloadKept
<1>1. QueueInv /\ RetryInv => PayloadKept
  BY DEF RetryInv, PayloadInv, PayloadKept, QueueInv, TypeOK
<1> QED
  BY RetryInvariance, <1>1, PTL

\* Retries are counted fairly: what waits has attempts left, and none was counted
\* but for a failure of the job or a death of the daemon under it.
THEOREM RetriesAreFairAlways == Spec => []RetriesAreFair
<1>1. RetryInv => RetriesAreFair
  BY DEF RetryInv, BlameInv, OwedInv, LimitInv, RetriesAreFair, StopIsFree, AttemptsLeft
<1> QED
  BY RetryInvariance, <1>1, PTL

\* Without a death, a stop in the middle of a job or a failed file operation no
\* job is written twice, however often it is retried.
THEOREM WrittenOnceAlways == Spec => []WrittenOnce
<1>1. RetryInv => WrittenOnce
  BY DEF RetryInv, OnceInv, WrittenOnce
<1> QED
  BY RetryInvariance, <1>1, PTL

\* A job starts by being claimed.
LEMMA StartsByClaim ==
  ASSUME TypeOK, Next, NEW j \in Jobs, exec[j] = "no", exec'[j] = "run"
  PROVE  Claim(j)
<1> USE DEF TypeOK, hookVars, fileVars, threadVars, stopVars, storeVars, faultVars
<1>1. ASSUME NEW k \in Jobs, HookStep(k) PROVE exec' = exec
  BY <1>1 DEF HookStep, HookShed, HookWrite, HookPublish
<1>2. ASSUME NEW k \in Jobs, JobStep(k) PROVE exec'[j] # "run"
  BY <1>2 DEF JobStep, Commit, Succeed, Fail, FailFree, FailPermanent, SetExec
<1>3. CASE Recover \/ Adopt \/ Start \/ RequestStop \/ GiveUp
  BY <1>3
  DEF Recover, Adopt, RecoverCopy, RecoverUnlink, RecoverDone, AdoptAgain, AdoptReject,
      AdoptPayload, AdoptRecord, AdoptUnlink, AdoptDone, Start, RequestStop, GiveUp
<1>4. CASE FileError
  BY <1>4 DEF FileError, RecoverError, SettleError, ClaimError, AdoptError
<1>5. CASE (\E k \in Jobs : Settle(k)) \/ SettleRest \/ BeginPass \/ Scan \/ EndPass
           \/ MarkInterrupted \/ ConsumerEnds \/ Exit \/ Die
  BY <1>5
  DEF Settle, SettleRest, BeginPass, Scan, EndPass, MarkInterrupted, ConsumerEnds, Exit,
      Die, Halt
<1>6. ASSUME NEW k \in Jobs, Claim(k) \/ NotDue(k) PROVE Claim(j)
  BY <1>6 DEF Claim, NotDue
<1> QED
  BY <1>1, <1>2, <1>3, <1>4, <1>5, <1>6 DEF Next, ConsumerStep

\* No job starts beside another of its session, or before one that was published
\* when its own record was written.
THEOREM SessionOrderKept == Spec => SessionOrder
<1>1. QueueInv /\ RetryInv /\ [Next]_vars => [StartsInOrder]_vars
  <2> SUFFICES ASSUME QueueInv, RetryInv, Next,
                      NEW j \in Jobs, exec[j] = "no", exec'[j] = "run",
                      NEW k \in Jobs, k # j, session[k] = session[j], errors = 0
               PROVE  /\ exec[k] = "no"
                      /\ 0 < shown[k] /\ shown[k] < stamp[j]
                           => queue[k] = NoFile /\ running[k] = NoFile
    BY DEF StartsInOrder
  <2>1. Claim(j)
    BY StartsByClaim DEF QueueInv
  <2>2. j \in pending /\ pc = "claim" /\ j = Oldest(pending)
    BY <2>1, OldestIn DEF Claim, Claimable, QueueInv, TypeOK
  <2>3. exec[k] = "no"
    BY <2>2 DEF RetryInv, ScanInv, Busy, Inflight
  <2>4. running[k] = NoFile
    BY <2>2, <2>3 DEF RetryInv, FlightInv, Resting
  <2>5. ASSUME 0 < shown[k], shown[k] < stamp[j], queue[k] # NoFile PROVE FALSE
    <3>1. k \in pending
      BY <2>2, <2>5 DEF RetryInv, ScanInv
    <3>2. stamp[j] <= stamp[k]
      BY <2>2, <3>1, OldestIn DEF QueueInv, TypeOK
    <3> QED
      BY <2>5, <3>2 DEF RetryInv, ClockInv, QueueInv, TypeOK
  <2> QED
    BY <2>3, <2>4, <2>5
<1> QED
  BY RetryInvariance, <1>1, PTL DEF Spec, SessionOrder

-----------------------------------------------------------------------------
(* Beside requeue-hooks: the command may overwrite, duplicate and lose what *)
(* the consumer works on, so little of the above survives.  What does is    *)
(* what the consumer does alone, and that a written job has no payload.     *)

\* The consumer's own part of the invariant: it offers no job of a busy session.
PassInv ==
  /\ ExecInv /\ QuietInv /\ PendingInv
  /\ pc = "settled" => exec[now] \in {"ok", "fail", "free", "permanent"}
  /\ pc = "claim" => \A j \in pending : session[j] \notin Busy

ThreadInv == TypeOK /\ PassInv

\* The command handles jobs whose hook is long done.
BuriedInv == \A j \in Jobs : hook[j] \in Early => dead[j] = NoFile /\ op # j

\* Every spill file is adopted before a job starts.
AdoptInv ==
  errors = 0 =>
    /\ tried = {}
    /\ pc \in {"scan", "claim"} => spill = {}
    /\ \A j \in Jobs : exec[j] # "no" => spill = {}

\* A requeued record keeps its free retries, of which there are at most MaxFree.
FreeInv ==
  /\ \A j \in Jobs : dead[j] # NoFile => dead[j].free <= MaxFree
  /\ opFree <= MaxFree

\* A job that was written has its payload only until its own run is settled: a
\* copy of its record finds none and is not written again.
PaidInv ==
  deaths = 0 /\ errors = 0 /\ ~cut => \A j \in Jobs :
    /\ written[j] <= 1
    /\ written[j] > 0 =>
         /\ j \in payload => exec[j] \in {"committed", "ok"}
         /\ hook[j] \notin Early /\ j \notin spill

RequeueInv ==
  /\ ThreadInv /\ OpTypeOK /\ EarlyInv /\ BuriedInv /\ AdoptInv
  /\ LimitInv /\ FreeInv /\ PaidInv

\* What the consumer does alone, it does beside the command too.
LEMMA ThreadStep ==
  TypeOK /\ PassInv /\ [Next]_vars /\ UNCHANGED opVars => PassInv'
<1> SUFFICES ASSUME TypeOK, PassInv, [Next]_vars, UNCHANGED opVars PROVE PassInv'
  OBVIOUS
<1> USE HookQueueAssumption
    DEF TypeOK, PCs, PassInv, ExecInv, QuietInv, PendingInv, Files, Busy, Inflight,
        opVars, hookVars, fileVars, threadVars, stopVars, storeVars, faultVars
<1>1. ASSUME NEW j \in Jobs, HookShed(j) \/ HookWrite(j) \/ HookPublish(j) PROVE PassInv'
  <2>1. /\ UNCHANGED <<session, running, pc, now, pending, exec>>
        /\ \A k \in Jobs : queue[k] # NoFile => queue'[k] # NoFile
    BY <1>1 DEF HookShed, HookWrite, HookPublish, Fresh, Record
  <2> QED
    BY <2>1
<1>2. ASSUME NEW j \in Jobs, Commit(j) \/ Succeed(j) PROVE PassInv'
  BY <1>2 DEF Commit, Succeed, SetExec
<1>3. ASSUME NEW j \in Jobs, Fail(j) \/ FailFree(j) \/ FailPermanent(j) PROVE PassInv'
  BY <1>3 DEF Fail, FailFree, FailPermanent, SetExec, Fault
<1>4. ASSUME Start PROVE PassInv'
  BY <1>4 DEF Start
<1>5. ASSUME NEW j \in Jobs, RecoverCopy(j) PROVE PassInv'
  BY <1>5 DEF RecoverCopy, CopyRecord, Verdict
<1>6. ASSUME RecoverUnlink \/ RecoverDone PROVE PassInv'
  BY <1>6 DEF RecoverUnlink, RecoverDone, Unlink
<1>7. ASSUME NEW j \in Jobs, Settle(j) PROVE PassInv'
  BY <1>7 DEF Settle, CopyRecord, Verdict, Unlink, Finished
<1>8. ASSUME SettleRest PROVE PassInv'
  BY <1>8 DEF SettleRest, Unlink
<1>9. ASSUME BeginPass PROVE PassInv'
  BY <1>9 DEF BeginPass, Settled
<1>10. ASSUME NEW j \in Jobs, AdoptAgain(j) \/ AdoptReject(j) \/ AdoptPayload(j) PROVE PassInv'
  <2>1. j \in spill
    BY <1>10, NextSpillIn DEF AdoptAgain, AdoptReject, AdoptPayload
  <2> QED
    BY <1>10, <2>1 DEF AdoptAgain, AdoptReject, AdoptPayload
<1>11. ASSUME AdoptRecord PROVE PassInv'
  BY <1>11 DEF AdoptRecord
<1>12. ASSUME AdoptUnlink \/ AdoptDone PROVE PassInv'
  BY <1>12 DEF AdoptUnlink, AdoptDone
<1>13. ASSUME Scan PROVE PassInv'
  BY <1>13 DEF Scan
<1>14. ASSUME NEW j \in Jobs, Claim(j) PROVE PassInv'
  <2>1. j \in pending /\ pc = "claim"
    BY <1>14, OldestIn DEF Claim, Claimable
  <2> QED
    BY <1>14, <2>1 DEF Claim, Claimable, Others
<1>15. ASSUME (\E j \in Jobs : NotDue(j)) \/ EndPass PROVE PassInv'
  BY <1>15 DEF NotDue, EndPass, Others
<1>16. ASSUME MarkInterrupted \/ ConsumerEnds PROVE PassInv'
  BY <1>16 DEF MarkInterrupted, ConsumerEnds, Settled, WriteMarker, Interrupted, Fault
<1>17. ASSUME RequestStop \/ GiveUp PROVE PassInv'
  BY <1>17 DEF RequestStop, GiveUp, WriteMarker, Fault
<1>18. ASSUME Exit \/ Die PROVE PassInv'
  BY <1>18 DEF Exit, Die, Halt
<1>19. ASSUME NEW j \in Jobs, RecoverError(j) PROVE PassInv'
  BY <1>19 DEF RecoverError, Unlink, Fault
<1>20. ASSUME NEW j \in Jobs, SettleError(j) PROVE PassInv'
  BY <1>20 DEF SettleError, Unlink, Fault
<1>21. ASSUME NEW j \in Jobs, ClaimError(j) PROVE PassInv'
  <2>1. j \in pending /\ pc = "claim"
    BY <1>21, OldestIn DEF ClaimError, Claimable
  <2> QED
    BY <1>21, <2>1 DEF ClaimError, Claimable, Others, Fault
<1>22. ASSUME AdoptError PROVE PassInv'
  BY <1>22 DEF AdoptError, Fault
<1>23. CASE UNCHANGED vars
  BY <1>23 DEF vars
<1> QED
  BY <1>1, <1>2, <1>3, <1>4, <1>5, <1>6, <1>7, <1>8, <1>9, <1>10, <1>11, <1>12, <1>13,
     <1>14, <1>15, <1>16, <1>17, <1>18, <1>19, <1>20, <1>21, <1>22, <1>23
  DEF Next, HookStep, JobStep, ConsumerStep, Recover, Adopt, FileError

\* No record gets to dead/ before it was published.
LEMMA DeadStep ==
  TypeOK /\ ExecInv /\ PendingInv /\ EarlyInv /\ BuriedInv /\ [Next]_vars /\ UNCHANGED opVars => BuriedInv'
<1> SUFFICES ASSUME TypeOK, ExecInv, PendingInv, EarlyInv, BuriedInv, [Next]_vars, UNCHANGED opVars PROVE BuriedInv'
  OBVIOUS
<1> USE HookQueueAssumption
    DEF TypeOK, ExecInv, PendingInv, EarlyInv, BuriedInv, Early, Files,
        opVars, hookVars, fileVars, threadVars, stopVars, storeVars, faultVars
<1>1. ASSUME NEW j \in Jobs, HookShed(j) \/ HookWrite(j) \/ HookPublish(j) PROVE BuriedInv'
  BY <1>1 DEF HookShed, HookWrite, HookPublish
<1>2. ASSUME NEW j \in Jobs, Commit(j) \/ Succeed(j) PROVE BuriedInv'
  BY <1>2 DEF Commit, Succeed, SetExec
<1>3. ASSUME NEW j \in Jobs, Fail(j) \/ FailFree(j) \/ FailPermanent(j) PROVE BuriedInv'
  BY <1>3 DEF Fail, FailFree, FailPermanent, SetExec, Fault
<1>4. ASSUME Start PROVE BuriedInv'
  BY <1>4 DEF Start
<1>5. ASSUME NEW j \in Jobs, RecoverCopy(j) PROVE BuriedInv'
  BY <1>5 DEF RecoverCopy, CopyRecord, Verdict
<1>6. ASSUME RecoverUnlink \/ RecoverDone PROVE BuriedInv'
  BY <1>6 DEF RecoverUnlink, RecoverDone, Unlink
<1>7. ASSUME NEW j \in Jobs, Settle(j) PROVE BuriedInv'
  BY <1>7 DEF Settle, CopyRecord, Verdict, Unlink, Finished
<1>8. ASSUME SettleRest PROVE BuriedInv'
  BY <1>8 DEF SettleRest, Unlink
<1>9. ASSUME BeginPass PROVE BuriedInv'
  BY <1>9 DEF BeginPass, Settled
<1>10. ASSUME NEW j \in Jobs, AdoptAgain(j) \/ AdoptReject(j) \/ AdoptPayload(j) PROVE BuriedInv'
  <2>1. j \in spill
    BY <1>10, NextSpillIn DEF AdoptAgain, AdoptReject, AdoptPayload
  <2> QED
    BY <1>10, <2>1 DEF AdoptAgain, AdoptReject, AdoptPayload
<1>11. ASSUME AdoptRecord PROVE BuriedInv'
  BY <1>11 DEF AdoptRecord
<1>12. ASSUME AdoptUnlink \/ AdoptDone PROVE BuriedInv'
  BY <1>12 DEF AdoptUnlink, AdoptDone
<1>13. ASSUME Scan PROVE BuriedInv'
  BY <1>13 DEF Scan
<1>14. ASSUME NEW j \in Jobs, Claim(j) PROVE BuriedInv'
  <2>1. j \in pending /\ pc = "claim"
    BY <1>14, OldestIn DEF Claim, Claimable
  <2> QED
    BY <1>14, <2>1 DEF Claim, Claimable, Others
<1>15. ASSUME (\E j \in Jobs : NotDue(j)) \/ EndPass PROVE BuriedInv'
  BY <1>15 DEF NotDue, EndPass, Others
<1>16. ASSUME MarkInterrupted \/ ConsumerEnds PROVE BuriedInv'
  BY <1>16 DEF MarkInterrupted, ConsumerEnds, Settled, WriteMarker, Interrupted, Fault
<1>17. ASSUME RequestStop \/ GiveUp PROVE BuriedInv'
  BY <1>17 DEF RequestStop, GiveUp, WriteMarker, Fault
<1>18. ASSUME Exit \/ Die PROVE BuriedInv'
  BY <1>18 DEF Exit, Die, Halt
<1>19. ASSUME NEW j \in Jobs, RecoverError(j) PROVE BuriedInv'
  BY <1>19 DEF RecoverError, Unlink, Fault
<1>20. ASSUME NEW j \in Jobs, SettleError(j) PROVE BuriedInv'
  BY <1>20 DEF SettleError, Unlink, Fault
<1>21. ASSUME NEW j \in Jobs, ClaimError(j) PROVE BuriedInv'
  <2>1. j \in pending /\ pc = "claim"
    BY <1>21, OldestIn DEF ClaimError, Claimable
  <2> QED
    BY <1>21, <2>1 DEF ClaimError, Claimable, Others, Fault
<1>22. ASSUME AdoptError PROVE BuriedInv'
  BY <1>22 DEF AdoptError, Fault
<1>23. CASE UNCHANGED vars
  BY <1>23 DEF vars
<1> QED
  BY <1>1, <1>2, <1>3, <1>4, <1>5, <1>6, <1>7, <1>8, <1>9, <1>10, <1>11, <1>12, <1>13,
     <1>14, <1>15, <1>16, <1>17, <1>18, <1>19, <1>20, <1>21, <1>22, <1>23
  DEF Next, HookStep, JobStep, ConsumerStep, Recover, Adopt, FileError

\* A job starts when no spill file is left.
LEMMA AdoptStep ==
  TypeOK /\ QuietInv /\ EarlyInv /\ AdoptInv /\ [Next]_vars /\ UNCHANGED opVars => AdoptInv'
<1> SUFFICES ASSUME TypeOK, QuietInv, EarlyInv, AdoptInv, [Next]_vars, UNCHANGED opVars PROVE AdoptInv'
  OBVIOUS
<1> USE HookQueueAssumption
    DEF TypeOK, PCs, QuietInv, EarlyInv, Early, AdoptInv,
        opVars, hookVars, fileVars, threadVars, stopVars, storeVars, faultVars
<1>1. ASSUME NEW j \in Jobs, HookShed(j) \/ HookWrite(j) \/ HookPublish(j) PROVE AdoptInv'
  BY <1>1 DEF HookShed, HookWrite, HookPublish
<1>2. ASSUME NEW j \in Jobs, Commit(j) \/ Succeed(j) PROVE AdoptInv'
  BY <1>2 DEF Commit, Succeed, SetExec
<1>3. ASSUME NEW j \in Jobs, Fail(j) \/ FailFree(j) \/ FailPermanent(j) PROVE AdoptInv'
  BY <1>3 DEF Fail, FailFree, FailPermanent, SetExec, Fault
<1>4. ASSUME Start PROVE AdoptInv'
  BY <1>4 DEF Start
<1>5. ASSUME NEW j \in Jobs, RecoverCopy(j) PROVE AdoptInv'
  BY <1>5 DEF RecoverCopy, CopyRecord, Verdict
<1>6. ASSUME RecoverUnlink \/ RecoverDone PROVE AdoptInv'
  BY <1>6 DEF RecoverUnlink, RecoverDone, Unlink
<1>7. ASSUME NEW j \in Jobs, Settle(j) PROVE AdoptInv'
  BY <1>7 DEF Settle, CopyRecord, Verdict, Unlink, Finished
<1>8. ASSUME SettleRest PROVE AdoptInv'
  BY <1>8 DEF SettleRest, Unlink
<1>9. ASSUME BeginPass PROVE AdoptInv'
  BY <1>9 DEF BeginPass, Settled
<1>10. ASSUME NEW j \in Jobs, AdoptAgain(j) \/ AdoptReject(j) \/ AdoptPayload(j) PROVE AdoptInv'
  <2>1. j \in spill
    BY <1>10, NextSpillIn DEF AdoptAgain, AdoptReject, AdoptPayload
  <2> QED
    BY <1>10, <2>1 DEF AdoptAgain, AdoptReject, AdoptPayload
<1>11. ASSUME AdoptRecord PROVE AdoptInv'
  BY <1>11 DEF AdoptRecord
<1>12. ASSUME AdoptUnlink \/ AdoptDone PROVE AdoptInv'
  BY <1>12 DEF AdoptUnlink, AdoptDone
<1>13. ASSUME Scan PROVE AdoptInv'
  BY <1>13 DEF Scan
<1>14. ASSUME NEW j \in Jobs, Claim(j) PROVE AdoptInv'
  <2>1. j \in pending /\ pc = "claim"
    BY <1>14, OldestIn DEF Claim, Claimable
  <2> QED
    BY <1>14, <2>1 DEF Claim, Claimable, Others
<1>15. ASSUME (\E j \in Jobs : NotDue(j)) \/ EndPass PROVE AdoptInv'
  BY <1>15 DEF NotDue, EndPass, Others
<1>16. ASSUME MarkInterrupted \/ ConsumerEnds PROVE AdoptInv'
  BY <1>16 DEF MarkInterrupted, ConsumerEnds, Settled, WriteMarker, Interrupted, Fault
<1>17. ASSUME RequestStop \/ GiveUp PROVE AdoptInv'
  BY <1>17 DEF RequestStop, GiveUp, WriteMarker, Fault
<1>18. ASSUME Exit \/ Die PROVE AdoptInv'
  BY <1>18 DEF Exit, Die, Halt
<1>19. CASE FileError
  BY <1>19, ErrorStep
<1>20. CASE UNCHANGED vars
  BY <1>20 DEF vars
<1> QED
  BY <1>1, <1>2, <1>3, <1>4, <1>5, <1>6, <1>7, <1>8, <1>9, <1>10, <1>11, <1>12, <1>13,
     <1>14, <1>15, <1>16, <1>17, <1>18, <1>19, <1>20
  DEF Next, HookStep, JobStep, ConsumerStep, Recover, Adopt

\* No free retry is counted twice.
LEMMA FreeStep ==
  TypeOK /\ ExecInv /\ PendingInv /\ LimitInv /\ FreeInv /\ [Next]_vars /\ UNCHANGED opVars => FreeInv'
<1> SUFFICES ASSUME TypeOK, ExecInv, PendingInv, LimitInv, FreeInv, [Next]_vars, UNCHANGED opVars PROVE FreeInv'
  OBVIOUS
<1> USE HookQueueAssumption
    DEF TypeOK, PCs, ExecInv, PendingInv, LimitInv, FreeInv, Files, Record,
        opVars, hookVars, fileVars, threadVars, stopVars, storeVars, faultVars
<1>1. ASSUME NEW j \in Jobs, HookShed(j) \/ HookWrite(j) \/ HookPublish(j) PROVE FreeInv'
  BY <1>1 DEF HookShed, HookWrite, HookPublish
<1>2. ASSUME NEW j \in Jobs, Commit(j) \/ Succeed(j) PROVE FreeInv'
  BY <1>2 DEF Commit, Succeed, SetExec
<1>3. ASSUME NEW j \in Jobs, Fail(j) \/ FailFree(j) \/ FailPermanent(j) PROVE FreeInv'
  BY <1>3 DEF Fail, FailFree, FailPermanent, SetExec, Fault
<1>4. ASSUME Start PROVE FreeInv'
  BY <1>4 DEF Start
<1>5. ASSUME NEW j \in Jobs, RecoverCopy(j) PROVE FreeInv'
  BY <1>5 DEF RecoverCopy, CopyRecord, Verdict
<1>6. ASSUME RecoverUnlink \/ RecoverDone PROVE FreeInv'
  BY <1>6 DEF RecoverUnlink, RecoverDone, Unlink
<1>7. ASSUME NEW j \in Jobs, Settle(j) PROVE FreeInv'
  BY <1>7 DEF Settle, CopyRecord, Verdict, Unlink, Finished
<1>8. ASSUME SettleRest PROVE FreeInv'
  BY <1>8 DEF SettleRest, Unlink
<1>9. ASSUME BeginPass PROVE FreeInv'
  BY <1>9 DEF BeginPass, Settled
<1>10. ASSUME NEW j \in Jobs, AdoptAgain(j) \/ AdoptReject(j) \/ AdoptPayload(j) PROVE FreeInv'
  <2>1. j \in spill
    BY <1>10, NextSpillIn DEF AdoptAgain, AdoptReject, AdoptPayload
  <2> QED
    BY <1>10, <2>1 DEF AdoptAgain, AdoptReject, AdoptPayload
<1>11. ASSUME AdoptRecord PROVE FreeInv'
  BY <1>11 DEF AdoptRecord
<1>12. ASSUME AdoptUnlink \/ AdoptDone PROVE FreeInv'
  BY <1>12 DEF AdoptUnlink, AdoptDone
<1>13. ASSUME Scan PROVE FreeInv'
  BY <1>13 DEF Scan
<1>14. ASSUME NEW j \in Jobs, Claim(j) PROVE FreeInv'
  <2>1. j \in pending /\ pc = "claim"
    BY <1>14, OldestIn DEF Claim, Claimable
  <2> QED
    BY <1>14, <2>1 DEF Claim, Claimable, Others
<1>15. ASSUME (\E j \in Jobs : NotDue(j)) \/ EndPass PROVE FreeInv'
  BY <1>15 DEF NotDue, EndPass, Others
<1>16. ASSUME MarkInterrupted \/ ConsumerEnds PROVE FreeInv'
  BY <1>16 DEF MarkInterrupted, ConsumerEnds, Settled, WriteMarker, Interrupted, Fault
<1>17. ASSUME RequestStop \/ GiveUp PROVE FreeInv'
  BY <1>17 DEF RequestStop, GiveUp, WriteMarker, Fault
<1>18. ASSUME Exit \/ Die PROVE FreeInv'
  BY <1>18 DEF Exit, Die, Halt
<1>19. ASSUME NEW j \in Jobs, RecoverError(j) PROVE FreeInv'
  BY <1>19 DEF RecoverError, Unlink, Fault
<1>20. ASSUME NEW j \in Jobs, SettleError(j) PROVE FreeInv'
  BY <1>20 DEF SettleError, Unlink, Fault
<1>21. ASSUME NEW j \in Jobs, ClaimError(j) PROVE FreeInv'
  <2>1. j \in pending /\ pc = "claim"
    BY <1>21, OldestIn DEF ClaimError, Claimable
  <2> QED
    BY <1>21, <2>1 DEF ClaimError, Claimable, Others, Fault
<1>22. ASSUME AdoptError PROVE FreeInv'
  BY <1>22 DEF AdoptError, Fault
<1>23. CASE UNCHANGED vars
  BY <1>23 DEF vars
<1> QED
  BY <1>1, <1>2, <1>3, <1>4, <1>5, <1>6, <1>7, <1>8, <1>9, <1>10, <1>11, <1>12, <1>13,
     <1>14, <1>15, <1>16, <1>17, <1>18, <1>19, <1>20, <1>21, <1>22, <1>23
  DEF Next, HookStep, JobStep, ConsumerStep, Recover, Adopt, FileError

\* A job is written from its payload, which goes with the run that wrote it.
LEMMA PaidStep ==
  ThreadInv /\ EarlyInv /\ AdoptInv /\ PaidInv /\ [Next]_vars /\ UNCHANGED opVars => PaidInv'
<1> SUFFICES ASSUME ThreadInv, EarlyInv, AdoptInv, PaidInv, [Next]_vars, UNCHANGED opVars PROVE PaidInv'
  OBVIOUS
<1> USE HookQueueAssumption
    DEF ThreadInv, PassInv, TypeOK, PCs, ExecInv, QuietInv, PendingInv, EarlyInv, Early, AdoptInv, PaidInv,
        Files, Busy, Inflight, Least,
        opVars, hookVars, fileVars, threadVars, stopVars, storeVars, faultVars
<1>1. ASSUME NEW j \in Jobs, HookShed(j) \/ HookWrite(j) \/ HookPublish(j) PROVE PaidInv'
  BY <1>1 DEF HookShed, HookWrite, HookPublish
<1>2. ASSUME NEW j \in Jobs, Commit(j) \/ Succeed(j) PROVE PaidInv'
  BY <1>2 DEF Commit, Succeed, SetExec
<1>3. ASSUME NEW j \in Jobs, Fail(j) \/ FailFree(j) \/ FailPermanent(j) PROVE PaidInv'
  BY <1>3 DEF Fail, FailFree, FailPermanent, SetExec, Fault
<1>4. ASSUME Start PROVE PaidInv'
  BY <1>4 DEF Start
<1>5. ASSUME NEW j \in Jobs, RecoverCopy(j) PROVE PaidInv'
  BY <1>5 DEF RecoverCopy, CopyRecord, Verdict
<1>6. ASSUME RecoverUnlink \/ RecoverDone PROVE PaidInv'
  BY <1>6 DEF RecoverUnlink, RecoverDone, Unlink
<1>7. ASSUME NEW j \in Jobs, Settle(j) PROVE PaidInv'
  BY <1>7 DEF Settle, CopyRecord, Verdict, Unlink, Finished
<1>8. ASSUME SettleRest PROVE PaidInv'
  BY <1>8 DEF SettleRest, Unlink
<1>9. ASSUME BeginPass PROVE PaidInv'
  BY <1>9 DEF BeginPass, Settled
<1>10. ASSUME NEW j \in Jobs, AdoptAgain(j) \/ AdoptReject(j) \/ AdoptPayload(j) PROVE PaidInv'
  <2>1. j \in spill
    BY <1>10, NextSpillIn DEF AdoptAgain, AdoptReject, AdoptPayload
  <2> QED
    BY <1>10, <2>1 DEF AdoptAgain, AdoptReject, AdoptPayload
<1>11. ASSUME AdoptRecord PROVE PaidInv'
  BY <1>11 DEF AdoptRecord
<1>12. ASSUME AdoptUnlink \/ AdoptDone PROVE PaidInv'
  BY <1>12 DEF AdoptUnlink, AdoptDone
<1>13. ASSUME Scan PROVE PaidInv'
  BY <1>13 DEF Scan
<1>14. ASSUME NEW j \in Jobs, Claim(j) PROVE PaidInv'
  <2>1. j \in pending /\ pc = "claim"
    BY <1>14, OldestIn DEF Claim, Claimable
  <2> QED
    BY <1>14, <2>1 DEF Claim, Claimable, Others
<1>15. ASSUME (\E j \in Jobs : NotDue(j)) \/ EndPass PROVE PaidInv'
  BY <1>15 DEF NotDue, EndPass, Others
<1>16. ASSUME MarkInterrupted \/ ConsumerEnds PROVE PaidInv'
  BY <1>16 DEF MarkInterrupted, ConsumerEnds, Settled, WriteMarker, Interrupted, Fault
<1>17. ASSUME RequestStop \/ GiveUp PROVE PaidInv'
  BY <1>17 DEF RequestStop, GiveUp, WriteMarker, Fault
<1>18. ASSUME Exit \/ Die PROVE PaidInv'
  BY <1>18 DEF Exit, Die, Halt
<1>19. CASE FileError
  BY <1>19, ErrorStep
<1>20. CASE UNCHANGED vars
  BY <1>20 DEF vars
<1> QED
  BY <1>1, <1>2, <1>3, <1>4, <1>5, <1>6, <1>7, <1>8, <1>9, <1>10, <1>11, <1>12, <1>13,
     <1>14, <1>15, <1>16, <1>17, <1>18, <1>19, <1>20
  DEF Next, HookStep, JobStep, ConsumerStep, Recover, Adopt

\* Before the first step there is no record.
LEMMA RequeueStart == RequeueInit => RequeueInv
<1> SUFFICES ASSUME RequeueInit PROVE RequeueInv
  OBVIOUS
<1>1. QueueInv /\ RetryInv
  BY QueueStart, RetryStart DEF RequeueInit
<1>2. ThreadInv
  BY <1>1 DEF RequeueInit, Init, ThreadInv, PassInv, QueueInv, FilesInv
<1>3. OpTypeOK /\ BuriedInv /\ FreeInv
  BY HookQueueAssumption DEF RequeueInit, Init, OpTypeOK, BuriedInv, FreeInv, Early
<1>4. AdoptInv /\ PaidInv
  BY DEF RequeueInit, Init, AdoptInv, PaidInv
<1> QED
  BY <1>1, <1>2, <1>3, <1>4 DEF RequeueInv, RetryInv

\* What the command leaves alone stays as it was.
LEMMA CommandRests ==
  ASSUME ThreadInv, EarlyInv, AdoptInv, LimitInv, PaidInv, UNCHANGED vars
  PROVE  ThreadInv' /\ EarlyInv' /\ AdoptInv' /\ LimitInv' /\ PaidInv'
<1>0. /\ UNCHANGED <<session, hook, stamp, shown, clock, spill, payload, queue, running, dead>>
      /\ UNCHANGED <<marker, pc, now, pending, tried, ioFail, marked, exec, stop, gaveUp>>
      /\ UNCHANGED <<stops, written, blame, cut, deaths, errors>>
  BY DEF vars, hookVars, fileVars, threadVars, stopVars, storeVars, faultVars
<1>1. TypeOK'
  BY <1>0 DEF ThreadInv, TypeOK, PCs
<1>2. ExecInv' /\ QuietInv' /\ PendingInv'
  BY <1>0 DEF ThreadInv, PassInv, ExecInv, QuietInv, PendingInv, Files
<1>3. PassInv'
  BY <1>0, <1>2 DEF ThreadInv, PassInv, Busy, Inflight
<1>4. EarlyInv' /\ LimitInv'
  BY <1>0 DEF EarlyInv, LimitInv, Early
<1>5. AdoptInv' /\ PaidInv'
  BY <1>0 DEF AdoptInv, PaidInv, Early
<1> QED
  BY <1>1, <1>3, <1>4, <1>5 DEF ThreadInv

\* The command only adds to queue/, with a fresh record, and takes from dead/.
LEMMA CommandStep == RequeueInv /\ OpStep => RequeueInv'
<1> SUFFICES ASSUME RequeueInv, OpStep PROVE RequeueInv'
  OBVIOUS
<1> USE DEF RequeueInv
<1>0. /\ UNCHANGED vars /\ op' \in {op, NoJob} /\ opFree' = opFree
      => BuriedInv' /\ FreeInv'
  BY HookQueueAssumption
  DEF BuriedInv, FreeInv, Early, OpTypeOK, vars, hookVars, fileVars
<1>1. ASSUME NEW j \in Jobs, OpRead(j) PROVE RequeueInv'
  <2>1. /\ opPc' = "look" /\ op' = j /\ opFree' = dead[j].free /\ requeues' = requeues + 1
        /\ dead[j] # NoFile /\ UNCHANGED vars
    BY <1>1 DEF OpRead
  <2>2. UNCHANGED <<hook, dead>>
    BY <2>1 DEF vars, hookVars, fileVars
  <2>3. dead[j] \in Record
    BY <2>1 DEF ThreadInv, TypeOK
  <2>4. opFree' \in Nat /\ opFree' <= MaxFree
    BY <2>1, <2>3 DEF Record, FreeInv
  <2>5. OpTypeOK'
    <3>1. requeues \in Nat
      BY DEF OpTypeOK
    <3> HIDE DEF RequeueInv
    <3>2. requeues' \in Nat
      BY <2>1, <3>1
    <3>3. opPc' = "look" /\ op' \in Jobs
      BY <2>1
    <3> QED
      BY <2>4, <3>2, <3>3 DEF OpTypeOK
  <2>6. BuriedInv' /\ FreeInv'
    BY <2>1, <2>2, <2>4 DEF BuriedInv, FreeInv, Early
  <2> QED
    BY <2>1, <2>5, <2>6, CommandRests
<1>2. CASE OpLook
  <2>1. /\ opPc' \in {"idle", "look running", "write"} /\ opPc # "idle"
        /\ op' = IF opPc' = "idle" THEN NoJob ELSE op
        /\ UNCHANGED <<vars, opFree, requeues>>
    BY <1>2 DEF OpLook, Looked
  <2>2. OpTypeOK'
    BY <2>1 DEF OpTypeOK
  <2> QED
    BY <1>0, <2>1, <2>2, CommandRests
<1>3. CASE OpWrite
  <2>1. /\ queue' = [queue EXCEPT ![op] = Requeued] /\ op \in Jobs
        /\ opPc' = "unlink" /\ UNCHANGED <<op, opFree, requeues, exec>>
        /\ UNCHANGED <<dead, hookVars, spill, payload, running, marker>>
        /\ UNCHANGED <<threadVars, stopVars, storeVars, faultVars>>
    BY <1>3 DEF OpWrite, NotFiles, OpTypeOK
  <2>2. UNCHANGED <<session, hook, stamp, shown, clock, pc, now, pending, tried, ioFail,
                    marked, stop, gaveUp, stops, written, blame, cut, deaths, errors>>
    BY <2>1 DEF hookVars, threadVars, stopVars, storeVars, faultVars
  <2>3. Requeued \in Record /\ Requeued.attempts < MaxAttempts /\ Requeued.free <= MaxFree
    <3>1. opFree \in Nat
      BY DEF OpTypeOK
    <3>2. opFree <= MaxFree
      BY DEF FreeInv
    <3>3. 0 < MaxAttempts
      BY HookQueueAssumption
    <3>4. Requeued.attempts = 0 /\ Requeued.free = opFree
      BY DEF Requeued
    <3>5. Requeued \in Record
      BY <3>1 DEF Requeued, Record
    <3> QED
      BY <3>2, <3>3, <3>4, <3>5
  <2>4. Requeued # NoFile
    BY <2>3, HookQueueAssumption
  <2>5. /\ queue' \in [Jobs -> Record \cup {NoFile}]
        /\ queue'[op] = Requeued /\ \A k \in Jobs : k # op => queue'[k] = queue[k]
    BY <2>1, <2>3 DEF ThreadInv, TypeOK
  <2>6. TypeOK' /\ OpTypeOK'
    <3>1. TypeOK'
      BY <2>1, <2>2, <2>5 DEF ThreadInv, TypeOK, PCs
    <3>2. OpTypeOK'
      BY <1>3, <2>1 DEF OpTypeOK, OpWrite
    <3> QED
      BY <3>1, <3>2
  <2>7. PassInv'
    <3>1. ExecInv' /\ QuietInv'
      BY <2>1, <2>2 DEF ThreadInv, PassInv, ExecInv, QuietInv
    <3>2. \A k \in Jobs : queue[k] # NoFile => queue'[k] # NoFile
      BY <2>4, <2>5
    <3>3. PendingInv'
      BY <2>2, <3>2 DEF ThreadInv, PassInv, PendingInv, Files
    <3> QED
      BY <2>1, <2>2, <3>1, <3>3 DEF ThreadInv, PassInv, Busy, Inflight
  <2>8. EarlyInv' /\ BuriedInv'
    <3>1. hook[op] \notin Early
      BY <2>1 DEF BuriedInv
    <3>2. EarlyInv'
      BY <2>1, <2>2, <2>5, <3>1 DEF EarlyInv
    <3> QED
      BY <2>1, <2>2, <3>2 DEF BuriedInv
  <2>9. LimitInv' /\ FreeInv'
    <3>1. LimitInv'
      BY <2>1, <2>3, <2>5 DEF LimitInv
    <3> QED
      BY <2>1, <3>1 DEF FreeInv
  <2>10. AdoptInv' /\ PaidInv'
    BY <2>1, <2>2 DEF AdoptInv, PaidInv
  <2> QED
    BY <2>6, <2>7, <2>8, <2>9, <2>10 DEF ThreadInv
<1>4. CASE OpUnlink
  <2>1. /\ dead' = [dead EXCEPT ![op] = NoFile] /\ op \in Jobs
        /\ opPc' = "idle" /\ op' = NoJob /\ UNCHANGED <<opFree, requeues, exec>>
        /\ UNCHANGED <<queue, hookVars, spill, payload, running, marker>>
        /\ UNCHANGED <<threadVars, stopVars, storeVars, faultVars>>
    BY <1>4 DEF OpUnlink, NotFiles, OpTypeOK
  <2>2. UNCHANGED <<session, hook, stamp, shown, clock, pc, now, pending, tried, ioFail,
                    marked, stop, gaveUp, stops, written, blame, cut, deaths, errors>>
    BY <2>1 DEF hookVars, threadVars, stopVars, storeVars, faultVars
  <2>3. /\ dead' \in [Jobs -> Record \cup {NoFile}]
        /\ \A k \in Jobs : dead'[k] = IF k = op THEN NoFile ELSE dead[k]
    BY <2>1 DEF ThreadInv, TypeOK
  <2>4. TypeOK'
    BY <2>1, <2>2, <2>3 DEF ThreadInv, TypeOK, PCs
  <2>5. OpTypeOK'
    BY <2>1 DEF OpTypeOK
  <2>6. ExecInv' /\ QuietInv' /\ PendingInv'
    BY <2>1, <2>2 DEF ThreadInv, PassInv, ExecInv, QuietInv, PendingInv, Files
  <2>7. PassInv'
    BY <2>1, <2>2, <2>6 DEF ThreadInv, PassInv, Busy, Inflight
  <2>8. EarlyInv' /\ LimitInv'
    BY <2>1, <2>2 DEF EarlyInv, LimitInv
  <2>9. BuriedInv'
    BY <2>1, <2>2, <2>3, HookQueueAssumption DEF BuriedInv
  <2>10. FreeInv'
    BY <2>1, <2>3 DEF FreeInv
  <2>11. AdoptInv' /\ PaidInv'
    BY <2>1, <2>2 DEF AdoptInv, PaidInv
  <2> QED
    BY <2>4, <2>5, <2>7, <2>8, <2>9, <2>10, <2>11 DEF ThreadInv
<1>5. CASE OpDies
  <2>1. opPc' = "idle" /\ op' = NoJob /\ UNCHANGED <<vars, opFree, requeues>>
    BY <1>5 DEF OpDies
  <2>2. OpTypeOK'
    BY <2>1 DEF OpTypeOK
  <2> QED
    BY <1>0, <2>1, <2>2, CommandRests
<1> QED
  BY <1>1, <1>2, <1>3, <1>4, <1>5 DEF OpStep

\* However requeue-hooks interleaves with the consumer and wherever it is
\* interrupted: a job that no death, forced stop or failed file operation touched
\* is written at most once, and what waits in queue/ has an attempt left.
THEOREM RequeuedSafelyAlways == RequeueSpec => []RequeuedSafely
<1>1. RequeueInv /\ [Next]_vars /\ UNCHANGED opVars => RequeueInv'
  <2> SUFFICES ASSUME RequeueInv, [Next]_vars, UNCHANGED opVars PROVE RequeueInv'
    OBVIOUS
  <2>1. TypeOK' /\ OpTypeOK'
    BY QueueType DEF RequeueInv, ThreadInv, PassInv, OpTypeOK, opVars
  <2> QED
    BY <2>1, ThreadStep, EarlyStep, DeadStep, AdoptStep, LimitStep, FreeStep, PaidStep
    DEF RequeueInv, ThreadInv, PassInv
<1>2. RequeueInv /\ [RequeueNext]_requeueVars => RequeueInv'
  BY <1>1, CommandStep DEF RequeueNext, requeueVars
<1>3. RequeueInv => RequeuedSafely
  BY DEF RequeueInv, LimitInv, PaidInv, RequeuedSafely, WrittenOnce, AttemptsLeft
<1> QED
  BY RequeueStart, <1>2, <1>3, PTL DEF RequeueSpec
=============================================================================
