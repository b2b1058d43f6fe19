---------------------------- MODULE ReportOutbox ----------------------------
(***************************************************************************)
(* The outbox of crash, event and support reports: report_outbox.py, the   *)
(* entry points of crash_reporter.py that feed and flush it, and the shell *)
(* hook markers of hook_failures.py that become reports.                   *)
(*                                                                         *)
(* A report is a file named by its fingerprint; a sender takes it by       *)
(* renaming it to a claim that carries its process and a lease, posts it   *)
(* outside the lock, and comes back for the result.  Every critical section*)
(* under .queue.lock is one action; a process may be killed between any    *)
(* two, and inside enqueue and the result step, which write two files.     *)
(***************************************************************************)
EXTENDS Integers, FiniteSets

CONSTANTS Prints,      \* fingerprints
          Senders,     \* threads that flush, each in a process of its own
          MaxQueue,    \* MAX_REPORTS
          DailyCap, ManualCap,
          MaxReports   \* bound: reports ever made

\* What marks a file that no sender holds is not itself a sender.
ASSUME OutboxAssumption == "queued" \notin Senders /\ "dead" \notin Senders /\ MaxQueue \in Nat

VARIABLES files,       \* reports in the directory, queued or claimed
          receipts,    \* .delivered
          reserved,    \* .reservations
          sender,      \* what each process is doing
          allowed,     \* crash reports are enabled
          markers,     \* shell hook failures: lines not yet consumed
          made,        \* reports made so far
          gone         \* ghost: reports dropped on purpose

outboxVars == <<files, receipts, reserved, sender, allowed, markers, made, gone>>

Idle == [at |-> "idle", todo |-> {}, print |-> "none", rep |-> 0, late |-> FALSE]

OutboxTypeOK ==
    /\ \A f \in files : /\ f.print \in Prints /\ f.rep \in 1..MaxReports
                        /\ f.by \in Senders \cup {"queued", "dead"}
    /\ receipts \subseteq 1..MaxReports
    /\ reserved.count \in 0..MaxReports /\ reserved.recent \subseteq Prints
    /\ \A s \in Senders : sender[s].at \in {"idle", "flushing", "posting", "ok", "failed", "receipted"}
    /\ markers \subseteq Prints

OutboxInit ==
    /\ files = {} /\ receipts = {} /\ gone = {} /\ made = 0
    /\ reserved = [count |-> 0, manual |-> 0, recent |-> {}]
    /\ sender = [s \in Senders |-> Idle]
    /\ allowed = TRUE /\ markers = {}

Queued(fs) == {f \in fs : f.by = "queued"}
Claimed(fs) == fs \ Queued(fs)

(* A claim is alive while its process is, and its lease has not run out.   *)
MClaimAlive(f) == FALSE
ClaimAlive(f) == f.by \in Senders /\ ~f.expired

(* _pending, under the lock: reports with a receipt are removed, dead or   *)
(* expired claims go back in the queue, old reports are dropped.           *)
AfterRecovery(fs) ==
    {IF f.by = "queued" \/ ClaimAlive(f) THEN f
     ELSE [f EXCEPT !.by = "queued", !.expired = FALSE] :
        f \in {g \in fs : g.rep \notin receipts /\ (ClaimAlive(g) \/ ~g.old)}}

TooOld(fs) == {f.rep : f \in {g \in fs : g.old /\ ~ClaimAlive(g)}}
Seen(fs) == {f.print : f \in {g \in fs : g.rep \in receipts}}

-----------------------------------------------------------------------------
(* enqueue: a report under way with the same fingerprint is reused; the    *)
(* daily caps and the dedupe window suppress; the oldest give way.         *)
Capped(p, manual) ==
    \/ manual /\ reserved.manual >= ManualCap
    \/ p \in reserved.recent \/ reserved.count >= DailyCap

Reserve(p, manual) ==
    [count |-> reserved.count + 1,
     manual |-> reserved.manual + IF manual THEN 1 ELSE 0,
     recent |-> reserved.recent \cup {p} \cup Seen(files)]

New(p) == [print |-> p, rep |-> made + 1, by |-> "queued", expired |-> FALSE, old |-> FALSE]

Accepts(p, manual, fs) ==
    /\ made < MaxReports
    /\ \A f \in fs : f.print # p
    /\ ~Capped(p, manual) /\ Cardinality(Claimed(fs)) < MaxQueue

(* How many of the oldest queued reports make room for one more.           *)
Excess(fs) == IF Cardinality(fs) >= MaxQueue THEN Cardinality(fs) - MaxQueue + 1 ELSE 0

Enqueue(p, manual) ==
    LET fs == AfterRecovery(files)
    IN /\ allowed /\ Accepts(p, manual, fs)
       /\ \E out \in SUBSET Queued(fs) :
            /\ Cardinality(out) = Excess(fs)
            /\ \A o \in out, q \in Queued(fs) \ out : o.rep < q.rep
            /\ files' = (fs \ out) \cup {New(p)}
            /\ gone' = gone \cup {f.rep : f \in out} \cup TooOld(files)
       /\ made' = made + 1
       (* persisted first; a death here leaves it without a reservation *)
       /\ reserved' \in {Reserve(p, manual), [reserved EXCEPT !.recent = @ \cup Seen(files)]}
       /\ UNCHANGED <<receipts, sender, allowed, markers>>

(* Refused, reused or suppressed: only the recovery of the claims is left. *)
Suppressed(p, manual) ==
    /\ allowed /\ ~Accepts(p, manual, AfterRecovery(files))
    /\ files' = AfterRecovery(files) /\ gone' = gone \cup TooOld(files)
    /\ reserved' = [reserved EXCEPT !.recent = @ \cup Seen(files)]
    /\ UNCHANGED <<receipts, sender, allowed, markers, made>>

-----------------------------------------------------------------------------
(* A flush lists what is queued, or, opted out, deletes everything.        *)
Flush(s) ==
    /\ sender[s].at = "idle" /\ files # {}
    /\ IF allowed
       THEN /\ files' = AfterRecovery(files)
            /\ sender' = [sender EXCEPT ![s].at = "flushing",
                            ![s].todo = {f.print : f \in Queued(AfterRecovery(files))}]
            /\ gone' = gone \cup TooOld(files)
            /\ reserved' = [reserved EXCEPT !.recent = @ \cup Seen(files)]
       ELSE /\ files' = {} /\ gone' = gone \cup {f.rep : f \in files}
            /\ UNCHANGED <<sender, reserved>>
    /\ UNCHANGED <<receipts, allowed, markers, made>>

Skip(s, p) == sender' = [sender EXCEPT ![s].todo = @ \ {p}]

Claim(s, p) ==
    /\ sender[s].at = "flushing" /\ p \in sender[s].todo
    /\ \/ /\ \A f \in Queued(files) : f.print # p      \* another sender took it
          /\ Skip(s, p) /\ UNCHANGED <<files, gone, reserved>>
       \/ \E f \in Queued(files) :
            /\ f.print = p
            /\ reserved' = IF allowed THEN [reserved EXCEPT !.recent = @ \cup {p}] ELSE reserved
            /\ IF allowed /\ f.rep \notin receipts
               THEN /\ files' = (files \ {f}) \cup {[f EXCEPT !.by = s]}
                    /\ sender' = [sender EXCEPT ![s] = [at |-> "posting", todo |-> @.todo \ {p},
                                                        print |-> p, rep |-> f.rep, late |-> FALSE]]
                    /\ UNCHANGED gone
               ELSE /\ files' = files \ {f} /\ Skip(s, p)
                    /\ gone' = gone \cup {f.rep}
    /\ UNCHANGED <<receipts, allowed, markers, made>>

FlushEnds(s) ==
    /\ sender[s].at = "flushing" /\ sender[s].todo = {}
    /\ sender' = [sender EXCEPT ![s] = Idle]
    /\ UNCHANGED <<files, receipts, reserved, allowed, markers, made, gone>>

(* The post, outside the lock; an answer may be lost after the report was  *)
(* taken, which the sender sees as a failure.                              *)
Post(s, ok) ==
    /\ sender[s].at = "posting"
    /\ sender' = [sender EXCEPT ![s].at = IF ok THEN "ok" ELSE "failed"]
    /\ UNCHANGED <<files, receipts, reserved, allowed, markers, made, gone>>

LeaseExpires(f) ==
    /\ f.by \in Senders /\ ~f.expired
    /\ files' = (files \ {f}) \cup {[f EXCEPT !.expired = TRUE]}
    /\ sender' = [sender EXCEPT ![f.by].late = TRUE]
    /\ UNCHANGED <<receipts, reserved, allowed, markers, made, gone>>

Held(s) == {f \in files : f.by = s /\ f.rep = sender[s].rep}

(* The claim goes back to its queued name, replacing what has that name.   *)
MPutBack(fs, mine) == fs \ mine
PutBack(fs, mine) ==
    (fs \ (mine \cup {f \in Queued(fs) : \E m \in mine : f.print = m.print}))
        \cup {[m EXCEPT !.by = "queued", !.expired = FALSE] : m \in mine}

BackToList(s) == sender' = [sender EXCEPT ![s] = [Idle EXCEPT !.at = "flushing", !.todo = sender[s].todo]]

(* The result: no claim, nothing to do; a receipt, then the claim removed; *)
(* or the claim put back, also when the lock cannot be had in time.        *)
Receipt(s) ==
    /\ sender[s].at = "ok" /\ Held(s) # {}
    /\ receipts' = receipts \cup {sender[s].rep}
    /\ sender' = [sender EXCEPT ![s].at = "receipted"]
    /\ UNCHANGED <<files, reserved, allowed, markers, made, gone>>

RemoveClaim(s) ==
    /\ sender[s].at = "receipted"
    /\ files' = files \ Held(s)
    /\ BackToList(s)
    /\ UNCHANGED <<receipts, reserved, allowed, markers, made, gone>>

ResultGone(s) ==
    /\ sender[s].at \in {"ok", "failed"} /\ Held(s) = {}
    /\ BackToList(s)
    /\ UNCHANGED <<files, receipts, reserved, allowed, markers, made, gone>>

Return(s) ==
    /\ sender[s].at \in {"ok", "failed"} /\ Held(s) # {}
    /\ files' = PutBack(files, Held(s))
    /\ BackToList(s)
    /\ UNCHANGED <<receipts, reserved, allowed, markers, made, gone>>

(* Interpreter exit releases what the process holds; a kill does not.      *)
Exit(s) ==
    /\ sender[s].at # "idle"
    /\ files' = PutBack(files, {f \in files : f.by = s})
    /\ sender' = [sender EXCEPT ![s] = Idle]
    /\ UNCHANGED <<receipts, reserved, allowed, markers, made, gone>>

Killed(s) ==
    /\ sender[s].at # "idle"
    /\ files' = {IF f.by = s THEN [f EXCEPT !.by = "dead"] ELSE f : f \in files}
    /\ sender' = [sender EXCEPT ![s] = Idle]
    /\ UNCHANGED <<receipts, reserved, allowed, markers, made, gone>>

-----------------------------------------------------------------------------
(* A shell hook failed before Python: a line for the next command, which   *)
(* keeps its offset unless the line was accepted or deliberately not.      *)
HookFails(p) ==
    /\ p \notin markers /\ markers' = markers \cup {p}
    /\ UNCHANGED <<files, receipts, reserved, sender, allowed, made, gone>>

Reported(p) == \/ ~allowed \/ Capped(p, FALSE)
               \/ \E f \in files : f.print = p

Consume(p) ==
    /\ p \in markers /\ Reported(p)
    /\ markers' = markers \ {p}
    /\ UNCHANGED <<files, receipts, reserved, sender, allowed, made, gone>>

OptOut ==
    /\ allowed' = ~allowed
    /\ UNCHANGED <<files, receipts, reserved, sender, markers, made, gone>>

(* A new day: the caps and the dedupe window start again, reports age.     *)
NewDay(old) ==
    /\ reserved' = [count |-> 0, manual |-> 0, recent |-> {}]
    /\ files' = {IF f \in old THEN [f EXCEPT !.old = TRUE] ELSE f : f \in files}
    /\ UNCHANGED <<receipts, sender, allowed, markers, made, gone>>

OutboxNext ==
    \/ \E p \in Prints : \/ \E m \in BOOLEAN : Enqueue(p, m) \/ Suppressed(p, m)
                         \/ HookFails(p) \/ Consume(p)
    \/ \E s \in Senders : \/ Flush(s) \/ FlushEnds(s) \/ Receipt(s) \/ RemoveClaim(s)
                          \/ ResultGone(s) \/ Return(s) \/ Exit(s) \/ Killed(s)
                          \/ \E p \in Prints : Claim(s, p)
                          \/ \E ok \in BOOLEAN : Post(s, ok)
    \/ \E f \in files : LeaseExpires(f)
    \/ OptOut \/ \E old \in SUBSET files : NewDay(old)

OutboxSpec == OutboxInit /\ [][OutboxNext]_outboxVars

-----------------------------------------------------------------------------
(* A report leaves the outbox only with a receipt, or because reports were *)
(* turned off, it was too old, or a full queue pushed the oldest out: no   *)
(* death, lost answer, expired lease or late release loses one.            *)
Stored(fs) == {f.rep : f \in fs}
LeavesForAReason == Stored(files) \ Stored(files') \subseteq receipts' \cup gone'
ReportsLeaveForAReason == [][LeavesForAReason]_outboxVars

(* Two processes have the same report at the transport at once only when   *)
(* the lease of the first ran out; and what has a receipt is not posted    *)
(* again, though the file may outlive the receipt.                         *)
OneSenderPerReport ==
    \A s, t \in Senders :
        /\ sender[s].at = "posting" => sender[s].rep \notin receipts \/ sender[s].late
        /\ s # t /\ sender[s].at = "posting" /\ sender[t].at = "posting"
             => sender[s].rep # sender[t].rep \/ sender[s].late \/ sender[t].late

(* Both, along every behaviour.                                            *)
ReportsAreKept == ReportsLeaveForAReason /\ []OneSenderPerReport
=============================================================================
