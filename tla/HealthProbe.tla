------------------------------ MODULE HealthProbe ------------------------------
(***************************************************************************)
(* GET /health while the store works: the memory count is read by a helper *)
(* thread, one at a time for all requests, and a request waits for it only *)
(* for a budget; then it answers with the last value and names the field   *)
(* as stale. The other two store fields (the re-extraction offer, the work *)
(* graph) go the same way. While the daemon warms up, and once its store   *)
(* is closing, no store is read at all.                                    *)
(***************************************************************************)
EXTENDS Naturals

CONSTANTS
  Requests,  \* concurrent /health requests
  MaxCount,  \* bound: memories added while the model runs
  MaxReads   \* bound: helper threads started

NoCount == 0 - 1   \* memories: -1, no value yet

VARIABLES
  startup, \* _startup_status: "warming", "ok", "degraded"
  closing, \* _store_closing: store_in_use refuses
  stored,  \* memories in the store
  reader,  \* the probe's latest thread: its number, whether it is alive, what it read
  last,    \* the probe's _value, with the number of the thread that set it (0: none has)
  ask,     \* each request: its place and the thread it waits for
  reply    \* what it answered: status, memories, and whether the field was fresh

healthVars == <<startup, closing, stored, reader, last, ask, reply>>

Counts == {NoCount} \cup 0..MaxCount
NoReply == [status |-> "none", memories |-> NoCount, fresh |-> FALSE, by |-> 0]

HealthTypeOK ==
  /\ startup \in {"warming", "ok", "degraded"} /\ closing \in BOOLEAN /\ stored \in 0..MaxCount
  /\ reader \in [no : 0..MaxReads, alive : BOOLEAN, read : Counts]
  /\ last \in [value : Counts, by : 0..MaxReads]
  /\ ask \in [Requests -> [at : {"off", "began", "joining", "done"}, no : 0..MaxReads,
                           since : 0..MaxReads]]
  /\ reply \in [Requests -> [status : {"none", "warming", "degraded", "ok"},
                             memories : Counts, fresh : BOOLEAN, by : 0..MaxReads]]

HealthInit ==
  /\ startup = "warming" /\ closing = FALSE /\ stored = 0
  /\ reader = [no |-> 0, alive |-> FALSE, read |-> NoCount]
  /\ last = [value |-> NoCount, by |-> 0]
  /\ ask = [q \in Requests |-> [at |-> "off", no |-> 0, since |-> 0]]
  /\ reply = [q \in Requests |-> NoReply]

-----------------------------------------------------------------------------
\* The daemon around the requests.
WarmupEnds ==
  /\ startup = "warming" /\ startup' \in {"ok", "degraded"}
  /\ UNCHANGED <<closing, stored, reader, last, ask, reply>>
StoreCloses == ~closing /\ closing' = TRUE /\ UNCHANGED <<startup, stored, reader, last, ask, reply>>
Remember ==
  /\ stored < MaxCount /\ ~closing /\ stored' = stored + 1
  /\ UNCHANGED <<startup, closing, reader, last, ask, reply>>

Answers(q, status, value, fresh, by) ==
  /\ ask' = [ask EXCEPT ![q].at = "done"]
  /\ reply' = [reply EXCEPT ![q] =
       [status |-> status, memories |-> value, fresh |-> fresh, by |-> by]]
  /\ UNCHANGED <<startup, closing, stored, last>>

\* A request that begins before the store is ready, or in a shutdown, reads nothing.
\* since remembers the threads that had already ended: it is not a variable of the code.
AnswerWithoutStore(q) ==
  /\ ask[q].at = "off" /\ (startup # "ok" \/ closing)
  /\ Answers(q, IF startup = "ok" THEN "degraded" ELSE startup, NoCount, FALSE, 0)
  /\ UNCHANGED reader
Begin(q) ==
  /\ ask[q].at = "off" /\ startup = "ok" /\ ~closing
  /\ ask' = [ask EXCEPT ![q] = [at |-> "began", no |-> 0,
                                since |-> IF reader.alive THEN reader.no - 1 ELSE reader.no]]
  /\ UNCHANGED <<startup, closing, stored, reader, last, reply>>

\* _BoundedProbe.get under its lock: join the thread that is alive, or start one.
Reading == reader.alive
JoinOrStart(q) ==
  /\ ask[q].at = "began"
  /\ \/ Reading /\ UNCHANGED reader
     \/ /\ ~Reading /\ reader.no < MaxReads
        /\ reader' = [no |-> reader.no + 1, alive |-> TRUE, read |-> NoCount]
  /\ ask' = [ask EXCEPT ![q].at = "joining", ![q].no = reader'.no]
  /\ UNCHANGED <<startup, closing, stored, last, reply>>

\* The helper thread: reads the store, which may already refuse it (then it reports 0),
\* and later publishes what it read and ends.
ReadCount ==
  /\ reader.alive /\ reader.read = NoCount
  /\ reader' = [reader EXCEPT !.read = IF closing THEN 0 ELSE stored]
  /\ UNCHANGED <<startup, closing, stored, last, ask, reply>>
PublishCount ==
  /\ reader.alive /\ reader.read # NoCount
  /\ last' = [value |-> reader.read, by |-> reader.no]
  /\ reader' = [reader EXCEPT !.alive = FALSE]
  /\ UNCHANGED <<startup, closing, stored, ask, reply>>

\* join returned, because the thread ended or because the budget did.
Ended(no) == ~(reader.no = no /\ reader.alive)
IsFresh(q) == Ended(ask[q].no) /\ last.by # 0
AnswerWithCount(q) ==
  /\ ask[q].at = "joining"
  /\ Answers(q, "ok", last.value, IsFresh(q), last.by)
  /\ UNCHANGED reader

HealthNext ==
  \/ WarmupEnds \/ StoreCloses \/ Remember \/ ReadCount \/ PublishCount
  \/ \E q \in Requests :
       AnswerWithoutStore(q) \/ Begin(q) \/ JoinOrStart(q) \/ AnswerWithCount(q)
HealthSpec == HealthInit /\ [][HealthNext]_healthVars

-----------------------------------------------------------------------------
\* A count that is not marked stale comes from a thread that was alive while the request
\* was being served, never from one that had ended before it began.
FreshIsRecent ==
  \A q \in Requests : reply[q].fresh => reply[q].by > ask[q].since
=============================================================================
