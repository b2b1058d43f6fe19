------------------------------- MODULE EventStream -------------------------------
(***************************************************************************)
(* The daemon's progress stream: the sequence numbers that must outlive a  *)
(* restart, the ring of recent frames, and one viewer that connects, is    *)
(* replayed what it missed, follows live and comes back after a break.     *)
(***************************************************************************)
EXTENDS Naturals, Sequences, SequencesExt

CONSTANTS Block, History, QueueMax, MaxSeq, Restarts

VARIABLES
  file,     \* the ceiling reserved in sse_seq.json, 0 before there is one
  torn,     \* the file is unreadable
  seq, ceiling, seqLoaded, \* _sse_seq, _seq_ceiling, _seq_loaded
  seqWarned, \* a warning said that numbers may repeat
  ring,     \* _sse_history: numbers of the frames retained
  viewer,   \* "away", "snapshot" (replay taken), "live" (registered)
  replay,   \* frames left to replay
  replayed, \* replayed_ids
  queue,    \* the subscriber's queue
  last,     \* the number of the last frame the viewer received
  due,      \* frames emitted since it asked, neither received nor reported as dropped
  restarted

eventVars == <<file, torn, seq, ceiling, seqLoaded, seqWarned, ring, viewer, replay, replayed,
               queue, last, due, restarted>>

EventTypeOK ==
  /\ file \in Nat /\ torn \in BOOLEAN /\ seq \in 0..MaxSeq /\ ceiling \in Nat
  /\ seqLoaded \in BOOLEAN /\ seqWarned \in BOOLEAN
  /\ viewer \in {"away", "snapshot", "live"}
  /\ Len(ring) <= History /\ Len(queue) <= QueueMax
  /\ due \subseteq 1..MaxSeq /\ last \in 0..MaxSeq

EventInit ==
  /\ file = 0 /\ torn = FALSE /\ seq = 0 /\ ceiling = 0 /\ seqLoaded = FALSE /\ seqWarned = FALSE
  /\ ring = <<>> /\ viewer = "away" /\ replay = <<>> /\ replayed = {} /\ queue = <<>>
  /\ last = 0 /\ due = {} /\ restarted = 0

-----------------------------------------------------------------------------
(* _next_seq: a number above every one issued, a block reserved on disk first. *)

Resumed == IF torn THEN 0 ELSE file
Base == IF seqLoaded THEN seq ELSE Resumed
Next1 == Base + 1
MReserves == ~seqLoaded
Reserves == ~seqLoaded \/ Next1 >= ceiling
NewCeiling == (IF seqLoaded THEN Next1 ELSE Base) + Block

\* The write may fail, with a warning, and the stream goes on.
NextSeq ==
  /\ Next1 <= MaxSeq
  /\ seq' = Next1 /\ seqLoaded' = TRUE
  /\ IF Reserves
       THEN /\ ceiling' = NewCeiling
            /\ \/ /\ file' = NewCeiling /\ torn' = FALSE
                  /\ seqWarned' = (seqWarned \/ (~seqLoaded /\ torn))
               \/ seqWarned' = TRUE /\ UNCHANGED <<file, torn>>
       ELSE UNCHANGED <<ceiling, file, torn, seqWarned>>

\* A span event takes a number and makes no frame.
EmitSpan ==
  /\ NextSeq
  /\ UNCHANGED <<ring, viewer, replay, replayed, queue, last, due, restarted>>

Retained(r) == IF Len(r) > History THEN Tail(r) ELSE r

\* _fanout_sse: into the ring, and to the subscriber unless its queue is full (a warning).
EmitFrame ==
  /\ NextSeq
  /\ ring' = Retained(Append(ring, seq'))
  /\ LET fits == Len(queue) < QueueMax IN
       /\ queue' = IF viewer = "live" /\ fits THEN Append(queue, seq') ELSE queue
       /\ due' = IF viewer = "away" \/ (viewer = "live" /\ ~fits) THEN due ELSE due \cup {seq'}
  /\ UNCHANGED <<viewer, replay, replayed, last, restarted>>

-----------------------------------------------------------------------------
(* progress_stream *)

\* history_since the last id the viewer holds: numbers grow along the ring, so the frames
\* after n are its end.  A first visit replays nothing.
After(n) ==
  LET seen == CHOOSE k \in 0..Len(ring) : \A i \in DOMAIN ring : i > k <=> ring[i] > n
  IN SubSeq(ring, seen + 1, Len(ring))
Connect ==
  /\ viewer = "away" /\ viewer' = "snapshot"
  /\ replay' = IF last = 0 THEN <<>> ELSE After(last)
  /\ due' = ToSet(replay') /\ replayed' = {} /\ queue' = <<>>
  /\ UNCHANGED <<file, torn, seq, ceiling, seqLoaded, seqWarned, ring, last, restarted>>
Register ==
  /\ viewer = "snapshot" /\ viewer' = "live"
  /\ UNCHANGED <<file, torn, seq, ceiling, seqLoaded, seqWarned, ring, replay, replayed, queue,
                 last, due, restarted>>

Receive(f) == last' = f /\ due' = due \ {f}
Deliver ==
  /\ viewer = "live"
  /\ \/ /\ replay # <<>>
        /\ Receive(Head(replay)) /\ replay' = Tail(replay)
        /\ replayed' = replayed \cup {Head(replay)} /\ UNCHANGED queue
     \/ /\ replay = <<>> /\ queue # <<>> /\ queue' = Tail(queue)
        /\ IF Head(queue) \in replayed THEN UNCHANGED <<last, due>> ELSE Receive(Head(queue))
        /\ UNCHANGED <<replay, replayed>>
  /\ UNCHANGED <<file, torn, seq, ceiling, seqLoaded, seqWarned, ring, viewer, restarted>>

Leaves == viewer' = "away" /\ replay' = <<>> /\ queue' = <<>> /\ due' = {} /\ replayed' = {}
Disconnect ==
  /\ viewer # "away" /\ Leaves
  /\ UNCHANGED <<file, torn, seq, ceiling, seqLoaded, seqWarned, ring, last, restarted>>

\* The daemon dies, in the middle of a write of the ceiling perhaps.
EventCrash ==
  /\ restarted < Restarts /\ restarted' = restarted + 1
  /\ torn' \in {torn, Reserves \/ torn}
  /\ seq' = 0 /\ ceiling' = 0 /\ seqLoaded' = FALSE /\ ring' = <<>>
  /\ Leaves /\ UNCHANGED <<file, last, seqWarned>>

EventNext == EmitSpan \/ EmitFrame \/ Connect \/ Register \/ Deliver \/ Disconnect \/ EventCrash
EventSpec == EventInit /\ [][EventNext]_eventVars

-----------------------------------------------------------------------------
\* seq is the viewer's ordering and dedupe key: across replays, reconnections and
\* restarts of the daemon it only grows, unless a warning said it might not.
OrderKept == [][last' # last => last' > last \/ seqWarned]_eventVars
=============================================================================
