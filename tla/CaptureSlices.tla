--------------------------- MODULE CaptureSlices ---------------------------
(***************************************************************************)
(* capture_slices.iter_slices: a byte range of a transcript is copied into *)
(* slices of at most Cap bytes that end at a record boundary.  A transcript*)
(* is the set of its newline bytes, numbered from 1; it may shrink under   *)
(* the reader.  The consumer of the slices is the worker of CaptureLedger. *)
(***************************************************************************)
EXTENDS Integers, FiniteSets, FiniteSetsExt

CONSTANTS MaxSize,     \* bound: bytes of the transcript
          Cap          \* bytes of one slice, CAPTURE_MAX_MB

ASSUME SliceAssumption == MaxSize \in Nat /\ Cap \in Nat

VARIABLES newlines, size,      \* the transcript
          first, limit,        \* the range
          position, fpos,      \* what is accounted for; the file's own position
          start, written,      \* of the slice under construction: bytes copied
          slices, skipped,     \* bytes per finished slice; bytes of skipped records
          slicing              \* "open", "between" slices, or "end"

sliceVars == <<newlines, size, first, limit, position, fpos, start, written, slices, skipped, slicing>>

Min2(a, b) == IF a < b THEN a ELSE b

SliceTypeOK ==
    /\ newlines \subseteq 1..MaxSize /\ size \in 0..MaxSize /\ limit \in 0..MaxSize
    /\ position \in 0..MaxSize /\ fpos \in 0..MaxSize
    /\ start <= position /\ position <= limit /\ slicing \in {"open", "between", "end"}
    /\ written \subseteq 1..MaxSize

(* The range starts where the last capture ended: at the start or after a  *)
(* newline.                                                                *)
SliceInit ==
    /\ newlines \in SUBSET (1..MaxSize) /\ size = MaxSize
    /\ position \in {0} \cup newlines /\ limit \in position..MaxSize
    /\ fpos = position /\ start = position /\ first = position
    /\ written = {} /\ slices = {} /\ skipped = {} /\ slicing = "between"

OpenSlice ==
    /\ slicing = "between" /\ position < limit
    /\ slicing' = "open" /\ written' = {} /\ start' = position
    /\ UNCHANGED <<newlines, size, first, limit, position, fpos, slices, skipped>>

AllSliced ==
    /\ slicing = "between" /\ position >= limit
    /\ slicing' = "end"
    /\ UNCHANGED <<newlines, size, first, limit, position, fpos, start, written, slices, skipped>>

(* readline(n): to the newline, to n bytes, or to the end of the file.     *)
LineEnd(from) == Min({e \in newlines \cup {size} : e > from} \cup {size})
ReadTo(from, n) == Min2(from + n, LineEnd(from))

Room == Min2(Cap - Cardinality(written), limit - position)
Line == (fpos + 1)..ReadTo(fpos, Room)
Complete == ReadTo(fpos, Room) \in newlines \/ position + Cardinality(Line) >= limit
MoreRoom == slicing = "open" /\ position < limit /\ Cardinality(written) < Cap
CutShort == ~Complete /\ Cardinality(Line) = Room

CloseSlice == slices' = slices \cup {written} /\ slicing' = "between"

Shrunk ==
    /\ MoreRoom /\ fpos >= size                   \* the file shrank: stop at its end
    /\ limit' = fpos /\ position' = fpos
    /\ CloseSlice
    /\ UNCHANGED <<newlines, size, first, fpos, start, written, skipped>>

Copy ==
    /\ MoreRoom /\ fpos < size /\ ~CutShort
    /\ written' = written \cup Line
    /\ position' = position + Cardinality(Line) /\ fpos' = ReadTo(fpos, Room)
    /\ UNCHANGED <<newlines, size, first, limit, start, slices, skipped, slicing>>

(* A record that does not fit is left for the next slice, from its start.  *)
MSeekBack == ReadTo(fpos, Room)
SeekBack == position

LeaveForNext ==
    /\ MoreRoom /\ fpos < size /\ CutShort /\ written # {}
    /\ fpos' = SeekBack
    /\ CloseSlice
    /\ UNCHANGED <<newlines, size, first, limit, position, start, written, skipped>>

(* A record that fits no slice is read to its end and passed over, as far  *)
(* as the range goes.                                                      *)
RecordEnd == LineEnd(ReadTo(fpos, Room))
MPassedOver == RecordEnd
PassedOver == Min2(RecordEnd, limit)

SkipRecord ==
    /\ MoreRoom /\ fpos < size /\ CutShort /\ written = {}
    /\ fpos' = RecordEnd /\ position' = PassedOver
    /\ skipped' = skipped \cup ((position + 1)..position')
    /\ UNCHANGED <<newlines, size, first, limit, start, written, slices, slicing>>

SliceFull ==
    /\ slicing = "open" /\ ~MoreRoom
    /\ CloseSlice
    /\ UNCHANGED <<newlines, size, first, limit, position, fpos, start, written, skipped>>

Shrinks(n) ==
    /\ slicing # "end" /\ n < size /\ size' = n
    /\ newlines' = newlines \cap (1..n)
    /\ UNCHANGED <<first, limit, position, fpos, start, written, slices, skipped, slicing>>

SliceNext ==
    \/ OpenSlice \/ AllSliced \/ Shrunk \/ Copy \/ LeaveForNext \/ SkipRecord \/ SliceFull
    \/ \E n \in 0..MaxSize : Shrinks(n)

SliceSpec == SliceInit /\ [][SliceNext]_sliceVars

-----------------------------------------------------------------------------
(* No byte of the range is dropped or copied twice, in whatever way the    *)
(* records fall on the slice boundaries: what was passed is in exactly one *)
(* slice, or belongs to a record that no slice could hold; and while the   *)
(* transcript is left alone, a slice ends where a record does.             *)
Copied == (UNION slices) \cup (IF slicing = "open" THEN written ELSE {})
SlicesPartition ==
    /\ \A s \in slices : Cardinality(s) <= Cap
    /\ \A s, t \in slices : s = t \/ s \cap t = {}
    /\ Copied \cap skipped = {}
    /\ size = MaxSize =>
         /\ Copied \cup skipped = (first + 1)..position
         /\ \A s \in slices \ {{}} : Max(s) \in newlines \cup {limit}
=============================================================================
