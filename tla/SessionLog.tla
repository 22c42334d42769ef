----------------------------- MODULE SessionLog -----------------------------
(***************************************************************************)
(* The record stream of one recording (internal/session/types.go) and the  *)
(* reader that reconstructs a session from it, Summarize.                  *)
(*                                                                         *)
(* A record keeps what tells two logs apart: its type t, its segment       *)
(* number seq (0 for the session records), and by type the endpoint ep     *)
(* (segment_start, segment_end), the note (the eligibility of a            *)
(* segment_start or segment_classification, the reason of a session_end)   *)
(* and n, the number of samples a segment_end's stats were computed from.  *)
(***************************************************************************)
EXTENDS Integers, Sequences

CONSTANT None    (* an absent field                                        *)

Rec(t, seq) == [t |-> t, seq |-> seq, ep |-> None, note |-> None, n |-> 0]

SessionStart          == Rec("session_start", 0)
SegmentStart(q, e, l) == [Rec("segment_start", q) EXCEPT !.ep = e, !.note = l]
SampleRec(q)          == Rec("sample", q)
Classification(q, l)  == [Rec("segment_classification", q) EXCEPT !.note = l]
SegmentEnd(q, e, k)   == [Rec("segment_end", q) EXCEPT !.ep = e, !.n = k]
SessionEnd(reason)    == [Rec("session_end", 0) EXCEPT !.note = reason]

(* After these a segment is open. *)
InSegment == {"segment_start", "sample", "segment_classification"}

-----------------------------------------------------------------------------
(* Summarize: one pass over the records.  `open` is the segment being      *)
(* read, `samples` the samples collected for it.                           *)

NothingRead == [segments |-> <<>>, open |-> None, samples |-> 0]

CloseOpen(sum, k) ==
  IF sum.open = None THEN sum
  ELSE [segments |-> Append(sum.segments, [sum.open EXCEPT !.n = k]),
        open     |-> None,
        samples  |-> 0]

Absorb(sum, r) ==
  CASE r.t = "segment_start" ->
         [CloseOpen(sum, sum.samples) EXCEPT
            !.open = [seq |-> r.seq, ep |-> r.ep, note |-> r.note, n |-> 0]]
    [] r.t = "segment_classification" /\ sum.open # None /\ sum.open.seq = r.seq ->
         [sum EXCEPT !.open.note = r.note]
    [] r.t = "sample" /\ sum.open # None ->
         [sum EXCEPT !.samples = @ + 1]
    [] r.t = "segment_end" ->
         CloseOpen(sum, r.n)
    [] OTHER -> sum

(* What has been read after each number of records. *)
Reads(log) ==
  LET upTo[n \in 0..Len(log)] ==
        IF n = 0 THEN NothingRead ELSE Absorb(upTo[n - 1], log[n])
  IN  upTo

(* The segments a reader reports: a segment without its segment_end gets   *)
(* its statistics from the samples that were read.                         *)
Summarize(log) ==
  LET sum == Reads(log)[Len(log)]
  IN  CloseOpen(sum, sum.samples).segments

-----------------------------------------------------------------------------
(* The grammar of a log, record by record: one session_start; segments     *)
(* numbered from 1 without a gap, never nested; samples and                *)
(* classifications only inside the segment they name; nothing after        *)
(* session_end.                                                            *)
Follows(p, r) ==
  CASE r.t = "segment_start" ->
         \/ p.t = "session_start" /\ r.seq = 1
         \/ p.t = "segment_end" /\ r.seq = p.seq + 1
    [] r.t \in {"sample", "segment_classification", "segment_end"} ->
         p.t \in InSegment /\ r.seq = p.seq
    [] r.t = "session_end" -> p.t \in {"session_start", "segment_end"}
    [] OTHER -> FALSE

(* A log that satisfies it does so in every prefix: wherever a crash cuts  *)
(* the file, what is left is a log.                                        *)
WellFormed(log) ==
  log # <<>> =>
    /\ log[1].t = "session_start"
    /\ \A i \in 1..(Len(log) - 1) : Follows(log[i], log[i + 1])
=============================================================================
