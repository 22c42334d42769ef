---------------------------- MODULE GameLogTail ----------------------------
(***************************************************************************)
(* internal/gamelog/live.go: the incremental reader of a log that the game *)
(* keeps writing, and may truncate when it starts anew.                    *)
(*                                                                         *)
(* A log is a sequence of bytes, each a newline or one of two others.      *)
(* TakeCandidates looks at the file's size and then reads, so the game can *)
(* come in between: Stat and Read.  The bytes of an unfinished line are    *)
(* carried to the next call in a Go slice, whose array append reuses as    *)
(* long as its capacity lasts; arrays are therefore part of the model.     *)
(* A call that cannot open or stat the file changes nothing.  The parser   *)
(* of a line is not modelled: what matters is which lines it is given.     *)
(***************************************************************************)
EXTENDS Integers, Sequences, SequencesExt

CONSTANTS
  Unit,            (* allocations are rounded up to a multiple of it (8 in
                      Go's small size classes)                             *)
  MaxFile,         (* BOUND: bytes in the log                              *)
  MaxTruncations   (* BOUND: truncations by the game                       *)

ASSUME TailAssumption ==
  /\ Unit \in Nat \ {0}
  /\ MaxFile \in Nat /\ MaxTruncations \in Nat

NL   == "newline"
Byte == {NL, "x", "y"}

VARIABLES
  file,            (* the log's bytes                                      *)
  truncations,     (* how often the game has truncated it                  *)
  offset,          (* l.offset                                             *)
  carry,           (* l.carry: a slice, see below                          *)
  want,            (* len(buf) of the call under way, None between calls   *)
  lines,           (* the lines the call has parsed, none before it reads  *)
  (* history *)
  start,           (* where reading began: at OpenLive's end of file, or 0 *)
  consumed,        (* the bytes read since                                 *)
  fresh            (* how many of them the call has read                   *)

None == -1

vars == <<file, truncations, offset, carry, want, lines, start, consumed, fresh>>

-----------------------------------------------------------------------------
(* Slices: `arr` is the whole array (its length is the capacity), of which *)
(* the first `len` bytes are the slice.                                    *)

Nil == [arr |-> <<>>, len |-> 0]

Content(s) == SubSeq(s.arr, 1, s.len)

Fits(s, bytes) == s.len + Len(bytes) <= Len(s.arr)

RoundUp(n) == ((n + Unit - 1) \div Unit) * Unit

Larger(a, b) == IF a > b THEN a ELSE b

(* append(s, bytes...): in the array of `s` if they fit, else in a new one *)
(* of at least twice the size.                                             *)
GoAppend(s, bytes) ==
  LET n   == s.len + Len(bytes)
      new == Content(s) \o bytes
      cap == IF Fits(s, bytes) THEN Len(s.arr)
             ELSE RoundUp(Larger(n, 2 * Len(s.arr)))
  IN  [arr |-> [i \in 1..cap |-> IF i <= n THEN new[i]
                                 ELSE IF i <= Len(s.arr) THEN s.arr[i] ELSE NL],
       len |-> n]

-----------------------------------------------------------------------------
(* bytes.Split at newlines: the bounds of each complete line in a sequence *)
(* of bytes, and where the unfinished one begins.                          *)

Newlines(bytes) == {i \in 1..Len(bytes) : bytes[i] = NL}

TailStart(bytes) ==
  IF Newlines(bytes) = {} THEN 1 ELSE Max(Newlines(bytes)) + 1

TailOf(bytes) == SubSeq(bytes, TailStart(bytes), Len(bytes))

(* The k-th smallest number of a set. *)
Nth(numbers, k) ==
  CHOOSE i \in numbers : Cardinality({j \in numbers : j <= i}) = k

(* The complete lines of `bytes`, their text taken from `text`. *)
LinesIn(bytes, text) ==
  LET end(k)   == Nth(Newlines(bytes), k)
      begin(k) == IF k = 1 THEN 1 ELSE end(k - 1) + 1
  IN  [k \in 1..Cardinality(Newlines(bytes)) |-> SubSeq(text, begin(k), end(k) - 1)]

-----------------------------------------------------------------------------
(* Mutant: a log shorter than what was read is not noticed. *)
StatIgnoringTruncation ==
  /\ want = None
  /\ want' = Larger(Len(file) - offset, 0)
  /\ lines' = <<>> /\ fresh' = 0
  /\ UNCHANGED <<file, truncations, offset, carry, start, consumed>>

(* The first half of TakeCandidates: the size; a smaller one starts over. *)
Stat ==
  LET truncated == Len(file) < offset
  IN  /\ want = None
      /\ want'     = IF truncated THEN Len(file) ELSE Len(file) - offset
      /\ offset'   = IF truncated THEN 0 ELSE offset
      /\ carry'    = IF truncated THEN Nil ELSE carry
      /\ start'    = IF truncated THEN 0 ELSE start
      /\ consumed' = IF truncated THEN <<>> ELSE consumed
      /\ lines' = <<>> /\ fresh' = 0
      /\ UNCHANGED <<file, truncations>>

(* Mutant: what was carried is not put in front. *)
SplitWithoutCarry(bytes) ==
  LET data  == GoAppend([carry EXCEPT !.len = 0], bytes)
      whole == Content(data)
  IN  /\ carry' = GoAppend([carry EXCEPT !.len = 0], TailOf(whole))
      /\ lines' = LinesIn(whole, data.arr)

(* The second half, on the bytes read.  The unfinished line is saved over  *)
(* the start of carry's array before the complete lines are parsed; when   *)
(* data is in that same array, so are the lines.                           *)
Split(bytes) ==
  LET shared == Fits(carry, bytes)
      data   == GoAppend(carry, bytes)
      whole  == Content(data)
      kept   == GoAppend([arr |-> IF shared THEN data.arr ELSE carry.arr, len |-> 0],
                         TailOf(whole))
  IN  /\ carry' = kept
      /\ lines' = LinesIn(whole, IF shared THEN kept.arr ELSE data.arr)

(* Mutant: the offset stays. *)
AdvanceNot(n) == offset

Advance(n) == offset + n

(* ReadAt: fewer bytes than wanted if the log was truncated since; none at *)
(* all of those wanted is an error that ends the call.                     *)
Read ==
  LET end == IF offset + want <= Len(file) THEN offset + want ELSE Len(file)
      got == SubSeq(file, offset + 1, end)
  IN  /\ want # None
      /\ want' = None
      /\ IF got = <<>> /\ want > 0
         THEN lines' = <<>> /\ fresh' = 0 /\ UNCHANGED <<offset, carry, consumed>>
         ELSE /\ offset' = Advance(Len(got))
              /\ Split(got)
              /\ consumed' = consumed \o got
              /\ fresh' = Len(got)
      /\ UNCHANGED <<file, truncations, start>>

-----------------------------------------------------------------------------
(* The game *)

Write(b) ==
  /\ Len(file) < MaxFile
  /\ file' = Append(file, b)
  /\ UNCHANGED <<truncations, offset, carry, want, lines, start, consumed, fresh>>

Truncate ==
  /\ truncations < MaxTruncations
  /\ truncations' = truncations + 1
  /\ file' = <<>>
  /\ UNCHANGED <<offset, carry, want, lines, start, consumed, fresh>>

(* OpenLive: what an earlier session wrote is skipped, even up to the      *)
(* middle of a line.                                                       *)
Init ==
  /\ file \in {<<>>, <<"x">>}
  /\ truncations = 0
  /\ offset = Len(file)
  /\ carry = Nil
  /\ want = None
  /\ lines = <<>>
  /\ start = Len(file)
  /\ consumed = <<>>
  /\ fresh = 0

Next ==
  \/ Stat \/ Read
  \/ \E b \in Byte : Write(b)
  \/ Truncate

Spec == Init /\ [][Next]_vars

(* Every discovery poll calls TakeCandidates, and a call returns. *)
FairSpec == Spec /\ WF_vars(Stat) /\ WF_vars(Read)

-----------------------------------------------------------------------------
(* The lines a call completed: those of everything read so far, less those *)
(* that were complete before it.                                           *)
Completed ==
  LET before == SubSeq(consumed, 1, Len(consumed) - fresh)
  IN  SubSeq(LinesIn(consumed, consumed),
             Cardinality(Newlines(before)) + 1, Cardinality(Newlines(consumed)))

(* While the game only appends, every byte written after OpenLive is read  *)
(* once, in order.                                                         *)
ReadsTheLog ==
  truncations = 0 => consumed = SubSeq(file, start + 1, offset)

(* A call that ends at a line's end gives the parser the lines of the log. *)
WholeLinesAreTheLogs ==
  (want = None /\ fresh > 0 /\ carry.len = 0) => lines = Completed

(* Once the game pauses, everything in the log has been read, also after a *)
(* truncation at any moment of a call.                                     *)
CatchesUp == <>[](offset = Len(file))

(* live.go: TakeCandidates "returns endpoint records appended since the    *)
(* previous call", so the lines parsed are those of the log.               *)
LinesAreTheLogs ==
  (want = None /\ fresh > 0) => lines = Completed
=============================================================================
