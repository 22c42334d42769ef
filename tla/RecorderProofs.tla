--------------------------- MODULE RecorderProofs ---------------------------
(***************************************************************************)
(* Recorder.tla for every game, every set of endpoints and recordings of   *)
(* any length: the log is a log at every moment, its segments are those    *)
(* the tracker is bound to, a game that is said to have exited was away,   *)
(* a confirmed segment stays confirmed, and who reads the log, or what a   *)
(* crash left of it, sees the session.                                     *)
(***************************************************************************)
EXTENDS Recorder, SequenceTheorems, WellFoundedInduction, TLAPS

-----------------------------------------------------------------------------
(* The inductive invariant *)

Kinds == InSegment \cup {"session_start", "segment_end", "session_end"}

Notes == Eligibility \cup {"interrupt", "duration-limit", "game-exit", None}

LogRecord == [t : Kinds, seq : Nat, ep : Endpoints \cup {None}, note : Notes, n : Nat]

(* A segment after another is one on another server. *)
Switches(p, r) ==
  p.t = "segment_end" /\ r.t = "segment_start" => Trk!ServerOf(p.ep) # Trk!ServerOf(r.ep)

Chain(s) ==
  s # <<>> =>
    /\ s[1].t = "session_start"
    /\ \A i \in 1 .. Len(s) - 1 : Follows(s[i], s[i + 1]) /\ Switches(s[i], s[i + 1])

LastOf(s) == s[Len(s)]

(* What the end of the log, the open segment and the tracker say of each   *)
(* other.                                                                  *)
InStep ==
  /\ phase \in {"waiting", "setup"} =>
       log = <<>> /\ seg = None /\ nextSeq = 1 /\ active = None
  /\ phase = "recording" => log # <<>>
  /\ phase = "recording" /\ seg = None =>
       LastOf(log).t = "session_start" /\ nextSeq = 1 /\ active = None
  /\ phase = "recording" /\ seg # None =>
       /\ LastOf(log).t \in InSegment /\ LastOf(log).seq = seg.seq
       /\ nextSeq = seg.seq + 1
       /\ active # None /\ active.ep = seg.ep
  /\ phase = "done" => seg = None

(* The grace period counts polls that could see, and did not. *)
Away ==
  /\ phase = "waiting" => grace = "none"
  /\ phase \in {"setup", "recording"} =>
       /\ grace = "none" => pids # {}
       /\ grace # "none" => pids = {} /\ absence # "no"
       /\ grace = "elapsed" => absence = "full"

Named == seg # None /\ seg.elig = "confirmed" => IsNamed(seg.ep, logEndpoints)

IInv ==
  /\ TypeOK
  /\ log \in Seq(LogRecord) /\ Chain(log)
  /\ InStep /\ Away /\ Named
  /\ GameExitIsReal

-----------------------------------------------------------------------------
(* Records *)

LEMMA RecType ==
  ASSUME NEW t \in Kinds, NEW q \in Nat
  PROVE  /\ Rec(t, q) \in LogRecord
         /\ Rec(t, q).t = t /\ Rec(t, q).seq = q /\ Rec(t, q).note = None
<1>1. 0 \in Nat /\ None \in Notes
  BY DEF Notes
<1> HIDE DEF Notes, Kinds
<1> QED BY <1>1 DEF Rec, LogRecord

LEMMA RecordNoted ==
  ASSUME NEW r \in LogRecord, NEW l \in Notes
  PROVE  LET x == [r EXCEPT !.note = l] IN
         x \in LogRecord /\ x.t = r.t /\ x.seq = r.seq /\ x.ep = r.ep /\ x.note = l
<1> HIDE DEF Kinds, Notes
<1> QED BY DEF LogRecord

LEMMA RecordWith ==
  ASSUME NEW r \in LogRecord, NEW e \in Endpoints, NEW k \in Nat
  PROVE  /\ LET x == [r EXCEPT !.ep = e] IN
            x \in LogRecord /\ x.t = r.t /\ x.seq = r.seq /\ x.ep = e
         /\ LET x == [r EXCEPT !.n = k] IN
            x \in LogRecord /\ x.t = r.t /\ x.seq = r.seq /\ x.ep = r.ep
<1> HIDE DEF Kinds, Notes
<1> QED BY DEF LogRecord

(* The records a recording consists of, and the fields that matter below.  *)
LEMMA SessionRecords ==
  ASSUME NEW l \in Notes
  PROVE  /\ SessionEnd(l) \in LogRecord
         /\ SessionEnd(l).t = "session_end" /\ SessionEnd(l).note = l
         /\ SessionStart \in LogRecord /\ SessionStart.t = "session_start"
<1>1. "session_end" \in Kinds /\ "session_start" \in Kinds /\ 0 \in Nat
  BY DEF Kinds
<1> HIDE DEF Kinds, Notes, LogRecord
<1>2. SessionStart \in LogRecord /\ SessionStart.t = "session_start"
  BY <1>1, RecType DEF SessionStart
<1> DEFINE r == Rec("session_end", 0)
<1>3. r \in LogRecord /\ r.t = "session_end"
  BY <1>1, RecType
<1> HIDE DEF r
<1>4. SessionEnd(l) = [r EXCEPT !.note = l]
  BY DEF SessionEnd, r
<1> QED BY <1>2, <1>3, <1>4, RecordNoted

LEMMA RecordTypes ==
  ASSUME NEW q \in Nat, NEW e \in Endpoints, NEW l \in Notes, NEW k \in Nat
  PROVE  /\ SegmentStart(q, e, l) \in LogRecord
         /\ SegmentStart(q, e, l).t = "segment_start"
         /\ SegmentStart(q, e, l).seq = q /\ SegmentStart(q, e, l).ep = e
         /\ SampleRec(q) \in LogRecord
         /\ SampleRec(q).t = "sample" /\ SampleRec(q).seq = q
         /\ Classification(q, l) \in LogRecord
         /\ Classification(q, l).t = "segment_classification"
         /\ Classification(q, l).seq = q
         /\ SegmentEnd(q, e, k) \in LogRecord
         /\ SegmentEnd(q, e, k).t = "segment_end"
         /\ SegmentEnd(q, e, k).seq = q /\ SegmentEnd(q, e, k).ep = e
<1>1. /\ "segment_start" \in Kinds /\ "sample" \in Kinds /\ "segment_end" \in Kinds
      /\ "segment_classification" \in Kinds
  BY DEF Kinds, InSegment
<1> HIDE DEF Kinds, Notes, LogRecord
<1>2. SampleRec(q) \in LogRecord /\ SampleRec(q).t = "sample" /\ SampleRec(q).seq = q
  BY <1>1, RecType DEF SampleRec
<1>3. /\ Classification(q, l) \in LogRecord
      /\ Classification(q, l).t = "segment_classification"
      /\ Classification(q, l).seq = q
  <2> DEFINE r == Rec("segment_classification", q)
  <2>1. r \in LogRecord /\ r.t = "segment_classification" /\ r.seq = q
    BY <1>1, RecType
  <2> HIDE DEF r
  <2> QED BY <2>1, RecordNoted DEF Classification, r
<1>4. /\ SegmentStart(q, e, l) \in LogRecord
      /\ SegmentStart(q, e, l).t = "segment_start"
      /\ SegmentStart(q, e, l).seq = q /\ SegmentStart(q, e, l).ep = e
  <2> DEFINE r == Rec("segment_start", q)
  <2>1. r \in LogRecord /\ r.t = "segment_start" /\ r.seq = q
    BY <1>1, RecType
  <2> HIDE DEF r
  <2> DEFINE x == [r EXCEPT !.ep = e]
             y == [x EXCEPT !.note = l]
  <2>2. x \in LogRecord /\ x.t = r.t /\ x.seq = r.seq /\ x.ep = e
    BY <2>1, RecordWith
  <2>3. SegmentStart(q, e, l) = y
    BY DEF SegmentStart, r
  <2> HIDE DEF x
  <2>4. y \in LogRecord /\ y.t = x.t /\ y.seq = x.seq /\ y.ep = x.ep
    BY <2>2, RecordWith, RecordNoted
  <2> HIDE DEF y
  <2> QED BY <2>1, <2>2, <2>3, <2>4
<1>5. /\ SegmentEnd(q, e, k) \in LogRecord
      /\ SegmentEnd(q, e, k).t = "segment_end"
      /\ SegmentEnd(q, e, k).seq = q /\ SegmentEnd(q, e, k).ep = e
  <2> DEFINE r == Rec("segment_end", q)
  <2>1. r \in LogRecord /\ r.t = "segment_end" /\ r.seq = q
    BY <1>1, RecType
  <2> HIDE DEF r
  <2> DEFINE x == [r EXCEPT !.ep = e]
             y == [x EXCEPT !.n = k]
  <2>2. x \in LogRecord /\ x.t = r.t /\ x.seq = r.seq /\ x.ep = e
    BY <2>1, RecordWith
  <2>3. SegmentEnd(q, e, k) = y
    BY DEF SegmentEnd, r
  <2> HIDE DEF x
  <2>4. y \in LogRecord /\ y.t = x.t /\ y.seq = x.seq /\ y.ep = x.ep
    BY <2>2, RecordWith, RecordNoted
  <2> HIDE DEF y
  <2> QED BY <2>1, <2>2, <2>3, <2>4
<1> QED BY <1>2, <1>3, <1>4, <1>5

LEMMA SegmentFields ==
  ASSUME NEW x \in Segment
  PROVE  /\ x # None
         /\ x.seq \in Nat \ {0} /\ x.ep \in Endpoints /\ x.heur \in Heuristic
         /\ x.elig \in Eligibility /\ x.samples \in Nat
         /\ \A l \in Eligibility : [x EXCEPT !.elig = l] \in Segment
         /\ [x EXCEPT !.samples = @ + 1] \in Segment
BY AbsentAssumption DEF Segment

(* A record goes to the end of a log. *)
LEMMA Extended ==
  ASSUME NEW s \in Seq(LogRecord), NEW r \in LogRecord
  PROVE  /\ Append(s, r) \in Seq(LogRecord) /\ Append(s, r) # <<>>
         /\ LastOf(Append(s, r)) = r
         /\ s \o <<r>> = Append(s, r)
BY AppendProperties, AppendIsConcat DEF LastOf

LEMMA ChainGrows ==
  ASSUME NEW s \in Seq(LogRecord), NEW r \in LogRecord, Chain(s), s # <<>>,
         Follows(LastOf(s), r), Switches(LastOf(s), r)
  PROVE  Chain(Append(s, r))
<1> DEFINE u == Append(s, r)
<1>1. /\ Len(s) \in Nat \ {0} /\ Len(u) = Len(s) + 1
      /\ \A i \in 1 .. Len(s) : u[i] = s[i]
      /\ u[Len(s) + 1] = r
  BY AppendProperties, EmptySeq
<1> HIDE DEF u
<1>2. u[1].t = "session_start"
  BY <1>1 DEF Chain
<1>3. ASSUME NEW i \in 1 .. Len(u) - 1
      PROVE  Follows(u[i], u[i + 1]) /\ Switches(u[i], u[i + 1])
  <2>1. CASE i = Len(s)
    <3>1. u[i] = LastOf(s) /\ u[i + 1] = r
      BY <1>1, <2>1 DEF LastOf
    <3> QED BY <3>1
  <2>2. CASE i # Len(s)
    <3>1. i \in 1 .. Len(s) - 1 /\ u[i] = s[i] /\ u[i + 1] = s[i + 1]
      BY <1>1, <2>2
    <3> QED BY <3>1 DEF Chain
  <2> QED BY <2>1, <2>2
<1>4. Chain(u)
  BY <1>2, <1>3 DEF Chain
<1> QED BY <1>4 DEF u

-----------------------------------------------------------------------------
(* The tracker *)

(* Observe keeps the bound endpoint unless it rotates. *)
LEMMA TrackerStep ==
  ASSUME TypeOK, NEW top \in Trk!Candidate \cup {None}, Trk!ObserveCode(top)
  PROVE  /\ active' \in Trk!Candidate \cup {None}
         /\ pendingKey' \in Endpoints \cup {None}
         /\ pendingCount' \in 0 .. (ConfirmPolls - 1)
         /\ Trk!Rotates(top) => active' = top /\ top # None /\ top \in Trk!Candidate
         /\ ~ Trk!Rotates(top) =>
              /\ active = None => active' = None
              /\ active # None => active' # None /\ active'.ep = active.ep
<1> USE RecorderAssumption
<1>1. \A c \in Trk!Candidate : c # None /\ c.ep \in Endpoints /\ c.conf \in Trk!Confidence
  BY AbsentAssumption DEF Trk!Candidate
<1>2. \A c \in Trk!Candidate, n \in Trk!Confidence :
        [c EXCEPT !.conf = n] \in Trk!Candidate /\ [c EXCEPT !.conf = n].ep = c.ep
  BY DEF Trk!Candidate
<1>3. active \in Trk!Candidate \cup {None} /\ pendingKey \in Endpoints \cup {None}
      /\ pendingCount \in 0 .. (ConfirmPolls - 1)
  BY DEF TypeOK
<1>4. CASE Trk!IgnoreIneligible(top)
  BY <1>3, <1>4 DEF Trk!IgnoreIneligible, Trk!Rotates
<1>5. CASE Trk!FirstLock(top)
  BY <1>3, <1>5 DEF Trk!FirstLock, Trk!Rotates, Trk!Eligible
<1>6. CASE Trk!RefreshSame(top)
  BY <1>1, <1>3, <1>6 DEF Trk!RefreshSame, Trk!Rotates, Trk!Eligible, Trk!SameServer
<1>7. CASE Trk!RaiseConfidence(top)
  <2>1. active \in Trk!Candidate /\ top \in Trk!Candidate /\ ~ Trk!Rotates(top)
    BY <1>3, <1>7 DEF Trk!RaiseConfidence, Trk!Rotates, Trk!Eligible
  <2>2. active' \in Trk!Candidate /\ active'.ep = active.ep
    BY <1>1, <1>2, <1>7, <2>1 DEF Trk!RaiseConfidence
  <2>3. pendingKey' = pendingKey /\ pendingCount' = 0
    BY <1>7 DEF Trk!RaiseConfidence
  <2> QED BY <1>1, <1>3, <2>1, <2>2, <2>3
<1>8. CASE Trk!Challenge(top)
  <2>1. active \in Trk!Candidate /\ top \in Trk!Candidate /\ pendingKey' = top.ep
    BY <1>3, <1>8 DEF Trk!Challenge, Trk!Eligible
  <2>2. CASE Trk!Confirmed(Trk!Challenges(top))
    BY <1>1, <1>8, <2>1, <2>2 DEF Trk!Challenge, Trk!Rotates
  <2>3. CASE ~ Trk!Confirmed(Trk!Challenges(top))
    <3>1. active' = active /\ pendingCount' = Trk!Challenges(top) /\ ~ Trk!Rotates(top)
      BY <1>1, <1>8, <2>1, <2>3 DEF Trk!Challenge, Trk!Rotates
    <3>2. Trk!Challenges(top) \in 0 .. (ConfirmPolls - 1)
      BY <1>3, <2>3 DEF Trk!Confirmed, Trk!Challenges
    <3> QED BY <1>1, <2>1, <3>1, <3>2
  <2> QED BY <2>2, <2>3
<1> QED BY <1>4, <1>5, <1>6, <1>7, <1>8 DEF Trk!ObserveCode

-----------------------------------------------------------------------------
(* Types *)

LEMMA StepTypes == TypeOK /\ [Next]_vars => TypeOK'
<1> SUFFICES ASSUME TypeOK, [Next]_vars PROVE TypeOK'
  OBVIOUS
<1> USE DEF tracker, session, game, output
<1>1. CASE Detect
  BY <1>1 DEF Detect, TypeOK, Trk!Confidence, Trk!Low, Trk!Medium, Trk!High
<1>2. CASE NeverStarts
  BY <1>2 DEF NeverStarts, TypeOK
<1>3. CASE Announce
  BY <1>3 DEF Announce, TypeOK
<1>4. ASSUME NEW reason, End(reason)
      PROVE  /\ phase' = "done" /\ seg' = None
             /\ UNCHANGED <<degraded, nextSeq, logEndpoints>>
  BY <1>4 DEF End
<1>5. CASE Interrupt
  BY <1>4, <1>5 DEF Interrupt, TypeOK
<1>6. CASE Deadline
  BY <1>4, <1>6 DEF Deadline, TypeOK
<1>7. ASSUME NEW readable \in BOOLEAN, AlivePoll(readable) PROVE TypeOK'
  <2> DEFINE found == CurrentPids(readable)
  <2>1. found \in SUBSET Pids /\ {} \in SUBSET Pids
    BY DEF CurrentPids, TypeOK
  <2>2. absence' \in {"no", "yes", "full"}
    BY <1>7 DEF AlivePoll, TypeOK
  <2>3. UNCHANGED <<alive, cancelled, tracker>>
    BY <1>7 DEF AlivePoll
  <2>4. GameSeen(found) \/ GraceOpens(found) \/ GraceRuns(found) \/ GraceCloses(found)
    BY <1>7 DEF AlivePoll
  <2> HIDE DEF found
  <2>5. CASE GameSeen(found)
    BY <2>1, <2>2, <2>3, <2>5 DEF GameSeen, Retarget, TypeOK
  <2>6. CASE GraceOpens(found)
    BY <2>1, <2>2, <2>3, <2>6 DEF GraceOpens, Retarget, TypeOK
  <2>7. CASE GraceRuns(found)
    BY <2>2, <2>3, <2>7 DEF GraceRuns, TypeOK
  <2>8. CASE GraceCloses(found)
    BY <1>4, <2>2, <2>3, <2>8 DEF GraceCloses, TypeOK
  <2> QED BY <2>4, <2>5, <2>6, <2>7, <2>8
<1>8. CASE GraceElapses
  BY <1>8 DEF GraceElapses, TypeOK
<1>9. ASSUME NEW top \in Trk!Candidate \cup {None}, NEW heur \in Heuristic,
             NEW named \in SUBSET Nameable, DiscoveryPoll(top, heur, named)
      PROVE  TypeOK'
  <2>1. /\ active' \in Trk!Candidate \cup {None}
        /\ pendingKey' \in Endpoints \cup {None}
        /\ pendingCount' \in 0 .. (ConfirmPolls - 1)
    BY <1>9, TrackerStep DEF DiscoveryPoll
  <2>2. logEndpoints' \in SUBSET Nameable
    BY <1>9 DEF DiscoveryPoll, TakeCandidates, TypeOK
  <2>3. nextSeq' \in Nat \ {0}
    BY <1>9 DEF DiscoveryPoll, Rotate, Refresh, TypeOK
  <2>4. seg' \in Segment \cup {None}
    <3>1. \A e, h \in Heuristic : Classify(e, h, named) \in Eligibility
      BY DEF Classify, Eligibility
    <3>2. CASE Rotate(top, heur, named)
      <4>1. top \in Trk!Candidate /\ top.ep \in Endpoints
        BY <3>2 DEF Rotate, Trk!Rotates, Trk!Eligible, Trk!Candidate
      <4>2. Classify(top.ep, heur, named) \in Eligibility /\ nextSeq \in Nat \ {0}
        BY DEF Classify, Eligibility, TypeOK
      <4> QED BY <3>2, <4>1, <4>2 DEF Rotate, Segment
    <3>3. CASE Refresh(top, heur, named)
      <4>1. CASE seg' = seg
        BY <4>1 DEF TypeOK
      <4>2. CASE seg # None /\ seg' = [seg EXCEPT !.elig = Classify(seg.ep, seg.heur, named)]
        <5>1. seg \in Segment
          BY <4>2 DEF TypeOK
        <5>2. Classify(seg.ep, seg.heur, named) \in Eligibility
          BY <5>1, SegmentFields DEF Classify, Eligibility
        <5> QED BY <4>2, <5>1, <5>2, SegmentFields
      <4> QED BY <3>3, <4>1, <4>2 DEF Refresh
    <3> QED BY <1>9, <3>2, <3>3 DEF DiscoveryPoll
  <2> QED BY <1>9, <2>1, <2>2, <2>3, <2>4 DEF DiscoveryPoll, TypeOK
<1>10. CASE TakeSample
  <2>1. seg' \in Segment
    BY <1>10, SegmentFields DEF TakeSample, TypeOK
  <2> QED BY <1>10, <2>1 DEF TakeSample, TypeOK
<1>11. CASE GameChanges
  BY <1>11 DEF GameChanges, TypeOK
<1>12. CASE Cancel
  BY <1>12 DEF Cancel, TypeOK
<1>13. CASE TimePasses
  <2>1. floor' \in Trk!Confidence
    BY <1>13 DEF TimePasses, Trk!LowerFloor, Trk!Confidence, Trk!Low, Trk!High, TypeOK
  <2>2. UNCHANGED <<active, pendingKey, pendingCount>>
    BY <1>13 DEF TimePasses, Trk!LowerFloor, Trk!code
  <2> QED BY <1>13, <2>1, <2>2 DEF TimePasses, TypeOK
<1>14. CASE UNCHANGED vars
  BY <1>14 DEF vars, TypeOK
<1> QED BY <1>1, <1>2, <1>3, <1>5, <1>6, <1>7, <1>8, <1>9, <1>10, <1>11, <1>12, <1>13, <1>14
        DEF Next

-----------------------------------------------------------------------------
(* The log *)

Logged == log \in Seq(LogRecord) /\ Chain(log)

(* Closing the open segment, if there is one. *)
LEMMA ClosedLog ==
  ASSUME TypeOK, Logged, InStep, phase = "recording"
  PROVE  LET s == log \o Closing(seg)
         IN  /\ s \in Seq(LogRecord) /\ Chain(s) /\ s # <<>>
             /\ seg = None => s = log
             /\ seg # None => /\ LastOf(s).t = "segment_end"
                              /\ LastOf(s).seq = seg.seq /\ LastOf(s).ep = seg.ep
<1> DEFINE s == log \o Closing(seg)
<1>1. log \in Seq(LogRecord) /\ Chain(log) /\ log # <<>>
  BY DEF Logged, InStep
<1>2. CASE seg = None
  <2>1. s = log
    BY <1>1, <1>2, ConcatEmptySeq DEF Closing
  <2> QED BY <1>1, <1>2, <2>1
<1>3. CASE seg # None
  <2> DEFINE r == SegmentEnd(seg.seq, seg.ep, seg.samples)
  <2>1. /\ seg.seq \in Nat /\ seg.ep \in Endpoints /\ seg.samples \in Nat
        /\ None \in Notes
    BY <1>3, SegmentFields DEF TypeOK, Notes
  <2>2. r \in LogRecord /\ r.t = "segment_end" /\ r.seq = seg.seq /\ r.ep = seg.ep
    BY <2>1, RecordTypes
  <2>3. s = log \o <<r>>
    BY <1>3 DEF Closing
  <2> HIDE DEF r, s
  <2>4. Follows(LastOf(log), r) /\ Switches(LastOf(log), r)
    BY <1>3, <2>2 DEF InStep, Follows, Switches, InSegment
  <2>5. s = Append(log, r)
    BY <1>1, <2>2, <2>3, Extended
  <2>6. s \in Seq(LogRecord) /\ Chain(s) /\ s # <<>> /\ LastOf(s) = r
    BY <1>1, <2>2, <2>4, <2>5, ChainGrows, Extended
  <2> QED BY <1>3, <2>2, <2>6 DEF s
<1> QED BY <1>2, <1>3

(* Leaving the loop. *)
LEMMA EndOfLog ==
  ASSUME TypeOK, Logged, InStep, phase = "recording",
         NEW reason \in {"interrupt", "duration-limit", "game-exit"}, End(reason)
  PROVE  Logged' /\ InStep' /\ LastOf(log)' = SessionEnd(reason)
<1> DEFINE s == log \o Closing(seg)
           r == SessionEnd(reason)
<1>1. /\ s \in Seq(LogRecord) /\ Chain(s) /\ s # <<>>
      /\ LastOf(s).t \in {"session_start", "segment_end"}
  BY ClosedLog DEF InStep
<1>2. r \in LogRecord /\ r.t = "session_end"
  <2>1. reason \in Notes
    BY DEF Notes
  <2> QED BY <2>1, SessionRecords
<1>3. log' = s \o <<r>> /\ phase' = "done" /\ seg' = None
  BY DEF End
<1> HIDE DEF s, r
<1>4. Follows(LastOf(s), r) /\ Switches(LastOf(s), r)
  BY <1>1, <1>2 DEF Follows, Switches, InSegment
<1>5. log' = Append(s, r)
  BY <1>1, <1>2, <1>3, Extended
<1>6. log' \in Seq(LogRecord) /\ Chain(log') /\ LastOf(log') = r
  BY <1>1, <1>2, <1>4, <1>5, ChainGrows, Extended
<1>7. LastOf(log)' = LastOf(log')
  BY DEF LastOf
<1> QED BY <1>3, <1>6, <1>7 DEF Logged, InStep, r

(* Every step appends what may follow. *)
LEMMA StepLogged ==
  TypeOK /\ Logged /\ InStep /\ [Next]_vars => Logged' /\ InStep'
<1> SUFFICES ASSUME TypeOK, Logged, InStep, [Next]_vars PROVE Logged' /\ InStep'
  OBVIOUS
<1> USE DEF tracker, session, game, output
<1>1. CASE Detect
  BY <1>1 DEF Detect, Logged, Chain, InStep
<1>2. CASE NeverStarts
  BY <1>2 DEF NeverStarts, Logged, Chain, InStep
<1>3. CASE Announce
  <2>1. None \in Notes
    BY DEF Notes
  <2>2. SessionStart \in LogRecord /\ SessionStart.t = "session_start"
    BY <2>1, SessionRecords
  <2>3. log' = <<SessionStart>> /\ phase' = "recording" /\ seg' = None /\ nextSeq' = 1
        /\ active' = None
    BY <1>3 DEF Announce, InStep
  <2>4. /\ log' \in Seq(LogRecord) /\ log' # <<>> /\ Len(log') = 1
        /\ log'[1] = SessionStart
    BY <2>2, <2>3
  <2> QED BY <2>2, <2>3, <2>4 DEF Logged, Chain, InStep, LastOf
<1>4. CASE Interrupt
  BY <1>4, EndOfLog DEF Interrupt
<1>5. CASE Deadline
  BY <1>5, EndOfLog DEF Deadline
<1>6. ASSUME NEW readable \in BOOLEAN, AlivePoll(readable) PROVE Logged' /\ InStep'
  <2> DEFINE found == CurrentPids(readable)
  <2>1. CASE GraceCloses(found)
    BY <1>6, <2>1, EndOfLog DEF AlivePoll, GraceCloses
  <2>2. CASE GameSeen(found) \/ GraceOpens(found) \/ GraceRuns(found)
    <3>1. UNCHANGED <<phase, log, seg, nextSeq, active>>
      BY <1>6, <2>2 DEF AlivePoll, GameSeen, GraceOpens, GraceRuns
    <3> QED BY <3>1 DEF Logged, Chain, InStep, LastOf, Switches, Trk!ServerOf, Follows
  <2> QED BY <1>6, <2>1, <2>2 DEF AlivePoll
<1>7. ASSUME NEW top \in Trk!Candidate \cup {None}, NEW heur \in Heuristic,
             NEW named \in SUBSET Nameable, DiscoveryPoll(top, heur, named)
      PROVE  Logged' /\ InStep'
  <2>1. phase = "recording" /\ phase' = "recording" /\ log \in Seq(LogRecord)
        /\ Chain(log) /\ log # <<>>
    BY <1>7 DEF DiscoveryPoll, Logged, InStep
  <2>2. CASE Rotate(top, heur, named)
    <3> DEFINE s == log \o Closing(seg)
               elig == Classify(top.ep, heur, named)
               r == SegmentStart(nextSeq, top.ep, elig)
    <3>1. /\ s \in Seq(LogRecord) /\ Chain(s) /\ s # <<>>
          /\ seg = None => s = log
          /\ seg # None => /\ LastOf(s).t = "segment_end"
                           /\ LastOf(s).seq = seg.seq /\ LastOf(s).ep = seg.ep
      BY <2>1, ClosedLog
    <3>2. Trk!Rotates(top) /\ active' = top /\ top # None /\ top \in Trk!Candidate
      BY <1>7, <2>2, TrackerStep DEF DiscoveryPoll, Rotate
    <3>3. top.ep \in Endpoints /\ nextSeq \in Nat \ {0}
      BY <3>2 DEF Trk!Candidate, TypeOK
    <3>4. elig \in Notes /\ elig \in Eligibility
      BY DEF Classify, Notes, Eligibility
    <3> HIDE DEF elig
    <3>5. /\ r \in LogRecord /\ r.t = "segment_start"
          /\ r.seq = nextSeq /\ r.ep = top.ep
      BY <3>3, <3>4, RecordTypes
    <3>6. /\ seg' # None /\ seg'.seq = nextSeq /\ seg'.ep = top.ep
          /\ nextSeq' = nextSeq + 1
      <4>1. seg' \in Segment
        BY <2>2, <3>3, <3>4 DEF Rotate, Segment, elig
      <4> QED BY <2>2, <4>1, SegmentFields DEF Rotate
    <3>7. log' = s \o <<r>>
      BY <2>2 DEF Rotate, elig
    <3> HIDE DEF s, r
    <3>8. Follows(LastOf(s), r)
      BY <2>1, <3>1, <3>5 DEF Follows, InStep
    <3>9. Switches(LastOf(s), r)
      <4>1. CASE seg = None
        BY <2>1, <3>1, <4>1 DEF Switches, InStep
      <4>2. CASE seg # None
        <5>1. active # None /\ active.ep = seg.ep /\ ~ Trk!SameServer(top, active)
          BY <2>1, <3>2, <4>2 DEF InStep, Trk!Rotates
        <5> QED BY <3>1, <3>5, <4>2, <5>1 DEF Switches, Trk!SameServer, Trk!ServerOf
      <4> QED BY <4>1, <4>2
    <3>10. log' = Append(s, r)
      BY <3>1, <3>5, <3>7, Extended
    <3>11. log' \in Seq(LogRecord) /\ Chain(log') /\ log' # <<>> /\ LastOf(log') = r
      BY <3>1, <3>5, <3>8, <3>9, <3>10, ChainGrows, Extended
    <3>12. LastOf(log)' = LastOf(log') /\ r.t \in InSegment
      BY <3>5 DEF LastOf, InSegment
    <3> QED BY <2>1, <3>2, <3>5, <3>6, <3>11, <3>12 DEF Logged, InStep
  <2>3. CASE Refresh(top, heur, named)
    <3>1. /\ nextSeq' = nextSeq
          /\ active = None => active' = None
          /\ active # None => active' # None /\ active'.ep = active.ep
      BY <1>7, <2>3, TrackerStep DEF DiscoveryPoll, Refresh
    <3>2. CASE UNCHANGED <<seg, log>>
      BY <2>1, <3>1, <3>2 DEF Logged, InStep, LastOf, Chain
    <3> DEFINE elig == Classify(seg.ep, seg.heur, named)
               r == Classification(seg.seq, elig)
    <3>3. CASE /\ seg # None
               /\ seg' = [seg EXCEPT !.elig = elig]
               /\ log' = Append(log, r)
      <4>1. seg \in Segment /\ seg.seq \in Nat
        BY <3>3, SegmentFields DEF TypeOK
      <4>2. elig \in Eligibility /\ elig \in Notes
        BY <4>1, SegmentFields DEF Classify, Eligibility, Notes
      <4> HIDE DEF elig
      <4>3. seg' \in Segment /\ seg'.seq = seg.seq /\ seg'.ep = seg.ep
        BY <3>3, <4>1, <4>2 DEF Segment
      <4>4. r \in LogRecord /\ r.t = "segment_classification" /\ r.seq = seg.seq
        <5>1. seg.ep \in Endpoints /\ 0 \in Nat
          BY <4>1, SegmentFields
        <5> QED BY <4>1, <4>2, <5>1, RecordTypes
      <4>5. log' = Append(log, r)
        BY <3>3
      <4> HIDE DEF r
      <4>6. Follows(LastOf(log), r) /\ Switches(LastOf(log), r)
        BY <2>1, <3>3, <4>4 DEF Follows, Switches, InStep
      <4>7. log' \in Seq(LogRecord) /\ Chain(log') /\ log' # <<>> /\ LastOf(log') = r
        BY <2>1, <4>4, <4>5, <4>6, ChainGrows, Extended
      <4>8. LastOf(log)' = LastOf(log') /\ r.t \in InSegment /\ seg' # None
        BY <4>3, <4>4, SegmentFields DEF LastOf, InSegment
      <4> QED BY <2>1, <3>1, <3>3, <4>3, <4>4, <4>7, <4>8 DEF Logged, InStep
    <3> QED BY <2>3, <3>2, <3>3 DEF Refresh
  <2> QED BY <1>7, <2>2, <2>3 DEF DiscoveryPoll
<1>8. CASE TakeSample
  <2> DEFINE r == SampleRec(seg.seq)
  <2>1. /\ phase = "recording" /\ phase' = "recording" /\ seg # None
        /\ log \in Seq(LogRecord) /\ Chain(log) /\ log # <<>>
        /\ log' = Append(log, r) /\ seg' = [seg EXCEPT !.samples = @ + 1]
        /\ nextSeq' = nextSeq /\ active' = active
    BY <1>8 DEF TakeSample, Logged, InStep
  <2>2. seg \in Segment /\ seg.seq \in Nat /\ seg.ep \in Endpoints
    BY <2>1, SegmentFields DEF TypeOK
  <2>3. seg' \in Segment /\ seg'.seq = seg.seq /\ seg'.ep = seg.ep
    BY <2>1, <2>2 DEF Segment
  <2>4. r \in LogRecord /\ r.t = "sample" /\ r.seq = seg.seq
    <3>1. None \in Notes /\ 0 \in Nat
      BY DEF Notes
    <3> QED BY <2>2, <3>1, RecordTypes
  <2> HIDE DEF r
  <2>5. Follows(LastOf(log), r) /\ Switches(LastOf(log), r)
    BY <2>1, <2>4 DEF Follows, Switches, InStep
  <2>6. log' \in Seq(LogRecord) /\ Chain(log') /\ log' # <<>> /\ LastOf(log') = r
    BY <2>1, <2>4, <2>5, ChainGrows, Extended
  <2>7. LastOf(log)' = LastOf(log') /\ r.t \in InSegment /\ seg' # None
    BY <2>3, <2>4, SegmentFields DEF LastOf, InSegment
  <2> QED BY <2>1, <2>3, <2>4, <2>6, <2>7 DEF Logged, InStep
<1>9. CASE GraceElapses \/ GameChanges \/ Cancel \/ TimePasses \/ UNCHANGED vars
  <2>1. UNCHANGED <<phase, log, seg, nextSeq, active>>
    BY <1>9 DEF GraceElapses, GameChanges, Cancel, TimePasses, Trk!LowerFloor, Trk!code, vars
  <2> QED BY <2>1 DEF Logged, Chain, InStep, LastOf
<1> QED BY <1>1, <1>2, <1>3, <1>4, <1>5, <1>6, <1>7, <1>8, <1>9 DEF Next

-----------------------------------------------------------------------------
(* The grace period *)

(* A grace period is armed by a list that was read and empty, disarmed by  *)
(* any list with the game, and nothing else closes a recording as left.    *)
LEMMA StepAway ==
  TypeOK /\ Logged /\ InStep /\ Away /\ GameExitIsReal /\ [Next]_vars
    => Away' /\ GameExitIsReal'
<1> SUFFICES ASSUME TypeOK, Logged, InStep, Away, GameExitIsReal, [Next]_vars
             PROVE  Away' /\ GameExitIsReal'
  OBVIOUS
<1> USE DEF tracker, session, game, output
<1>1. ASSUME log' # <<>> => LastOf(log').t # "session_end" PROVE GameExitIsReal'
  <2>1. "game-exit" \in Notes
    BY DEF Notes
  <2>2. SessionEnd("game-exit").t = "session_end"
    BY <2>1, SessionRecords
  <2> QED BY <1>1, <2>2 DEF GameExitIsReal, LastOf
<1>2. ASSUME phase' = "recording" PROVE GameExitIsReal'
  <2>1. InStep'
    BY StepLogged
  <2>2. LastOf(log').t # "session_end"
    BY <1>2, <2>1 DEF InStep, LastOf, InSegment
  <2> QED BY <1>1, <2>2
<1>3. ASSUME UNCHANGED <<phase, grace, pids, absence>> PROVE Away'
  BY <1>3 DEF Away
<1>4. CASE Detect
  BY <1>4 DEF Detect, Away, GameExitIsReal, InStep
<1>5. CASE NeverStarts
  BY <1>5 DEF NeverStarts, Away, GameExitIsReal, InStep
<1>6. CASE Announce
  BY <1>2, <1>6 DEF Announce, Away
<1>7. ASSUME NEW reason \in {"interrupt", "duration-limit"}, phase = "recording", End(reason)
      PROVE  Away' /\ GameExitIsReal'
  <2>1. LastOf(log)' = SessionEnd(reason) /\ phase' = "done"
    BY <1>7, EndOfLog DEF End
  <2>2. reason \in Notes /\ "game-exit" \in Notes
    BY DEF Notes
  <2>3. SessionEnd(reason).note # SessionEnd("game-exit").note
    BY <2>2, SessionRecords
  <2> QED BY <2>1, <2>3 DEF Away, GameExitIsReal, LastOf
<1>8. CASE Interrupt \/ Deadline
  BY <1>7, <1>8 DEF Interrupt, Deadline
<1>9. ASSUME NEW readable \in BOOLEAN, AlivePoll(readable) PROVE Away' /\ GameExitIsReal'
  <2> DEFINE found == CurrentPids(readable)
  <2>1. phase = "recording" /\ UNCHANGED alive
    BY <1>9 DEF AlivePoll
  <2>2. /\ grace = "none" => pids # {}
        /\ grace # "none" => pids = {} /\ absence # "no"
        /\ grace = "elapsed" => absence = "full"
    BY <2>1 DEF Away
  <2>3. found = IF readable THEN alive ELSE pids
    BY DEF CurrentPids
  <2>4. absence' = IF ~ readable THEN absence
                   ELSE IF alive # {} THEN "no"
                   ELSE IF absence = "no" THEN "yes" ELSE absence
    BY <1>9 DEF AlivePoll
  <2>5. grace \in {"none", "armed", "elapsed"} /\ absence \in {"no", "yes", "full"}
    BY DEF TypeOK
  <2> HIDE DEF found
  <2>6. CASE GameSeen(found)
    <3>1. /\ phase' = phase /\ grace' = "none" /\ pids' = found /\ found # {}
      BY <2>6 DEF GameSeen
    <3> QED BY <1>2, <2>1, <3>1 DEF Away
  <2>7. CASE GraceOpens(found)
    <3>1. /\ phase' = phase /\ grace = "none" /\ grace' = "armed" /\ pids' = {}
          /\ found = {}
      BY <2>7 DEF GraceOpens
    <3>2. absence' # "no"
      BY <2>2, <2>3, <2>4, <2>5, <3>1
    <3> QED BY <1>2, <2>1, <3>1, <3>2 DEF Away
  <2>8. CASE GraceRuns(found)
    <3>1. /\ phase' = phase /\ grace = "armed" /\ grace' = grace /\ pids' = pids
          /\ found = {}
      BY <2>8 DEF GraceRuns
    <3>2. absence' # "no" /\ pids' = {}
      BY <2>2, <2>3, <2>4, <2>5, <3>1
    <3> QED BY <1>2, <2>1, <3>1, <3>2 DEF Away
  <2>9. CASE GraceCloses(found)
    <3>1. phase' = "done" /\ grace = "elapsed" /\ found = {}
      BY <2>9 DEF GraceCloses, End
    <3>2. absence' = "full"
      BY <2>2, <2>3, <2>4, <2>5, <3>1
    <3> QED BY <3>1, <3>2 DEF Away, GameExitIsReal
  <2> QED BY <1>9, <2>6, <2>7, <2>8, <2>9 DEF AlivePoll, found
<1>10. CASE GraceElapses
  <2>1. phase = "recording" /\ phase' = "recording" /\ grace = "armed" /\ grace' = "elapsed"
        /\ pids' = pids
        /\ absence' = IF absence = "yes" THEN "full" ELSE absence
    BY <1>10 DEF GraceElapses
  <2>2. absence \in {"yes", "full"} /\ pids = {}
    BY <2>1 DEF Away, TypeOK
  <2> QED BY <1>2, <2>1, <2>2 DEF Away
<1>11. ASSUME NEW top, NEW heur, NEW named, DiscoveryPoll(top, heur, named)
       PROVE  Away' /\ GameExitIsReal'
  BY <1>2, <1>3, <1>11 DEF DiscoveryPoll
<1>12. CASE TakeSample
  BY <1>2, <1>3, <1>12 DEF TakeSample
<1>13. CASE GameChanges \/ Cancel \/ TimePasses \/ UNCHANGED vars
  <2>1. UNCHANGED <<phase, grace, pids, absence, log>>
    BY <1>13 DEF GameChanges, Cancel, TimePasses, vars
  <2> QED BY <1>3, <2>1 DEF GameExitIsReal
<1> QED BY <1>4, <1>5, <1>6, <1>8, <1>9, <1>10, <1>11, <1>12, <1>13 DEF Next

-----------------------------------------------------------------------------
(* The game's own log *)

(* What the game's log has named is not forgotten, and a verdict comes     *)
(* from it.                                                                *)
LEMMA StepNamed == TypeOK /\ InStep /\ Named /\ [Next]_vars => Named'
<1> SUFFICES ASSUME TypeOK, InStep, Named, [Next]_vars PROVE Named'
  OBVIOUS
<1> USE DEF tracker, session, game, output
<1>1. ASSUME NEW top \in Trk!Candidate \cup {None}, NEW heur \in Heuristic,
             NEW named \in SUBSET Nameable, DiscoveryPoll(top, heur, named)
      PROVE  Named'
  <2>1. logEndpoints \subseteq logEndpoints' /\ named = logEndpoints'
    BY <1>1 DEF DiscoveryPoll, TakeCandidates
  <2>2. CASE Rotate(top, heur, named)
    <3>1. seg'.ep = top.ep /\ seg'.elig = Classify(top.ep, heur, named)
      BY <2>2 DEF Rotate
    <3>2. heur # "confirmed"
      BY DEF Heuristic
    <3> QED BY <2>1, <3>1, <3>2 DEF Classify, IsNamed, Named
  <2>3. CASE seg' = seg
    BY <2>1, <2>3 DEF IsNamed, Named
  <2>4. CASE seg # None /\ seg' = [seg EXCEPT !.elig = Classify(seg.ep, seg.heur, named)]
    <3>1. seg \in Segment /\ seg.heur # "confirmed"
      BY <2>4, SegmentFields DEF TypeOK, Heuristic
    <3>2. seg'.ep = seg.ep /\ seg'.elig = Classify(seg.ep, seg.heur, named)
      BY <2>4, <3>1 DEF Segment
    <3> QED BY <2>1, <3>1, <3>2 DEF Classify, IsNamed, Named
  <2> QED BY <1>1, <2>2, <2>3, <2>4 DEF DiscoveryPoll, Refresh
<1>2. CASE TakeSample
  <2>1. seg # None /\ seg \in Segment /\ logEndpoints' = logEndpoints
        /\ seg' = [seg EXCEPT !.samples = @ + 1]
    BY <1>2 DEF TakeSample, TypeOK
  <2>2. seg'.ep = seg.ep /\ seg'.elig = seg.elig
    BY <2>1 DEF Segment
  <2> QED BY <2>1, <2>2 DEF Named
<1>3. ASSUME NEW reason, End(reason) PROVE Named'
  BY <1>3 DEF End, Named
<1>4. ASSUME NEW readable \in BOOLEAN, AlivePoll(readable) PROVE Named'
  BY <1>3, <1>4 DEF AlivePoll, GameSeen, GraceOpens, GraceRuns, GraceCloses, Named
<1>5. CASE Interrupt \/ Deadline
  BY <1>3, <1>5 DEF Interrupt, Deadline
<1>6. CASE Detect \/ NeverStarts \/ Announce \/ GraceElapses \/ GameChanges \/ Cancel
           \/ TimePasses \/ UNCHANGED vars
  <2>1. UNCHANGED <<seg, logEndpoints>>
    BY <1>6 DEF Detect, NeverStarts, Announce, GraceElapses, GameChanges, Cancel, TimePasses,
       vars
  <2> QED BY <2>1 DEF Named
<1> QED BY <1>1, <1>2, <1>4, <1>5, <1>6 DEF Next

-----------------------------------------------------------------------------
(* The invariant of a recording. *)
THEOREM InvariantHolds == Spec => []IInv
<1>1. Init => IInv
  <2> SUFFICES ASSUME Init PROVE IInv
    OBVIOUS
  <2>1. TypeOK
    <3>1. pendingCount \in 0 .. (ConfirmPolls - 1) /\ nextSeq \in Nat \ {0}
      BY RecorderAssumption DEF Init
    <3>2. floor \in Trk!Confidence
      BY DEF Init, Trk!Confidence, Trk!Low, Trk!Medium, Trk!High
    <3> QED BY <3>1, <3>2 DEF Init, TypeOK
  <2>2. log \in Seq(LogRecord) /\ Chain(log) /\ GameExitIsReal
    BY EmptySeq DEF Init, Chain, GameExitIsReal
  <2>3. InStep /\ Away /\ Named
    BY DEF Init, InStep, Away, Named
  <2> QED BY <2>1, <2>2, <2>3 DEF IInv
<1>2. IInv /\ [Next]_vars => IInv'
  BY StepTypes, StepLogged, StepAway, StepNamed DEF IInv, Logged
<1> QED BY <1>1, <1>2, PTL DEF Spec

(* Type correctness of a recording. *)
THEOREM TypesHold == Spec => []TypeOK
<1>1. IInv => TypeOK
  BY DEF IInv
<1> QED BY <1>1, InvariantHolds, PTL

(* The log is a log at every moment, and so in every prefix a crash may    *)
(* leave: segments numbered without a gap, each closed before the next.    *)
THEOREM LogStaysWellFormed == Spec => []LogWellFormed
<1>1. IInv => LogWellFormed
  BY DEF IInv, Chain, LogWellFormed, WellFormed
<1> QED BY <1>1, InvariantHolds, PTL

(* The segment being recorded is the endpoint the tracker is bound to, and *)
(* two segments in a row are on two servers.                               *)
THEOREM SegmentsFollowTheTracker == Spec => []SegmentIsTracked
<1>1. IInv => SegmentIsTracked
  <2> SUFFICES ASSUME IInv PROVE SegmentIsTracked
    OBVIOUS
  <2>1. phase = "recording" =>
          IF seg = None THEN active = None
          ELSE active # None /\ active.ep = seg.ep /\ seg.seq = nextSeq - 1
    <3>1. seg # None => seg.seq \in Nat
      BY SegmentFields DEF IInv, TypeOK
    <3> QED BY <3>1 DEF IInv, InStep
  <2>2. ASSUME NEW i \in 1 .. (Len(log) - 1),
               log[i].t = "segment_end" /\ log[i + 1].t = "segment_start"
        PROVE  Trk!ServerOf(log[i].ep) # Trk!ServerOf(log[i + 1].ep)
    <3>1. log # <<>>
      BY <2>2
    <3> QED BY <2>2, <3>1 DEF IInv, Chain, Switches
  <2> QED BY <2>1, <2>2 DEF SegmentIsTracked
<1> QED BY <1>1, InvariantHolds, PTL

(* A recording that ends with "game-exit" has read no process list with    *)
(* the game for a whole grace period.                                      *)
THEOREM ExitsAreReal == Spec => []GameExitIsReal
<1>1. IInv => GameExitIsReal
  BY DEF IInv
<1> QED BY <1>1, InvariantHolds, PTL

(* What the game's log has confirmed is not taken back while the segment   *)
(* lasts, whatever ranks and whatever the log says next.                   *)
THEOREM ConfirmedIsKept == Spec => ConfirmedStays
<1>1. IInv /\ [Next]_vars =>
        [(seg # None /\ seg' # None /\ seg'.seq = seg.seq /\ seg.elig = "confirmed")
           => seg'.elig = "confirmed"]_vars
  <2> SUFFICES ASSUME IInv, Next, seg # None, seg' # None, seg'.seq = seg.seq,
                      seg.elig = "confirmed"
               PROVE  seg'.elig = "confirmed"
    OBVIOUS
  <2> USE DEF tracker, session, game, output
  <2>1. seg \in Segment /\ IsNamed(seg.ep, logEndpoints)
    BY DEF IInv, TypeOK, Named
  <2>2. CASE seg' = seg
    BY <2>2
  <2>3. ASSUME NEW top, NEW heur, NEW named, DiscoveryPoll(top, heur, named)
        PROVE  seg'.elig = "confirmed"
    <3>1. logEndpoints \subseteq named /\ phase = "recording"
      BY <2>3 DEF DiscoveryPoll, TakeCandidates
    <3>2. ~ Rotate(top, heur, named)
      <4>1. nextSeq = seg.seq + 1 /\ seg.seq \in Nat
        BY <2>1, <3>1, SegmentFields DEF IInv, InStep
      <4>2. ASSUME Rotate(top, heur, named) PROVE seg'.seq = nextSeq
        BY <4>2 DEF Rotate
      <4> QED BY <4>1, <4>2
    <3>3. CASE seg' = [seg EXCEPT !.elig = Classify(seg.ep, seg.heur, named)]
      <4>1. Classify(seg.ep, seg.heur, named) = "confirmed"
        BY <2>1, <3>1 DEF Classify, IsNamed
      <4> QED BY <2>1, <3>3, <4>1 DEF Segment
    <3> QED BY <2>2, <2>3, <3>2, <3>3 DEF DiscoveryPoll, Refresh
  <2>4. CASE TakeSample
    BY <2>1, <2>4 DEF TakeSample, Segment
  <2>5. seg' = seg \/ TakeSample
        \/ \E top \in Trk!Candidate \cup {None}, heur \in Heuristic,
              named \in SUBSET Nameable : DiscoveryPoll(top, heur, named)
    BY DEF Next, Detect, NeverStarts, Announce, Interrupt, Deadline, End, AlivePoll,
           GameSeen, GraceOpens, GraceRuns, GraceCloses, GraceElapses, GameChanges, Cancel,
           TimePasses
  <2> QED BY <2>2, <2>3, <2>4, <2>5
<1> QED BY <1>1, InvariantHolds, PTL DEF Spec, ConfirmedStays

-----------------------------------------------------------------------------
(* The reader.  What Summarize has collected after every record of the log *)
(* is what the recorder has in memory: the segments closed, and the open   *)
(* one with its latest verdict and the number of its samples.              *)

LEMMA LeastNumber ==
  ASSUME NEW S, S \subseteq Nat, S # {}
  PROVE  \E n \in S : \A m \in S : n <= m
<1>1. \E n \in S : \A m \in S : ~ (<<m, n>> \in OpToRel(<, Nat))
  BY NatLessThanWellFounded, WFMin
<1>2. PICK n \in S : \A m \in S : ~ (<<m, n>> \in OpToRel(<, Nat))
  BY <1>1
<1>3. ASSUME NEW m \in S PROVE n <= m
  <2>1. <<m, n>> \in Nat \X Nat
    OBVIOUS
  <2>2. <<m, n>>[1] < <<m, n>>[2] => <<m, n>> \in OpToRel(<, Nat)
    BY <2>1 DEF OpToRel
  <2>3. ~ (m < n)
    BY <1>2, <2>2
  <2> QED BY <2>3
<1> QED BY <1>3

(* The first n records can be read. *)
Readable(s, n) ==
  \E f : f = [k \in 0 .. n |-> IF k = 0 THEN NothingRead ELSE Absorb(f[k - 1], s[k])]

LEMMA AllReadable ==
  ASSUME NEW s, NEW n \in Nat
  PROVE  Readable(s, n)
<1> DEFINE Wrong == {m \in Nat : ~ Readable(s, m)}
<1> SUFFICES ASSUME Wrong # {} PROVE FALSE
  OBVIOUS
<1>1. PICK m \in Wrong : \A l \in Wrong : m <= l
  BY LeastNumber
<1>2. CASE m = 0
  <2> DEFINE f == [k \in 0 .. 0 |-> NothingRead]
  <2>1. f = [k \in 0 .. 0 |-> IF k = 0 THEN NothingRead ELSE Absorb(f[k - 1], s[k])]
    OBVIOUS
  <2>2. Readable(s, 0)
    BY <2>1 DEF Readable
  <2> QED BY <1>1, <1>2, <2>2
<1>3. CASE m # 0
  <2>1. m \in Nat /\ m - 1 \in Nat /\ m - 1 \notin Wrong
    BY <1>1, <1>3
  <2>2. PICK f : f = [k \in 0 .. (m - 1) |->
                        IF k = 0 THEN NothingRead ELSE Absorb(f[k - 1], s[k])]
    BY <2>1 DEF Readable
  <2> DEFINE g == [k \in 0 .. m |-> IF k = m THEN Absorb(f[m - 1], s[m]) ELSE f[k]]
  <2>3. ASSUME NEW k \in 0 .. m
        PROVE  g[k] = IF k = 0 THEN NothingRead ELSE Absorb(g[k - 1], s[k])
    <3>1. CASE k = m
      <4>1. g[k] = Absorb(f[m - 1], s[m]) /\ g[m - 1] = f[m - 1]
        BY <1>3, <2>1, <3>1
      <4> QED BY <1>3, <3>1, <4>1
    <3>2. CASE k # m
      <4>1. k \in 0 .. (m - 1) /\ g[k] = f[k] /\ (k # 0 => g[k - 1] = f[k - 1])
        BY <2>1, <3>2
      <4>2. f[k] = IF k = 0 THEN NothingRead ELSE Absorb(f[k - 1], s[k])
        BY <2>2, <4>1
      <4> HIDE DEF g
      <4> QED BY <4>1, <4>2
    <3> QED BY <3>1, <3>2
  <2>4. g = [k \in 0 .. m |-> g[k]]
    OBVIOUS
  <2> HIDE DEF g
  <2>5. g = [k \in 0 .. m |-> IF k = 0 THEN NothingRead ELSE Absorb(g[k - 1], s[k])]
    BY <2>3, <2>4, Zenon
  <2>6. Readable(s, m)
    BY <2>5 DEF Readable
  <2> QED BY <1>1, <2>6
<1> QED BY <1>2, <1>3

(* Reading, record by record. *)
LEMMA ReadsRecords ==
  ASSUME NEW s, Len(s) \in Nat
  PROVE  /\ Reads(s)[0] = NothingRead
         /\ \A k \in 1 .. Len(s) : Reads(s)[k] = Absorb(Reads(s)[k - 1], s[k])
<1> DEFINE f == Reads(s)
<1>1. f = [k \in 0 .. Len(s) |-> IF k = 0 THEN NothingRead ELSE Absorb(f[k - 1], s[k])]
  <2>1. Readable(s, Len(s))
    BY AllReadable
  <2> QED BY <2>1, Zenon DEF Reads, Readable
<1> HIDE DEF f
<1>2. f[0] = NothingRead
  BY <1>1
<1>3. ASSUME NEW k \in 1 .. Len(s) PROVE f[k] = Absorb(f[k - 1], s[k])
  <2>1. k \in 0 .. Len(s) /\ k # 0
    OBVIOUS
  <2> QED BY <1>1, <2>1
<1> QED BY <1>2, <1>3 DEF f

ReadAll(s) == Reads(s)[Len(s)]

(* A record appended is read after the others. *)
LEMMA ReadsAppended ==
  ASSUME NEW s \in Seq(LogRecord), NEW r \in LogRecord
  PROVE  ReadAll(Append(s, r)) = Absorb(ReadAll(s), r)
<1> DEFINE u == Append(s, r)
           f == Reads(s)
           g == Reads(u)
           Wrong == {k \in Nat : k <= Len(s) /\ f[k] # g[k]}
<1>1. /\ Len(s) \in Nat /\ Len(u) = Len(s) + 1
      /\ \A i \in 1 .. Len(s) : u[i] = s[i]
      /\ u[Len(s) + 1] = r
  BY AppendProperties
<1> HIDE DEF u
<1>2. /\ f[0] = NothingRead /\ g[0] = NothingRead
      /\ \A k \in 1 .. Len(s) : f[k] = Absorb(f[k - 1], s[k])
      /\ \A k \in 1 .. (Len(s) + 1) : g[k] = Absorb(g[k - 1], u[k])
  BY <1>1, ReadsRecords
<1> HIDE DEF f, g
<1>3. Wrong = {}
  <2> SUFFICES ASSUME Wrong # {} PROVE FALSE
    OBVIOUS
  <2>1. PICK k \in Wrong : \A l \in Wrong : k <= l
    BY LeastNumber
  <2>2. k # 0
    BY <1>2, <2>1
  <2>3. k \in 1 .. Len(s) /\ k - 1 \in Nat /\ k - 1 <= Len(s) /\ k - 1 \notin Wrong
    BY <1>1, <2>1, <2>2
  <2>4. f[k - 1] = g[k - 1]
    BY <2>3
  <2>5. f[k] = g[k]
    BY <1>1, <1>2, <2>3, <2>4
  <2> QED BY <2>1, <2>5
<1>4. f[Len(s)] = g[Len(s)]
  BY <1>1, <1>3
<1>5. g[Len(s) + 1] = Absorb(g[Len(s)], r)
  <2>1. Len(s) + 1 \in 1 .. (Len(s) + 1) /\ (Len(s) + 1) - 1 = Len(s)
    BY <1>1
  <2> QED BY <1>1, <1>2, <2>1
<1> QED BY <1>1, <1>4, <1>5 DEF ReadAll, f, g, u

-----------------------------------------------------------------------------
(* What a reader has when the recorder has closed the segments m, and s is *)
(* open or None.                                                           *)

HalfRead(s) == [seq |-> s.seq, ep |-> s.ep, note |-> s.elig, n |-> 0]

Taken(m, s) ==
  [segments |-> m,
   open     |-> IF s = None THEN None ELSE HalfRead(s),
   samples  |-> IF s = None THEN 0 ELSE s.samples]

LEMMA SegmentRead ==
  ASSUME NEW s \in Segment
  PROVE  /\ HalfRead(s) \in Reported /\ HalfRead(s) # None
         /\ [HalfRead(s) EXCEPT !.n = s.samples]
              = [seq |-> s.seq, ep |-> s.ep, note |-> s.elig, n |-> s.samples]
         /\ [seq |-> s.seq, ep |-> s.ep, note |-> s.elig, n |-> s.samples] \in Reported
<1>1. s.seq \in Nat \ {0} /\ s.ep \in Endpoints /\ s.elig \in Eligibility /\ s.samples \in Nat
  BY SegmentFields
<1> HIDE DEF Eligibility
<1>2. HalfRead(s) \in Reported
  BY <1>1 DEF HalfRead, Reported
<1>3. HalfRead(s) # None
  BY <1>2, AbsentAssumption
<1> QED BY <1>1, <1>2, <1>3 DEF HalfRead, Reported

(* The records written out. *)
LEMMA RecordFields ==
  ASSUME NEW q, NEW e, NEW l, NEW k
  PROVE  /\ SessionEnd(l).t = "session_end" /\ SessionStart.t = "session_start"
         /\ SampleRec(q).t = "sample"
         /\ SegmentStart(q, e, l)
              = [t |-> "segment_start", seq |-> q, ep |-> e, note |-> l, n |-> 0]
         /\ Classification(q, l)
              = [t |-> "segment_classification", seq |-> q, ep |-> None, note |-> l, n |-> 0]
         /\ SegmentEnd(q, e, k)
              = [t |-> "segment_end", seq |-> q, ep |-> e, note |-> None, n |-> k]
<1>1. SessionEnd(l).t = "session_end"
  BY DEF SessionEnd, Rec
<1>2. SessionStart.t = "session_start" /\ SampleRec(q).t = "sample"
  BY DEF SessionStart, SampleRec, Rec
<1>3. SegmentStart(q, e, l)
        = [t |-> "segment_start", seq |-> q, ep |-> e, note |-> l, n |-> 0]
  <2> DEFINE x == [Rec("segment_start", q) EXCEPT !.ep = e]
  <2>1. x = [t |-> "segment_start", seq |-> q, ep |-> e, note |-> None, n |-> 0]
    BY DEF Rec
  <2>2. SegmentStart(q, e, l) = [x EXCEPT !.note = l]
    BY DEF SegmentStart
  <2> HIDE DEF x
  <2> QED BY <2>1, <2>2
<1>4. Classification(q, l)
        = [t |-> "segment_classification", seq |-> q, ep |-> None, note |-> l, n |-> 0]
  BY DEF Classification, Rec
<1>5. SegmentEnd(q, e, k)
        = [t |-> "segment_end", seq |-> q, ep |-> e, note |-> None, n |-> k]
  <2> DEFINE x == [Rec("segment_end", q) EXCEPT !.ep = e]
  <2>1. x = [t |-> "segment_end", seq |-> q, ep |-> e, note |-> None, n |-> 0]
    BY DEF Rec
  <2>2. SegmentEnd(q, e, k) = [x EXCEPT !.n = k]
    BY DEF SegmentEnd
  <2> HIDE DEF x
  <2> QED BY <2>1, <2>2
<1> QED BY <1>1, <1>2, <1>3, <1>4, <1>5

LEMMA SessionRecordsRead ==
  ASSUME NEW sum, NEW l
  PROVE  Absorb(sum, SessionStart) = sum /\ Absorb(sum, SessionEnd(l)) = sum
BY RecordFields DEF Absorb

LEMMA SampleReadOff ==
  ASSUME NEW m, NEW s \in Segment, NEW q
  PROVE  Absorb(Taken(m, s), SampleRec(q)) = Taken(m, [s EXCEPT !.samples = @ + 1])
<1> DEFINE u == [s EXCEPT !.samples = @ + 1]
<1>1. /\ u \in Segment /\ u.samples = s.samples + 1
      /\ u.seq = s.seq /\ u.ep = s.ep /\ u.elig = s.elig
  BY SegmentFields DEF Segment
<1>2. s # None /\ u # None /\ HalfRead(u) = HalfRead(s) /\ HalfRead(s) # None
  BY <1>1, SegmentFields, SegmentRead DEF HalfRead
<1> HIDE DEF u
<1>3. Taken(m, s) = [segments |-> m, open |-> HalfRead(s), samples |-> s.samples]
  BY <1>2 DEF Taken
<1>4. Taken(m, u) = [segments |-> m, open |-> HalfRead(s), samples |-> s.samples + 1]
  BY <1>1, <1>2 DEF Taken
<1>5. Absorb(Taken(m, s), SampleRec(q)) = [Taken(m, s) EXCEPT !.samples = @ + 1]
  BY <1>2, <1>3, RecordFields DEF Absorb
<1> QED BY <1>3, <1>4, <1>5 DEF u

LEMMA VerdictRead ==
  ASSUME NEW m, NEW s \in Segment, NEW l \in Eligibility
  PROVE  Absorb(Taken(m, s), Classification(s.seq, l)) = Taken(m, [s EXCEPT !.elig = l])
<1> DEFINE u == [s EXCEPT !.elig = l]
           r == Classification(s.seq, l)
<1>1. /\ u \in Segment /\ u.samples = s.samples
      /\ u.seq = s.seq /\ u.ep = s.ep /\ u.elig = l
  BY SegmentFields DEF Segment
<1>2. s # None /\ u # None /\ HalfRead(s) # None
  BY <1>1, SegmentFields, SegmentRead
<1> HIDE DEF u
<1>3. Taken(m, s) = [segments |-> m, open |-> HalfRead(s), samples |-> s.samples]
  BY <1>2 DEF Taken
<1>4. Taken(m, u) = [segments |-> m, open |-> HalfRead(u), samples |-> s.samples]
  BY <1>1, <1>2 DEF Taken
<1>5. HalfRead(u) = [HalfRead(s) EXCEPT !.note = l]
  BY <1>1 DEF HalfRead
<1>6. r.t = "segment_classification" /\ r.seq = s.seq /\ r.note = l /\ HalfRead(s).seq = s.seq
  BY RecordFields DEF HalfRead
<1> HIDE DEF r
<1>7. Absorb(Taken(m, s), r) = [Taken(m, s) EXCEPT !.open.note = l]
  BY <1>2, <1>3, <1>6 DEF Absorb
<1> QED BY <1>3, <1>4, <1>5, <1>7 DEF r, u

LEMMA EndRead ==
  ASSUME NEW m \in Seq(Reported), NEW s \in Segment, NEW q, NEW e
  PROVE  /\ m \o Report(s) \in Seq(Reported)
         /\ CloseOpen(Taken(m, s), s.samples) = Taken(m \o Report(s), None)
         /\ Absorb(Taken(m, s), SegmentEnd(q, e, s.samples)) = Taken(m \o Report(s), None)
<1> DEFINE x == [seq |-> s.seq, ep |-> s.ep, note |-> s.elig, n |-> s.samples]
           r == SegmentEnd(q, e, s.samples)
<1>1. s # None /\ HalfRead(s) # None /\ x \in Reported /\ [HalfRead(s) EXCEPT !.n = s.samples] = x
  BY SegmentFields, SegmentRead
<1>2. Report(s) = <<x>>
  BY <1>1 DEF Report
<1> HIDE DEF x
<1>3. Taken(m, s).segments = m /\ Taken(m, s).open = HalfRead(s)
  BY <1>1 DEF Taken
<1>4. CloseOpen(Taken(m, s), s.samples)
        = [segments |-> Append(m, x), open |-> None, samples |-> 0]
  BY <1>1, <1>3, Zenon DEF CloseOpen
<1>5. Append(m, x) = m \o Report(s) /\ Append(m, x) \in Seq(Reported)
  BY <1>1, <1>2, AppendIsConcat, AppendProperties
<1>6. Taken(m \o Report(s), None)
        = [segments |-> m \o Report(s), open |-> None, samples |-> 0]
  BY DEF Taken
<1>7. r.t = "segment_end" /\ r.n = s.samples
  BY RecordFields
<1> HIDE DEF r
<1>8. Absorb(Taken(m, s), r) = CloseOpen(Taken(m, s), s.samples)
  BY <1>7 DEF Absorb
<1> QED BY <1>4, <1>5, <1>6, <1>8 DEF r

LEMMA StartRead ==
  ASSUME NEW m, NEW q, NEW e, NEW h, NEW l,
         [seq |-> q, ep |-> e, heur |-> h, elig |-> l, samples |-> 0] \in Segment
  PROVE  Absorb(Taken(m, None), SegmentStart(q, e, l))
           = Taken(m, [seq |-> q, ep |-> e, heur |-> h, elig |-> l, samples |-> 0])
<1> DEFINE s == [seq |-> q, ep |-> e, heur |-> h, elig |-> l, samples |-> 0]
           r == SegmentStart(q, e, l)
<1>1. s # None /\ s.seq = q /\ s.ep = e /\ s.elig = l /\ s.samples = 0
  BY SegmentFields
<1> HIDE DEF s
<1>2. Taken(m, s) = [segments |-> m,
                     open |-> [seq |-> q, ep |-> e, note |-> l, n |-> 0], samples |-> 0]
  BY <1>1 DEF Taken, HalfRead
<1>3. Taken(m, None) = [segments |-> m, open |-> None, samples |-> 0]
  BY DEF Taken
<1>4. CloseOpen(Taken(m, None), 0) = Taken(m, None)
  BY <1>3 DEF CloseOpen
<1>5. r.t = "segment_start" /\ r.seq = q /\ r.ep = e /\ r.note = l
  BY RecordFields
<1> HIDE DEF r
<1>6. Absorb(Taken(m, None), r)
        = [Taken(m, None) EXCEPT !.open = [seq |-> q, ep |-> e, note |-> l, n |-> 0]]
  BY <1>3, <1>4, <1>5 DEF Absorb
<1> QED BY <1>2, <1>3, <1>6 DEF s, r

-----------------------------------------------------------------------------
(* What a reader makes of the whole log, and of the log without its last   *)
(* closing record.                                                         *)

CloseKind == {"segment_end", "session_end"}

NoLoss(s) ==
  \A k \in 1 .. Len(s) :
    s[k].t \in CloseKind => Summarize(SubSeq(s, 1, k - 1)) = Summarize(SubSeq(s, 1, k))

(* The log s reads as the closed segments m and the open one o. *)
ReadAs(s, m, o) ==
  /\ s \in Seq(LogRecord) /\ m \in Seq(Reported) /\ o \in Segment \cup {None}
  /\ ReadAll(s) = Taken(m, o)
  /\ NoLoss(s)

LEMMA Summarized ==
  ASSUME NEW s, NEW m \in Seq(Reported), NEW o \in Segment \cup {None},
         ReadAll(s) = Taken(m, o)
  PROVE  Summarize(s) = m \o Report(o) /\ m \o Report(o) \in Seq(Reported)
<1>1. Summarize(s) = CloseOpen(Taken(m, o), Taken(m, o).samples).segments
  BY DEF Summarize, ReadAll
<1>2. CASE o = None
  <2>1. Taken(m, o).segments = m /\ Taken(m, o).open = None
    BY <1>2 DEF Taken
  <2>2. Summarize(s) = m
    BY <1>1, <2>1 DEF CloseOpen
  <2>3. m \o Report(o) = m
    BY <1>2, ConcatEmptySeq DEF Report
  <2> QED BY <2>2, <2>3
<1>3. CASE o # None
  <2>1. o \in Segment /\ Taken(m, o).samples = o.samples
    BY <1>3 DEF Taken
  <2>2. CloseOpen(Taken(m, o), o.samples) = Taken(m \o Report(o), None)
    BY <2>1, EndRead
  <2>3. Taken(m \o Report(o), None).segments = m \o Report(o)
    BY DEF Taken
  <2>4. m \o Report(o) \in Seq(Reported)
    BY <2>1, EndRead
  <2> QED BY <1>1, <2>1, <2>2, <2>3, <2>4
<1> QED BY <1>2, <1>3

LEMMA PrefixOfAppend ==
  ASSUME NEW s \in Seq(LogRecord), NEW r \in LogRecord, NEW k \in 0 .. Len(s)
  PROVE  SubSeq(Append(s, r), 1, k) = SubSeq(s, 1, k)
<1>1. Append(s, r) = s \o <<r>> /\ <<r>> \in Seq(LogRecord) /\ Len(s) \in Nat
  BY AppendIsConcat
<1>2. CASE k = 0
  BY <1>2, SubSeqEmpty
<1>3. CASE k # 0
  <2>1. 1 \in 1 .. Len(s) /\ k \in 1 .. Len(s)
    BY <1>1, <1>3
  <2> QED BY <1>1, <2>1, SubSeqOfConcat1
<1> QED BY <1>2, <1>3

LEMMA NoLossGrows ==
  ASSUME NEW s \in Seq(LogRecord), NEW r \in LogRecord, NoLoss(s),
         r.t \in CloseKind => Summarize(s) = Summarize(Append(s, r))
  PROVE  NoLoss(Append(s, r))
<1> DEFINE u == Append(s, r)
<1>1. /\ u \in Seq(LogRecord) /\ Len(s) \in Nat /\ Len(u) = Len(s) + 1
      /\ \A i \in 1 .. Len(s) : u[i] = s[i]
      /\ u[Len(s) + 1] = r
  BY AppendProperties
<1>2. \A k \in 0 .. Len(s) : SubSeq(u, 1, k) = SubSeq(s, 1, k)
  BY PrefixOfAppend
<1>3. SubSeq(u, 1, Len(u)) = u /\ SubSeq(s, 1, Len(s)) = s
  BY <1>1, SubSeqFull
<1>4. r.t \in CloseKind => Summarize(s) = Summarize(u)
  OBVIOUS
<1> HIDE DEF u
<1>5. ASSUME NEW k \in 1 .. Len(u), u[k].t \in CloseKind
      PROVE  Summarize(SubSeq(u, 1, k - 1)) = Summarize(SubSeq(u, 1, k))
  <2>1. CASE k = Len(u)
    <3>1. u[k] = r /\ k - 1 = Len(s) /\ Len(s) \in 0 .. Len(s)
      BY <1>1, <2>1
    <3>2. SubSeq(u, 1, k - 1) = s /\ SubSeq(u, 1, k) = u
      BY <1>2, <1>3, <2>1, <3>1
    <3> QED BY <1>4, <1>5, <3>1, <3>2
  <2>2. CASE k # Len(u)
    <3>1. k \in 1 .. Len(s) /\ k \in 0 .. Len(s) /\ k - 1 \in 0 .. Len(s) /\ u[k] = s[k]
      BY <1>1, <2>2
    <3>2. SubSeq(u, 1, k - 1) = SubSeq(s, 1, k - 1) /\ SubSeq(u, 1, k) = SubSeq(s, 1, k)
      BY <1>2, <3>1
    <3>3. Summarize(SubSeq(s, 1, k - 1)) = Summarize(SubSeq(s, 1, k))
      BY <1>5, <3>1 DEF NoLoss
    <3> QED BY <3>2, <3>3
  <2> QED BY <2>1, <2>2
<1>6. NoLoss(u)
  BY <1>5 DEF NoLoss
<1> QED BY <1>6 DEF u

(* One more record is read: if it is a closing one, it changes nothing in  *)
(* what a reader reports.                                                  *)
LEMMA ReadOn ==
  ASSUME NEW s, NEW m, NEW o, ReadAs(s, m, o),
         NEW r \in LogRecord, NEW m2 \in Seq(Reported), NEW o2 \in Segment \cup {None},
         Absorb(Taken(m, o), r) = Taken(m2, o2),
         r.t \in CloseKind => m \o Report(o) = m2 \o Report(o2)
  PROVE  ReadAs(Append(s, r), m2, o2)
<1>1. /\ s \in Seq(LogRecord) /\ m \in Seq(Reported) /\ o \in Segment \cup {None}
      /\ ReadAll(s) = Taken(m, o) /\ NoLoss(s)
  BY DEF ReadAs
<1>2. Append(s, r) \in Seq(LogRecord)
  BY <1>1, AppendProperties
<1>3. ReadAll(Append(s, r)) = Taken(m2, o2)
  BY <1>1, ReadsAppended
<1>4. Summarize(s) = m \o Report(o)
  BY <1>1, Summarized
<1>5. Summarize(Append(s, r)) = m2 \o Report(o2)
  BY <1>3, Summarized
<1>6. NoLoss(Append(s, r))
  BY <1>1, <1>4, <1>5, NoLossGrows
<1> QED BY <1>2, <1>3, <1>6 DEF ReadAs

(* The open segment, if there is one, closed. *)
LEMMA ReadClosed ==
  ASSUME NEW s, NEW m, NEW o, ReadAs(s, m, o)
  PROVE  ReadAs(s \o Closing(o), m \o Report(o), None)
<1>1. s \in Seq(LogRecord) /\ m \in Seq(Reported) /\ o \in Segment \cup {None}
  BY DEF ReadAs
<1>2. CASE o = None
  <2>1. s \o Closing(o) = s /\ m \o Report(o) = m
    BY <1>1, <1>2, ConcatEmptySeq DEF Closing, Report
  <2> QED BY <1>2, <2>1
<1>3. CASE o # None
  <2> DEFINE r == SegmentEnd(o.seq, o.ep, o.samples)
  <2>1. o \in Segment /\ o.seq \in Nat /\ o.ep \in Endpoints /\ o.samples \in Nat
        /\ None \in Notes
    BY <1>1, <1>3, SegmentFields DEF Notes
  <2>2. r \in LogRecord
    BY <2>1, RecordTypes
  <2>3. /\ m \o Report(o) \in Seq(Reported)
        /\ Absorb(Taken(m, o), r) = Taken(m \o Report(o), None)
    BY <1>1, <2>1, EndRead
  <2>4. (m \o Report(o)) \o Report(None) = m \o Report(o)
    BY <2>3, ConcatEmptySeq DEF Report
  <2>5. s \o Closing(o) = Append(s, r)
    <3>1. Closing(o) = <<r>>
      BY <1>3 DEF Closing
    <3> HIDE DEF r
    <3> QED BY <1>1, <2>2, <3>1, Extended
  <2> HIDE DEF r
  <2> QED BY <2>2, <2>3, <2>4, <2>5, ReadOn
<1> QED BY <1>2, <1>3

(* The recording over. *)
LEMMA ReadEnded ==
  ASSUME NEW s, NEW m, NEW o, ReadAs(s, m, o), NEW l \in Notes
  PROVE  ReadAs((s \o Closing(o)) \o <<SessionEnd(l)>>, m \o Report(o), None)
<1> DEFINE c == s \o Closing(o)
           mm == m \o Report(o)
           r == SessionEnd(l)
<1>1. ReadAs(c, mm, None)
  BY ReadClosed
<1> HIDE DEF c, mm
<1>2. c \in Seq(LogRecord) /\ mm \in Seq(Reported)
  BY <1>1 DEF ReadAs
<1>3. r \in LogRecord /\ Absorb(Taken(mm, None), r) = Taken(mm, None)
  BY SessionRecords, SessionRecordsRead
<1> HIDE DEF r
<1>4. ReadAs(Append(c, r), mm, None)
  BY <1>1, <1>2, <1>3, ReadOn
<1>5. c \o <<r>> = Append(c, r)
  BY <1>2, <1>3, Extended
<1> QED BY <1>4, <1>5 DEF c, mm, r

-----------------------------------------------------------------------------
(* Every record the recorder emits says what it did to its segments.       *)

ReadInv == ReadAs(log, made, seg)

LEMMA StepRead ==
  TypeOK /\ InStep /\ ReadInv /\ [Next]_vars => ReadInv'
<1> SUFFICES ASSUME TypeOK, InStep, ReadInv, [Next]_vars PROVE ReadInv'
  OBVIOUS
<1> USE DEF tracker, session, game, output
<1>1. /\ log \in Seq(LogRecord) /\ made \in Seq(Reported) /\ seg \in Segment \cup {None}
      /\ ReadAs(log, made, seg)
  BY DEF ReadInv, ReadAs
<1>2. ASSUME ReadAs(log', made', seg') PROVE ReadInv'
  BY <1>2 DEF ReadInv, ReadAs, ReadAll, NoLoss, Reads, Summarize
<1>3. ASSUME UNCHANGED <<log, made, seg>> PROVE ReadInv'
  BY <1>1, <1>2, <1>3
<1>4. ASSUME NEW reason \in Notes, End(reason) PROVE ReadInv'
  <2>1. /\ log' = (log \o Closing(seg)) \o <<SessionEnd(reason)>>
        /\ made' = made \o Report(seg) /\ seg' = None
    BY <1>4 DEF End
  <2>2. ReadAs((log \o Closing(seg)) \o <<SessionEnd(reason)>>, made \o Report(seg), None)
    BY <1>1, ReadEnded
  <2> QED BY <1>2, <2>1, <2>2
<1>5. CASE Announce
  <2>1. log = <<>> /\ seg = None /\ log' = <<SessionStart>> /\ made' = made /\ seg' = None
    BY <1>5 DEF Announce, InStep
  <2>2. None \in Notes
    BY DEF Notes
  <2>3. SessionStart \in LogRecord /\ SessionStart.t = "session_start"
    BY <2>2, SessionRecords
  <2>4. Absorb(Taken(made, None), SessionStart) = Taken(made, None)
    BY SessionRecordsRead
  <2>5. ReadAs(Append(log, SessionStart), made, None)
    BY <1>1, <2>1, <2>3, <2>4, ReadOn
  <2>6. Append(log, SessionStart) = log'
    BY <2>1
  <2> QED BY <1>2, <2>1, <2>5, <2>6
<1>6. CASE Interrupt \/ Deadline
  <2>1. "interrupt" \in Notes /\ "duration-limit" \in Notes
    BY DEF Notes
  <2> QED BY <1>4, <1>6, <2>1 DEF Interrupt, Deadline
<1>7. ASSUME NEW readable \in BOOLEAN, AlivePoll(readable) PROVE ReadInv'
  <2> DEFINE found == CurrentPids(readable)
  <2>1. CASE GraceCloses(found)
    <3>1. "game-exit" \in Notes
      BY DEF Notes
    <3> QED BY <1>4, <2>1, <3>1 DEF GraceCloses
  <2>2. CASE GameSeen(found) \/ GraceOpens(found) \/ GraceRuns(found)
    BY <1>3, <2>2 DEF GameSeen, GraceOpens, GraceRuns
  <2> QED BY <1>7, <2>1, <2>2 DEF AlivePoll
<1>8. ASSUME NEW top \in Trk!Candidate \cup {None}, NEW heur \in Heuristic,
             NEW named \in SUBSET Nameable, DiscoveryPoll(top, heur, named)
      PROVE  ReadInv'
  <2>1. CASE Rotate(top, heur, named)
    <3> DEFINE c == log \o Closing(seg)
               mm == made \o Report(seg)
               l == Classify(top.ep, heur, named)
               r == SegmentStart(nextSeq, top.ep, l)
               new == [seq |-> nextSeq, ep |-> top.ep, heur |-> heur, elig |-> l, samples |-> 0]
    <3>1. log' = c \o <<r>> /\ made' = mm /\ seg' = new
      BY <2>1 DEF Rotate
    <3>2. ReadAs(c, mm, None)
      BY <1>1, ReadClosed
    <3>3. top \in Trk!Candidate /\ top.ep \in Endpoints /\ nextSeq \in Nat \ {0}
      BY <2>1 DEF Rotate, Trk!Rotates, Trk!Eligible, Trk!Candidate, TypeOK
    <3>4. l \in Eligibility /\ l \in Notes
      BY DEF Classify, Eligibility, Notes
    <3> HIDE DEF c, mm, l
    <3>5. new \in Segment
      BY <3>3, <3>4 DEF Segment
    <3>6. Absorb(Taken(mm, None), r) = Taken(mm, new)
      BY <3>5, StartRead
    <3>7. r \in LogRecord /\ r.t = "segment_start"
      <4>1. 0 \in Nat
        OBVIOUS
      <4> QED BY <3>3, <3>4, <4>1, RecordTypes
    <3>8. c \in Seq(LogRecord) /\ mm \in Seq(Reported)
      BY <3>2 DEF ReadAs
    <3> HIDE DEF r, new
    <3>9. ReadAs(Append(c, r), mm, new)
      BY <3>2, <3>5, <3>6, <3>7, <3>8, ReadOn DEF CloseKind
    <3>10. c \o <<r>> = Append(c, r)
      BY <3>7, <3>8, Extended
    <3> QED BY <1>2, <3>1, <3>9, <3>10
  <2>2. CASE Refresh(top, heur, named)
    <3> DEFINE l == Classify(seg.ep, seg.heur, named)
               r == Classification(seg.seq, l)
               new == [seg EXCEPT !.elig = l]
    <3>1. CASE UNCHANGED <<seg, log>>
      BY <1>3, <2>2, <3>1 DEF Refresh
    <3>2. CASE seg # None /\ seg' = new /\ log' = Append(log, r)
      <4>1. seg \in Segment /\ seg.seq \in Nat /\ seg.ep \in Endpoints /\ 0 \in Nat
        BY <1>1, <3>2, SegmentFields
      <4>2. l \in Eligibility /\ l \in Notes
        BY <4>1, SegmentFields DEF Classify, Eligibility, Notes
      <4> HIDE DEF l
      <4>3. new \in Segment
        BY <4>1, <4>2, SegmentFields
      <4>4. Absorb(Taken(made, seg), r) = Taken(made, new)
        BY <4>1, <4>2, VerdictRead
      <4>5. r \in LogRecord /\ r.t = "segment_classification"
        BY <4>1, <4>2, RecordTypes
      <4>6. made' = made
        BY <2>2 DEF Refresh
      <4> HIDE DEF r, new
      <4>7. ReadAs(Append(log, r), made, new)
        BY <1>1, <4>3, <4>4, <4>5, ReadOn DEF CloseKind
      <4> QED BY <1>2, <3>2, <4>6, <4>7
    <3> QED BY <2>2, <3>1, <3>2 DEF Refresh
  <2> QED BY <1>8, <2>1, <2>2 DEF DiscoveryPoll
<1>9. CASE TakeSample
  <2> DEFINE r == SampleRec(seg.seq)
             new == [seg EXCEPT !.samples = @ + 1]
  <2>1. seg # None /\ seg' = new /\ log' = Append(log, r) /\ made' = made
    BY <1>9 DEF TakeSample
  <2>2. /\ seg \in Segment /\ seg.seq \in Nat /\ seg.ep \in Endpoints /\ 0 \in Nat
        /\ None \in Notes
    BY <1>1, <2>1, SegmentFields DEF Notes
  <2>3. new \in Segment
    BY <2>2, SegmentFields
  <2>4. Absorb(Taken(made, seg), r) = Taken(made, new)
    BY <2>2, SampleReadOff
  <2>5. r \in LogRecord /\ r.t = "sample"
    BY <2>2, RecordTypes
  <2> HIDE DEF r, new
  <2>6. ReadAs(Append(log, r), made, new)
    BY <1>1, <2>3, <2>4, <2>5, ReadOn DEF CloseKind
  <2> QED BY <1>2, <2>1, <2>6
<1>10. CASE Detect \/ NeverStarts \/ GraceElapses \/ GameChanges \/ Cancel \/ TimePasses
            \/ UNCHANGED vars
  BY <1>3, <1>10 DEF Detect, NeverStarts, GraceElapses, GameChanges, Cancel, TimePasses, vars
<1> QED BY <1>5, <1>6, <1>7, <1>8, <1>9, <1>10 DEF Next

(* At every moment of a recording, of any length, the reader of the log    *)
(* reports the segments the recorder has measured, the open one included,  *)
(* with their last verdicts and sample counts; and the closing records     *)
(* tell it nothing, so a recording that crashed before writing them loses  *)
(* neither a segment nor a sample.                                         *)
THEOREM SessionIsReadBack == Spec => []ReaderSeesTheSession
<1>1. Init => ReadInv
  <2> SUFFICES ASSUME Init PROVE ReadInv
    OBVIOUS
  <2>1. log = <<>> /\ made = <<>> /\ seg = None /\ Len(log) = 0
    BY DEF Init
  <2>2. ReadAll(log) = NothingRead
    BY <2>1, ReadsRecords DEF ReadAll
  <2>3. NothingRead = Taken(made, seg)
    BY <2>1 DEF NothingRead, Taken
  <2>4. log \in Seq(LogRecord) /\ made \in Seq(Reported)
    BY <2>1, EmptySeq
  <2>5. NoLoss(log)
    BY <2>1 DEF NoLoss
  <2> QED BY <2>1, <2>2, <2>3, <2>4, <2>5 DEF ReadInv, ReadAs
<1>2. IInv /\ ReadInv /\ [Next]_vars => ReadInv'
  BY StepRead DEF IInv
<1>3. ReadInv => ReaderSeesTheSession
  <2> SUFFICES ASSUME ReadInv PROVE ReaderSeesTheSession
    OBVIOUS
  <2>1. Summarize(log) = made \o Report(seg) /\ NoLoss(log)
    BY Summarized DEF ReadInv, ReadAs
  <2> QED BY <2>1 DEF NoLoss, CloseKind, ReaderSeesTheSession
<1> QED BY <1>1, <1>2, <1>3, InvariantHolds, PTL DEF Spec
=============================================================================
