------------------------ MODULE LiveRecordingProofs ------------------------
(***************************************************************************)
(* LiveRecording.tla for every channel size, every recording and every     *)
(* range of sequence numbers: client and server stay in step, the upload   *)
(* implements SharedRecording, and the verdict Close returns is right.     *)
(***************************************************************************)
EXTENDS LiveRecording, SequenceTheorems, TLAPS

-----------------------------------------------------------------------------
(* Sequences of records *)

Ordered(s, n) ==
  /\ \A i \in 1 .. Len(s) : s[i] \in 1 .. n
  /\ \A i, j \in 1 .. Len(s) : i < j => s[i] < s[j]

Numbers(n) == [i \in 1 .. n |-> i]

LEMMA Concatenation ==
  ASSUME NEW s \in Seq(Nat), NEW t \in Seq(Nat)
  PROVE  /\ s \o t \in Seq(Nat) /\ Len(s) \in Nat /\ Len(t) \in Nat
         /\ Len(s \o t) = Len(s) + Len(t)
         /\ \A i \in 1 .. Len(s) : (s \o t)[i] = s[i]
         /\ \A i \in 1 .. Len(t) : (s \o t)[Len(s) + i] = t[i]
<1>1. Len(s) \in Nat /\ Len(t) \in Nat
  BY LenProperties
<1>2. /\ s \o t \in Seq(Nat) /\ Len(s \o t) = Len(s) + Len(t)
      /\ \A i \in 1 .. Len(s) + Len(t) : (s \o t)[i] = IF i <= Len(s) THEN s[i] ELSE t[i - Len(s)]
  BY ConcatProperties
<1> QED BY <1>1, <1>2

LEMMA NumbersType ==
  ASSUME NEW n \in Nat
  PROVE  /\ Numbers(n) \in Seq(Nat) /\ Len(Numbers(n)) = n
         /\ \A i \in 1 .. n : Numbers(n)[i] = i
<1>1. Numbers(n) \in [1 .. n -> Nat]
  BY DEF Numbers
<1>2. Numbers(n) \in Seq(Nat)
  BY <1>1, SeqDef
<1>3. DOMAIN Numbers(n) = 1 .. n
  BY DEF Numbers
<1>4. Len(Numbers(n)) = n
  BY <1>2, <1>3, LenProperties
<1> QED BY <1>2, <1>4 DEF Numbers

LEMMA NumbersGrow ==
  ASSUME NEW n \in Nat
  PROVE  Append(Numbers(n), n + 1) = Numbers(n + 1)
<1> DEFINE s == Append(Numbers(n), n + 1)
<1>0. /\ Numbers(n) \in Seq(Nat) /\ Len(Numbers(n)) = n /\ n + 1 \in Nat
      /\ \A i \in 1 .. n : Numbers(n)[i] = i
  BY NumbersType
<1>1. /\ s \in Seq(Nat) /\ Len(s) = n + 1
      /\ \A i \in 1 .. n : s[i] = i
      /\ s[n + 1] = n + 1
  BY <1>0, AppendProperties
<1>2. /\ Numbers(n + 1) \in Seq(Nat) /\ Len(Numbers(n + 1)) = n + 1
      /\ \A i \in 1 .. n + 1 : Numbers(n + 1)[i] = i
  BY NumbersType
<1>3. \A i \in 1 .. Len(s) : s[i] = Numbers(n + 1)[i]
  BY <1>1, <1>2
<1> HIDE DEF s
<1>4. s = Numbers(n + 1)
  BY <1>1, <1>2, <1>3, SeqEqual
<1> QED BY <1>4 DEF s

(* A newer record goes to the end of an ordered stream. *)
LEMMA OrderedAppend ==
  ASSUME NEW s \in Seq(Nat), NEW n \in Nat, Ordered(s, n)
  PROVE  Ordered(s, n + 1) /\ Ordered(Append(s, n + 1), n + 1)
<1> DEFINE t == Append(s, n + 1)
<1>1. /\ Len(s) \in Nat /\ Len(t) = Len(s) + 1
      /\ \A i \in 1 .. Len(s) : t[i] = s[i]
      /\ t[Len(s) + 1] = n + 1
  BY AppendProperties, LenProperties
<1> HIDE DEF t
<1>2. \A i \in 1 .. Len(t) : t[i] \in 1 .. n + 1
  BY <1>1 DEF Ordered
<1>3. ASSUME NEW i \in 1 .. Len(t), NEW j \in 1 .. Len(t), i < j PROVE t[i] < t[j]
  <2>1. i \in 1 .. Len(s) /\ t[i] = s[i] /\ s[i] \in 1 .. n
    BY <1>1, <1>3 DEF Ordered
  <2>2. CASE j = Len(s) + 1
    BY <1>1, <2>1, <2>2
  <2>3. CASE j \in 1 .. Len(s)
    BY <1>1, <1>3, <2>1, <2>3 DEF Ordered
  <2> QED BY <1>1, <2>2, <2>3
<1>4. Ordered(t, n + 1)
  BY <1>2, <1>3 DEF Ordered
<1>5. Ordered(s, n + 1)
  BY DEF Ordered
<1> QED BY <1>4, <1>5 DEF t

LEMMA OrderedTail ==
  ASSUME NEW s \in Seq(Nat), s # <<>>, NEW n \in Nat, Ordered(s, n)
  PROVE  Ordered(Tail(s), n)
<1>1. /\ Len(s) \in Nat /\ Len(Tail(s)) = Len(s) - 1
      /\ \A i \in 1 .. Len(Tail(s)) : Tail(s)[i] = s[i + 1]
  BY HeadTailProperties, LenProperties
<1> DEFINE t == Tail(s)
<1>2. /\ Len(t) = Len(s) - 1
      /\ \A i \in 1 .. Len(t) : i + 1 \in 1 .. Len(s) /\ t[i] = s[i + 1]
  BY <1>1
<1> HIDE DEF t
<1>3. ASSUME NEW i \in 1 .. Len(t) PROVE t[i] \in 1 .. n
  BY <1>2 DEF Ordered
<1>4. ASSUME NEW i \in 1 .. Len(t), NEW j \in 1 .. Len(t), i < j PROVE t[i] < t[j]
  <2>1. /\ i + 1 \in 1 .. Len(s) /\ t[i] = s[i + 1]
        /\ j + 1 \in 1 .. Len(s) /\ t[j] = s[j + 1]
        /\ i + 1 < j + 1
    BY <1>2, <1>4
  <2> QED BY <2>1 DEF Ordered
<1>5. Ordered(t, n)
  BY <1>3, <1>4 DEF Ordered
<1> QED BY <1>5 DEF t

(* An ordered stream that reaches the server one record more. *)
LEMMA OrderedNext ==
  ASSUME NEW a \in Seq(Nat), NEW r \in Nat, NEW c \in Seq(Nat), NEW n \in Nat,
         Ordered((a \o <<r>>) \o c, n)
  PROVE  r \in 1 .. n /\ \A i \in 1 .. Len(a) : a[i] < r
<1> DEFINE b == a \o <<r>>
           s == b \o c
           k == Len(a) + 1
<1>1. <<r>> \in Seq(Nat) /\ Len(<<r>>) = 1 /\ <<r>>[1] = r
  OBVIOUS
<1>2. /\ Len(a) \in Nat /\ b \in Seq(Nat) /\ Len(b) = k
      /\ \A i \in 1 .. Len(a) : b[i] = a[i]
      /\ b[k] = r
  BY <1>1, ConcatProperties, LenProperties
<1>6. s = b \o c
  OBVIOUS
<1> HIDE DEF b, s
<1>3. /\ Len(c) \in Nat /\ Len(s) = k + Len(c)
      /\ \A i \in 1 .. k : s[i] = b[i]
  <2>1. b \in Seq(Nat)
    BY <1>2
  <2>2. Len(c) \in Nat /\ Len(s) = Len(b) + Len(c) /\ \A i \in 1 .. Len(b) : s[i] = b[i]
    BY <1>6, <2>1, Concatenation
  <2> QED BY <1>2, <2>2
<1>4. Ordered(s, n)
  BY DEF b, s
<1>5. /\ k \in 1 .. Len(s) /\ s[k] = r
      /\ \A i \in 1 .. Len(a) : i \in 1 .. Len(s) /\ i < k /\ s[i] = a[i]
  BY <1>2, <1>3
<1> QED BY <1>4, <1>5 DEF Ordered

LEMMA AppendToStream ==
  ASSUME NEW s \in Seq(Nat), NEW c \in Seq(Nat), NEW e \in Nat
  PROVE  s \o Append(c, e) = Append(s \o c, e)
<1>1. <<e>> \in Seq(Nat) /\ s \o c \in Seq(Nat)
  BY ConcatProperties
<1>2. s \o Append(c, e) = s \o (c \o <<e>>)
  BY AppendIsConcat
<1>3. Append(s \o c, e) = (s \o c) \o <<e>>
  BY <1>1, AppendIsConcat
<1> QED BY <1>1, <1>2, <1>3, ConcatAssociative

(* Taking the head off the queue leaves it in the stream, in hand. *)
LEMMA TakenFromQueue ==
  ASSUME NEW a \in Seq(Nat), NEW c \in Seq(Nat), c # <<>>
  PROVE  (a \o <<Head(c)>>) \o Tail(c) = (a \o <<>>) \o c
<1>1. /\ Len(c) \in Nat \ {0} /\ Head(c) \in Nat /\ Tail(c) \in Seq(Nat)
      /\ <<Head(c)>> \in Seq(Nat)
  BY HeadTailProperties, EmptySeq
<1>2. <<Head(c)>> \o Tail(c) = c
  <2> DEFINE h == <<Head(c)>>
             d == h \o Tail(c)
  <2>1. Len(h) = 1 /\ h[1] = c[1] /\ h \in Seq(Nat)
    BY <1>1
  <2> HIDE DEF h
  <2>2. /\ Len(Tail(c)) = Len(c) - 1
        /\ \A i \in 1 .. Len(Tail(c)) : Tail(c)[i] = c[i + 1]
    BY HeadTailProperties
  <2>6. d = h \o Tail(c)
    OBVIOUS
  <2> HIDE DEF d
  <2>3. /\ d \in Seq(Nat) /\ Len(d) = Len(h) + Len(Tail(c))
        /\ \A i \in 1 .. Len(h) : d[i] = h[i]
        /\ \A i \in 1 .. Len(Tail(c)) : d[Len(h) + i] = Tail(c)[i]
    BY <1>1, <2>1, <2>6, Concatenation
  <2>4. Len(d) = Len(c) /\ \A i \in 1 .. Len(d) : d[i] = c[i]
    <3>1. d[1] = c[1]
      BY <2>1, <2>3
    <3>2. ASSUME NEW i \in 1 .. Len(c), i # 1
          PROVE  d[i] = c[i]
      <4>1. i - 1 \in 1 .. Len(Tail(c)) /\ 1 + (i - 1) = i /\ (i - 1) + 1 = i
        BY <1>1, <2>2, <3>2
      <4>2. d[1 + (i - 1)] = Tail(c)[i - 1]
        BY <2>1, <2>3, <4>1
      <4>3. Tail(c)[i - 1] = c[(i - 1) + 1]
        BY <2>2, <4>1
      <4> QED BY <4>1, <4>2, <4>3
    <3> QED BY <1>1, <2>1, <2>2, <2>3, <3>1, <3>2
  <2>5. d = c
    BY <2>3, <2>4, SeqEqual
  <2> QED BY <2>5 DEF d, h
<1>3. (a \o <<Head(c)>>) \o Tail(c) = a \o (<<Head(c)>> \o Tail(c))
  BY <1>1, ConcatAssociative
<1> QED BY <1>2, <1>3, ConcatEmptySeq

-----------------------------------------------------------------------------
USE LiveRecordingAssumption

-----------------------------------------------------------------------------
(* The inductive invariant *)

(* Where client and server are, by the request under way. *)
StartRequest ==
  /\ ~ started /\ Len(req.recs) = 1
  /\ req.stage = "sent" => server = "none"
  /\ req.stage = "applied" => server = "open" /\ expects = [seq |-> 1, challenge |-> 1]

EventsRequest ==
  /\ started /\ Len(req.recs) <= 1
  /\ req.seq = seq
  /\ req.stage = "sent" =>
       server = "open" /\ expects = [seq |-> req.seq, challenge |-> req.challenge]
  /\ req.stage = "applied" => server = "open" /\ expects.seq = (seq + 1) % Wrap

FinalRequest ==
  /\ started /\ req.recs = <<>>
  /\ closed /\ events = <<>>
  /\ req.stage = "sent" => server = "open" /\ expects.challenge = req.challenge
  /\ req.stage = "applied" =>
       server = "accepted" \/ (server = "rejected" /\ trouble)

(* Between requests both count alike.  A refusal is the server's trouble. *)
Aligned ==
  /\ worker = "select" => req = None
  /\ worker = "posting" => req # None
  /\ req = None /\ ~ started => server = "none"
  /\ worker = "select" /\ started =>
       server = "open" /\ expects = [seq |-> seq, challenge |-> challenge]
  /\ req # None =>
       /\ req.kind = "start" => StartRequest
       /\ req.kind = "events" => EventsRequest
       /\ req.kind = "finalize" => FinalRequest
       /\ req.stage = "refused" => trouble

(* The records the worker has taken and the server has not. *)
InHand ==
  IF req # None /\ (req.kind = "start" \/ req.stage # "applied") THEN req.recs ELSE <<>>

(* Every record that is not lost, in the order in which the server gets it.*)
Stream == (received \o InHand) \o events

(* Without an error nothing is lost. *)
Streaming ==
  /\ Ordered(Stream, emitted)
  /\ err = None => Stream = Numbers(emitted)
  /\ ~ started => received = <<>>

(* What the worker's end and an error mean. *)
Ending ==
  /\ caller = "returned" => worker = "stopped"
  /\ worker = "stopped" /\ err = None =>
       result /\ closed /\ server = "accepted" /\ events = <<>> /\ req = None
  /\ err # None => trouble \/ (emitted = 0 /\ closed)

IInv == TypeOK /\ Aligned /\ Streaming /\ Ending

-----------------------------------------------------------------------------
LEMMA SetErrType ==
  ASSUME NEW e \in Errors, err \in Errors \cup {None}, SetErr(e)
  PROVE  err' \in Errors \cup {None}
BY DEF SetErr

LEMMA SetErrSets ==
  ASSUME NEW e \in Errors, SetErr(e)
  PROVE  err' # None
BY DEF SetErr

LEMMA StepErr == TypeOK /\ [Next]_vars => err' \in Errors \cup {None}
<1> SUFFICES ASSUME err \in Errors \cup {None}, [Next]_vars
             PROVE  err' \in Errors \cup {None}
  BY DEF TypeOK
<1>1. \A e \in {"full", "never started", "post", "not accepted"} : e \in Errors
  BY DEF Errors
<1>2. \/ err' = err
      \/ \E e \in {"full", "never started", "post", "not accepted"} : SetErr(e)
  BY DEF Next, vars, Push, Close, Return, OnEvent, OnTick, TakeRecord, Drained, Keepalive,
         Answered, StartAnswered, EventsAnswered, FinalAnswered, PostFails, GiveUp,
         TickFires, ServerAccepts, ServerRefuses, outcome
<1> QED BY <1>1, <1>2, SetErrType

LEMMA NumberType ==
  /\ 0 \in Number /\ 1 \in Number
  /\ \A n \in Number : (n + 1) % Wrap \in Number
BY DEF Number

LEMMA RequestFields ==
  ASSUME NEW r \in Request
  PROVE  /\ r # None
         /\ r.kind \in {"start", "events", "finalize"}
         /\ r.seq \in Number /\ r.challenge \in Number
         /\ r.recs \in Seq(Nat)
         /\ r.stage \in {"sent", "applied", "refused"}
BY DEF Request

(* What Post leaves behind. *)
LEMMA PostedRequest ==
  ASSUME NEW kind \in {"start", "events", "finalize"},
         NEW sq \in Number, NEW ch \in Number, NEW recs \in Seq(Nat),
         Post(kind, sq, ch, recs)
  PROVE  /\ worker' = "posting"
         /\ req' \in Request /\ req' # None
         /\ req'.kind = kind /\ req'.stage = "sent"
         /\ req'.seq = sq /\ req'.challenge = ch /\ req'.recs = recs
BY RequestFields DEF Post, Request

(* Where a request has got to is all that changes in it. *)
LEMMA StageOfRequest ==
  ASSUME NEW r \in Request, NEW st \in {"sent", "applied", "refused"}
  PROVE  LET q == [r EXCEPT !.stage = st] IN
         /\ q \in Request /\ q # None
         /\ q.stage = st /\ q.kind = r.kind
         /\ q.seq = r.seq /\ q.challenge = r.challenge /\ q.recs = r.recs
<1> DEFINE q == [r EXCEPT !.stage = st]
<1>1. q \in Request
  BY DEF Request
<1> QED BY <1>1, RequestFields DEF Request

(* The head and the rest of a queue of records. *)
LEMMA QueueHead ==
  ASSUME NEW q \in Seq(Nat), q # <<>>
  PROVE  /\ Head(q) \in Nat /\ Tail(q) \in Seq(Nat)
         /\ Len(Tail(q)) = Len(q) - 1
         /\ <<Head(q)>> \in Seq(Nat) /\ Len(<<Head(q)>>) = 1
BY HeadTailProperties

LEMMA EmptyRecs == <<>> \in Seq(Nat) /\ Len(<<>>) = 0
OBVIOUS

LEMMA InitTypes == Init => TypeOK
<1> SUFFICES ASSUME Init PROVE TypeOK
  OBVIOUS
<1>1. events \in Seq(Nat) /\ Len(events) <= Buffer /\ received \in Seq(Nat)
  BY EmptyRecs DEF Init
<1>2. expects \in [seq : Number, challenge : Number]
  BY NumberType DEF Init
<1>3. emitted \in 0 .. MaxRecords
  BY DEF Init
<1>4. err \in Errors \cup {None} /\ req \in Request \cup {None}
  BY DEF Init
<1>5. seq \in Number /\ challenge \in Number
  BY NumberType DEF Init
<1> QED BY <1>1, <1>2, <1>3, <1>4, <1>5 DEF Init, TypeOK

(* TakeRecord, Drained and Keepalive are all the worker does on a tick or  *)
(* an event.                                                               *)
LEMMA TakeRecordTypes ==
  ASSUME TypeOK, TakeRecord
  PROVE  /\ events' \in Seq(Nat) /\ Len(events') <= Buffer
         /\ worker' \in {"select", "posting", "stopped"}
         /\ req' \in Request \cup {None}
         /\ err' = err
<1>1. /\ Head(events) \in Nat /\ events' \in Seq(Nat) /\ Len(events') = Len(events) - 1
      /\ <<Head(events)>> \in Seq(Nat)
  BY QueueHead DEF TypeOK, TakeRecord
<1>2. Len(events') <= Buffer
  BY <1>1 DEF TypeOK
<1>3. CASE started
  BY <1>1, <1>2, <1>3, PostedRequest DEF TypeOK, TakeRecord
<1>4. CASE ~ started
  BY <1>1, <1>2, <1>4, PostedRequest, NumberType DEF TypeOK, TakeRecord
<1> QED BY <1>3, <1>4

LEMMA StepTypes == TypeOK /\ Aligned /\ [Next]_vars => TypeOK'
<1> SUFFICES ASSUME TypeOK, Aligned, [Next]_vars PROVE TypeOK'
  OBVIOUS
<1> USE StepErr DEF channel, outcome, position, loop, remote
<1>1. CASE Push
  <2>1. /\ emitted + 1 \in Nat /\ Buffer \in Nat
        /\ events \in Seq(Nat) /\ Len(events) <= Buffer
    BY DEF TypeOK
  <2>2. Append(events, emitted + 1) \in Seq(Nat)
        /\ Len(Append(events, emitted + 1)) = Len(events) + 1
    BY <2>1, AppendProperties
  <2>3. Len(events) \in Nat
    BY <2>1, LenProperties
  <2>4. emitted' \in 0 .. MaxRecords
    BY <1>1 DEF Push, TypeOK
  <2>5. events' \in Seq(Nat) /\ Len(events') <= Buffer
    <3>1. events' = events \/ (Len(events) < Buffer /\ events' = Append(events, emitted + 1))
      BY <1>1 DEF Push
    <3> QED BY <2>1, <2>2, <2>3, <3>1
  <2>6. trouble' \in BOOLEAN
    BY <1>1 DEF Push, TypeOK
  <2> QED BY <1>1, <2>4, <2>5, <2>6 DEF Push, TypeOK
<1>2. CASE Close
  BY <1>2 DEF Close, TypeOK
<1>3. CASE Return
  BY <1>3 DEF Return, TypeOK
<1>4. CASE OnEvent
  <2>1. CASE TakeRecord
    BY <1>4, <2>1, TakeRecordTypes DEF OnEvent, TypeOK
  <2>2. CASE Drained
    BY <1>4, <2>2, PostedRequest, EmptyRecs DEF OnEvent, Drained, TypeOK
  <2> QED BY <1>4, <2>1, <2>2 DEF OnEvent
<1>5. CASE OnTick
  <2>1. CASE TakeRecord
    BY <1>5, <2>1, TakeRecordTypes DEF OnTick, TypeOK
  <2>2. CASE Drained
    BY <1>5, <2>2, PostedRequest, EmptyRecs DEF OnTick, Drained, TypeOK
  <2>3. CASE Keepalive
    BY <1>5, <2>3, PostedRequest, EmptyRecs DEF OnTick, Keepalive, TypeOK
  <2>4. CASE UNCHANGED <<events, err, worker, req>>
    BY <1>5, <2>4 DEF OnTick, TypeOK
  <2> QED BY <1>5, <2>1, <2>2, <2>3, <2>4 DEF OnTick
<1>6. CASE Answered
  <2>1. req \in Request
    BY <1>6 DEF Answered, Aligned, TypeOK
  <2>2. expects.seq \in Number /\ expects.challenge \in Number
    BY DEF TypeOK
  <2>3. CASE StartAnswered
    BY <1>6, <2>1, <2>2, <2>3, RequestFields, PostedRequest, NumberType
       DEF Answered, StartAnswered, TypeOK
  <2>4. CASE EventsAnswered
    BY <1>6, <2>2, <2>4, NumberType DEF Answered, EventsAnswered, TypeOK
  <2>5. CASE FinalAnswered
    BY <1>6, <2>5 DEF Answered, FinalAnswered, TypeOK
  <2> QED BY <1>6, <2>3, <2>4, <2>5 DEF Answered
<1>7. CASE PostFails
  BY <1>7 DEF PostFails, GiveUp, TypeOK
<1>8. CASE TickFires
  BY <1>8 DEF TickFires, TypeOK
<1>9. CASE ServerAccepts
  <2>1. req \in Request /\ req' \in Request
    BY <1>9, StageOfRequest DEF ServerAccepts, Requested, TypeOK
  <2>2. req.recs \in Seq(Nat) /\ received \o req.recs \in Seq(Nat)
    BY <2>1, RequestFields, ConcatProperties DEF TypeOK
  <2>3. /\ (expects.seq + 1) % Wrap \in Number
        /\ (expects.challenge + 1) % Wrap \in Number
    BY NumberType DEF TypeOK
  <2>4. /\ server' \in {"none", "open", "accepted", "rejected"}
        /\ received' \in Seq(Nat)
    BY <1>9, <2>2 DEF ServerAccepts, Serve, TypeOK
  <2>5. expects' \in [seq : Number, challenge : Number]
    BY <1>9, <2>3, NumberType DEF ServerAccepts, Serve, TypeOK
  <2>6. trouble' \in BOOLEAN
    BY <1>9 DEF ServerAccepts, TypeOK
  <2> QED BY <1>9, <2>1, <2>4, <2>5, <2>6 DEF ServerAccepts, TypeOK
<1>10. CASE ServerRefuses
  BY <1>10, StageOfRequest DEF ServerRefuses, Requested, TypeOK
<1>11. CASE UNCHANGED vars
  BY <1>11 DEF vars, TypeOK
<1> QED
  BY <1>1, <1>2, <1>3, <1>4, <1>5, <1>6, <1>7, <1>8, <1>9, <1>10, <1>11 DEF Next

-----------------------------------------------------------------------------
(* A step keeps client and server aligned. *)
LEMMA StepAligned == TypeOK /\ Aligned /\ [Next]_vars => Aligned'
<1> SUFFICES ASSUME TypeOK, Aligned, [Next]_vars PROVE Aligned'
  OBVIOUS
<1> USE DEF channel, outcome, position, loop, remote, closed
<1>0. req # None => req \in Request
  BY DEF TypeOK
<1>1. CASE Push
  BY <1>1 DEF Push, Aligned, StartRequest, EventsRequest, FinalRequest
<1>2. CASE Close
  BY <1>2 DEF Close, Aligned, StartRequest, EventsRequest, FinalRequest
<1>3. CASE Return
  BY <1>3 DEF Return, Aligned, StartRequest, EventsRequest, FinalRequest
<1>4. ASSUME worker = "select", TakeRecord,
             UNCHANGED <<emitted, caller, result, position, started, remote, trouble>>
      PROVE  Aligned'
  <2>1. /\ Head(events) \in Nat /\ <<Head(events)>> \in Seq(Nat)
        /\ Len(<<Head(events)>>) = 1
    BY <1>4, QueueHead DEF TakeRecord, TypeOK
  <2>2. CASE started
    <3>1. /\ worker' = "posting" /\ req' # None
          /\ req'.kind = "events" /\ req'.stage = "sent" /\ req'.seq = seq
          /\ req'.challenge = challenge /\ req'.recs = <<Head(events)>>
      BY <1>4, <2>1, <2>2, PostedRequest DEF TakeRecord, TypeOK
    <3> QED BY <1>4, <2>1, <2>2, <3>1 DEF Aligned, EventsRequest
  <2>3. CASE ~ started /\ Head(events) = 1
    <3>1. /\ worker' = "posting" /\ req' # None
          /\ req'.kind = "start" /\ req'.stage = "sent" /\ req'.recs = <<Head(events)>>
      BY <1>4, <2>1, <2>3, PostedRequest, NumberType DEF TakeRecord
    <3> QED BY <1>4, <2>1, <2>3, <3>1 DEF Aligned, StartRequest
  <2>4. CASE ~ started /\ Head(events) # 1
    BY <1>4, <2>4 DEF TakeRecord, Aligned
  <2> QED BY <2>2, <2>3, <2>4
<1>5. ASSUME worker = "select", Drained,
             UNCHANGED <<emitted, caller, result, position, started, remote, trouble>>
      PROVE  Aligned'
  <2>1. CASE started
    <3>1. /\ worker' = "posting" /\ req' # None
          /\ req'.kind = "finalize" /\ req'.stage = "sent"
          /\ req'.challenge = challenge /\ req'.recs = <<>>
      BY <1>5, <2>1, PostedRequest, EmptyRecs DEF Drained, TypeOK
    <3> QED BY <1>5, <2>1, <3>1 DEF Drained, Aligned, FinalRequest
  <2>2. CASE ~ started
    BY <1>5, <2>2 DEF Drained, Aligned
  <2> QED BY <2>1, <2>2
<1>6. CASE OnEvent
  BY <1>4, <1>5, <1>6 DEF OnEvent
<1>7. CASE OnTick
  <2>1. CASE started /\ Keepalive
    <3>1. /\ worker' = "posting" /\ req' # None
          /\ req'.kind = "events" /\ req'.stage = "sent" /\ req'.seq = seq
          /\ req'.challenge = challenge /\ req'.recs = <<>>
      BY <1>7, <2>1, PostedRequest, EmptyRecs DEF Keepalive, TypeOK
    <3> QED BY <1>7, <2>1, <3>1, EmptyRecs DEF OnTick, Aligned, EventsRequest
  <2>2. CASE UNCHANGED <<events, err, worker, req>>
    BY <1>7, <2>2 DEF OnTick, Aligned, StartRequest, EventsRequest, FinalRequest
  <2> QED BY <1>4, <1>5, <1>7, <2>1, <2>2 DEF OnTick
<1>8. CASE Answered
  <2>1. req # None /\ req \in Request
    BY <1>8 DEF Answered, Aligned, TypeOK
  <2>2. CASE StartAnswered
    <3>1. StartRequest /\ server = "open" /\ expects.challenge = 1 /\ expects.seq = 1
      BY <1>8, <2>1, <2>2 DEF Answered, StartAnswered, Aligned, StartRequest
    <3>2. /\ worker' = "posting" /\ req' # None
          /\ req'.kind = "events" /\ req'.stage = "sent" /\ req'.seq = 1
          /\ req'.challenge = 1 /\ req'.recs = req.recs
      BY <2>1, <2>2, <3>1, PostedRequest, RequestFields, NumberType DEF StartAnswered
    <3>3. Len(req.recs) = 1 /\ expects = [seq |-> 1, challenge |-> 1]
      BY <1>8, <2>1, <2>2 DEF Answered, StartAnswered, Aligned, StartRequest
    <3>4. /\ started' /\ seq' = 1 /\ server' = server /\ expects' = expects
      BY <1>8, <2>2 DEF Answered, StartAnswered
    <3>5. EventsRequest'
      BY <3>1, <3>2, <3>3, <3>4 DEF EventsRequest
    <3> QED BY <3>2, <3>4, <3>5 DEF Aligned
  <2>3. CASE EventsAnswered
    <3>1. started /\ server = "open" /\ expects.seq = (seq + 1) % Wrap
      BY <1>8, <2>1, <2>3 DEF Answered, EventsAnswered, Aligned, EventsRequest
    <3>2. expects = [seq |-> expects.seq, challenge |-> expects.challenge]
      BY DEF TypeOK
    <3> QED BY <1>8, <2>3, <3>1, <3>2 DEF Answered, EventsAnswered, Aligned
  <2>4. CASE FinalAnswered
    BY <1>8, <2>1, <2>4 DEF Answered, FinalAnswered, Aligned, FinalRequest
  <2> QED BY <1>8, <2>2, <2>3, <2>4 DEF Answered
<1>9. CASE PostFails
  BY <1>9 DEF PostFails, GiveUp, Aligned, StartRequest, EventsRequest, FinalRequest
<1>10. CASE TickFires
  BY <1>10 DEF TickFires, Aligned, StartRequest, EventsRequest, FinalRequest
<1>11. ASSUME Requested, NEW st \in {"applied", "refused"},
              req' = [req EXCEPT !.stage = st]
       PROVE  /\ req \in Request /\ req # None /\ req' # None
              /\ req'.stage = st /\ req'.kind = req.kind /\ req'.seq = req.seq
              /\ req'.challenge = req.challenge /\ req'.recs = req.recs
  <2>1. req \in Request /\ st \in {"sent", "applied", "refused"}
    BY <1>0, <1>11 DEF Requested
  <2> QED BY <1>11, <2>1, StageOfRequest
<1>12. CASE ServerAccepts
  <2>1. /\ req \in Request /\ req # None /\ req' # None
        /\ req'.stage = "applied" /\ req'.kind = req.kind /\ req'.seq = req.seq
        /\ req'.challenge = req.challenge /\ req'.recs = req.recs
    BY <1>11, <1>12 DEF ServerAccepts
  <2>2. CASE req.kind = "start"
    BY <1>12, <2>1, <2>2
       DEF ServerAccepts, Requested, Serve, Aligned, StartRequest
  <2>3. CASE req.kind = "events"
    BY <1>12, <2>1, <2>3
       DEF ServerAccepts, Requested, Serve, Aligned, EventsRequest
  <2>4. CASE req.kind = "finalize"
    BY <1>12, <2>1, <2>4
       DEF ServerAccepts, Requested, Serve, Aligned, FinalRequest
  <2> QED BY <2>1, <2>2, <2>3, <2>4, RequestFields
<1>13. CASE ServerRefuses
  <2>1. /\ req \in Request /\ req # None /\ req' # None
        /\ req'.stage = "refused" /\ req'.kind = req.kind /\ req'.seq = req.seq
        /\ req'.challenge = req.challenge /\ req'.recs = req.recs
    BY <1>11, <1>13 DEF ServerRefuses
  <2>2. Acceptable
    BY <1>13, <2>1, RequestFields
       DEF ServerRefuses, Requested, Acceptable, Aligned, StartRequest, EventsRequest,
           FinalRequest
  <2> QED BY <1>13, <2>1, <2>2
          DEF ServerRefuses, Requested, Aligned, StartRequest, EventsRequest, FinalRequest
<1>14. CASE UNCHANGED vars
  BY <1>14 DEF vars, Aligned, StartRequest, EventsRequest, FinalRequest
<1> QED
  BY <1>1, <1>2, <1>3, <1>6, <1>7, <1>8, <1>9, <1>10, <1>12, <1>13, <1>14 DEF Next

-----------------------------------------------------------------------------
(* A step moves records along the stream, or loses one and reports it. *)

LEMMA ErrorStays == [Next]_vars => err' = err \/ err = None
<1> SUFFICES ASSUME [Next]_vars PROVE err' = err \/ err = None
  OBVIOUS
<1>1. ASSUME NEW e, SetErr(e) PROVE err' = err \/ err = None
  BY <1>1 DEF SetErr
<1>2. err' = err \/ \E e : SetErr(e)
  BY DEF Next, vars, Push, Close, Return, OnEvent, OnTick, TakeRecord, Drained, Keepalive,
         Answered, StartAnswered, EventsAnswered, FinalAnswered, PostFails, GiveUp,
         TickFires, ServerAccepts, ServerRefuses, outcome
<1> QED BY <1>1, <1>2

LEMMA StreamTypes ==
  ASSUME TypeOK
  PROVE  /\ emitted \in Nat /\ events \in Seq(Nat) /\ received \in Seq(Nat)
         /\ InHand \in Seq(Nat) /\ received \o InHand \in Seq(Nat)
         /\ Stream \in Seq(Nat)
<1>1. emitted \in Nat /\ events \in Seq(Nat) /\ received \in Seq(Nat)
  BY DEF TypeOK
<1>2. req # None => req.recs \in Seq(Nat)
  BY RequestFields DEF TypeOK
<1>3. InHand \in Seq(Nat)
  BY <1>2, EmptyRecs DEF InHand
<1>4. received \o InHand \in Seq(Nat)
  BY <1>1, <1>3, ConcatProperties
<1> QED BY <1>1, <1>3, <1>4, ConcatProperties DEF Stream

(* Nothing is received before the worker has started. *)
LEMMA StepUnstarted ==
  TypeOK /\ Aligned /\ [Next]_vars /\ (~ started => received = <<>>)
    => (~ started' => received' = <<>>)
<1> SUFFICES ASSUME TypeOK, Aligned, [Next]_vars, ~ started => received = <<>>, ~ started'
             PROVE  received' = <<>>
  OBVIOUS
<1>1. CASE ServerAccepts
  <2>1. req # None /\ ~ started /\ (req.kind = "events" => started)
    BY <1>1 DEF ServerAccepts, Requested, Aligned, EventsRequest
  <2> QED BY <1>1, <2>1 DEF ServerAccepts, Serve
<1>2. CASE ~ ServerAccepts
  <2>1. received' = received
    BY <1>2 DEF Next, vars, Push, Close, Return, OnEvent, OnTick, Answered, PostFails,
       TickFires, ServerRefuses, remote
  <2>2. started' = started \/ started' = TRUE
    BY <1>2 DEF Next, vars, Push, Close, Return, OnEvent, OnTick, Answered, StartAnswered,
       EventsAnswered, FinalAnswered, PostFails, TickFires, ServerRefuses, loop
  <2> QED BY <2>1, <2>2
<1> QED BY <1>1, <1>2

(* What the worker takes off the queue is in its hand, or, in a recording  *)
(* that has lost its first record already, gone.                           *)
LEMMA StreamTaken ==
  ASSUME TypeOK, Aligned, Streaming, worker = "select", TakeRecord, received' = received
  PROVE  \/ Stream' = Stream
         \/ err # None /\ Stream # <<>> /\ Stream' = Tail(Stream)
<1>1. /\ events \in Seq(Nat) /\ events # <<>> /\ received \in Seq(Nat)
      /\ Head(events) \in Nat /\ Tail(events) \in Seq(Nat) /\ <<Head(events)>> \in Seq(Nat)
  BY QueueHead, StreamTypes DEF TakeRecord
<1>2. req = None /\ Stream = (received \o <<>>) \o events
  BY DEF Aligned, Stream, InHand
<1>3. CASE started \/ Head(events) = 1
  <2>1. req' # None /\ req'.stage = "sent" /\ req'.recs = <<Head(events)>>
    BY <1>1, <1>3, PostedRequest, NumberType DEF TakeRecord, TypeOK
  <2>2. InHand' = <<Head(events)>> /\ events' = Tail(events)
    BY <2>1 DEF InHand, TakeRecord
  <2> QED BY <1>1, <1>2, <2>2, TakenFromQueue DEF Stream
<1>4. CASE ~ started /\ Head(events) # 1
  <2>1. InHand' = <<>> /\ events' = Tail(events)
    BY <1>2, <1>4 DEF InHand, TakeRecord
  <2>2. received = <<>> /\ <<>> \in Seq(Nat)
    BY <1>4, EmptyRecs DEF Streaming
  <2>3. Stream = events /\ Stream' = Tail(events)
    BY <1>1, <1>2, <2>1, <2>2, ConcatEmptySeq DEF Stream
  <2>4. ASSUME err = None PROVE FALSE
    <3>1. events = Numbers(emitted) /\ emitted \in Nat
      BY <2>3, <2>4, StreamTypes DEF Streaming
    <3>2. Len(events) = emitted /\ \A i \in 1 .. emitted : events[i] = i
      BY <3>1, NumbersType
    <3>3. emitted # 0
      BY <1>1, <3>2, EmptySeq
    <3>4. Head(events) = events[1]
      BY <1>1
    <3> QED BY <1>4, <3>1, <3>2, <3>3, <3>4
  <2> QED BY <1>1, <2>3, <2>4
<1> QED BY <1>3, <1>4

LEMMA StepStreaming == TypeOK /\ Aligned /\ Streaming /\ [Next]_vars => Streaming'
<1> SUFFICES ASSUME TypeOK, Aligned, Streaming, [Next]_vars PROVE Streaming'
  OBVIOUS
<1> USE DEF channel, outcome, position, loop, remote
<1>1. /\ emitted \in Nat /\ events \in Seq(Nat) /\ received \in Seq(Nat)
      /\ InHand \in Seq(Nat) /\ received \o InHand \in Seq(Nat)
      /\ Stream \in Seq(Nat) /\ <<>> \in Seq(Nat)
  BY StreamTypes, EmptyRecs
<1>2. err' = err \/ err = None
  BY ErrorStays
<1>3. ~ started' => received' = <<>>
  BY StepUnstarted DEF Streaming
<1>4. ASSUME Stream' = Stream, emitted' = emitted PROVE Streaming'
  BY <1>2, <1>3, <1>4 DEF Streaming
<1>5. CASE Push
  <2>1. emitted' = emitted + 1 /\ received' = received /\ InHand' = InHand
    BY <1>5 DEF Push, InHand
  <2>2. CASE events' = Append(events, emitted + 1)
    <3>1. Stream' = Append(Stream, emitted + 1)
      BY <1>1, <2>1, <2>2, AppendToStream DEF Stream
    <3>2. Ordered(Stream', emitted')
      BY <1>1, <2>1, <3>1, OrderedAppend DEF Streaming
    <3>3. err' = None => Stream' = Numbers(emitted')
      BY <1>1, <1>2, <2>1, <3>1, NumbersGrow DEF Streaming
    <3> QED BY <1>3, <3>2, <3>3 DEF Streaming
  <2>3. CASE events' = events /\ SetErr("full")
    <3>1. Stream' = Stream
      BY <2>1, <2>3 DEF Stream
    <3>2. Ordered(Stream', emitted')
      BY <1>1, <2>1, <3>1, OrderedAppend DEF Streaming
    <3>3. "full" \in Errors
      BY DEF Errors
    <3>4. err' # None
      BY <2>3, <3>3, SetErrSets
    <3> QED BY <1>3, <3>2, <3>4 DEF Streaming
  <2> QED BY <1>5, <2>2, <2>3 DEF Push
<1>6. ASSUME worker = "select", TakeRecord, received' = received, emitted' = emitted
      PROVE  Streaming'
  <2>1. CASE Stream' = Stream
    BY <1>4, <1>6, <2>1
  <2>2. CASE err # None /\ Stream # <<>> /\ Stream' = Tail(Stream)
    <3>1. Ordered(Stream', emitted')
      BY <1>1, <1>6, <2>2, OrderedTail DEF Streaming
    <3> QED BY <1>2, <1>3, <2>2, <3>1 DEF Streaming
  <2> QED BY <1>6, <2>1, <2>2, StreamTaken
<1>7. ASSUME worker = "select", Drained \/ Keepalive, received' = received
      PROVE  Stream' = Stream
  <2>1. req = None /\ InHand = <<>> /\ events' = events
    BY <1>7 DEF Aligned, InHand, Drained, Keepalive
  <2>2. InHand' = <<>>
    <3>1. CASE req' = req
      BY <2>1, <3>1 DEF InHand
    <3>2. CASE Post("finalize", seq, challenge, <<>>) \/ Post("events", seq, challenge, <<>>)
      <4>1. req'.recs = <<>>
        BY <3>2, <1>1, PostedRequest DEF TypeOK
      <4> QED BY <4>1 DEF InHand
    <3> QED BY <1>7, <3>1, <3>2 DEF Drained, Keepalive
  <2> QED BY <1>7, <2>1, <2>2 DEF Stream
<1>8. CASE OnEvent
  <2>1. worker = "select" /\ received' = received /\ emitted' = emitted
    BY <1>8 DEF OnEvent
  <2> QED BY <1>4, <1>6, <1>7, <1>8, <2>1 DEF OnEvent
<1>9. CASE OnTick
  <2>1. worker = "select" /\ received' = received /\ emitted' = emitted
    BY <1>9 DEF OnTick
  <2>2. CASE UNCHANGED <<events, err, worker, req>>
    <3>1. Stream' = Stream
      BY <2>1, <2>2 DEF Stream, InHand
    <3> QED BY <1>4, <2>1, <3>1
  <2> QED BY <1>4, <1>6, <1>7, <1>9, <2>1, <2>2 DEF OnTick
<1>10. CASE Answered
  <2>1. /\ req # None /\ req \in Request /\ req.stage = "applied"
        /\ received' = received /\ events' = events /\ emitted' = emitted
    BY <1>10 DEF Answered, Aligned, TypeOK
  <2>2. CASE StartAnswered
    <3>1. req' # None /\ req'.stage = "sent" /\ req'.recs = req.recs
      <4>1. req.recs \in Seq(Nat) /\ expects.challenge \in Number
        BY <2>1, RequestFields DEF TypeOK
      <4> QED BY <2>2, <4>1, PostedRequest, NumberType DEF StartAnswered
    <3>2. InHand' = InHand
      BY <2>1, <2>2, <3>1 DEF InHand, StartAnswered
    <3> QED BY <1>4, <2>1, <3>2 DEF Stream
  <2>3. CASE EventsAnswered \/ FinalAnswered
    <3>1. InHand = <<>> /\ InHand' = <<>>
      BY <2>1, <2>3 DEF InHand, EventsAnswered, FinalAnswered
    <3> QED BY <1>4, <2>1, <3>1 DEF Stream
  <2> QED BY <1>10, <2>2, <2>3 DEF Answered
<1>11. CASE ServerAccepts
  <2>1. /\ req # None /\ req \in Request /\ req.stage = "sent"
        /\ events' = events /\ emitted' = emitted
    BY <1>11 DEF ServerAccepts, Requested, TypeOK
  <2>2. req' # None /\ req'.stage = "applied" /\ req'.kind = req.kind /\ req'.recs = req.recs
    BY <1>11, <2>1, StageOfRequest DEF ServerAccepts
  <2>3. CASE req.kind = "start"
    <3>1. InHand' = InHand /\ received' = received
      BY <1>11, <2>1, <2>2, <2>3 DEF InHand, ServerAccepts, Serve
    <3> QED BY <1>4, <2>1, <3>1 DEF Stream
  <2>4. CASE req.kind = "events"
    <3>1. InHand = req.recs /\ InHand' = <<>> /\ received' = received \o InHand
      BY <1>11, <2>1, <2>2, <2>4 DEF InHand, ServerAccepts, Serve
    <3>2. received' \o <<>> = received \o InHand
      BY <1>1, <3>1, ConcatEmptySeq
    <3>3. Stream' = Stream
      BY <2>1, <3>1, <3>2 DEF Stream
    <3> QED BY <1>4, <2>1, <3>3
  <2>5. CASE req.kind = "finalize"
    <3>1. InHand = <<>> /\ InHand' = <<>> /\ received' = received
      BY <1>11, <2>1, <2>2, <2>5 DEF InHand, ServerAccepts, Serve, Aligned, FinalRequest
    <3> QED BY <1>4, <2>1, <3>1 DEF Stream
  <2> QED BY <2>1, <2>3, <2>4, <2>5, RequestFields
<1>12. CASE ServerRefuses
  <2>1. /\ req # None /\ req \in Request /\ req.stage = "sent"
        /\ events' = events /\ emitted' = emitted /\ received' = received
    BY <1>12 DEF ServerRefuses, Requested, TypeOK
  <2>2. req' # None /\ req'.stage = "refused" /\ req'.kind = req.kind /\ req'.recs = req.recs
    BY <1>12, <2>1, StageOfRequest DEF ServerRefuses
  <2>3. InHand' = InHand
    BY <2>1, <2>2 DEF InHand
  <2> QED BY <1>4, <2>1, <2>3 DEF Stream
<1>13. CASE Close \/ Return \/ PostFails \/ TickFires \/ UNCHANGED vars
  <2>1. UNCHANGED <<emitted, events, received, req>>
    BY <1>13 DEF Close, Return, PostFails, TickFires, vars
  <2>2. Stream' = Stream
    BY <2>1 DEF Stream, InHand
  <2> QED BY <1>4, <2>1, <2>2
<1> QED
  BY <1>5, <1>8, <1>9, <1>10, <1>11, <1>12, <1>13 DEF Next

-----------------------------------------------------------------------------
(* A step keeps the meaning of the worker's end and of an error. *)

(* What no step undoes. *)
LEMMA StepKeeps ==
  ASSUME TypeOK, [Next]_vars
  PROVE  /\ trouble => trouble'
         /\ worker = "stopped" => worker' = "stopped"
         /\ caller = "returned" => caller' = "returned"
         /\ closed => closed' /\ emitted' = emitted
<1> USE DEF channel, outcome, position, loop, remote
<1>1. trouble => trouble'
  BY DEF Next, vars, Push, Close, Return, OnEvent, OnTick, Answered, PostFails, TickFires,
         ServerAccepts, ServerRefuses, TypeOK
<1>2. worker = "stopped" => worker' = "stopped"
  BY DEF Next, vars, Push, Close, Return, OnEvent, OnTick, Answered, PostFails, GiveUp,
         TickFires, ServerAccepts, ServerRefuses
<1>3. /\ caller = "returned" => caller' = "returned"
      /\ closed => closed' /\ emitted' = emitted
  BY DEF Next, vars, Push, Close, Return, OnEvent, OnTick, Answered, PostFails, TickFires,
         ServerAccepts, ServerRefuses, closed
<1> QED BY <1>1, <1>2, <1>3

(* The worker that finds the recording closed and nothing sent. *)
LEMMA NeverStarted ==
  ASSUME TypeOK, Aligned, Streaming, worker = "select", Drained, ~ started, err = None
  PROVE  emitted = 0 /\ closed
<1>1. /\ received = <<>> /\ events = <<>> /\ req = None
  BY DEF Drained, Aligned, Streaming
<1>2. Stream = <<>>
  BY <1>1, EmptyRecs, ConcatEmptySeq DEF Stream, InHand
<1>3. Numbers(emitted) = <<>> /\ emitted \in Nat
  BY <1>2, StreamTypes DEF Streaming
<1> QED BY <1>3, NumbersType, EmptyRecs DEF Drained

LEMMA StepEnding ==
  TypeOK /\ Aligned /\ Streaming /\ Ending /\ [Next]_vars => Ending'
<1> SUFFICES ASSUME TypeOK, Aligned, Streaming, Ending, [Next]_vars PROVE Ending'
  OBVIOUS
<1> USE DEF channel, outcome, position, loop, remote
<1>1. /\ trouble => trouble'
      /\ worker = "stopped" => worker' = "stopped"
      /\ closed => closed' /\ emitted' = emitted
  BY StepKeeps
<1>2. err' = err \/ err = None
  BY ErrorStays
<1>3. caller' = "returned" => worker' = "stopped"
  BY <1>1 DEF Ending, Next, vars, Push, Close, Return, OnEvent, OnTick, Answered, PostFails,
     TickFires, ServerAccepts, ServerRefuses
<1>4. ASSUME worker = "stopped", err' = None
      PROVE  result' /\ closed' /\ server' = "accepted" /\ events' = <<>> /\ req' = None
  <2>1. /\ result /\ closed /\ server = "accepted" /\ events = <<>> /\ req = None
    BY <1>2, <1>4 DEF Ending
  <2>2. UNCHANGED <<result, server, events, req>>
    BY <1>4, <2>1 DEF Next, vars, Push, Close, Return, OnEvent, OnTick, Answered, PostFails,
       TickFires, ServerAccepts, ServerRefuses, Requested, closed
  <2> QED BY <1>1, <2>1, <2>2
<1>5. ASSUME worker # "stopped", worker' = "stopped"
      PROVE  \/ worker = "select" /\ Drained /\ ~ started /\ SetErr("never started")
             \/ Answered /\ FinalAnswered
             \/ PostFails
  <2>1. OnEvent \/ OnTick \/ Answered \/ PostFails
    BY <1>5 DEF Next, vars, Push, Close, Return, TickFires, ServerAccepts, ServerRefuses
  <2>2. CASE OnEvent \/ OnTick
    BY <1>5, <2>2 DEF OnEvent, OnTick, TakeRecord, Drained, Keepalive, Post
  <2>3. CASE Answered
    BY <1>5, <2>3 DEF Answered, StartAnswered, EventsAnswered, Post
  <2> QED BY <2>1, <2>2, <2>3
<1>6. \A e \in {"full", "never started", "post", "not accepted"} : SetErr(e) => err' # None
  BY SetErrSets DEF Errors
<1>7. ASSUME Answered, FinalAnswered
      PROVE  /\ closed /\ events = <<>>
             /\ server = "accepted" \/ (server = "rejected" /\ trouble)
  BY <1>7 DEF Answered, FinalAnswered, Aligned, FinalRequest
<1>8. ASSUME worker # "stopped", worker' = "stopped", err' = None
      PROVE  result' /\ closed' /\ server' = "accepted" /\ events' = <<>> /\ req' = None
  <2>1. Answered /\ FinalAnswered
    BY <1>5, <1>6, <1>8 DEF PostFails, GiveUp
  <2>2. server = "accepted" /\ result'
    BY <1>6, <1>8, <2>1 DEF FinalAnswered
  <2>3. UNCHANGED <<caller, server, events>> /\ req' = None
    BY <2>1 DEF Answered, FinalAnswered
  <2> QED BY <1>7, <2>1, <2>2, <2>3 DEF closed
<1>9. ASSUME err # None, err' # None PROVE trouble' \/ (emitted' = 0 /\ closed')
  BY <1>1, <1>9 DEF Ending
<1>10. ASSUME err = None, err' # None PROVE trouble' \/ (emitted' = 0 /\ closed')
  <2>1. Push \/ OnEvent \/ OnTick \/ Answered \/ PostFails
    BY <1>10 DEF Next, vars, Close, Return, TickFires, ServerAccepts, ServerRefuses
  <2>2. CASE Push
    BY <1>10, <2>2 DEF Push
  <2>3. CASE OnEvent \/ OnTick
    <3>1. worker = "select" /\ Drained /\ ~ started
      BY <1>10, <2>3 DEF OnEvent, OnTick, TakeRecord, Drained, Keepalive
    <3> QED BY <1>1, <1>10, <3>1, NeverStarted
  <2>4. CASE Answered
    <3>1. FinalAnswered /\ server # "accepted"
      BY <1>10, <2>4 DEF Answered, StartAnswered, EventsAnswered, FinalAnswered
    <3> QED BY <1>1, <1>7, <2>4, <3>1
  <2>5. CASE PostFails
    <3>1. req # None /\ (req.stage = "refused" => trouble)
      BY <2>5 DEF PostFails, Aligned
    <3> QED BY <2>5, <3>1 DEF PostFails
  <2> QED BY <2>1, <2>2, <2>3, <2>4, <2>5
<1> QED BY <1>3, <1>4, <1>8, <1>9, <1>10 DEF Ending

-----------------------------------------------------------------------------
(* The inductive invariant holds: an upload never loses its place, loses a *)
(* record only with an error, and ends without one only when all is done.  *)
THEOREM InvariantHolds == Spec => []IInv
<1>1. Init => IInv
  <2> SUFFICES ASSUME Init PROVE IInv
    OBVIOUS
  <2>1. TypeOK
    BY InitTypes
  <2>2. Aligned
    BY DEF Init, Aligned
  <2>3. Stream = <<>> /\ Numbers(0) = <<>>
    BY EmptyRecs, ConcatEmptySeq, NumbersType, EmptySeq DEF Init, Stream, InHand
  <2>4. Ordered(<<>>, 0)
    BY EmptyRecs DEF Ordered
  <2>5. Streaming
    BY <2>3, <2>4 DEF Init, Streaming
  <2>6. Ending
    BY DEF Init, Ending
  <2> QED BY <2>1, <2>2, <2>5, <2>6 DEF IInv
<1>2. IInv /\ [Next]_vars => IInv'
  BY StepTypes, StepAligned, StepStreaming, StepEnding DEF IInv
<1> QED BY <1>1, <1>2, PTL DEF Spec

(* Type correctness of the upload. *)
THEOREM TypesHold == Spec => []TypeOK
<1>1. IInv => TypeOK
  BY DEF IInv
<1> QED BY <1>1, InvariantHolds, PTL

(* No request, a keepalive or one under way when the worker gives up       *)
(* included, has a number or challenge the server would have to refuse.    *)
THEOREM ClientKeepsInStep == Spec => []InStep
<1>1. IInv => InStep
  <2> SUFFICES ASSUME TypeOK, Aligned, Requested PROVE Acceptable
    BY DEF IInv, InStep
  <2>1. req \in Request /\ req # None /\ req.stage = "sent"
    BY DEF Requested, TypeOK
  <2> QED BY <2>1, RequestFields
          DEF Acceptable, Aligned, StartRequest, EventsRequest, FinalRequest
<1> QED BY <1>1, InvariantHolds, PTL

(* When Close returns no error the upload has its result and the server    *)
(* every record in order; and it does return none if nothing went wrong.   *)
LEMMA QuietEnd ==
  ASSUME IInv, worker = "stopped", err = None
  PROVE  result /\ closed /\ server = "accepted" /\ received = Numbers(emitted)
<1>1. result /\ closed /\ server = "accepted" /\ events = <<>> /\ req = None
  BY DEF IInv, Ending
<1>2. Stream = received
  BY <1>1, StreamTypes, ConcatEmptySeq DEF IInv, Stream, InHand
<1> QED BY <1>1, <1>2 DEF IInv, Streaming

THEOREM VerdictHolds == Spec => []VerdictIsRight
<1>1. IInv => VerdictIsRight
  <2> SUFFICES ASSUME IInv, caller = "returned"
               PROVE  /\ err = None => result /\ received = Numbers(emitted)
                      /\ (emitted > 0 /\ ~ trouble) => err = None
    BY DEF VerdictIsRight, Numbers
  <2>1. worker = "stopped"
    BY DEF IInv, Ending
  <2>2. emitted > 0 => emitted # 0
    BY StreamTypes DEF IInv
  <2> QED BY <2>1, <2>2, QuietEnd DEF IInv, Ending
<1> QED BY <1>1, InvariantHolds, PTL

-----------------------------------------------------------------------------
(* Refinement *)

(* What the recorder was told does not change. *)
LEMMA ToldOnce ==
  ASSUME IInv, [Next]_vars, caller' = caller
  PROVE  UNCHANGED (IF caller # "returned" THEN "nothing"
                    ELSE IF err = None THEN "shared" ELSE "not shared")
<1>1. CASE caller = "returned"
  <2>1. worker = "stopped"
    BY <1>1 DEF IInv, Ending
  <2>2. err' = err
    BY <1>1, <2>1 DEF Next, vars, Push, Close, Return, OnEvent, OnTick, Answered, PostFails,
       TickFires, ServerAccepts, ServerRefuses, outcome
  <2> QED BY <2>2
<1> QED BY <1>1

(* The server takes a record: it is the next of the stream. *)
LEMMA RecordArrives ==
  ASSUME IInv, ServerAccepts, req.kind = "events", req.recs # <<>>
  PROVE  \E r \in 1 .. emitted :
           /\ \A i \in DOMAIN received : received[i] < r
           /\ received' = Append(received, r)
<1>1. req \in Request /\ req # None /\ req.stage = "sent" /\ Len(req.recs) <= 1
  BY DEF IInv, ServerAccepts, Requested, TypeOK, Aligned, EventsRequest
<1>2. req.recs \in Seq(Nat)
  BY <1>1, RequestFields
<1> DEFINE r == req.recs[1]
<1>3. req.recs = <<r>> /\ r \in Nat
  BY <1>1, <1>2, EmptySeq
<1>4. /\ emitted \in Nat /\ received \in Seq(Nat) /\ events \in Seq(Nat)
      /\ DOMAIN received = 1 .. Len(received)
  BY StreamTypes, LenProperties DEF IInv
<1>5. InHand = <<r>>
  BY <1>1, <1>3 DEF InHand
<1> HIDE DEF r
<1>6. Ordered((received \o <<r>>) \o events, emitted)
  BY <1>5 DEF IInv, Streaming, Stream
<1>7. r \in 1 .. emitted /\ \A i \in 1 .. Len(received) : received[i] < r
  BY <1>3, <1>4, <1>6, OrderedNext
<1>8. received' = received \o <<r>>
  BY <1>3 DEF ServerAccepts, Serve
<1>9. received' = Append(received, r)
  BY <1>3, <1>4, <1>8, AppendIsConcat
<1> QED BY <1>4, <1>7, <1>9

(* The upload as the recorder and the server see it is SharedRecording:    *)
(* the server's copy grows in the order of the recording, is sealed after  *)
(* its end, and is whole and sealed if the recorder is told it was shared. *)
THEOREM LiveRecordingRefinesSharing == Spec => ImplementsSharing
<1>1. Init => Sharing!Init
  BY DEF Init, Sharing!Init, closed
<1>2. IInv /\ [Next]_vars => [Sharing!Next]_(Sharing!vars)
  <2> SUFFICES ASSUME IInv, [Next]_vars PROVE [Sharing!Next]_(Sharing!vars)
    OBVIOUS
  <2> USE DEF channel, outcome, position, loop, remote
  <2>1. ASSUME UNCHANGED <<emitted, caller, received, server>>
        PROVE  UNCHANGED Sharing!vars
    BY <2>1, ToldOnce DEF Sharing!vars, closed
  <2>2. CASE Push
    <3>1. /\ caller = "recording" /\ emitted' = emitted + 1
          /\ UNCHANGED <<caller, received, server>>
      BY <2>2 DEF Push
    <3> QED BY <3>1 DEF Sharing!Next, Sharing!Emit, closed
  <2>3. CASE Close
    <3>1. /\ caller = "recording" /\ caller' = "closing"
          /\ UNCHANGED <<emitted, received, server>>
      BY <2>3 DEF Close
    <3> QED BY <3>1 DEF Sharing!Next, Sharing!End, closed
  <2>4. CASE Return
    <3>1. /\ caller = "closing" /\ caller' = "returned" /\ worker = "stopped"
          /\ UNCHANGED <<emitted, received, server, err>>
      BY <2>4 DEF Return
    <3>2. CASE err = None
      BY <3>1, <3>2, QuietEnd DEF Sharing!Next, Sharing!Tell, Sharing!Whole, closed, Numbers
    <3>3. CASE err # None
      BY <3>1, <3>3 DEF Sharing!Next, Sharing!Tell, closed
    <3> QED BY <3>2, <3>3
  <2>5. CASE ServerAccepts
    <3>1. /\ UNCHANGED <<emitted, caller>>
          /\ req \in Request
      BY <2>5 DEF ServerAccepts, Requested, IInv, TypeOK
    <3>2. CASE req.kind = "start"
      <4>1. server = "none" /\ server' = "open" /\ received' = received
        BY <2>5, <3>2 DEF ServerAccepts, Acceptable, Serve
      <4> QED BY <3>1, <4>1, ToldOnce DEF Sharing!vars, closed
    <3>3. CASE req.kind = "events" /\ req.recs = <<>>
      <4>1. server' = server /\ received' = received
        BY <2>5, <3>3, StreamTypes, ConcatEmptySeq DEF ServerAccepts, Serve, IInv
      <4> QED BY <2>1, <3>1, <4>1
    <3>4. CASE req.kind = "events" /\ req.recs # <<>>
      <4>1. server = "open" /\ server' = server
        BY <2>5, <3>4 DEF ServerAccepts, Acceptable, Serve
      <4>2. PICK r \in 1 .. emitted :
              /\ \A i \in DOMAIN received : received[i] < r
              /\ received' = Append(received, r)
        BY <2>5, <3>4, RecordArrives
      <4>3. Sharing!Add(r)
        BY <3>1, <4>1, <4>2, ToldOnce DEF Sharing!Add, closed
      <4> QED BY <4>3 DEF Sharing!Next
    <3>5. CASE req.kind = "finalize"
      <4>1. server = "open" /\ server' \in {"accepted", "rejected"} /\ received' = received
        BY <2>5, <3>5 DEF ServerAccepts, Acceptable, Serve
      <4>2. closed
        BY <2>5, <3>5 DEF ServerAccepts, Requested, IInv, Aligned, FinalRequest
      <4>3. CASE server' = "rejected"
        BY <3>1, <4>1, <4>3, ToldOnce DEF Sharing!vars, closed
      <4>4. CASE server' = "accepted"
        BY <3>1, <4>1, <4>2, <4>4, ToldOnce DEF Sharing!Next, Sharing!Seal, closed
      <4> QED BY <4>1, <4>3, <4>4
    <3> QED BY <3>1, <3>2, <3>3, <3>4, <3>5, RequestFields
  <2>6. CASE ~ (Push \/ Close \/ Return \/ ServerAccepts)
    <3>1. UNCHANGED <<emitted, caller, received, server>>
      BY <2>6 DEF Next, vars, OnEvent, OnTick, Answered, PostFails, TickFires, ServerRefuses
    <3> QED BY <2>1, <3>1
  <2> QED BY <2>2, <2>3, <2>4, <2>5, <2>6
<1> QED BY <1>1, <1>2, InvariantHolds, PTL DEF Spec, ImplementsSharing, Sharing!Spec
=============================================================================
