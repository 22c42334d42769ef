--------------------------- MODULE LiveRecording ---------------------------
(***************************************************************************)
(* internal/submit/verified.go: the upload of a recording while it runs.   *)
(*                                                                         *)
(* Three parties.  The recorder pushes each record it emits and closes the *)
(* upload in the end; it must never wait before that.  The worker (run) is *)
(* a goroutine that takes records off a bounded channel and posts them one *)
(* by one, with a keepalive when there is none.  The server (external: it  *)
(* is modelled by what the client sends and expects back) answers each     *)
(* request with the challenge the next one must carry.                     *)
(*                                                                         *)
(* A record is its position in the recording, 1 being session_start.       *)
(* Signatures cover the request and are left out.  A post can fail before  *)
(* or after the server has acted on it, and the server may still act on    *)
(* one the client has given up.                                            *)
(***************************************************************************)
EXTENDS Integers, Sequences

CONSTANTS
  Buffer,       (* capacity of l.events, 512 in the code                   *)
  MaxRecords,   (* BOUND: records in a recording                           *)
  Wrap,         (* BOUND: sequence numbers and challenges are taken modulo
                   this (at most one request is ever under way)            *)
  None

Errors == {"full", "never started", "post", "not accepted"}
Number == 0 .. Wrap - 1

(* What the worker posts.  `recs` are the records in hand: for a start     *)
(* request the one to be sent next.                                        *)
Request ==
  [kind : {"start", "events", "finalize"}, seq : Number, challenge : Number,
   recs : Seq(Nat), stage : {"sent", "applied", "refused"}]

ASSUME LiveRecordingAssumption ==
  /\ Buffer \in Nat \ {0}
  /\ MaxRecords \in Nat \ {0}
  /\ Wrap \in Nat \ {0, 1, 2}
  /\ None \notin Errors /\ None \notin Request

VARIABLES
  (* the recorder *)
  emitted,      (* records pushed so far                                   *)
  caller,       (* "recording", "closing" (in Close), "returned"           *)
  (* LiveRecording *)
  events,       (* the channel's buffer                                    *)
  err, result,  (* l.err: the first error, or None; whether l.result is set*)
  seq, challenge,
  (* run's goroutine *)
  worker,       (* "select", "posting", "stopped"                          *)
  started,
  tick,         (* a keepalive tick is waiting in ticker.C                 *)
  req,          (* the latest request, or None                             *)
  (* the server's side of the recording *)
  server,       (* "none", "open", "accepted", "rejected"                  *)
  expects,      (* the sequence number and challenge it will accept        *)
  received,     (* the records it has                                      *)
  (* history *)
  trouble       (* the channel overflowed, the connection failed or the
                   server turned down what it could have accepted          *)

channel  == <<events, emitted>>
outcome  == <<err, result>>
position == <<seq, challenge>>
loop     == <<worker, started, tick, req>>
remote   == <<server, expects, received>>
vars     == <<channel, caller, outcome, position, loop, remote, trouble>>

closed == caller # "recording"

(* setErr: the first error stays. *)
SetErr(e) == err' = IF err = None THEN e ELSE err

-----------------------------------------------------------------------------
(* The recorder *)

(* Mutant: a record that does not fit is dropped without a word. *)
PushSilently ==
  /\ caller = "recording"
  /\ emitted < MaxRecords
  /\ emitted' = emitted + 1
  /\ events' = IF Len(events) < Buffer THEN Append(events, emitted + 1) ELSE events
  /\ UNCHANGED <<caller, outcome, position, loop, remote, trouble>>

Push ==
  /\ caller = "recording"
  /\ emitted < MaxRecords
  /\ emitted' = emitted + 1
  /\ \/ /\ Len(events) < Buffer
        /\ events' = Append(events, emitted + 1)
        /\ UNCHANGED <<err, trouble>>
     \/ /\ Len(events) = Buffer
        /\ SetErr("full")
        /\ trouble' = TRUE
        /\ UNCHANGED events
  /\ UNCHANGED <<caller, result, position, loop, remote>>

(* Close closes the channel, then waits for the worker. *)
Close ==
  /\ caller = "recording"
  /\ caller' = "closing"
  /\ UNCHANGED <<channel, outcome, position, loop, remote, trouble>>

Return ==
  /\ caller = "closing"
  /\ worker = "stopped"
  /\ caller' = "returned"
  /\ UNCHANGED <<channel, outcome, position, loop, remote, trouble>>

-----------------------------------------------------------------------------
(* The worker *)

Post(kind, sq, ch, recs) ==
  /\ worker' = "posting"
  /\ req' = [kind |-> kind, seq |-> sq, challenge |-> ch, recs |-> recs,
             stage |-> "sent"]

(* One record is taken off the channel.  A start request is posted with    *)
(* its record in hand, which is sent once the server has answered.         *)
TakeRecord ==
  LET r == Head(events)
  IN  /\ events # <<>>
      /\ events' = Tail(events)
      /\ IF started THEN Post("events", seq, challenge, <<r>>)
         ELSE IF r = 1 THEN Post("start", 0, 0, <<r>>)
         ELSE UNCHANGED <<worker, req>>
      /\ UNCHANGED err

(* The channel is closed and drained. *)
Drained ==
  /\ closed /\ events = <<>>
  /\ IF started THEN Post("finalize", seq, challenge, <<>>) /\ UNCHANGED err
     ELSE worker' = "stopped" /\ SetErr("never started") /\ UNCHANGED req
  /\ UNCHANGED events

(* Mutant: the tick sends the next record without taking it. *)
KeepalivePeeking ==
  /\ events # <<>>
  /\ Post("events", seq, challenge, <<Head(events)>>)
  /\ UNCHANGED <<events, err>>

(* Mutant: nothing to send, nothing sent. *)
KeepaliveOmitted ==
  /\ ~ closed /\ events = <<>>
  /\ UNCHANGED <<worker, req, events, err>>

Keepalive ==
  /\ ~ closed /\ events = <<>>
  /\ Post("events", seq, challenge, <<>>)
  /\ UNCHANGED <<events, err>>

OnEvent ==
  /\ worker = "select"
  /\ TakeRecord \/ Drained
  /\ UNCHANGED <<emitted, caller, result, position, started, tick, remote, trouble>>

(* The 45-second tick also takes a record if there is one. *)
OnTick ==
  /\ worker = "select"
  /\ tick /\ tick' = FALSE
  /\ \/ ~ started /\ UNCHANGED <<events, err, worker, req>>
     \/ started /\ (TakeRecord \/ Drained \/ Keepalive)
  /\ UNCHANGED <<emitted, caller, result, position, started, remote, trouble>>

(* A 2xx answer with a body that parses. *)
StartAnswered ==
  /\ req.kind = "start"
  /\ started' = TRUE
  /\ seq' = 1
  /\ challenge' = expects.challenge
  /\ Post("events", 1, expects.challenge, req.recs)
  /\ UNCHANGED outcome

(* Mutant: the challenge is kept after a keepalive. *)
EventsAnsweredStale ==
  /\ req.kind = "events"
  /\ seq' = (seq + 1) % Wrap
  /\ challenge' = IF req.recs = <<>> THEN challenge ELSE expects.challenge
  /\ worker' = "select"
  /\ req' = None
  /\ UNCHANGED <<started, outcome>>

EventsAnswered ==
  /\ req.kind = "events"
  /\ seq' = (seq + 1) % Wrap
  /\ challenge' = expects.challenge
  /\ worker' = "select"
  /\ req' = None
  /\ UNCHANGED <<started, outcome>>

FinalAnswered ==
  /\ req.kind = "finalize"
  /\ worker' = "stopped"
  /\ req' = None
  /\ IF server = "accepted" THEN result' = TRUE /\ UNCHANGED err
     ELSE SetErr("not accepted") /\ UNCHANGED result
  /\ UNCHANGED <<started, position>>

Answered ==
  /\ worker = "posting"
  /\ req.stage = "applied"
  /\ StartAnswered \/ EventsAnswered \/ FinalAnswered
  /\ UNCHANGED <<channel, caller, tick, remote, trouble>>

(* Mutant: the worker goes on after an error. *)
GiveUpLater ==
  /\ worker' = "select"
  /\ SetErr("post")

GiveUp ==
  /\ worker' = "stopped"
  /\ SetErr("post")

(* An error answer, an unreadable one, or none in 15 seconds.  A request   *)
(* that was sent may still reach the server.                               *)
PostFails ==
  /\ worker = "posting"
  /\ GiveUp
  /\ trouble' = (trouble \/ req.stage # "refused")
  /\ UNCHANGED <<channel, caller, result, position, started, tick, req, remote>>

TickFires ==
  /\ ~ tick /\ worker # "stopped"
  /\ tick' = TRUE
  /\ UNCHANGED <<channel, caller, outcome, position, worker, started, req, remote, trouble>>

-----------------------------------------------------------------------------
(* The server: external.  It accepts one request at a time, each with the  *)
(* number and challenge it expects.                                        *)

Acceptable ==
  \/ req.kind = "start" /\ server = "none"
  \/ /\ req.kind = "events" /\ server = "open"
     /\ req.seq = expects.seq /\ req.challenge = expects.challenge
  \/ /\ req.kind = "finalize" /\ server = "open"
     /\ req.challenge = expects.challenge

(* What it does with an acceptable one. *)
Serve ==
  \/ /\ req.kind = "start"
     /\ server' = "open"
     /\ expects' = [seq |-> 1, challenge |-> 1]
     /\ UNCHANGED received
  \/ /\ req.kind = "events"
     /\ received' = received \o req.recs
     /\ expects' = [seq       |-> (expects.seq + 1) % Wrap,
                    challenge |-> (expects.challenge + 1) % Wrap]
     /\ UNCHANGED server
  \/ /\ req.kind = "finalize"
     /\ server' \in {"accepted", "rejected"}
     /\ UNCHANGED <<expects, received>>

Requested == req # None /\ req.stage = "sent"

ServerAccepts ==
  /\ Requested /\ Acceptable
  /\ Serve
  /\ req' = [req EXCEPT !.stage = "applied"]
  /\ trouble' = (trouble \/ server' = "rejected")
  /\ UNCHANGED <<channel, caller, outcome, position, worker, started, tick>>

(* Not acceptable, or past its deadline, over a quota, out of order.       *)
ServerRefuses ==
  /\ Requested
  /\ req' = [req EXCEPT !.stage = "refused"]
  /\ trouble' = (trouble \/ Acceptable)
  /\ UNCHANGED <<channel, caller, outcome, position, worker, started, tick, remote>>

-----------------------------------------------------------------------------
Init ==
  /\ emitted = 0 /\ caller = "recording"
  /\ events = <<>>
  /\ err = None /\ result = FALSE
  /\ seq = 0 /\ challenge = 0
  /\ worker = "select" /\ started = FALSE /\ tick = FALSE
  /\ req = None
  /\ server = "none" /\ expects = [seq |-> 0, challenge |-> 0]
  /\ received = <<>>
  /\ trouble = FALSE

Worker == OnEvent \/ OnTick

Next ==
  \/ Push \/ Close \/ Return
  \/ OnEvent \/ OnTick \/ Answered \/ PostFails \/ TickFires
  \/ ServerAccepts \/ ServerRefuses

Spec == Init /\ [][Next]_vars

(* A post ends, if only by its timeout; the ticker fires; a ready select   *)
(* case is taken, and among two ready ones each gets its turn.             *)
FairSpec ==
  /\ Spec
  /\ WF_vars(Return)
  /\ WF_vars(OnEvent) /\ WF_vars(OnTick) /\ WF_vars(TickFires)
  /\ WF_vars(Answered \/ PostFails)

-----------------------------------------------------------------------------
(* The ranges of the variables. *)
TypeOK ==
  /\ emitted \in 0 .. MaxRecords
  /\ caller \in {"recording", "closing", "returned"}
  /\ events \in Seq(Nat) /\ Len(events) <= Buffer
  /\ err \in Errors \cup {None} /\ result \in BOOLEAN
  /\ seq \in Number /\ challenge \in Number
  /\ worker \in {"select", "posting", "stopped"}
  /\ started \in BOOLEAN /\ tick \in BOOLEAN
  /\ req \in Request \cup {None}
  /\ server \in {"none", "open", "accepted", "rejected"}
  /\ expects \in [seq : Number, challenge : Number]
  /\ received \in Seq(Nat)
  /\ trouble \in BOOLEAN

(* No request of the client, keepalives and requests under way when it     *)
(* gives up included, is one the server would have to refuse for its       *)
(* number or challenge.                                                    *)
InStep == Requested => Acceptable

(* What the recorder and the server see of it is SharedRecording: whoever  *)
(* of the two select cases takes a record off the channel and whatever     *)
(* becomes of the posts, the server's copy grows in the order of the       *)
(* recording, is sealed after its end, and is whole and sealed when Close  *)
(* returns no error.                                                       *)
Sharing == INSTANCE SharedRecording WITH
  ended  <- closed,
  copy   <- received,
  sealed <- (server = "accepted"),
  told   <- IF caller # "returned" THEN "nothing"
            ELSE IF err = None THEN "shared" ELSE "not shared"

ImplementsSharing == Sharing!Spec

(* record.go prints "submitted verified" when Close returns no error, and  *)
(* that the recording was not shared otherwise.  Without an error the      *)
(* upload has a result and the server all of the recording; and when       *)
(* nothing went wrong there is no error.                                   *)
VerdictIsRight ==
  caller = "returned" =>
    /\ err = None => result /\ received = [i \in 1 .. emitted |-> i]
    /\ (emitted > 0 /\ ~ trouble) => err = None

(* Close returns, whatever the server and the network do. *)
CloseReturns == (caller = "closing") ~> (caller = "returned")

(* While a recording is open the server hears from the client again and    *)
(* again, however quiet the game is.                                       *)
NeverSilent == (started /\ worker = "select") ~> (worker # "select")
=============================================================================
