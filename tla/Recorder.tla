------------------------------ MODULE Recorder ------------------------------
(***************************************************************************)
(* internal/session/recorder.go: one recording, from the game's            *)
(* appearance to session_end.                                              *)
(*                                                                         *)
(* Recorder.Run is one goroutine; its select loop is modelled by one       *)
(* action per case, and everything a case does (the records it emits       *)
(* included) by that action.  The game's processes come and go between     *)
(* any two of them.  Time is modelled by what it enables: the grace period *)
(* running out, the confidence floor falling (Tracker's LowerFloor) and    *)
(* the deadline.                                                           *)
(*                                                                         *)
(* The ranking of flows is the environment of this module: a poll sees any *)
(* candidate on top while the game has processes, and none without         *)
(* (candidates come from flows and sockets of g.pids in the latest poll).  *)
(* Sample contents are in Sampler.tla, flow batches in Discovery.tla.      *)
(***************************************************************************)
EXTENDS SessionLog

CONSTANTS
  Endpoints, ConfirmPolls,  (* of Tracker                                  *)
  Pids,           (* process ids the game's executable can have            *)
  DurationLimit,  (* whether Config.MaxDuration is set                     *)
  Nameable,       (* the endpoints the game's own log can name: none for a
                     game without one, and none for VALORANT, whose segments
                     are not looked up in it                               *)
  MaxRecords      (* BOUND: no handler that can emit starts when the log
                     could grow beyond this, except the one that ends it   *)

ASSUME RecorderAssumption ==
  /\ ConfirmPolls \in Nat \ {0}
  /\ None \notin Endpoints
  /\ DurationLimit \in BOOLEAN
  /\ Nameable \subseteq Endpoints
  /\ MaxRecords \in Nat

VARIABLES
  (* the operating system *)
  alive,          (* the game's processes running now                      *)
  cancelled,      (* ctx is done                                           *)
  (* Run's locals *)
  phase,          (* "waiting", "setup", "recording", "done"               *)
  degraded,       (* src == nil: no UDP discovery                          *)
  pids,           (* g.pids                                                *)
  targets,        (* the PIDs last handed to src.SetTargetPIDs             *)
  grace,          (* graceEnds: "none" (zero), "armed", "elapsed"          *)
  active, pendingKey, pendingCount, floor,    (* the Tracker               *)
  seg,            (* the open segment, or None                             *)
  nextSeq,
  logEndpoints,   (* endpoints the game's own log has named                *)
  log,            (* every record emitted                                  *)
  (* history *)
  made,           (* the closed segments, as they were in memory           *)
  absence         (* "no": the last process list read had the game; "yes":
                     it had not; "full": and the grace period ran out since *)

tracker == <<active, pendingKey, pendingCount, floor>>
session == <<phase, degraded>>
game    == <<pids, targets, grace, absence>>
output  == <<seg, nextSeq, logEndpoints, log, made>>
vars    == <<alive, cancelled, session, game, tracker, output>>

Trk == INSTANCE Tracker WITH seen <- None, last <- None, streak <- 0

-----------------------------------------------------------------------------
(* Segments.  `heur` is what classifySegment makes of the candidate's      *)
(* protocol, port, confidence and traffic, all fixed when the segment      *)
(* starts; only the game's log can change the verdict afterwards.          *)

Heuristic   == {"probable", "diagnostic-only"}
Eligibility == Heuristic \cup {"confirmed"}

Segment ==
  [seq : Nat \ {0}, ep : Endpoints, heur : Heuristic, elig : Eligibility, samples : Nat]

(* A segment as a reader has it, with the number of samples its statistics *)
(* were computed from.                                                     *)
Reported == [seq : Nat \ {0}, ep : Endpoints, note : Eligibility, n : Nat]

ASSUME AbsentAssumption ==
  None \notin Segment /\ None \notin Trk!Candidate /\ None \notin Reported

(* The log's endpoints are looked up by address and port alone. *)
IsNamed(e, named) == \E n \in named : n.addr = e.addr /\ n.port = e.port

Classify(e, heur, named) ==
  IF IsNamed(e, named) THEN "confirmed" ELSE heur

(* The records closeSegment emits for `s`. *)
Closing(s) ==
  IF s = None THEN <<>> ELSE <<SegmentEnd(s.seq, s.ep, s.samples)>>

(* A segment as Summarize reports it. *)
Report(s) ==
  IF s = None THEN <<>>
  ELSE <<[seq |-> s.seq, ep |-> s.ep, note |-> s.elig, n |-> s.samples]>>

Room(k) == Len(log) + k <= MaxRecords

-----------------------------------------------------------------------------
(* Before the loop *)

(* waitForGame: the game is in the process list; OpenFlows succeeds or the *)
(* recording is degraded.                                                  *)
Detect ==
  /\ phase = "waiting"
  /\ alive # {}
  /\ phase' = "setup"
  /\ pids' = alive
  /\ absence' = "no"
  /\ \E d \in BOOLEAN :
       /\ degraded' = d
       /\ targets' = IF d THEN {} ELSE alive
       /\ floor' = IF d THEN Trk!Medium ELSE Trk!High
  /\ UNCHANGED <<alive, cancelled, grace, active, pendingKey, pendingCount, output>>

(* waitForGame gives up: the context ends, or the process list cannot be   *)
(* read (Run returns that error).  Nothing was recorded.                   *)
NeverStarts ==
  /\ phase = "waiting"
  /\ phase' = "done"
  /\ UNCHANGED <<alive, cancelled, degraded, game, tracker, output>>

(* The network is classified (which may take long) and session_start goes  *)
(* out.                                                                    *)
Announce ==
  /\ phase = "setup"
  /\ phase' = "recording"
  /\ log' = <<SessionStart>>
  /\ UNCHANGED <<alive, cancelled, degraded, game, tracker,
                 seg, nextSeq, logEndpoints, made>>

-----------------------------------------------------------------------------
(* Leaving the loop: the open segment is closed, then session_end.         *)

(* Mutant: the segment still open is forgotten. *)
EndWithoutClosing(reason) ==
  /\ log' = Append(log, SessionEnd(reason))
  /\ made' = made \o Report(seg)
  /\ seg' = None
  /\ phase' = "done"
  /\ UNCHANGED <<degraded, nextSeq, logEndpoints>>

End(reason) ==
  /\ log' = (log \o Closing(seg)) \o <<SessionEnd(reason)>>
  /\ made' = made \o Report(seg)
  /\ seg' = None
  /\ phase' = "done"
  /\ UNCHANGED <<degraded, nextSeq, logEndpoints>>

(* Mutant: a recording without a segment is not stopped. *)
InterruptOpenSegment ==
  /\ phase = "recording"
  /\ cancelled
  /\ seg # None
  /\ End("interrupt")
  /\ UNCHANGED <<alive, cancelled, game, tracker>>

Interrupt ==
  /\ phase = "recording"
  /\ cancelled
  /\ End("interrupt")
  /\ UNCHANGED <<alive, cancelled, game, tracker>>

Deadline ==
  /\ phase = "recording"
  /\ DurationLimit
  /\ End("duration-limit")
  /\ UNCHANGED <<alive, cancelled, game, tracker>>

-----------------------------------------------------------------------------
(* case <-alive.C                                                          *)

(* Mutant: an unreadable process list reads as an empty one. *)
CurrentPidsOrNone(readable) == IF readable THEN alive ELSE {}

(* currentPIDs: a process list that cannot be read keeps the PIDs known.   *)
CurrentPids(readable) == IF readable THEN alive ELSE pids

Retarget(new) == targets' = IF degraded THEN targets ELSE new

GameSeen(found) ==
  /\ found # {}
  /\ pids' = found
  /\ Retarget(found)
  /\ grace' = "none"
  /\ UNCHANGED <<session, output>>

GraceOpens(found) ==
  /\ found = {}
  /\ grace = "none"
  /\ Retarget({})
  /\ pids' = {}
  /\ grace' = "armed"
  /\ UNCHANGED <<session, output>>

GraceRuns(found) ==
  /\ found = {}
  /\ grace = "armed"
  /\ UNCHANGED <<pids, targets, grace, session, output>>

(* Mutant: every poll without the game arms the grace period anew. *)
GraceRearms(found) ==
  /\ found = {}
  /\ grace = "elapsed"
  /\ grace' = "armed"
  /\ UNCHANGED <<pids, targets, session, output>>

GraceCloses(found) ==
  /\ found = {}
  /\ grace = "elapsed"
  /\ End("game-exit")
  /\ UNCHANGED <<pids, targets, grace>>

AlivePoll(readable) ==
  /\ phase = "recording"
  /\ LET found == CurrentPids(readable)
     IN  GameSeen(found) \/ GraceOpens(found) \/ GraceRuns(found) \/ GraceCloses(found)
  /\ absence' = IF ~ readable THEN absence
                ELSE IF alive # {} THEN "no"
                ELSE IF absence = "no" THEN "yes" ELSE absence
  /\ UNCHANGED <<alive, cancelled, tracker>>

GraceElapses ==
  /\ phase = "recording"
  /\ grace = "armed"
  /\ grace' = "elapsed"
  /\ absence' = IF absence = "yes" THEN "full" ELSE absence
  /\ UNCHANGED <<alive, cancelled, session, pids, targets, tracker, output>>

-----------------------------------------------------------------------------
(* case <-discovery.C                                                      *)

(* Mutant: only what this poll's log lines name is kept. *)
TakeCandidatesForgetting(named) ==
  /\ \E lines \in SUBSET Nameable : named = lines
  /\ logEndpoints' = named

(* What the lines of the game's log name that were written since the       *)
(* previous poll is added to what they named before.                       *)
TakeCandidates(named) ==
  /\ \E lines \in SUBSET Nameable : named = logEndpoints \cup lines
  /\ logEndpoints' = named

(* rotateSegment: the tracker took over `top`.  refreshClassification      *)
(* finds the new segment as classified and emits nothing.                  *)
Rotate(top, heur, named) ==
  LET new == [seq     |-> nextSeq,
              ep      |-> top.ep,
              heur    |-> heur,
              elig    |-> Classify(top.ep, heur, named),
              samples |-> 0]
  IN  /\ Trk!Rotates(top)
      /\ seg' = new
      /\ nextSeq' = nextSeq + 1
      /\ log' = (log \o Closing(seg)) \o <<SegmentStart(new.seq, new.ep, new.elig)>>
      /\ made' = made \o Report(seg)

(* Mutant: a changed verdict is kept in memory only. *)
RefreshSilently(top, heur, named) ==
  /\ ~ Trk!Rotates(top)
  /\ heur = IF seg = None THEN "probable" ELSE seg.heur
  /\ seg' = IF seg = None THEN None
            ELSE [seg EXCEPT !.elig = Classify(seg.ep, seg.heur, named)]
  /\ UNCHANGED <<nextSeq, log, made>>

(* refreshClassification of the segment that stays open: a record if the   *)
(* verdict changed, or if the log has named its endpoint again, in another *)
(* role or by another kind of line.                                        *)
Refresh(top, heur, named) ==
  /\ ~ Trk!Rotates(top)
  /\ heur = IF seg = None THEN "probable" ELSE seg.heur
  /\ LET elig == Classify(seg.ep, seg.heur, named)
     IN  \/ /\ seg # None => elig = seg.elig
            /\ UNCHANGED <<seg, log>>
         \/ /\ seg # None
            /\ elig = seg.elig => elig = "confirmed"
            /\ seg' = [seg EXCEPT !.elig = elig]
            /\ log' = Append(log, Classification(seg.seq, elig))
  /\ UNCHANGED <<nextSeq, made>>

DiscoveryPoll(top, heur, named) ==
  /\ phase = "recording"
  /\ Room(2)
  /\ top # None => pids # {}
  /\ TakeCandidates(named)
  /\ Trk!ObserveCode(top)
  /\ Rotate(top, heur, named) \/ Refresh(top, heur, named)
  /\ UNCHANGED <<alive, cancelled, session, game, floor>>

(* case <-sampler.C: one record, unless the probe itself fails. *)
TakeSample ==
  /\ phase = "recording"
  /\ Room(1)
  /\ seg # None
  /\ seg' = [seg EXCEPT !.samples = @ + 1]
  /\ log' = Append(log, SampleRec(seg.seq))
  /\ UNCHANGED <<alive, cancelled, session, game, tracker, nextSeq, logEndpoints, made>>

-----------------------------------------------------------------------------
(* The world around the recorder *)

GameChanges ==
  /\ phase # "done"
  /\ alive' \in SUBSET Pids \ {alive}
  /\ UNCHANGED <<cancelled, session, game, tracker, output>>

Cancel ==
  /\ phase # "done"
  /\ ~ cancelled
  /\ cancelled' = TRUE
  /\ UNCHANGED <<alive, session, game, tracker, output>>

TimePasses ==
  /\ phase \in {"setup", "recording"}
  /\ Trk!LowerFloor
  /\ UNCHANGED <<alive, cancelled, session, game, output>>

Init ==
  /\ alive \in SUBSET Pids
  /\ cancelled = FALSE
  /\ phase = "waiting"
  /\ degraded = FALSE
  /\ pids = {} /\ targets = {}
  /\ grace = "none"
  /\ active = None /\ pendingKey = None /\ pendingCount = 0
  /\ floor = Trk!High
  /\ seg = None
  /\ nextSeq = 1
  /\ logEndpoints = {}
  /\ log = <<>> /\ made = <<>>
  /\ absence = "no"

Next ==
  \/ Detect \/ NeverStarts \/ Announce
  \/ Interrupt \/ Deadline
  \/ \E readable \in BOOLEAN : AlivePoll(readable)
  \/ GraceElapses
  \/ \E top \in Trk!Candidate \cup {None}, heur \in Heuristic, named \in SUBSET Nameable :
       DiscoveryPoll(top, heur, named)
  \/ TakeSample
  \/ GameChanges \/ Cancel \/ TimePasses

Spec == Init /\ [][Next]_vars

(* select picks among the ready cases at random, so a case that stays      *)
(* ready is picked.  A ticker is always ready again, and a process list    *)
(* that can never be read again is not assumed.                            *)
Fairness ==
  /\ WF_vars(Announce)
  /\ WF_vars(Interrupt)
  /\ WF_vars(AlivePoll(TRUE))
  /\ WF_vars(GraceElapses)

FairSpec == Spec /\ Fairness

-----------------------------------------------------------------------------
TypeOK ==
  /\ alive \in SUBSET Pids /\ pids \in SUBSET Pids /\ targets \in SUBSET Pids
  /\ cancelled \in BOOLEAN /\ degraded \in BOOLEAN
  /\ phase \in {"waiting", "setup", "recording", "done"}
  /\ grace \in {"none", "armed", "elapsed"}
  /\ absence \in {"no", "yes", "full"}
  /\ active \in Trk!Candidate \cup {None}
  /\ pendingKey \in Endpoints \cup {None}
  /\ pendingCount \in 0..(ConfirmPolls - 1)
  /\ floor \in Trk!Confidence
  /\ seg \in Segment \cup {None}
  /\ nextSeq \in Nat \ {0}
  /\ logEndpoints \in SUBSET Nameable

(* The log on disk is a log wherever it is cut (recorder.go emits in order *)
(* from one goroutine; store and server rely on it).                       *)
LogWellFormed == WellFormed(log)

(* What a reader reconstructs is what the recorder measured: segments,     *)
(* endpoints, last verdicts and sample counts, for the segment still open  *)
(* as well, at every moment of the recording.  And types.go: "Segments     *)
(* missing their segment_end (truncated log) get stats recomputed from     *)
(* their samples so a crashed session is still reportable": losing the     *)
(* closing records loses no segment and no sample.                         *)
ReaderSeesTheSession ==
  /\ Summarize(log) = made \o Report(seg)
  /\ \A k \in 1..Len(log) :
       log[k].t \in {"segment_end", "session_end"} =>
         Summarize(SubSeq(log, 1, k - 1)) = Summarize(SubSeq(log, 1, k))

(* The segment measured and the endpoint the tracker is bound to are the   *)
(* same one, although the tracker goes on changing its copy; and as the    *)
(* log's reader sees it, two segments in a row are never on one server,    *)
(* whatever port topped the ranking in between.                            *)
SegmentIsTracked ==
  /\ phase = "recording" =>
       IF seg = None THEN active = None
       ELSE active # None /\ active.ep = seg.ep /\ seg.seq = nextSeq - 1
  /\ \A i \in 1..(Len(log) - 1) :
       (log[i].t = "segment_end" /\ log[i + 1].t = "segment_start") =>
         Trk!ServerOf(log[i].ep) # Trk!ServerOf(log[i + 1].ep)

(* A session ends with "game-exit" only if no process list read during a   *)
(* whole grace period showed the game: neither one empty list, nor a list  *)
(* that could not be read, nor a grace period armed before a comeback ends *)
(* it.                                                                     *)
GameExitIsReal ==
  (log # <<>> /\ log[Len(log)] = SessionEnd("game-exit")) => absence = "full"

(* A segment the game's own log has confirmed stays confirmed until it     *)
(* closes: its eligibility does, whatever else a record says of it.        *)
ConfirmedStays ==
  [][(seg # None /\ seg' # None /\ seg'.seq = seg.seq /\ seg.elig = "confirmed")
       => seg'.elig = "confirmed"]_vars

(* A game that is gone for good ends its recording. *)
GameGoneEndsSession ==
  <>[](alive = {}) => <>[](phase \in {"waiting", "done"})

(* A cancelled recording ends, in whatever state it was. *)
CancelEndsSession ==
  (cancelled /\ phase \in {"setup", "recording"}) ~> (phase = "done")
=============================================================================
