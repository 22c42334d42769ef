------------------------------ MODULE Tracker ------------------------------
(***************************************************************************)
(* internal/session/tracker.go: which endpoint a recording is bound to.    *)
(*                                                                         *)
(* Each discovery poll hands Observe its top-ranked candidate (None when   *)
(* nothing ranked) and the confidence floor in force.  The floor is        *)
(* recorder.go's minConfidence: time can only lower it.                    *)
(*                                                                         *)
(* An endpoint is a record [proto, addr, port]; a candidate adds the       *)
(* ranking's confidence.                                                   *)
(***************************************************************************)
EXTENDS ConfidenceScale

CONSTANTS
  Endpoints,     (* the endpoints the ranking can put on top               *)
  ConfirmPolls,  (* confirmPolls, 2 in the code                            *)
  None           (* Go's nil candidate, and the zero endpointKey           *)

Candidate == [ep : Endpoints, conf : Confidence]

ASSUME TrackerAssumption ==
  /\ ConfirmPolls \in Nat \ {0}
  /\ None \notin Endpoints
  /\ None \notin Candidate

VARIABLES
  active,        (* t.active, a candidate or None                          *)
  pendingKey,    (* t.pendingKey, an endpoint or None                      *)
  pendingCount,  (* t.pendingCount                                         *)
  floor,         (* minConfidence at this moment                           *)
  seen,          (* history: the top candidate of the latest poll          *)
  last, streak   (* history: EndpointBinding's variables of these names    *)

code    == <<active, pendingKey, pendingCount>>
history == <<seen, last, streak>>
vars    == <<active, pendingKey, pendingCount, floor, seen, last, streak>>

-----------------------------------------------------------------------------
ServerOf(e) == <<e.proto, e.addr>>

SameServer(a, b) == a.ep.proto = b.ep.proto /\ a.ep.addr = b.ep.addr

(* Mutant: the floor is not compared. *)
EligibleAtAnyFloor(top) == top # None

Eligible(top) == top # None /\ top.conf >= floor

(* Mutant: the challenger's count never grows. *)
ChallengesOnce(top) == 1

(* The challenger count Observe arrives at for a top of another server. *)
Challenges(top) == IF top.ep = pendingKey THEN pendingCount + 1 ELSE 1

(* Mutant: one poll too many. *)
ConfirmedLate(n) == n > ConfirmPolls

Confirmed(n) == n >= ConfirmPolls

(* What Observe returns: the active endpoint rotated, or locked first. *)
Rotates(top) ==
  /\ Eligible(top)
  /\ active # None => ~ SameServer(top, active) /\ Confirmed(Challenges(top))

-----------------------------------------------------------------------------
(* Observe's branches, in the order of its early returns. *)

(* Mutant: a poll with nothing eligible does not interrupt a challenger. *)
IgnoreIneligibleKeepingCount(top) ==
  ~ Eligible(top) /\ UNCHANGED code

IgnoreIneligible(top) ==
  /\ ~ Eligible(top)
  /\ pendingCount' = 0
  /\ UNCHANGED <<active, pendingKey>>

FirstLock(top) ==
  /\ Eligible(top)
  /\ active = None
  /\ active' = top
  /\ pendingCount' = 0
  /\ UNCHANGED pendingKey

(* Mutant: seeing the bound endpoint again does not interrupt a challenger. *)
RefreshSameKeepingCount(top) ==
  /\ Eligible(top)
  /\ active # None
  /\ top.ep = active.ep
  /\ active' = top
  /\ UNCHANGED <<pendingKey, pendingCount>>

RefreshSame(top) ==
  /\ Eligible(top)
  /\ active # None
  /\ top.ep = active.ep
  /\ active' = top
  /\ pendingCount' = 0
  /\ UNCHANGED pendingKey

(* Mutant: another port of the active server takes its place. *)
RaiseConfidenceRebinding(top) ==
  /\ Eligible(top)
  /\ active # None
  /\ top.ep # active.ep
  /\ SameServer(top, active)
  /\ active' = top
  /\ pendingCount' = 0
  /\ UNCHANGED pendingKey

(* Another port of the active server: the binding stays, and its           *)
(* confidence rises when the other flow's is higher.                       *)
RaiseConfidence(top) ==
  /\ Eligible(top)
  /\ active # None
  /\ top.ep # active.ep
  /\ SameServer(top, active)
  /\ active' = IF top.conf > active.conf
               THEN [active EXCEPT !.conf = top.conf] ELSE active
  /\ pendingCount' = 0
  /\ UNCHANGED pendingKey

Challenge(top) ==
  /\ Eligible(top)
  /\ active # None
  /\ ~ SameServer(top, active)
  /\ pendingKey' = top.ep
  /\ IF Confirmed(Challenges(top))
     THEN active' = top /\ pendingCount' = 0
     ELSE active' = active /\ pendingCount' = Challenges(top)

ObserveCode(top) ==
  \/ IgnoreIneligible(top)
  \/ FirstLock(top)
  \/ RefreshSame(top)
  \/ RaiseConfidence(top)
  \/ Challenge(top)

-----------------------------------------------------------------------------
(* The eligible top endpoint of a poll, as EndpointBinding sees it. *)
Offered(top) == IF Eligible(top) THEN top.ep ELSE None

Binding == INSTANCE EndpointBinding
  WITH bound <- IF active = None THEN None ELSE active.ep

Record(top) ==
  /\ seen' = top
  /\ last' = Offered(top)
  /\ streak' = Binding!StreakWith(Offered(top))

Observe(top) == ObserveCode(top) /\ Record(top) /\ UNCHANGED floor

(* minConfidence: the floor falls one step once 45 s, then 90 s (30 s      *)
(* without ETW) have passed since the session started.                     *)
LowerFloor ==
  /\ floor > Low
  /\ floor' = floor - 1
  /\ UNCHANGED code

RelaxFloor == LowerFloor /\ UNCHANGED history

(* High while ETW observes UDP, Medium when it is unavailable. *)
Init ==
  /\ active = None
  /\ pendingKey = None
  /\ pendingCount = 0
  /\ floor \in {Medium, High}
  /\ seen = None
  /\ last = None
  /\ streak = 0

Poll == \E top \in Candidate \cup {None} : Observe(top)

Next == Poll \/ RelaxFloor

Spec == Init /\ [][Next]_vars

(* The discovery timer is rearmed at the end of every poll, and time       *)
(* passes.                                                                 *)
Fairness == WF_vars(Poll) /\ WF_vars(RelaxFloor)

FairSpec == Spec /\ Fairness

-----------------------------------------------------------------------------
(* Types.  A pending challenger never stays at the confirming count:       *)
(* Observe either rotates to it or has reset it.                           *)
TypeOK ==
  /\ active \in Candidate \cup {None}
  /\ pendingKey \in Endpoints \cup {None}
  /\ pendingCount \in 0..(ConfirmPolls - 1)
  /\ floor \in Confidence
  /\ seen \in Candidate \cup {None}
  /\ last \in Endpoints \cup {None}
  /\ streak \in 0..ConfirmPolls

(* The book-keeping (pendingKey, pendingCount) is exactly the run of       *)
(* consecutive eligible polls topped by one endpoint of another server     *)
(* than the bound one: every branch of Observe that breaks the run also    *)
(* clears the count, and a stale pendingKey never revives a count.         *)
PendingIsStreak ==
  IF active = None
  THEN pendingCount = 0 /\ last = None /\ streak = 0
  ELSE IF last = None
  THEN pendingCount = 0 /\ streak = 0
  ELSE IF ServerOf(last) = ServerOf(active.ep)
  THEN pendingCount = 0 /\ streak > 0
  ELSE pendingKey = last /\ pendingCount = streak /\ streak > 0

(* The bound endpoint's confidence is never below the floor in force: a    *)
(* poll below the floor neither binds nor refreshes.                       *)
ActiveMeetsFloor == active # None => active.conf >= floor

(* The flap guard of tracker.go's header: the tracker moves exactly when   *)
(* EndpointBinding does.                                                   *)
ImplementsBinding == Binding!Spec

(* An endpoint that tops every poll from some time on ends up measured,    *)
(* itself or through its server's endpoint already bound: whatever its     *)
(* confidence, since the floor keeps falling.                              *)
SettledEndpointIsBound ==
  \A e \in Endpoints :
    <>[](seen # None /\ seen.ep = e)
      => <>[](active # None /\ ServerOf(active.ep) = ServerOf(e))

(* recorder.go: discovery drops "to a slow passive cadence to catch server *)
(* changes", and tracker.go says a multi-socket game flipping which flow   *)
(* tops the ranking is not a server change.  So when every poll from some  *)
(* time on is topped by a socket of server s, the session should end up on *)
(* s.                                                                      *)
ServerChangeIsCaught ==
  \A s \in {ServerOf(e) : e \in Endpoints} :
    <>[](seen # None /\ ServerOf(seen.ep) = s)
      => <>[](active # None /\ ServerOf(active.ep) = s)
=============================================================================
