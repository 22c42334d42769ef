------------------------------ MODULE Matches ------------------------------
(***************************************************************************)
(* The ranking's sliding window (Ranking.tla) in front of the tracker      *)
(* (Tracker.tla), as recorder.go's discovery case composes them: which     *)
(* server a recording is on while matches begin and end, flows come and    *)
(* go, and polls miss some of them (a discarded UDP batch is a poll whose  *)
(* observations are all TCP).                                              *)
(***************************************************************************)
EXTENDS Ranking, Tracker

ASSUME MatchesAssumption ==
  /\ AllKeys \subseteq Endpoints
  /\ ConfirmPolls <= WindowPolls

allVars == <<game, window, top, vars>>

(* The pointer discoveryPoll's caller passes to Observe. *)
Pointer(t) == IF t = Nothing THEN None ELSE t

Discover(obs) == RankPoll(obs) /\ Observe(Pointer(top'))

TimePasses == RelaxFloor /\ UNCHANGED <<game, window, top>>

MatchesInit == RankingInit /\ Init

MatchesNext == (\E obs \in SUBSET game.flows : Discover(obs)) \/ TimePasses

MatchesSpec == MatchesInit /\ [][MatchesNext]_allVars

-----------------------------------------------------------------------------
(* Poll i of the window shows `e` as the one UDP flow, going both ways. *)
Plays(e, i) ==
  /\ \E o \in window[i] : KeyOf(o) = e /\ o.bidir
  /\ \A o \in window[i] : o.proto = "udp" => KeyOf(o) = e

(* How many polls the ranking needs to trust a flow and the tracker to     *)
(* follow it, at the highest floor.                                        *)
PollsToSwitch == StablePolls - 1 + ConfirmPolls

(* recorder.go: discovery keeps polling "to catch server changes".  A game *)
(* whose UDP flow is the only one for PollsToSwitch polls is what the      *)
(* session is bound to, whatever it was bound to or challenged by before,  *)
(* whatever confidence floor is in force and whatever TCP shows.  (With    *)
(* port hints this is asked of VALORANT's own ports only.)                 *)
SwitchIsPrompt ==
  \A e \in Keys :
    (/\ IF game.valorant THEN ValorantGame(e) ELSE game.ports = {}
     /\ e.proto = "udp" /\ Public(e) /\ ~ Tls(e)
     /\ Len(window) >= PollsToSwitch
     /\ \A i \in (Len(window) - PollsToSwitch + 1)..Len(window) : Plays(e, i))
      => active # None /\ ServerOf(active.ep) = ServerOf(e)

(* The session moves only to an endpoint seen in each of the latest        *)
(* ConfirmPolls polls: neither a flow glimpsed once nor the server of a    *)
(* match that is over takes it.                                            *)
SeenLately(e) ==
  \A i \in 0..(ConfirmPolls - 1) : SeenIn(e, Len(window) - i)

MovesToWhatIsThere ==
  [][\A e \in Keys :
       (active # None /\ active.ep # e /\ active'.ep = e) => SeenLately(e)']_allVars

(* A session never leaves a flow that is two-way UDP and seen in every     *)
(* poll of a full window for a TCP connection (unless the flow is itself   *)
(* one to port 443, kept only for want of anything else).                  *)
PlaysOn(e) ==
  /\ Len(window) = WindowPolls
  /\ \A i \in DOMAIN window : SeenIn(e, i)
  /\ TwoWay(e)

LiveGameIsKept ==
  [][\A e \in Keys :
       (active # None /\ active.ep = e /\ e.proto = "udp" /\ ~ Tls(e) /\ PlaysOn(e)')
         => active'.ep.proto = "udp"]_allVars
=============================================================================
