------------------------------ MODULE Ranking ------------------------------
(***************************************************************************)
(* internal/flows/flows.go: which remote endpoint looks most like the      *)
(* game's server.  recorder.go keeps the observations of the last          *)
(* WindowPolls discovery polls; every poll replays them into a Collector,  *)
(* whose best candidate is handed to the tracker.                          *)
(*                                                                         *)
(* An endpoint is a record [proto, addr, port].  Addresses and ports are   *)
(* numbers that stand for their text, in its order; address 0 stands for   *)
(* those IsPublic rejects.  An observation adds the process or connection  *)
(* it came from, so one poll can hold several of the same endpoint.        *)
(* Reasons, relays and byte counts do not influence the ranking.           *)
(***************************************************************************)
EXTENDS ConfidenceScale, Sequences, FiniteSets, FiniteSetsExt

CONSTANTS
  Games,          (* records [flows, ports, valorant]: the observations
                     [proto, addr, port, from, bidir, packets] a game can
                     produce, and its hints, the server ports expected and
                     whether it is VALORANT                                *)
  WindowPolls,    (* windowPolls, 6 in the code                            *)
  StablePolls     (* stablePolls, 3 in the code                            *)

ASSUME RankingAssumption ==
  /\ WindowPolls \in Nat \ {0}
  /\ StablePolls \in 1..WindowPolls
  /\ \A g \in Games :
       /\ IsFiniteSet(g.flows)
       /\ g.valorant \in BOOLEAN
       /\ \A o \in g.flows : o.bidir \in BOOLEAN /\ o.packets \in Nat

VARIABLES
  game,           (* the game recorded                                     *)
  window,         (* the polls, oldest first; each a set of observations   *)
  top             (* the candidate of the latest one, or Nothing           *)

KeyOf(o)  == [proto |-> o.proto, addr |-> o.addr, port |-> o.port]
Keys      == {KeyOf(o) : o \in game.flows}
AllKeys   == {KeyOf(o) : o \in UNION {g.flows : g \in Games}}
Public(e) == e.addr # 0
Tls(e)    == e.port = 443

Smaller(a, b) == IF a < b THEN a ELSE b

Bonus(condition, points) == IF condition THEN points ELSE 0

-----------------------------------------------------------------------------
(* The Collector.  Endpoints do not influence each other's track, so the   *)
(* replay is done for one at a time; `poll` is the collector's count.      *)

Unseen == [poll |-> 0, bidir |-> FALSE, packets |-> 0,
           lastPoll |-> 0, consecutive |-> 0, maxConsecutive |-> 0]

(* The run of polls a track has once it is seen in the next poll. *)
ExtendRun(t) == IF t.lastPoll = t.poll THEN t.consecutive + 1 ELSE 1

(* One poll; all of its observations `mine` of the endpoint merge into one *)
(* sighting.                                                               *)
AddPoll(t, mine) ==
  IF mine = {} THEN [t EXCEPT !.poll = @ + 1]
  ELSE LET run == ExtendRun(t)
       IN  [poll           |-> t.poll + 1,
            bidir          |-> t.bidir \/ \E o \in mine : o.bidir,
            packets        |-> t.packets + MapThenSumSet(LAMBDA o : o.packets, mine),
            lastPoll       |-> t.poll + 1,
            consecutive    |-> run,
            maxConsecutive |-> IF run > t.maxConsecutive THEN run ELSE t.maxConsecutive]

(* What poll i of window w shows of endpoint e. *)
Of(e, w, i) == {o \in w[i] : KeyOf(o) = e}

(* The track of an endpoint after each poll of window w, and the tracks of *)
(* all after the last.                                                     *)
TrackOf(e, w) ==
  LET upTo[n \in 0..Len(w)] ==
        IF n = 0 THEN Unseen ELSE AddPoll(upTo[n - 1], Of(e, w, n))
  IN  upTo

Replay(w) == {[ep |-> e, track |-> TrackOf(e, w)[Len(w)]] : e \in Keys}

-----------------------------------------------------------------------------
(* rank *)

Stable(t) == t.maxConsecutive >= StablePolls

(* valorant.go, as far as the ranking asks. *)
ValorantGame(e) ==
  e.proto = "udp" /\ (e.port \in 7000..8000 \/ e.port \in {8180, 8181})

(* Mutant: the volume is not capped. *)
ScoreUncapped(e, t) ==
    Bonus(e.proto = "udp", 40) + Bonus(Stable(t), 30) + Bonus(t.bidir, 20)
  + t.packets + Bonus(e.port \in game.ports, 15)

(* Mutant: the preference is the wrong way round. *)
ScorePreferringTcp(e, t) ==
    Bonus(e.proto = "tcp", 40) + Bonus(Stable(t), 30) + Bonus(t.bidir, 20)
  + Smaller(t.packets, 10) + Bonus(e.port \in game.ports, 15)

Score(e, t) ==
    Bonus(e.proto = "udp", 40) + Bonus(Stable(t), 30) + Bonus(t.bidir, 20)
  + Smaller(t.packets, 10) + Bonus(e.port \in game.ports, 15)
  + (IF ~ game.valorant THEN 0 ELSE IF ValorantGame(e) THEN 200 ELSE -200)

ConfidenceOf(e, t) ==
  IF game.valorant /\ ~ ValorantGame(e) THEN Low
  ELSE IF e.proto = "udp" /\ Stable(t) /\ t.bidir THEN High
  ELSE IF \/ e.proto = "udp" /\ (Stable(t) \/ t.bidir)
          \/ e.proto = "tcp" /\ Stable(t) /\ t.bidir THEN Medium
  ELSE Low

Rank(s) ==
  [ep      |-> s.ep,
   conf    |-> ConfidenceOf(s.ep, s.track),
   score   |-> Score(s.ep, s.track),
   packets |-> s.track.packets]

-----------------------------------------------------------------------------
(* Candidates *)

(* Mutant: what any poll of the window saw is a candidate. *)
SeenEver(s) == s.track.lastPoll > 0 /\ Public(s.ep)

(* Seen in the latest poll. *)
SeenNow(s) == s.track.lastPoll = s.track.poll /\ Public(s.ep)

(* Port 443 only for want of anything else, and then with low confidence. *)
Preferred(cands) ==
  LET nonTLS == {c \in cands : ~ Tls(c.ep)}
  IN  IF nonTLS # {} THEN nonTLS ELSE {[c EXCEPT !.conf = Low] : c \in cands}

Candidates(w) == Preferred({Rank(s) : s \in {t \in Replay(w) : SeenNow(t)}})

(* The sort: by score, then packets, then the endpoint's text. *)
Precedes(a, b) ==
  \/ a.score > b.score
  \/ /\ a.score = b.score
     /\ \/ a.packets > b.packets
        \/ /\ a.packets = b.packets
           /\ \/ a.ep.addr < b.ep.addr
              \/ a.ep.addr = b.ep.addr /\ a.ep.port < b.ep.port

Nothing == [ep |-> [proto |-> "none", addr |-> 0, port |-> 0], conf |-> 0]

(* What can be sorted first; several only when tcp and udp tie on one      *)
(* address and port.                                                       *)
Tops(cands) ==
  IF cands = {} THEN {Nothing}
  ELSE {[ep |-> c.ep, conf |-> c.conf] :
        c \in {b \in cands : \A a \in cands : ~ Precedes(a, b)}}

-----------------------------------------------------------------------------
(* recorder.go: the sliding window. *)

Slide(w, obs) ==
  LET longer == Append(w, obs)
  IN  IF Len(longer) > WindowPolls THEN Tail(longer) ELSE longer

RankPoll(obs) ==
  /\ obs \subseteq game.flows
  /\ window' = Slide(window, obs)
  /\ top' \in Tops(Candidates(window'))
  /\ UNCHANGED game

RankingInit == game \in Games /\ window = <<>> /\ top = Nothing

-----------------------------------------------------------------------------
(* What the window says of an endpoint, without a collector. *)

SeenIn(e, i) == \E o \in window[i] : KeyOf(o) = e

(* Seen in StablePolls polls in a row. *)
Steady(e) ==
  \E i \in 1..(Len(window) - StablePolls + 1) :
    \A j \in i..(i + StablePolls - 1) : SeenIn(e, j)

TwoWay(e) == \E i \in DOMAIN window : \E o \in window[i] : KeyOf(o) = e /\ o.bidir

OnStage(e) == Len(window) > 0 /\ SeenIn(e, Len(window)) /\ Public(e)

(* For a game without port hints, a steady two-way UDP flow is never       *)
(* outranked by anything that is not one: not by volume, nor by any number *)
(* of TCP connections.                                                     *)
GameFlowIsOnTop ==
  (game.ports = {} /\ ~ game.valorant) =>
    \A e \in Keys :
      (OnStage(e) /\ ~ Tls(e) /\ e.proto = "udp" /\ Steady(e) /\ TwoWay(e))
        => top.conf = High
=============================================================================
