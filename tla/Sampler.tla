------------------------------ MODULE Sampler ------------------------------
(***************************************************************************)
(* How a segment is measured: recorder.go's sample, over probe.go's        *)
(* Resolve and Ping and a2s.go's Protocol.                                 *)
(*                                                                         *)
(* The first sample of a segment establishes what to probe and how, later  *)
(* samples reuse it, and a run of samples without any reply starts over.   *)
(* A burst's contents are abstracted to whether anything was received.     *)
(* The network changes between samples and, because a sample may take a    *)
(* hop-by-hop walk, once in one: before or after that walk.  A probe that  *)
(* cannot be sent at all returns an error: no record, and no state         *)
(* changes.                                                                *)
(***************************************************************************)
EXTENDS Integers

CONSTANTS
  ReResolveAfterLoss,  (* reResolveAfterLoss, 3 in the code                *)
  MaxSegments,         (* BOUND: segments in one behaviour                 *)
  None

(* What answers on the path: the server ICMP echo, the server the game's   *)
(* own query, and the last router nothing, TTL-expired only, or echo too.  *)
Network == [icmp : BOOLEAN, query : BOOLEAN, hop : {"silent", "expired", "echo"}]

Target == "target"     (* the segment's endpoint                           *)
Hop    == "hop"        (* the last responding router before it             *)

(* A burst's label, what it was sent to, and whether anything came back.   *)
Methods == {"protocol", "direct", "last-hop"}
Sample  == [method : Methods, probed : {Target, Hop}, received : BOOLEAN]

ASSUME SamplerAssumption ==
  /\ ReResolveAfterLoss \in Nat \ {0}
  /\ MaxSegments \in Nat \ {0}
  /\ None \notin {Target, Hop} /\ None \notin Sample

VARIABLES
  net,          (* the network now                                         *)
  segments,     (* segments started                                        *)
  queryable,    (* UDP endpoint of a game whose protocol may be queried    *)
  probed,       (* seg.probed: Target, Hop or None                         *)
  method,       (* seg.method: "protocol", "direct", "last-hop" or None    *)
  useProtocol,  (* seg.useProtocol                                         *)
  lossRun,      (* seg.lossRun                                             *)
  sample,       (* the latest Sample emitted for this segment, or None     *)
  (* history *)
  by            (* the call that measured it: "protocol", "icmp" or None   *)

segment == <<queryable, probed, method, useProtocol, lossRun>>
vars    == <<net, segments, segment, sample, by>>

Answers(n, p) == IF p = Target THEN n.icmp ELSE n.hop = "echo"

-----------------------------------------------------------------------------
(* The last hop that answers the walk: the target itself if it does so     *)
(* after all, None if nothing does.                                        *)
LastHop(m) == IF m.icmp THEN Target ELSE IF m.hop # "silent" THEN Hop ELSE None

(* Resolve: a direct burst in network n; when nothing comes back, the walk *)
(* in m, and a burst to the last hop it found in l.                        *)
Resolve(n, m, l) ==
  IF n.icmp \/ LastHop(m) = None
  THEN [method |-> "direct", probed |-> Target, received |-> n.icmp]
  ELSE [method |-> "last-hop", probed |-> LastHop(m), received |-> Answers(l, LastHop(m))]

(* Mutant: a single loss gives up a path. *)
WornAtOnce(s) == ~ s.received

(* The loss run reaches reResolveAfterLoss with this sample. *)
Worn(s) == ~ s.received /\ lossRun + 1 >= ReResolveAfterLoss

(* Mutant: a run of losses is counted anew, the path is not given up. *)
EmitKeepingPath(how, s, established) ==
  /\ lossRun' = IF s.received \/ Worn(s) THEN 0 ELSE lossRun + 1
  /\ probed' = established
  /\ sample' = s
  /\ by' = how

(* The tail of sample: the loss run, and the record. *)
Emit(how, s, established) ==
  /\ lossRun' = IF s.received \/ Worn(s) THEN 0 ELSE lossRun + 1
  /\ probed' = IF Worn(s) THEN None ELSE established
  /\ sample' = s
  /\ by' = how

-----------------------------------------------------------------------------
(* sample's three cases.  The network is m in the walk, and l after it. *)

EstablishProtocol ==
  /\ probed = None
  /\ queryable /\ net.query
  /\ method' = "protocol"
  /\ useProtocol' = TRUE
  /\ Emit("protocol", [method |-> "protocol", probed |-> Target, received |-> TRUE], Target)

(* Mutant: falling back to ICMP leaves the protocol flag as it was. *)
EstablishIcmpKeepingFlag(m, l) ==
  LET res == Resolve(net, m, l)
  IN  /\ probed = None
      /\ ~ (queryable /\ net.query)
      /\ method' = res.method
      /\ UNCHANGED useProtocol
      /\ Emit("icmp", res, IF res.received THEN res.probed ELSE None)

EstablishIcmp(m, l) ==
  LET res == Resolve(net, m, l)
  IN  /\ probed = None
      /\ ~ (queryable /\ net.query)
      /\ method' = res.method
      /\ useProtocol' = FALSE
      /\ Emit("icmp", res, IF res.received THEN res.probed ELSE None)

RepeatProtocol ==
  /\ probed # None
  /\ useProtocol
  /\ Emit("protocol", [method |-> method, probed |-> probed, received |-> net.query], probed)
  /\ UNCHANGED <<method, useProtocol>>

RepeatPing ==
  /\ probed # None
  /\ ~ useProtocol
  /\ Emit("icmp", [method |-> method, probed |-> probed, received |-> Answers(net, probed)],
          probed)
  /\ UNCHANGED <<method, useProtocol>>

TakeSample ==
  /\ \E l \in Network :
       /\ net' = l
       /\ \/ EstablishProtocol
          \/ \E m \in {net, l} : EstablishIcmp(m, l)
          \/ RepeatProtocol
          \/ RepeatPing
  /\ UNCHANGED <<segments, queryable>>

(* rotateSegment: everything learnt about the old endpoint is dropped. *)
NewSegment ==
  /\ segments < MaxSegments
  /\ segments' = segments + 1
  /\ queryable' \in BOOLEAN
  /\ probed' = None /\ method' = None /\ useProtocol' = FALSE /\ lossRun' = 0
  /\ sample' = None /\ by' = None
  /\ UNCHANGED net

NetworkChanges ==
  /\ net' \in Network \ {net}
  /\ UNCHANGED <<segments, segment, sample, by>>

Init ==
  /\ net \in Network
  /\ segments = 1
  /\ queryable \in BOOLEAN
  /\ probed = None /\ method = None /\ useProtocol = FALSE /\ lossRun = 0
  /\ sample = None /\ by = None

Next == TakeSample \/ NewSegment \/ NetworkChanges

Spec == Init /\ [][Next]_vars

(* The sampler's ticker keeps firing while a segment is open. *)
FairSpec == Spec /\ WF_vars(TakeSample)

-----------------------------------------------------------------------------
(* types.go: stats of mixed methods "must never be averaged with clean     *)
(* ones downstream", which rests on each sample's label.  A sample is      *)
(* labelled "protocol" exactly when the game's protocol measured it,       *)
(* although label and measurement are chosen in different samples; and     *)
(* "direct" only if the game server itself was probed.                     *)
LabelIsTheMeasurement ==
  sample # None =>
    /\ sample.method = "protocol" <=> by = "protocol"
    /\ sample.method = "direct" => sample.probed = Target

(* Something on the path that a sample can measure. *)
Measurable == (queryable /\ net.query) \/ net.icmp \/ net.hop = "echo"

(* A path that answered the latest sample survives the next one, lost or   *)
(* not: only a run of losses gives it up (never fewer than two).           *)
AnsweringPathIsKept ==
  [][(sample # None /\ sample.received /\ segments' = segments)
       => probed' = probed \/ ReResolveAfterLoss = 1]_vars

(* Whatever happened before, a network that settles into a measurable      *)
(* state is measured: from some sample on every sample has replies.  (When *)
(* the network stays one n, sample's bursts all run in n.)                 *)
SettledPathIsMeasured ==
  \A n \in Network :
    <>[](net = n /\ Measurable) => <>[](sample # None /\ sample.received)
=============================================================================
