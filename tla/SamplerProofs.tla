---------------------------- MODULE SamplerProofs ----------------------------
(***************************************************************************)
(* Sampler.tla for any re-resolve threshold and any number of segments: a  *)
(* sample's label says how it was measured, and a path that answers is     *)
(* kept.                                                                   *)
(***************************************************************************)
EXTENDS Sampler, TLAPS

-----------------------------------------------------------------------------
(* The inductive invariant *)

Types ==
  /\ segments \in Nat /\ lossRun \in Nat
  /\ probed \in {None, Target, Hop}
  /\ useProtocol \in BOOLEAN
  /\ sample \in {None} \cup Sample

(* What later samples will be labelled is chosen with how they will be     *)
(* measured.                                                               *)
Established ==
  probed # None =>
    /\ useProtocol <=> method = "protocol"
    /\ method \in Methods
    /\ method = "direct" => probed = Target

Answered == sample # None /\ sample.received => probed # None /\ lossRun = 0

IInv == Types /\ Established /\ Answered /\ LabelIsTheMeasurement

-----------------------------------------------------------------------------
(* Resolve labels what it probed. *)
LEMMA ResolveLabels ==
  ASSUME NEW n \in Network, NEW m \in Network, NEW l \in Network
  PROVE  /\ Resolve(n, m, l) \in Sample
         /\ Resolve(n, m, l).method # "protocol"
         /\ Resolve(n, m, l).method = "direct" => Resolve(n, m, l).probed = Target
<1>1. LastHop(m) \in {Target, Hop, None} /\ n.icmp \in BOOLEAN
  BY DEF LastHop, Network
<1>2. \A p : Answers(l, p) \in BOOLEAN
  BY DEF Answers, Network
<1> QED BY <1>1, <1>2 DEF Resolve, Sample, Methods

(* The tail of a sample: the path goes only with the last loss of a run.   *)
LEMMA EmitKeeps ==
  ASSUME SamplerAssumption, Types, UNCHANGED segments,
         NEW how \in {"protocol", "icmp"}, NEW s \in Sample,
         NEW established \in {None, Target, Hop}, Emit(how, s, established),
         s.received => established # None,
         useProtocol' \in BOOLEAN,
         established # None =>
           /\ useProtocol' <=> method' = "protocol"
           /\ method' \in Methods
           /\ method' = "direct" => established = Target,
         s.method = "protocol" <=> how = "protocol",
         s.method = "direct" => s.probed = Target
  PROVE  IInv'
<1>1. s # None /\ s.received \in BOOLEAN
  BY DEF SamplerAssumption, Sample
<1>2. /\ sample' = s /\ by' = how
      /\ probed' \in {None, established}
      /\ s.received => probed' = established /\ lossRun' = 0
      /\ lossRun' \in Nat
  BY <1>1 DEF Emit, Worn, Types
<1>3. Types'
  BY <1>2 DEF Types
<1>4. Established'
  BY <1>2 DEF Established
<1>5. Answered'
  BY <1>2 DEF Answered
<1>6. LabelIsTheMeasurement'
  BY <1>2 DEF LabelIsTheMeasurement
<1> QED BY <1>3, <1>4, <1>5, <1>6 DEF IInv

(* Nothing learnt, nothing to be wrong about. *)
LEMMA FreshSegment ==
  ASSUME segments \in Nat, probed = None, useProtocol = FALSE, lossRun = 0, sample = None
  PROVE  IInv
<1>1. Types
  BY DEF Types
<1>2. Established /\ Answered
  BY DEF Established, Answered
<1>3. LabelIsTheMeasurement
  BY DEF LabelIsTheMeasurement
<1> QED BY <1>1, <1>2, <1>3 DEF IInv

LEMMA InitInv == Init => IInv
<1>1. Init => segments \in Nat
  BY DEF Init
<1> QED BY <1>1, FreshSegment DEF Init

LEMMA StepInv == IInv /\ net \in Network /\ [Next]_vars => IInv' /\ net' \in Network
<1> SUFFICES ASSUME IInv, net \in Network, [Next]_vars PROVE IInv' /\ net' \in Network
  OBVIOUS
<1> USE SamplerAssumption
<1>1. CASE TakeSample
  <2>1. PICK l \in Network :
          /\ net' = l
          /\ \/ EstablishProtocol
             \/ \E m \in {net, l} : EstablishIcmp(m, l)
             \/ RepeatProtocol \/ RepeatPing
    BY <1>1 DEF TakeSample
  <2>2. UNCHANGED <<segments, queryable>> /\ Types
    BY <1>1 DEF TakeSample, IInv
  <2>3. Target # None /\ Hop # None
    BY DEF SamplerAssumption
  <2>4. CASE EstablishProtocol
    <3> DEFINE s == [method |-> "protocol", probed |-> Target, received |-> TRUE]
    <3>1. s \in Sample /\ s.method = "protocol"
      BY DEF Sample, Methods
    <3>2. Emit("protocol", s, Target) /\ method' = "protocol" /\ useProtocol' = TRUE
      BY <2>4 DEF EstablishProtocol
    <3> HIDE DEF s
    <3> QED BY <2>1, <2>2, <2>3, <3>1, <3>2, EmitKeeps DEF Methods
  <2>5. ASSUME NEW m \in {net, l}, EstablishIcmp(m, l) PROVE IInv'
    <3> DEFINE s == Resolve(net, m, l)
               to == IF s.received THEN s.probed ELSE None
    <3>1. /\ s \in Sample /\ s.method # "protocol"
          /\ s.method = "direct" => s.probed = Target
      BY <2>1, ResolveLabels
    <3>2. Emit("icmp", s, to) /\ method' = s.method /\ useProtocol' = FALSE
      BY <2>5 DEF EstablishIcmp
    <3>3. s.probed \in {Target, Hop} /\ s.method \in Methods /\ s.received \in BOOLEAN
      BY <3>1 DEF Sample
    <3> HIDE DEF s
    <3>4. to \in {None, Target, Hop} /\ (s.received => to # None)
          /\ (to # None => to = s.probed)
      BY <2>3, <3>3
    <3> HIDE DEF to
    <3> QED BY <2>1, <2>2, <3>1, <3>2, <3>3, <3>4, EmitKeeps
  <2>6. ASSUME NEW received \in BOOLEAN, NEW how \in {"protocol", "icmp"},
               useProtocol <=> how = "protocol", probed # None,
               Emit(how, [method |-> method, probed |-> probed, received |-> received], probed),
               UNCHANGED <<method, useProtocol>>
        PROVE  IInv'
    <3> DEFINE s == [method |-> method, probed |-> probed, received |-> received]
    <3>1. /\ method \in Methods /\ probed \in {Target, Hop}
          /\ useProtocol <=> method = "protocol"
          /\ method = "direct" => probed = Target
          /\ useProtocol \in BOOLEAN
      BY <2>6 DEF IInv, Established, Types
    <3>2. s \in Sample /\ s.method = method /\ s.probed = probed /\ s.received = received
      BY <3>1 DEF Sample
    <3>3. Emit(how, s, probed)
      BY <2>6
    <3> HIDE DEF s
    <3> QED BY <2>2, <2>6, <3>1, <3>2, <3>3, EmitKeeps
  <2>7. CASE RepeatProtocol
    BY <2>1, <2>6, <2>7 DEF RepeatProtocol, Network
  <2>8. CASE RepeatPing
    <3>1. Answers(net, probed) \in BOOLEAN
      BY DEF Answers, Network
    <3> QED BY <2>1, <2>2, <2>6, <2>8, <3>1 DEF RepeatPing, Types
  <2> QED BY <2>1, <2>4, <2>5, <2>7, <2>8
<1>2. CASE NewSegment
  <2>1. segments' \in Nat /\ net' \in Network
    BY <1>2 DEF NewSegment, IInv, Types
  <2>2. probed' = None /\ useProtocol' = FALSE /\ lossRun' = 0 /\ sample' = None
    BY <1>2 DEF NewSegment
  <2>3. Types'
    BY <2>1, <2>2 DEF Types
  <2>4. Established' /\ Answered' /\ LabelIsTheMeasurement'
    BY <2>2 DEF Established, Answered, LabelIsTheMeasurement
  <2> QED BY <2>1, <2>3, <2>4 DEF IInv
<1>3. CASE NetworkChanges \/ UNCHANGED vars
  <2>1. UNCHANGED <<segments, segment, sample, by>> /\ net' \in Network
    BY <1>3 DEF NetworkChanges, vars
  <2> QED BY <2>1 DEF segment, IInv, Types, Established, Answered, LabelIsTheMeasurement
<1> QED BY <1>1, <1>2, <1>3 DEF Next

-----------------------------------------------------------------------------
(* The invariant the theorems below rest on. *)
THEOREM InvariantHolds == Spec => [](IInv /\ net \in Network)
<1>1. Init => IInv /\ net \in Network
  BY InitInv DEF Init
<1>2. (IInv /\ net \in Network) /\ [Next]_vars => (IInv /\ net \in Network)'
  BY StepInv
<1> QED BY <1>1, <1>2, PTL DEF Spec

(* recorder.go's sample: a sample is labelled by the call that measured    *)
(* it, although the label was chosen with an earlier sample.               *)
THEOREM LabelsAreRight == Spec => []LabelIsTheMeasurement
<1>1. IInv => LabelIsTheMeasurement
  BY DEF IInv
<1> QED BY <1>1, InvariantHolds, PTL

(* recorder.go, lossRun: a path that answered the latest sample is not     *)
(* given up for the next, unless one loss is the whole run.                *)
THEOREM PathsAreKept == Spec => AnsweringPathIsKept
<1> DEFINE Kept == (sample # None /\ sample.received /\ segments' = segments)
                      => probed' = probed \/ ReResolveAfterLoss = 1
<1>1. IInv /\ [Next]_vars => [Kept]_vars
  <2> SUFFICES ASSUME IInv, Next, sample # None, sample.received, segments' = segments
               PROVE  probed' = probed \/ ReResolveAfterLoss = 1
    OBVIOUS
  <2>1. probed # None /\ lossRun = 0 /\ segments \in Nat
    BY DEF IInv, Answered, Types
  <2>2. ~ NewSegment
    BY <2>1 DEF NewSegment
  <2>3. CASE NetworkChanges
    BY <2>3 DEF NetworkChanges, segment
  <2>4. ASSUME NEW how, NEW s, Emit(how, s, probed) PROVE probed' = probed \/ ReResolveAfterLoss = 1
    BY <2>1, <2>4, SamplerAssumption DEF Emit, Worn, SamplerAssumption
  <2>5. CASE TakeSample
    BY <2>1, <2>4, <2>5 DEF TakeSample, EstablishProtocol, EstablishIcmp, RepeatProtocol, RepeatPing
  <2> QED BY <2>2, <2>3, <2>5 DEF Next
<1> QED BY <1>1, InvariantHolds, PTL DEF Spec, AnsweringPathIsKept
=============================================================================
