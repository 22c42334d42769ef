-------------------------- MODULE DiscoveryProofs --------------------------
(***************************************************************************)
(* FlowSession.tla and Discovery.tla for any processes, any number of      *)
(* recordings, losses and events: what a poll is handed belongs to this    *)
(* recording and its processes, and no loss goes unpaid.                   *)
(***************************************************************************)
EXTENDS Discovery, FiniteSetTheorems, TLAPS

-----------------------------------------------------------------------------
(* The inductive invariant *)

Event == [pid : Pids, at : Nat]

Types ==
  /\ clock \in Nat /\ minimum \in Nat
  /\ losses \in Nat /\ previousHealth \in Nat
  /\ flows \subseteq Event /\ buffered \subseteq Event /\ inflight \subseteq Event
  /\ batch \subseteq Event
  /\ phase \in {"idle", "setup", "loop", "taken", "panicked"}
  /\ unpaid \in BOOLEAN

(* The callback handles one event at a time. *)
Single(s) == \E x : s \subseteq {x}

(* What the callback, the accumulator and the poll hold between them. *)
Held == flows \cup batch \cup inflight

Stale(s) == {e \in s : e.at < minimum}

(* An event from before the observer was opened was in the callback then,  *)
(* or is nowhere.                                                          *)
Staleness ==
  /\ minimum <= clock
  /\ Single(inflight)
  /\ Single(Stale(Held))
  /\ phase # "taken" => batch = {}

Belonging == Fresh => \A f \in flows : f.pid \in targets

(* A loss not yet paid for shows in the next comparison. *)
Accounting ==
  /\ previousHealth <= losses
  /\ unpaid => previousHealth < losses
  /\ phase = "setup" => ~ unpaid

IInv == Types /\ Staleness /\ Belonging /\ Accounting

-----------------------------------------------------------------------------
(* What the steps of the observer and of a recording do to the ranges. *)
LEMMA StepTypes == Types /\ [Next]_vars => Types'
<1> SUFFICES ASSUME Types, [Next]_vars PROVE Types'
  OBVIOUS
<1> USE DEF control, events, session, recorder, Types
<1>1. ASSUME NEW p \in Pids, Happens(p), UNCHANGED recorder PROVE Types'
  <2>1. [pid |-> p, at |-> clock] \in Event
    BY DEF Event
  <2> QED BY <1>1, <2>1 DEF Happens
<1>2. ASSUME NEW e \in buffered, Deliver(e), UNCHANGED recorder PROVE Types'
  BY <1>2 DEF Deliver
<1>3. CASE Count /\ UNCHANGED recorder
  BY <1>3 DEF Count
<1>4. CASE TakenOver /\ UNCHANGED recorder
  BY <1>4 DEF TakenOver
<1>5. CASE LossIsSeen
  <2>1. unpaid' \in BOOLEAN
    BY <1>5 DEF LossIsSeen
  <2>2. UNCHANGED <<control, events, phase, previousHealth, batch>> /\ losses' = losses + 1
    BY <1>5 DEF LossIsSeen, Lose
  <2> QED BY <2>1, <2>2
<1>6. ASSUME NEW new \in SUBSET Pids \ {{}}, OpenFlows(new) PROVE Types'
  <2>1. /\ clock' = clock + 1 /\ (minimum' = minimum \/ minimum' = clock')
        /\ flows' = flows \/ flows' = {}
        /\ UNCHANGED <<buffered, inflight, losses>>
    BY <1>6 DEF OpenFlows, EnableAgain, EnableAfresh
  <2>2. phase' = "setup" /\ previousHealth' = 0 /\ batch' = {} /\ unpaid' = FALSE
    BY <1>6 DEF OpenFlows
  <2>3. clock' \in Nat /\ minimum' \in Nat /\ losses' \in Nat /\ previousHealth' \in Nat
    BY <2>1, <2>2
  <2>4. flows' \subseteq Event /\ buffered' \subseteq Event /\ inflight' \subseteq Event
    BY <2>1
  <2> QED BY <2>2, <2>3, <2>4
<1>7. ASSUME NEW new \in SUBSET Pids \ {{}}, OpenFails(new) PROVE Types'
  BY <1>7 DEF OpenFails, EnableAfresh
<1>8. CASE UseNoTrace
  BY <1>8 DEF UseNoTrace
<1>9. CASE Baseline
  BY <1>9 DEF Baseline
<1>10. ASSUME NEW new \in SUBSET Pids, AlivePoll(new) PROVE Types'
  BY <1>10 DEF AlivePoll, SetTargetPIDs
<1>11. CASE PollTakesFlows
  BY <1>11 DEF PollTakesFlows, TakeFlows
<1>12. CASE CheckHealth
  BY <1>12 DEF CheckHealth, HealthUnavailable, HealthDegraded, HealthGood
<1>13. CASE CloseFlows
  BY <1>13 DEF CloseFlows, Disable
<1>14. CASE Quit
  BY <1>14 DEF Quit, CloseTrace
<1>15. CASE UNCHANGED vars
  BY <1>15 DEF vars
<1> QED BY <1>1, <1>2, <1>3, <1>4, <1>5, <1>6, <1>7, <1>8, <1>9, <1>10, <1>11, <1>12, <1>13,
           <1>14, <1>15 DEF Next, Observer

-----------------------------------------------------------------------------
LEMMA SingleSubset ==
  ASSUME NEW s, NEW t, Single(t), s \subseteq t
  PROVE  Single(s)
BY DEF Single

LEMMA SingleCardinality ==
  ASSUME NEW s, Single(s)
  PROVE  Cardinality(s) <= 1
<1>1. PICK x : s \subseteq {x}
  BY DEF Single
<1>2. IsFiniteSet({x}) /\ Cardinality({x}) = 1
  BY FS_Singleton
<1>3. Cardinality(s) <= Cardinality({x})
  BY <1>1, <1>2, FS_Subset
<1> QED BY <1>2, <1>3

(* Nothing but the callback and the opening of a recording can make an     *)
(* event of the past count, and these two see one.                         *)
LEMMA StepStaleness == Types /\ Staleness /\ [Next]_vars => Staleness'
<1> SUFFICES ASSUME Types, Staleness, [Next]_vars PROVE Staleness'
  OBVIOUS
<1> USE DEF control, events, session, recorder
<1>1. clock \in Nat /\ minimum \in Nat /\ minimum <= clock
  BY DEF Types, Staleness
<1>2. \A e \in Event : e.at \in Nat
  BY DEF Event
<1>3. ASSUME UNCHANGED <<clock, minimum>>, Stale(Held)' \subseteq Stale(Held),
             inflight' \subseteq inflight, phase' # "taken" => batch' = {}
      PROVE  Staleness'
  BY <1>3, SingleSubset DEF Staleness
<1>4. ASSUME UNCHANGED <<clock, minimum, flows, batch>>, inflight' \subseteq inflight,
             phase # "taken", phase' # "taken"
      PROVE  Staleness'
  BY <1>3, <1>4 DEF Held, Stale, Staleness
<1>5. ASSUME UNCHANGED <<clock, minimum, flows, batch, phase>>, inflight' \subseteq inflight
      PROVE  Staleness'
  BY <1>3, <1>5 DEF Held, Stale, Staleness
<1>6. ASSUME NEW p \in Pids, Happens(p), UNCHANGED recorder PROVE Staleness'
  BY <1>5, <1>6 DEF Happens
<1>7. ASSUME NEW e \in buffered, Deliver(e), UNCHANGED recorder PROVE Staleness'
  <2>1. /\ inflight = {} /\ inflight' \subseteq {e}
        /\ \A x \in inflight' : x.at >= minimum
        /\ UNCHANGED <<clock, minimum, flows, batch, phase>>
        /\ e.at \in Nat
    BY <1>2, <1>7 DEF Deliver, Types
  <2>2. Stale(Held)' \subseteq Stale(Held)
    BY <1>1, <2>1 DEF Stale, Held
  <2>3. Single(inflight')
    BY <2>1 DEF Single
  <2> QED BY <1>1, <2>1, <2>2, <2>3, SingleSubset DEF Staleness
<1>8. CASE Count /\ UNCHANGED recorder
  <2>1. /\ inflight' = {} /\ flows' \subseteq flows \cup inflight
        /\ UNCHANGED <<clock, minimum, batch, phase>>
    BY <1>8 DEF Count
  <2>2. Stale(Held)' \subseteq Stale(Held)
    BY <2>1 DEF Stale, Held
  <2> QED BY <1>3, <2>1, <2>2 DEF Staleness
<1>9. CASE TakenOver /\ UNCHANGED recorder
  BY <1>5, <1>9 DEF TakenOver
<1>10. CASE LossIsSeen
  BY <1>5, <1>10 DEF LossIsSeen, Lose
<1>11. ASSUME NEW new, EnableAfresh(new), batch' = {}
       PROVE  Staleness'
  <2>1. clock' = clock + 1 /\ minimum' = clock' /\ flows' = {} /\ inflight' = inflight
    BY <1>11 DEF EnableAfresh
  <2>2. Stale(Held)' \subseteq inflight
    BY <1>11, <2>1 DEF Stale, Held
  <2> QED BY <1>1, <1>11, <2>1, <2>2, SingleSubset DEF Staleness
<1>12. ASSUME NEW new, EnableAgain(new), batch' = {}
       PROVE  Staleness'
  <2>1. /\ clock' = clock + 1 /\ minimum' = minimum
        /\ inflight' = inflight /\ flows' = flows
    BY <1>12 DEF EnableAgain
  <2>2. Stale(Held)' \subseteq Stale(Held)
    BY <1>12, <2>1 DEF Stale, Held
  <2>3. minimum' <= clock'
    BY <1>1, <2>1
  <2> QED BY <1>12, <2>1, <2>2, <2>3, SingleSubset DEF Staleness
<1>13. ASSUME NEW new \in SUBSET Pids \ {{}}, OpenFlows(new) PROVE Staleness'
  BY <1>11, <1>12, <1>13 DEF OpenFlows
<1>14. ASSUME NEW new \in SUBSET Pids \ {{}}, OpenFails(new) PROVE Staleness'
  <2>1. CASE EnableAfresh(new) /\ UNCHANGED recorder
    BY <1>11, <1>14, <2>1 DEF OpenFails, Staleness
  <2>2. CASE UNCHANGED <<session, recorder>>
    BY <1>5, <2>2
  <2> QED BY <1>14, <2>1, <2>2 DEF OpenFails
<1>15. CASE UseNoTrace
  BY <1>4, <1>15 DEF UseNoTrace
<1>16. CASE Baseline
  BY <1>4, <1>16 DEF Baseline
<1>17. ASSUME NEW new \in SUBSET Pids, AlivePoll(new) PROVE Staleness'
  <2>1. /\ flows' \subseteq flows
        /\ UNCHANGED <<clock, minimum, batch, phase, inflight>>
    BY <1>17 DEF AlivePoll, SetTargetPIDs
  <2>2. Stale(Held)' \subseteq Stale(Held)
    BY <2>1 DEF Stale, Held
  <2> QED BY <1>3, <2>1, <2>2 DEF Staleness
<1>18. CASE PollTakesFlows
  <2>1. /\ flows' = {} /\ batch' = flows /\ phase' = "taken"
        /\ UNCHANGED <<clock, minimum, inflight>>
    BY <1>18 DEF PollTakesFlows, TakeFlows
  <2>2. Stale(Held)' \subseteq Stale(Held)
    BY <2>1 DEF Stale, Held
  <2> QED BY <1>3, <2>1, <2>2
<1>19. CASE CheckHealth
  <2>1. batch' = {} /\ UNCHANGED <<clock, minimum, flows, inflight>>
    BY <1>19 DEF CheckHealth
  <2>2. Stale(Held)' \subseteq Stale(Held)
    BY <2>1 DEF Stale, Held
  <2> QED BY <1>3, <2>1, <2>2
<1>20. CASE CloseFlows
  BY <1>4, <1>20 DEF CloseFlows, Disable
<1>21. CASE Quit
  BY <1>5, <1>21 DEF Quit, CloseTrace
<1>22. CASE UNCHANGED vars
  BY <1>5, <1>22 DEF vars
<1> QED BY <1>6, <1>7, <1>8, <1>9, <1>10, <1>13, <1>14, <1>15, <1>16, <1>17, <1>18, <1>19,
           <1>20, <1>21, <1>22 DEF Next, Observer

-----------------------------------------------------------------------------
(* Targets and accumulator change together. *)
LEMMA StepBelonging == Types /\ Staleness /\ Belonging /\ [Next]_vars => Belonging'
<1> SUFFICES ASSUME Types, Staleness, Belonging, [Next]_vars PROVE Belonging'
  OBVIOUS
<1> USE DEF control, events, session, recorder
<1>1. ASSUME UNCHANGED <<clock, minimum, targets>>, flows' \subseteq flows
      PROVE  Belonging'
  BY <1>1 DEF Belonging, Fresh
<1>2. CASE Count /\ UNCHANGED recorder
  BY <1>2 DEF Count, Belonging, Fresh
<1>3. ASSUME NEW new, EnableAfresh(new) PROVE Belonging'
  BY <1>3 DEF EnableAfresh, Belonging
<1>4. ASSUME NEW new, EnableAgain(new) PROVE Belonging'
  <2>1. clock' = clock + 1 /\ minimum' = minimum
    BY <1>4 DEF EnableAgain
  <2>2. ~ Fresh'
    BY <2>1 DEF Fresh, Types, Staleness
  <2> QED BY <2>2 DEF Belonging
<1>5. ASSUME NEW new, SetTargetPIDs(new) PROVE Belonging'
  BY <1>5 DEF SetTargetPIDs, Belonging
<1> QED BY <1>1, <1>2, <1>3, <1>4, <1>5
        DEF Next, vars, Observer, Happens, Deliver, TakenOver, LossIsSeen, Lose, OpenFlows,
            OpenFails, UseNoTrace, Baseline, AlivePoll, PollTakesFlows, TakeFlows,
            CheckHealth, CloseFlows, Disable, Quit, CloseTrace

(* A loss is seen by the health query after it, or by a later one. *)
LEMMA StepAccounting == Types /\ Accounting /\ [Next]_vars => Accounting'
<1> SUFFICES ASSUME Types, Accounting, [Next]_vars PROVE Accounting'
  OBVIOUS
<1> USE DEF control, events, session, recorder
<1>1. losses \in Nat /\ previousHealth \in Nat /\ previousHealth <= losses
  BY DEF Types, Accounting
<1>2. ASSUME UNCHANGED <<losses, previousHealth, unpaid>>,
             phase' = "setup" => phase = "setup"
      PROVE  Accounting'
  BY <1>2 DEF Accounting
<1>3. CASE LossIsSeen
  <2>1. losses' = losses + 1 /\ UNCHANGED <<phase, previousHealth>>
    BY <1>3 DEF LossIsSeen, Lose
  <2>2. previousHealth' < losses' /\ previousHealth' <= losses'
    BY <1>1, <2>1
  <2>3. phase' = "setup" => ~ unpaid'
    BY <1>3 DEF LossIsSeen, Accounting
  <2> QED BY <2>2, <2>3 DEF Accounting
<1>4. ASSUME NEW new \in SUBSET Pids \ {{}}, OpenFlows(new) PROVE Accounting'
  <2>1. losses' = losses /\ previousHealth' = 0 /\ unpaid' = FALSE
    BY <1>4 DEF OpenFlows, EnableAgain, EnableAfresh
  <2> QED BY <1>1, <2>1 DEF Accounting
<1>5. CASE Baseline
  <2>1. /\ losses' = losses /\ previousHealth' \in {losses, 0}
        /\ phase' = "loop" /\ ~ unpaid'
    BY <1>5 DEF Baseline, Accounting
  <2> QED BY <1>1, <2>1 DEF Accounting
<1>6. CASE CheckHealth
  <2>1. losses' = losses /\ phase' = "loop"
    BY <1>6 DEF CheckHealth
  <2>2. CASE HealthUnavailable
    BY <1>2, <2>1, <2>2 DEF HealthUnavailable
  <2>3. CASE HealthDegraded
    BY <1>1, <2>1, <2>3 DEF HealthDegraded, Accounting
  <2>4. CASE HealthGood
    <3>1. ~ unpaid' /\ previousHealth' = losses'
      <4>1. ~ (previousHealth < losses)
        BY <1>1, <2>4 DEF HealthGood
      <4> QED BY <2>1, <2>4, <4>1 DEF HealthGood, Accounting
    <3> QED BY <1>1, <2>1, <3>1 DEF Accounting
  <2> QED BY <1>6, <2>2, <2>3, <2>4 DEF CheckHealth
<1>7. CASE ~ (LossIsSeen \/ Baseline \/ CheckHealth
              \/ \E new \in SUBSET Pids \ {{}} : OpenFlows(new))
  <2>1. UNCHANGED <<losses, previousHealth, unpaid>>
    BY <1>7 DEF Next, vars, Observer, Happens, Deliver, Count, TakenOver, OpenFails,
       EnableAfresh, UseNoTrace, AlivePoll, SetTargetPIDs, PollTakesFlows, TakeFlows,
       CloseFlows, Disable, Quit, CloseTrace
  <2>2. phase' = "setup" => phase = "setup"
    BY <1>7 DEF Next, vars, Observer, OpenFails, UseNoTrace, AlivePoll, PollTakesFlows,
       CloseFlows, Quit
  <2> QED BY <1>2, <2>1, <2>2
<1> QED BY <1>3, <1>4, <1>5, <1>6, <1>7

-----------------------------------------------------------------------------
(* The invariant of the observer and its recordings. *)
THEOREM InvariantHolds == Spec => []IInv
<1>1. Init => IInv
  <2> SUFFICES ASSUME Init PROVE IInv
    OBVIOUS
  <2>1. Types
    BY DEF Init, SessionInit, Types
  <2>2. inflight = {} /\ Stale(Held) = {}
    BY DEF Init, SessionInit, Held, Stale
  <2>3. Staleness
    BY <2>2 DEF Init, SessionInit, Staleness, Single
  <2>4. Belonging /\ Accounting
    BY DEF Init, SessionInit, Belonging, Accounting
  <2> QED BY <2>1, <2>3, <2>4 DEF IInv
<1>2. IInv /\ [Next]_vars => IInv'
  BY StepTypes, StepStaleness, StepBelonging, StepAccounting DEF IInv
<1> QED BY <1>1, <1>2, PTL DEF Spec

(* The snapshot of a recording is never ahead of the observer, and what is *)
(* accumulated belongs to the processes watched at this moment.            *)
THEOREM SourceStaysConsistent == Spec => []SourceConsistent
<1>1. IInv => SourceConsistent
  BY DEF IInv, Belonging, Accounting, SourceConsistent
<1> QED BY <1>1, InvariantHolds, PTL

(* Of the packets from before the observer was last opened at most one     *)
(* gets into the accumulator and the batches, however many were buffered   *)
(* and however many recordings keep the observer on.                       *)
THEOREM StaleEventsAreOne == Spec => []AtMostOneStaleEvent
<1>1. IInv => AtMostOneStaleEvent
  <2> SUFFICES ASSUME IInv
               PROVE  Cardinality({e \in flows \cup batch : e.at < minimum}) <= 1
    BY DEF AtMostOneStaleEvent
  <2>1. {e \in flows \cup batch : e.at < minimum} \subseteq Stale(Held)
    BY DEF Stale, Held
  <2>2. Single({e \in flows \cup batch : e.at < minimum})
    BY <2>1, SingleSubset DEF IInv, Staleness
  <2> QED BY <2>2, SingleCardinality
<1> QED BY <1>1, InvariantHolds, PTL

(* No batch is ranked while a loss has cost none, nor after the trace was  *)
(* stopped, whatever the health queries between answered.                  *)
THEOREM LossesAreAllPaid == Spec => EveryLossCostsABatch
<1>1. IInv /\ [Next]_vars => [Ranks => ~ unpaid /\ trace = "up"]_vars
  <2> SUFFICES ASSUME IInv, Next, Ranks PROVE ~ unpaid /\ trace = "up"
    OBVIOUS
  <2> USE DEF control, events, session, recorder
  <2>1. CheckHealth
    BY DEF Next, Ranks, Observer, LossIsSeen, OpenFlows, OpenFails, UseNoTrace, Baseline,
           AlivePoll, PollTakesFlows, CloseFlows, Quit
  <2>2. HealthGood
    BY <2>1 DEF Ranks, CheckHealth, HealthUnavailable, HealthDegraded
  <2>3. trace = "up" /\ ~ (previousHealth < losses)
    BY <2>2 DEF HealthGood, HealthKnown, IInv, Types
  <2> QED BY <2>3 DEF IInv, Accounting
<1> QED BY <1>1, InvariantHolds, PTL DEF Spec, EveryLossCostsABatch
=============================================================================
