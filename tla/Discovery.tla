----------------------------- MODULE Discovery -----------------------------
(***************************************************************************)
(* recorder.go's use of the flow observer, recording after recording: Run  *)
(* opens and closes it, discoveryPoll takes its batches and asks for its   *)
(* health.                                                                 *)
(*                                                                         *)
(* A poll takes the batch and then reads the health: two steps here,       *)
(* because the observer runs, and loses events, between them.  Opening the *)
(* observer, classifying the network and reading the first health snapshot *)
(* are likewise separate.  g.pids and the observer's targets are set       *)
(* together: `targets` stands for both.  The poll's TCP half and what      *)
(* becomes of its observations are the subject of Matches.                 *)
(***************************************************************************)
EXTENDS FlowSession

CONSTANT MaxRecordings   (* BOUND: recordings of one process               *)

ASSUME DiscoveryAssumption == MaxRecordings \in Nat

VARIABLES
  phase,          (* "idle"; "setup" and "loop" in a recording, "taken"
                     inside a poll; "panicked"                             *)
  previousHealth, (* flowHealth                                            *)
  batch,          (* what TakeFlows returned to the poll under way         *)
  verdict,        (* the latest poll: "none", "ranked", "degraded",
                     "unavailable"                                         *)
  unpaid          (* history: a loss the loop could see has cost no batch  *)

recorder == <<phase, previousHealth, batch, verdict, unpaid>>
vars     == <<session, recorder>>

-----------------------------------------------------------------------------
OpenFlows(new) ==
  /\ phase = "idle" /\ clock < MaxRecordings
  /\ \/ EnableAgain(new)
     \/ EnableAfresh(new) /\ enabled'
  /\ phase' = "setup"
  /\ previousHealth' = 0
  /\ batch' = {} /\ verdict' = "none" /\ unpaid' = FALSE

(* The recording goes on with the socket table alone: the provider cannot  *)
(* be enabled, or there is no trace (`pingrank record` tests its own       *)
(* pointer for nil) or not any more.                                       *)
OpenFails(new) ==
  /\ phase = "idle" /\ clock < MaxRecordings
  /\ \/ EnableAfresh(new) /\ ~ enabled'
     \/ trace \in {"none", "dead"} /\ UNCHANGED session
  /\ UNCHANGED recorder

(* In the service StartPersistentSession's failed session is a nil pointer *)
(* in a non-nil interface: the tests for nil pass it on, and its first use *)
(* panics.                                                                 *)
UseNoTrace ==
  /\ phase = "idle" /\ trace = "none"
  /\ phase' = "panicked"
  /\ UNCHANGED <<session, previousHealth, batch, verdict, unpaid>>

(* The first snapshot; zero when it cannot be read. *)
Baseline ==
  /\ phase = "setup"
  /\ phase' = "loop"
  /\ previousHealth' \in {h \in {losses, 0} : h = 0 \/ HealthKnown}
  /\ UNCHANGED <<session, batch, verdict, unpaid>>

(* The game's processes now; none while it is away. *)
AlivePoll(new) ==
  /\ phase = "loop"
  /\ SetTargetPIDs(new)
  /\ UNCHANGED recorder

(* Mutant: the snapshot to compare with is refreshed as the batch is taken. *)
PollTakesHealthToo ==
  /\ phase = "loop"
  /\ phase' = "taken"
  /\ TakeFlows
  /\ batch' = flows
  /\ previousHealth' = losses
  /\ UNCHANGED <<verdict, unpaid>>

PollTakesFlows ==
  /\ phase = "loop"
  /\ phase' = "taken"
  /\ TakeFlows
  /\ batch' = flows
  /\ UNCHANGED <<previousHealth, verdict, unpaid>>

(* Health cannot be read: the batch is dropped, the snapshot kept. *)
HealthUnavailable ==
  /\ verdict' = "unavailable"
  /\ UNCHANGED <<previousHealth, unpaid>>

(* Mutant: the snapshot is not moved past a loss already reported. *)
HealthDegradedForever ==
  /\ HealthKnown /\ losses > previousHealth
  /\ verdict' = "degraded"
  /\ unpaid' = FALSE
  /\ UNCHANGED previousHealth

HealthDegraded ==
  /\ HealthKnown /\ losses > previousHealth
  /\ verdict' = "degraded"
  /\ previousHealth' = losses
  /\ unpaid' = FALSE

HealthGood ==
  /\ HealthKnown /\ losses <= previousHealth
  /\ verdict' = "ranked"
  /\ previousHealth' = losses
  /\ UNCHANGED unpaid

CheckHealth ==
  /\ phase = "taken"
  /\ HealthUnavailable \/ HealthDegraded \/ HealthGood
  /\ phase' = "loop"
  /\ batch' = {}
  /\ UNCHANGED session

(* The recording ends; its deferred Close disables the provider. *)
CloseFlows ==
  /\ phase = "loop"
  /\ phase' = "idle"
  /\ Disable
  /\ UNCHANGED <<previousHealth, batch, verdict, unpaid>>

(* The process ends between recordings. *)
Quit ==
  /\ phase = "idle"
  /\ CloseTrace
  /\ UNCHANGED recorder

LossIsSeen ==
  /\ Lose
  /\ unpaid' = (unpaid \/ phase \in {"loop", "taken"})
  /\ UNCHANGED <<phase, previousHealth, batch, verdict>>

-----------------------------------------------------------------------------
Init ==
  /\ SessionInit
  /\ phase = "idle"
  /\ previousHealth = 0
  /\ batch = {} /\ verdict = "none" /\ unpaid = FALSE

Observer ==
  /\ \/ \E p \in Pids : Happens(p)
     \/ \E e \in buffered : Deliver(e)
     \/ Count
     \/ TakenOver
  /\ UNCHANGED recorder

Next ==
  \/ Observer
  \/ LossIsSeen
  \/ \E new \in SUBSET Pids \ {{}} : OpenFlows(new) \/ OpenFails(new)
  \/ UseNoTrace
  \/ Baseline
  \/ \E new \in SUBSET Pids : AlivePoll(new)
  \/ PollTakesFlows \/ CheckHealth
  \/ CloseFlows
  \/ Quit

Spec == Init /\ [][Next]_vars

(* The loop's goroutine runs and a timer that has fired is served; a       *)
(* health query is assumed to succeed now and then.                        *)
FairSpec ==
  /\ Spec
  /\ WF_vars(Baseline)
  /\ WF_vars(PollTakesFlows)
  /\ SF_vars(CheckHealth /\ verdict' # "unavailable")

-----------------------------------------------------------------------------
(* The session was opened afresh for the present recording. *)
Fresh == minimum = clock

(* In a recording whose session was opened afresh, the snapshot the loop   *)
(* compares with is never ahead of the observer's, and what is accumulated *)
(* belongs to the targets of this moment: packets of a process that left   *)
(* cannot come back under its PID's next owner.                            *)
SourceConsistent ==
  phase # "idle" =>
    /\ previousHealth <= losses
    /\ Fresh => \A f \in flows : f.pid \in targets

(* Opening the observer leaves the packets of earlier recordings behind:   *)
(* of those from before it was last opened, accumulator and batch have at  *)
(* most the one that was inside the callback at that moment, for all the   *)
(* recordings that follow.  These are several when Disable fails: the      *)
(* observer is then not opened but kept on, and all packets since its      *)
(* opening count, those of the recordings in between included.             *)
AtMostOneStaleEvent ==
  Cardinality({e \in flows \cup batch : e.at < minimum}) <= 1

(* The step that hands a batch to the ranking. *)
Ranks == phase = "taken" /\ phase' = "loop" /\ verdict' = "ranked"

(* Every loss after the first snapshot costs a batch: none is ranked       *)
(* before one has been discarded for it, even if the health could not be   *)
(* read in between; and none is ranked once the trace has been stopped     *)
(* from outside.                                                           *)
EveryLossCostsABatch ==
  [][Ranks => ~ unpaid /\ trace = "up"]_vars

(* Once losses stop, batches are ranked again for as long as the recording *)
(* and the trace last: a burst of losses does not switch UDP discovery     *)
(* off.                                                                    *)
RankingRecovers ==
  []<>(verdict = "ranked" \/ phase \in {"idle", "panicked"} \/ trace # "up")

(* runner_test.go: TestOpenETWSourcePreservesStartupFailure expects a      *)
(* failed start of the trace to come back as an error from which the       *)
(* recording goes on without UDP.                                          *)
StartFailureIsAnError == phase # "panicked"
=============================================================================
