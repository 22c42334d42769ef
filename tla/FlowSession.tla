---------------------------- MODULE FlowSession ----------------------------
(***************************************************************************)
(* etw.go's Session: the controller of a trace that outlives recordings    *)
(* (StartTrace, Enable, Disable, Close) and the callback that counts the   *)
(* UDP events of the processes it is told to watch.                        *)
(*                                                                         *)
(* The controller's calls exclude each other (controlMu) and are one step  *)
(* each.  The callback runs on ETW's thread, one event at a time, and      *)
(* looks at the session twice: `collecting` and the event's age without    *)
(* the lock, the targets and the accumulator under it.  Any call may come  *)
(* in between.  Outside of a call `collecting` equals `enabled`.           *)
(*                                                                         *)
(* A flow stands for its packets: which process they belong to and when    *)
(* they were sent is all that is asked of them.  The clock is the number   *)
(* of recordings opened so far.  EventsLost, BuffersLost and SchemaErrors  *)
(* only grow and are compared each with its own past: one counter stands   *)
(* for the three.                                                          *)
(***************************************************************************)
EXTENDS Integers, FiniteSets

CONSTANTS
  Pids,          (* process ids, of games and others                       *)
  MaxLosses,     (* BOUND: losses the trace can suffer                     *)
  MaxBuffered    (* BOUND: events in ETW's buffers                         *)

ASSUME FlowSessionAssumption == MaxLosses \in Nat /\ MaxBuffered \in Nat

VARIABLES
  trace,      (* "up"; "none": it could not be started; "dead": someone
                 stopped it, the consumer is gone; "closed"                *)
  enabled,    (* the provider is on                                        *)
  targets,    (* the PID allowlist                                         *)
  minimum,    (* minimumQPC                                                *)
  flows,      (* the accumulator                                           *)
  losses,     (* Health                                                    *)
  clock,
  buffered,   (* events ETW has not delivered yet                          *)
  inflight    (* the event between onEvent's two looks, if any             *)

control == <<trace, enabled, targets, minimum, clock>>
events  == <<flows, buffered, inflight>>
session == <<control, events, losses>>

-----------------------------------------------------------------------------
(* The kernel and ETW's thread *)

(* A process sends or receives a packet. *)
Happens(p) ==
  /\ trace = "up" /\ enabled
  /\ Cardinality(buffered) < MaxBuffered
  /\ buffered' = buffered \cup {[pid |-> p, at |-> clock]}
  /\ UNCHANGED <<control, flows, inflight, losses>>

(* Mutant: the age of an event is not looked at. *)
DeliverOfAnyAge(e) ==
  /\ e \in buffered /\ inflight = {}
  /\ buffered' = buffered \ {e}
  /\ inflight' = {x \in {e} : enabled}
  /\ UNCHANGED <<control, flows, losses>>

Deliver(e) ==
  /\ e \in buffered /\ inflight = {}
  /\ buffered' = buffered \ {e}
  /\ inflight' = {x \in {e} : enabled /\ x.at >= minimum}
  /\ UNCHANGED <<control, flows, losses>>

Count ==
  /\ inflight # {}
  /\ inflight' = {}
  /\ flows' = flows \cup {e \in inflight : e.pid \in targets}
  /\ UNCHANGED <<control, buffered, losses>>

(* ETW drops an event or a buffer, or the callback rejects a schema. *)
Lose ==
  /\ trace = "up" /\ losses < MaxLosses
  /\ losses' = losses + 1
  /\ UNCHANGED <<control, events>>

(* Another process starts a trace of the same name, and stopExisting stops *)
(* this one.  ProcessTrace returns once its buffers are drained.           *)
TakenOver ==
  /\ trace = "up" /\ buffered = {} /\ inflight = {}
  /\ trace' = "dead"
  /\ UNCHANGED <<enabled, targets, minimum, clock, events, losses>>

-----------------------------------------------------------------------------
(* The controller *)

(* The provider is on already: its Disable failed. *)
EnableAgain(new) ==
  /\ trace = "up" /\ enabled
  /\ clock' = clock + 1
  /\ targets' = new
  /\ UNCHANGED <<trace, enabled, minimum, events, losses>>

(* EnableTraceEx2 may fail after everything else has been done. *)
EnableAfresh(new) ==
  /\ trace = "up" /\ ~ enabled /\ new # {}
  /\ clock' = clock + 1
  /\ minimum' = clock'
  /\ flows' = {}
  /\ targets' = new
  /\ enabled' \in BOOLEAN
  /\ UNCHANGED <<trace, buffered, inflight, losses>>

Disable ==
  /\ enabled' \in {FALSE, enabled}
  /\ UNCHANGED <<trace, targets, minimum, clock, events, losses>>

(* Mutant: the flows of processes that are gone are kept. *)
SetTargetPIDsKeepingFlows(new) ==
  /\ targets' = new
  /\ UNCHANGED <<trace, enabled, minimum, clock, events, losses>>

SetTargetPIDs(new) ==
  /\ targets' = new
  /\ flows' = {f \in flows : f.pid \in new}
  /\ UNCHANGED <<trace, enabled, minimum, clock, buffered, inflight, losses>>

TakeFlows ==
  /\ flows' = {}
  /\ UNCHANGED <<control, buffered, inflight, losses>>

(* Whether Health can answer; the query itself may fail all the same. *)
HealthKnown == trace = "up"

(* The consumer has drained its buffers when Close returns. *)
CloseTrace ==
  /\ trace \in {"up", "dead"}
  /\ trace' = "closed"
  /\ enabled' = FALSE
  /\ buffered' = {} /\ inflight' = {}
  /\ UNCHANGED <<targets, minimum, clock, flows, losses>>

(* A trace that exists may be one whose losses began before this program.  *)
SessionInit ==
  /\ trace \in {"up", "none"}
  /\ enabled = FALSE
  /\ targets = {}
  /\ minimum = 0 /\ clock = 0
  /\ flows = {} /\ buffered = {} /\ inflight = {}
  /\ losses = 0
=============================================================================
