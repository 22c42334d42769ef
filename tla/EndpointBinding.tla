-------------------------- MODULE EndpointBinding --------------------------
(***************************************************************************)
(* What internal/session/tracker.go promises its caller, without the       *)
(* challenger book-keeping it keeps the promise with: the session is bound *)
(* to at most one game endpoint, takes the first eligible one at once, and *)
(* afterwards moves only to an endpoint of ANOTHER server that topped      *)
(* ConfirmPolls consecutive discovery polls, and then always.              *)
(*                                                                         *)
(* Tracker.tla implements this specification.                              *)
(***************************************************************************)
EXTENDS Naturals

CONSTANTS
  Endpoints,     (* records [proto, addr, port]                            *)
  ConfirmPolls,  (* consecutive polls another server needs to take over    *)
  None           (* no endpoint                                            *)

VARIABLES
  bound,         (* the endpoint the session measures, or None             *)
  last,          (* the eligible endpoint on top of the latest poll, or None *)
  streak         (* consecutive polls that `last` has topped, counted up to ConfirmPolls *)

vars == <<bound, last, streak>>

ServerOf(e) == <<e.proto, e.addr>>

(* The run of polls `e` has topped, the present one included. *)
StreakWith(e) ==
  IF e = None THEN 0
  ELSE IF e # last THEN 1
  ELSE IF streak < ConfirmPolls THEN streak + 1 ELSE ConfirmPolls

TakesOver(e) ==
  /\ e # None
  /\ \/ bound = None
     \/ /\ ServerOf(e) # ServerOf(bound)
        /\ StreakWith(e) >= ConfirmPolls

Init == bound = None /\ last = None /\ streak = 0

(* One discovery poll; `e` is its eligible top endpoint, None without one. *)
Poll(e) ==
  /\ last' = e
  /\ streak' = StreakWith(e)
  /\ bound' = IF TakesOver(e) THEN e ELSE bound

Next == \E e \in Endpoints \cup {None} : Poll(e)

Spec == Init /\ [][Next]_vars
=============================================================================
