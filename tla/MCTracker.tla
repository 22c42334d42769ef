----------------------------- MODULE MCTracker -----------------------------
(***************************************************************************)
(* Tracker.tla over three servers; one of them, a multi-socket game's, is  *)
(* seen on two UDP ports, and one address also serves a TCP endpoint.      *)
(***************************************************************************)
EXTENDS Tracker

MCEndpoints ==
  { [proto |-> "udp", addr |-> "a1", port |-> 7716],
    [proto |-> "udp", addr |-> "a2", port |-> 7716],
    [proto |-> "udp", addr |-> "a2", port |-> 7717],
    [proto |-> "tcp", addr |-> "a1", port |-> 443] }
=============================================================================
