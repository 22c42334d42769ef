-------------------------- MODULE ConfidenceScale --------------------------
(***************************************************************************)
(* The ranking's confidence in a candidate (internal/flows), by its rank   *)
(* in confRank (internal/session/tracker.go).                              *)
(***************************************************************************)
EXTENDS Integers

Low    == 1
Medium == 2
High   == 3
Confidence == Low..High
=============================================================================
