-------------------------- MODULE SharedRecording --------------------------
(***************************************************************************)
(* What internal/submit/verified.go promises a recorder that shares its    *)
(* recording, without channel, requests and challenges: the server's copy  *)
(* is added to record by record, in the order of the recording, and not    *)
(* after it was sealed; it is sealed when the recording has ended; and the *)
(* recorder is told it was shared only if the sealed copy is whole.        *)
(*                                                                         *)
(* Records may be missing from the copy, and a recorder may be told that   *)
(* its recording was not shared although it was, or will be: the last      *)
(* answer can get lost.  LiveRecording.tla implements this specification.  *)
(***************************************************************************)
EXTENDS Naturals, Sequences

VARIABLES
  emitted,       (* records of the recording so far                        *)
  ended,         (* ... and there will be no more                          *)
  copy,          (* the records the server has                             *)
  sealed,        (* the server has accepted its copy                       *)
  told           (* the recorder: "nothing", "shared", "not shared"        *)

vars == <<emitted, ended, copy, sealed, told>>

Whole == copy = [i \in 1 .. emitted |-> i]

Emit ==
  /\ ~ ended
  /\ emitted' = emitted + 1
  /\ UNCHANGED <<ended, copy, sealed, told>>

End ==
  /\ ~ ended /\ ended' = TRUE
  /\ UNCHANGED <<emitted, copy, sealed, told>>

(* `r` is newer than what the server has. *)
Add(r) ==
  /\ ~ sealed
  /\ \A i \in DOMAIN copy : copy[i] < r
  /\ copy' = Append(copy, r)
  /\ UNCHANGED <<emitted, ended, sealed, told>>

Seal ==
  /\ ended /\ ~ sealed
  /\ sealed' = TRUE
  /\ UNCHANGED <<emitted, ended, copy, told>>

Tell ==
  /\ ended /\ told = "nothing"
  /\ \/ sealed /\ Whole /\ told' = "shared"
     \/ told' = "not shared"
  /\ UNCHANGED <<emitted, ended, copy, sealed>>

Init ==
  /\ emitted = 0 /\ ~ ended
  /\ copy = <<>> /\ ~ sealed
  /\ told = "nothing"

Next ==
  \/ Emit \/ End \/ Seal \/ Tell
  \/ \E r \in 1 .. emitted : Add(r)

Spec == Init /\ [][Next]_vars
=============================================================================
