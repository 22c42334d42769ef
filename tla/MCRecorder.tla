----------------------------- MODULE MCRecorder -----------------------------
(***************************************************************************)
(* Recorder.tla with two servers, one of them on two ports as a            *)
(* multi-socket game has it; the game's log can name one endpoint.         *)
(***************************************************************************)
EXTENDS Recorder

Udp(a, p) == [proto |-> "udp", addr |-> a, port |-> p]

Servers == { Udp("a1", 7716), Udp("a2", 7716), Udp("a2", 7717) }
Named   == { Udp("a2", 7716) }
=============================================================================
