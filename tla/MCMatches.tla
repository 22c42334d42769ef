----------------------------- MODULE MCMatches -----------------------------
(***************************************************************************)
(* Matches.tla over what games typically show: two matches one after the   *)
(* other and a lobby connection; the game's flow seen from two processes,  *)
(* with port 443 and a LAN peer; a chatty one-way flow (telemetry) beside  *)
(* the game's; and VALORANT with its voice.                                *)
(***************************************************************************)
EXTENDS Matches

Obs(proto, addr, port, from, bidir, packets) ==
  [proto |-> proto, addr |-> addr, port |-> port,
   from |-> from, bidir |-> bidir, packets |-> packets]

GameFlow == Obs("udp", 2, 7716, "p1", TRUE, 3)
Helper   == Obs("udp", 2, 7716, "p2", FALSE, 1)
NextGame == Obs("udp", 5, 7717, "p1", TRUE, 1)
OneWay   == Obs("udp", 3, 9000, "p1", FALSE, 12)
Voice    == Obs("udp", 3, 27016, "p1", TRUE, 12)
Lobby    == Obs("tcp", 1, 8080, "p1", TRUE, 0)
Web      == Obs("tcp", 4, 443, "p1", TRUE, 0)
Lan      == Obs("udp", 0, 27015, "p1", TRUE, 20)

Game(flows) == [flows |-> flows, ports |-> {}, valorant |-> FALSE]

TwoMatches == Game({GameFlow, NextGame, Lobby})
TwoPids    == Game({GameFlow, Helper, Web, Lan})
Telemetry  == Game({GameFlow, OneWay, Lobby})
Valorant   == [flows |-> {GameFlow, Voice, Lobby},
               ports |-> {7716}, valorant |-> TRUE]

AllGames    == {TwoMatches, TwoPids, Telemetry, Valorant}
=============================================================================
