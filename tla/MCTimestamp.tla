---------------------------- MODULE MCTimestamp ----------------------------
(* Timestamp on a scaled clock: a counter of 8 ticks and a second of 27,   *)
(* which keep the proportion of 2^24 to 60000000.                          *)
EXTENDS Timestamp

MCClock == [sec : 1 .. 3, nsec : {0, 100, 200, 300, 400}]
=============================================================================
