--------------------------- MODULE MCCanarySession ---------------------------
(* A small instance of the live canary for TLC: two intents, the tag of the *)
(* first occurring in the id of the second.                                 *)
EXTENDS CanarySession

CONSTANTS i1, i2

MCIntents == {i1, i2}
MCTagIn == {<<i1, i1>>, <<i2, i2>>, <<i1, i2>>}
=============================================================================
