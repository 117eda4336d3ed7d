--------------------------- MODULE MCBrokerRouter ---------------------------
EXTENDS BrokerRouter, TLC

(* Nothing tells one intent from another but its notional, which is chosen  *)
(* with every request.                                                      *)
IntentSymmetry == Permutations(Intents)
=============================================================================
