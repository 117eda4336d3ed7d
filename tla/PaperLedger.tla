---------------------------- MODULE PaperLedger ----------------------------
(***************************************************************************)
(* What the files of a paper session promise whoever recovers it, with     *)
(* nothing of how they are written: the session books fills one by one,    *)
(* and what a recovery may restore is either nothing, or what it could     *)
(* restore before, or all that is booked at that moment.  It is never a    *)
(* selection of the fills, and what was once superseded or distrusted does *)
(* not come back.                                                          *)
(***************************************************************************)
EXTENDS Integers

CONSTANT Sessions

Untrusted == -1

VARIABLES booked, restorable    \* both per session

ledgerVars == <<booked, restorable>>

Init ==
    /\ booked = [s \in Sessions |-> 0]
    /\ restorable = [s \in Sessions |-> Untrusted]

Advance(s) ==
    /\ \E n \in {booked[s], booked[s] + 1} :
           booked' = [booked EXCEPT ![s] = n]
    /\ \E r \in {Untrusted, restorable[s], booked'[s]} :
           restorable' = [restorable EXCEPT ![s] = r]

Next == \E s \in Sessions : Advance(s)

Spec == Init /\ [][Next]_ledgerVars
=============================================================================
