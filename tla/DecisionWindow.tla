--------------------------- MODULE DecisionWindow ---------------------------
(***************************************************************************)
(* What a shadow session promises its reader: while it is open it decides, *)
(* at most once for each bar and in the order of the bars; once it has     *)
(* been closed, by whatever, it decides nothing until a new process opens  *)
(* a new session.                                                          *)
(***************************************************************************)
EXTENDS Integers

CONSTANT Bars

VARIABLES
    decided,        \* the bars for which the open session holds decisions
    closed

window == <<decided, closed>>

Init ==
    /\ decided = {}
    /\ closed = FALSE

Decide(bar) ==
    /\ ~ closed
    /\ \A earlier \in decided : earlier < bar
    /\ decided' = decided \union {bar}
    /\ UNCHANGED closed

Close ==
    /\ closed' = TRUE
    /\ UNCHANGED decided

Open ==
    /\ closed
    /\ closed' = FALSE
    /\ decided' = {}

Next ==
    \/ \E bar \in Bars : Decide(bar)
    \/ Close
    \/ Open

Spec == Init /\ [][Next]_window
=============================================================================
