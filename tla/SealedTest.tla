----------------------------- MODULE SealedTest -----------------------------
(***************************************************************************)
(* What a research campaign promises of its TEST data, with nothing of how *)
(* it is run: the candidates are selected once; none of them has seen TEST *)
(* by then, unless the configuration is leaky: it lets what comes before   *)
(* the selection look at bars of the TEST period; each selected candidate  *)
(* is measured on TEST at most once; and only a candidate that was         *)
(* measured is accepted.  Accepting a candidate may displace earlier       *)
(* acceptances, never add another candidate.                               *)
(***************************************************************************)
CONSTANT Candidates

VARIABLES
    leaky,          \* of the configuration, for good
    early,          \* the candidates that saw TEST before the selection
    fixed, selected, tested, accepted

sealVars == <<leaky, early, fixed, selected, tested, accepted>>

Init ==
    /\ leaky \in BOOLEAN
    /\ early = {}
    /\ fixed = FALSE
    /\ selected = {}
    /\ tested = {}
    /\ accepted = {}

Peek(c) ==
    /\ leaky
    /\ ~ fixed
    /\ early' = early \union {c}
    /\ UNCHANGED <<leaky, fixed, selected, tested, accepted>>

Select(chosen) ==
    /\ ~ fixed
    /\ fixed' = TRUE
    /\ selected' = chosen
    /\ UNCHANGED <<leaky, early, tested, accepted>>

Measure(c) ==
    /\ fixed
    /\ c \in selected \ tested
    /\ tested' = tested \union {c}
    /\ UNCHANGED <<leaky, early, fixed, selected, accepted>>

Accept(c) ==
    /\ c \in tested \ accepted
    /\ \E kept \in SUBSET accepted : accepted' = kept \union {c}
    /\ UNCHANGED <<leaky, early, fixed, selected, tested>>

Next ==
    \/ \E chosen \in SUBSET Candidates : Select(chosen)
    \/ \E c \in Candidates : Peek(c) \/ Measure(c) \/ Accept(c)

Spec == Init /\ [][Next]_sealVars
=============================================================================
