-------------------------- MODULE IntentSubmission --------------------------
(***************************************************************************)
(* What the execution layer promises of an order intent: an attempt to     *)
(* submit it is opened only when no earlier attempt of the same intent may *)
(* still be working or ambiguous at the broker, and an attempt that was    *)
(* closed is never opened again.  The components that submit orders are    *)
(* shown to implement this module.                                         *)
(***************************************************************************)
CONSTANTS Intents, Attempts

VARIABLE attempts

Status == {"absent", "outstanding", "closed"}

TypeOK == attempts \in [Intents -> [Attempts -> Status]]

Init == attempts = [i \in Intents |-> [a \in Attempts |-> "absent"]]

(* A broker that answers at once closes the attempt as it is opened.        *)
Open(i, a) ==
    /\ attempts[i][a] = "absent"
    /\ \A b \in Attempts : attempts[i][b] # "outstanding"
    /\ \E status \in {"outstanding", "closed"} :
           attempts' = [attempts EXCEPT ![i] = [@ EXCEPT ![a] = status]]

Close(i, a) ==
    /\ attempts[i][a] = "outstanding"
    /\ attempts' = [attempts EXCEPT ![i] = [@ EXCEPT ![a] = "closed"]]

Next == \E i \in Intents, a \in Attempts : Open(i, a) \/ Close(i, a)

Spec == Init /\ [][Next]_attempts

=============================================================================
