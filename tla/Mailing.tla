------------------------------- MODULE Mailing -------------------------------
(***************************************************************************)
(* What a mailing promises, however it is sent: every guest gets at most   *)
(* one message, and the outcome that is told of a guest is final and true. *)
(* An unknown outcome says nothing: the message may have arrived, or may   *)
(* still arrive.                                                           *)
(***************************************************************************)
EXTENDS Integers

CONSTANTS Guest

VARIABLES
    received,  \* how many messages a guest got
    outcome    \* what is told of a guest, "none" as long as nothing is

mvars == <<received, outcome>>

Init ==
    /\ received = [g \in Guest |-> 0]
    /\ outcome = [g \in Guest |-> "none"]

\* The message reaches a guest.
Deliver(g) ==
    /\ received[g] = 0
    /\ outcome[g] \in {"none", "unknown"}
    /\ received' = [received EXCEPT ![g] = 1]
    /\ UNCHANGED outcome

\* The outcome s of some guests becomes known.
Tell(gs, s) ==
    /\ \A g \in gs : /\ outcome[g] = "none"
                     /\ s = "sent" => received[g] = 1
                     /\ s \in {"failed", "skipped"} => received[g] = 0
    /\ outcome' = [g \in Guest |-> IF g \in gs THEN s ELSE outcome[g]]
    /\ UNCHANGED received

Next ==
    \/ \E g \in Guest : Deliver(g)
    \/ \E gs \in SUBSET Guest, s \in {"sent", "failed", "skipped", "unknown"} : Tell(gs, s)

Spec == Init /\ [][Next]_mvars
=============================================================================
