------------------------------ MODULE Settlement ------------------------------
(***************************************************************************)
(* What billing promises about order lines, whatever the commands: a line  *)
(* is charged in at most one bill, a bill is worked on by one command at a *)
(* time, and a bill closes once, either empty or fully collected.          *)
(***************************************************************************)
EXTENDS Integers

CONSTANTS Line, Bill, None, Worth

VARIABLES
    owner,      \* the bill a line is charged in, or None
    settled,    \* the bills closed as paid
    voided,     \* the bills closed as void
    collected   \* what a settled bill collected, in money and bonuses

svars == <<owner, settled, voided, collected>>

Owned(b) == {l \in Line : owner[l] = b}

Init ==
    /\ owner = [l \in Line |-> None]
    /\ settled = {}
    /\ voided = {}
    /\ collected = [b \in Bill |-> 0]

\* The lines of bill b become those of S: a line may come from no bill or stay,
\* never come from another bill.
Reassign(b, S) ==
    /\ b \notin settled \cup voided
    /\ \A l \in S : owner[l] \in {b, None}
    /\ owner' = [l \in Line |-> IF l \in S THEN b
                                ELSE IF owner[l] = b THEN None ELSE owner[l]]

Adjust(b) ==
    /\ \E S \in SUBSET Line : Reassign(b, S)
    /\ UNCHANGED <<settled, voided, collected>>

Settle(b) ==
    /\ \E S \in SUBSET Line :
          /\ Reassign(b, S)
          /\ collected' = [collected EXCEPT ![b] = Worth[S]]
    /\ settled' = settled \cup {b}
    /\ UNCHANGED voided

Void(b) ==
    /\ Reassign(b, {})
    /\ voided' = voided \cup {b}
    /\ UNCHANGED <<settled, collected>>

Next == \E b \in Bill : Adjust(b) \/ Settle(b) \/ Void(b)

Spec == Init /\ [][Next]_svars
=============================================================================
