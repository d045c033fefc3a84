------------------------------ MODULE ColdMail -------------------------------
(* What the outreach code promises a stranger, without the code: an address   *)
(* is never written to once its owner is on the do-not-contact list, unless   *)
(* the message had already been cleared when it was listed (Spec); and, of    *)
(* intros, that it is written to once (WithinBudget), where each doubt (a     *)
(* lost answer, a lock nobody could take) may cost one more message.          *)
EXTENDS Naturals

CONSTANT Addresses

VARIABLES times,    \* how often each address was written to
          cleared,  \* addresses a message has been cleared for and not gone
          listed,   \* the do-not-contact list
          doubts    \* doubtful sends so far

vars == <<times, cleared, listed, doubts>>

Init ==
    /\ times = [a \in Addresses |-> 0]
    /\ cleared = {}
    /\ listed = {}
    /\ doubts = 0

Clear(a) ==
    /\ a \notin listed
    /\ cleared' = cleared \cup {a}
    /\ UNCHANGED <<times, listed, doubts>>

Write(a) ==
    /\ a \in cleared
    /\ times' = [times EXCEPT ![a] = @ + 1]
    /\ cleared' \in {cleared, cleared \ {a}}
    /\ doubts' \in {doubts, doubts + 1}
    /\ UNCHANGED listed

\* A cleared message is given up.
Drop(a) ==
    /\ a \in cleared
    /\ cleared' = cleared \ {a}
    /\ doubts' \in {doubts, doubts + 1}
    /\ UNCHANGED <<times, listed>>

List(a) ==
    /\ listed' = listed \cup {a}
    /\ UNCHANGED <<times, cleared, doubts>>

Doubt ==
    /\ doubts' = doubts + 1
    /\ UNCHANGED <<times, cleared, listed>>

Next == Doubt \/ \E a \in Addresses : Clear(a) \/ Write(a) \/ Drop(a) \/ List(a)

Spec == Init /\ [][Next]_vars

\* An address is cleared for a message, or written to, only while it has had
\* fewer than "budget" and one for each doubt.
WithinBudget(budget) ==
    \A a \in Addresses :
        times'[a] # times[a] \/ a \in cleared' \ cleared => times[a] < budget + doubts
=============================================================================
