----------------------------- MODULE MCExpertRow -----------------------------
(***************************************************************************)
(* The row as the payout sweep sees it: two sweeps that each derive the    *)
(* next attempt count from the row, a webhook that writes the payment      *)
(* status, and a note.  The mutations do not commute with a stale write    *)
(* back of the whole document, so a lost update shows.                     *)
(***************************************************************************)
EXTENDS ExpertRow

CONSTANTS sweep1, sweep2, webhook, staff

MCWriters == {sweep1, sweep2, webhook, staff}

MCDocs == [attempts : 0 .. 2, pay : {"unpaid", "paid"}, note : BOOLEAN]

MCFreshDoc == [attempts |-> 0, pay |-> "unpaid", note |-> FALSE]

Bump(d) == [d EXCEPT !.attempts = IF @ < 2 THEN @ + 1 ELSE @]

MCMutate ==
    [w \in MCWriters |-> [d \in MCDocs |->
        CASE w \in {sweep1, sweep2} -> Bump(d)
          [] w = webhook            -> [d EXCEPT !.pay = "paid"]
          [] w = staff              -> [d EXCEPT !.note = TRUE]]]

MCInit == Init /\ doc = MCFreshDoc

MCSpec == MCInit /\ [][Next]_vars
=============================================================================
