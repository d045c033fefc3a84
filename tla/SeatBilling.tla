----------------------------- MODULE SeatBilling -----------------------------
(* The seat subscription: syncOrgSeatQuantity, the cancellation before an    *)
(* organisation is deleted, and what Stripe does by itself.                  *)
EXTENDS OrgState

Live == {s \in DOMAIN subs : subs[s].live}

\* The number of active rows. A count that fails reads as zero.
Count(p) ==
    /\ At(p, "count")
    /\ \/ /\ w' = [w EXCEPT ![p].n = Cardinality(Active), ![p].pc = "bill"]
          /\ UNCHANGED faults
       \/ Fault("count") /\ Goto(p, "bill")
    /\ UNCHANGED <<Membership, bill, AtStripe, open, starts>>

\* The billing row, and the subscription it names. Nothing is done before the
\* billing setup is complete, or for no seats and no subscription. (One action:
\* the row's id only changes after its subscription died, for good.)
ReadBill(p) ==
    /\ At(p, "bill")
    /\ \/ /\ IF ~open \/ ~bill.done THEN Proceed(p)
             ELSE IF bill.sub \in Live
             THEN w' = [w EXCEPT ![p].old = bill.sub, ![p].sub = bill.sub,
                                 ![p].view = subs[bill.sub], ![p].pc = "adjust"]
             ELSE IF w[p].n = 0 THEN Proceed(p)
             ELSE w' = [w EXCEPT ![p].old = bill.sub, ![p].pc = "list"]
          /\ UNCHANGED faults
       \/ Fault("stripe") /\ Proceed(p)
    /\ UNCHANGED <<Membership, bill, AtStripe, open, starts>>

\* Mutant: only the idempotency key stands between the sync and a second one.
MutPickAdoptable == {}

\* pickAdoptableSubscription: a live one of the customer's.
PickAdoptable == Live

\* What the customer has at Stripe is adopted before anything is created; if
\* that cannot be seen nothing is created.
List(p) ==
    /\ At(p, "list")
    /\ \/ /\ \/ PickAdoptable = {} /\ Goto(p, "create")
             \/ \E s \in PickAdoptable :
                   w' = [w EXCEPT ![p].sub = s, ![p].view = subs[s], ![p].pc = "adopt"]
          /\ UNCHANGED faults
       \/ Fault("stripe") /\ Proceed(p)
    /\ UNCHANGED <<Membership, bill, AtStripe, open, starts>>

\* subscriptions.create under the key of the id the row named. Stripe replays
\* a key it remembers, or refuses it for another quantity; its answer may be
\* lost.
Create(p) ==
    /\ At(p, "create")
    /\ LET k == keys[w[p].old]
           made == [w[p] EXCEPT !.pc = "record"]
       IN \/ /\ k = NoKey /\ Len(subs) < MaxSubs
             /\ subs' = Append(subs, [live |-> TRUE, qty |-> w[p].n, winding |-> FALSE])
             /\ keys' = [keys EXCEPT ![w[p].old] = [sub |-> Len(subs) + 1, qty |-> w[p].n]]
             /\ \/ w' = [w EXCEPT ![p] = [made EXCEPT !.sub = Len(subs) + 1]] /\ UNCHANGED faults
                \/ Fault("stripe") /\ Proceed(p)
          \/ /\ k # NoKey
             /\ w' = [w EXCEPT ![p] = IF k.qty = w[p].n THEN [made EXCEPT !.sub = k.sub]
                                      ELSE Onward(w[p])]
             /\ UNCHANGED <<subs, keys, faults>>
    /\ UNCHANGED <<Membership, bill, open, starts>>

\* The id of a subscription just created, or adopted, is written; the write and
\* its retries may all fail, and the sync goes on.
Record(p) ==
    /\ w[p].pc \in {"record", "adopt"}
    /\ \/ /\ bill' = IF ~open THEN bill
                     ELSE IF At(p, "adopt") THEN [bill EXCEPT !.sub = w[p].sub]
                     ELSE [bill EXCEPT !.sub = w[p].sub, !.qty = w[p].n]
          /\ UNCHANGED faults
       \/ Fault("record") /\ UNCHANGED bill
    /\ IF At(p, "adopt") THEN Goto(p, "adjust") ELSE Proceed(p)
    /\ UNCHANGED <<Membership, AtStripe, open, starts>>

\* Mutant: the quantity is compared with the row's mirror of it.
MutWanted(p) ==
    IF w[p].n = 0 THEN [w[p].view EXCEPT !.winding = TRUE]
    ELSE IF w[p].view.winding \/ bill.qty # w[p].n
    THEN [w[p].view EXCEPT !.winding = FALSE, !.qty = w[p].n] ELSE w[p].view

\* What the live subscription is to be: it winds down when no seat is left,
\* resumes when one is back, and has a unit per seat.
Wanted(p) ==
    IF w[p].n = 0 THEN [w[p].view EXCEPT !.winding = TRUE]
    ELSE IF w[p].view.winding \/ w[p].view.qty # w[p].n
    THEN [w[p].view EXCEPT !.winding = FALSE, !.qty = w[p].n] ELSE w[p].view

\* The update at Stripe, when one is needed: it sets the fields it names, and
\* fails on a subscription that has ended. What the mirror then records is kept
\* in "view".
Adjust(p) ==
    /\ At(p, "adjust")
    /\ LET s == w[p].sub
           named == [f \in {"qty", "winding"} |-> w[p].n # 0 \/ f = "winding"]
           mirror == [w EXCEPT ![p].pc = "mirror", ![p].view = Wanted(p),
                               ![p].old = IF w[p].n # 0 THEN s ELSE 0]
       IN \/ /\ Wanted(p) = w[p].view
             /\ w' = [w EXCEPT ![p].pc = "mirror", ![p].old = 0]
             /\ UNCHANGED <<subs, faults>>
          \/ /\ Wanted(p) # w[p].view /\ subs[s].live
             /\ subs' = [subs EXCEPT ![s].winding = Wanted(p).winding,
                                     ![s].qty = IF named["qty"] THEN w[p].n ELSE @]
             /\ \/ w' = mirror /\ UNCHANGED faults
                \/ Fault("stripe") /\ Proceed(p)
          \/ /\ Wanted(p) # w[p].view /\ ~subs[s].live
             /\ Proceed(p) /\ UNCHANGED <<subs, faults>>
    /\ UNCHANGED <<Membership, bill, keys, open, starts>>

\* patchBillingRow, tried once.
Mirror(p) ==
    /\ At(p, "mirror")
    /\ \/ /\ bill' = IF ~open THEN bill
                     ELSE [bill EXCEPT !.qty = w[p].n,
                                       !.sub = IF w[p].old # 0 THEN w[p].old ELSE @]
          /\ UNCHANGED faults
       \/ Fault("record") /\ UNCHANGED bill
    /\ Proceed(p)
    /\ UNCHANGED <<Membership, AtStripe, open, starts>>

Sync(p) ==
    \/ Count(p) \/ ReadBill(p) \/ List(p) \/ Create(p) \/ Record(p) \/ Adjust(p) \/ Mirror(p)

StartSync(p) == w' = [w EXCEPT ![p] = [Idle EXCEPT !.pc = "count"]]

\* POST /api/admin/firms: "sync-seats", or a saved firm.
AdminSync(p) ==
    /\ Request(p, "sync") /\ StartSync(p)
    /\ UNCHANGED <<Membership, bill, AtStripe, open, faults>>

\* The nightly sweep: every organisation whose billing is complete.
SweepSeats(p) == bill.done /\ Tonight(p, [Idle EXCEPT !.pc = "count"])

\* completeOrgBilling: the card is the customer's default, the row says so.
CompleteBilling(p) ==
    /\ Request(p, "bill") /\ StartSync(p)
    /\ bill' = [bill EXCEPT !.done = TRUE]
    /\ UNCHANGED <<Membership, AtStripe, open, faults>>

----------------------------------------------------------------------------
(* DELETE /api/admin/firms.                                                  *)

\* cancelOrgSubscription: the subscription the row names. None named, or no row
\* that could be read, is nothing to do; an error from Stripe, which may have
\* cancelled all the same, stops the delete.
CloseCancel(p) ==
    /\ Request(p, "close")
    /\ LET cancelled == IF bill.sub \in Live THEN [subs EXCEPT ![bill.sub].live = FALSE]
                        ELSE subs
           closing == [w EXCEPT ![p] = [Idle EXCEPT !.pc = "close"]]
       IN \/ subs' = cancelled /\ w' = closing /\ UNCHANGED faults
          \/ Fault("bill_read") /\ w' = closing /\ UNCHANGED subs
          \/ Fault("stripe") /\ subs' \in {subs, cancelled} /\ UNCHANGED w
    /\ UNCHANGED <<Membership, bill, keys, open>>

\* deleteFirm: the memberships and the billing row go with it, the accounts and
\* their claims do not.
CloseDelete(p) ==
    /\ At(p, "close")
    /\ open' = FALSE
    /\ rows' = [m \in Members |-> Nobody]
    /\ bill' = [done |-> FALSE, sub |-> 0, qty |-> 0]
    /\ Proceed(p)
    /\ UNCHANGED <<claims, excused, AtStripe, starts, faults>>

----------------------------------------------------------------------------
(* Stripe by itself.                                                         *)

\* A key is forgotten after a day, which no handler spans.
Forget ==
    /\ \A p \in Workers : w[p] = Idle
    /\ \E k \in DOMAIN keys : keys[k] # NoKey /\ keys' = [keys EXCEPT ![k] = NoKey]
    /\ UNCHANGED <<Membership, bill, subs, open, w, starts, faults>>

\* A subscription winding down ends with its month, long after its create's key,
\* and not in the seconds of a handler.
PeriodEnds ==
    /\ \A p \in Workers : w[p] = Idle
    /\ \E s \in Live : /\ subs[s].winding
                       /\ \A k \in DOMAIN keys : keys[k].sub # s
                       /\ subs' = [subs EXCEPT ![s].live = FALSE]
    /\ UNCHANGED <<Membership, bill, keys, open, w, starts, faults>>
=============================================================================
