---------------------------- MODULE StripeWebhook ----------------------------
(***************************************************************************)
(* The branches of handleStripeEvent that move an engagement's money, and  *)
(* what happens at Stripe by itself: payments settle, links are paid,      *)
(* charges are refunded or disputed, events are delivered again.           *)
(* StripeEvents shows that one event is handled by one worker at a time    *)
(* and again only after a fault; that is assumed of Deliver and Redeliver. *)
(***************************************************************************)
EXTENDS Payouts

Handling(e) == \E p \in Procs : proc[p].ev = e

\* What a handler does with event `e` once it has read the row: the step it
\* goes on with, or "idle" when there is nothing to do.
Route(e) ==
    LET flaggedPayment == PaymentForFlagged(pe, e.of)
        flaggedRefund == e.kind = "refunded" /\ RefundForFlagged(pe, e.of)
    IN
    CASE e.kind = "paid" -> IF flaggedPayment THEN "settlePaid" ELSE "markPaid"
      [] e.kind = "failed" ->
            IF pe.pay = "waived" /\ flaggedPayment THEN "idle" ELSE "markFailed"
      [] e.kind \in {"refunded", "disputed"} /\ flaggedRefund ->
            IF RefundWrites(pe, TRUE) THEN "recordRefund" ELSE "readPayout"
      [] e.kind \in {"refunded", "disputed"} /\ ~flaggedRefund ->
            IF RefundWrites(pe, FALSE) THEN "markRefunded" ELSE "idle"
      [] OTHER ->                           \* retryPendingPayoutsForAccount
            IF ShouldRetryPayout(pe) THEN "readPayout" ELSE "idle"

\* getProject answers null when the row cannot be read: a payment's branch takes
\* that for a call nobody flagged, the others for an engagement that is gone.
RouteUnread(e) ==
    CASE e.kind = "paid"   -> "markPaid"
      [] e.kind = "failed" -> "markFailed"
      [] OTHER             -> "idle"

\* The step event `e` leads to, whether its branch could read the row or not.
Leads(e, read) == IF read THEN Route(e) ELSE RouteUnread(e)

\* A delivery is claimed, and its branch reads the row.  It may come before the
\* handler that raised the charge has recorded it.  A refund is reported to
\* staff even if the row is 'refunded' already.
Deliver(p) ==
    /\ At(p, "idle")
    /\ \E e \in inbox, read \in BOOLEAN :
          /\ ~Handling(e) /\ (IF read THEN Running ELSE Fault)
          /\ \/ /\ Leads(e, read) # "idle"
                /\ Move(p, [Idle EXCEPT !.pc = Leads(e, read), !.ref = e.of, !.ev = e])
                /\ UNCHANGED alerts
             \/ /\ Leads(e, read) = "idle"
                /\ inbox' = inbox \ {e} /\ UNCHANGED proc
                /\ IF read /\ e.kind \in {"refunded", "disputed"} THEN Alert("payment")
                                                                  ELSE UNCHANGED alerts
    /\ UNCHANGED <<pe, moneyVars, envVars>>

MarkPaid(p) ==
    /\ At(p, "markPaid")
    /\ pe' = [pe EXCEPT !.pay = "paid", !.intent = proc[p].ref]
    /\ Move(p, To(p, "readPayout"))
    /\ OnlyRow /\ Running

MarkFailed(p) ==
    /\ At(p, "markFailed")
    /\ pe' = [pe EXCEPT !.pay = "failed"]
    /\ Alert("payment")
    /\ Done(p)
    /\ Running /\ UNCHANGED <<moneyVars, envVars>>

MarkRefunded(p) ==
    /\ At(p, "markRefunded")
    /\ pe' = [pe EXCEPT !.pay = "refunded"]
    /\ Alert("payment")
    /\ Done(p)
    /\ Running /\ UNCHANGED <<moneyVars, envVars>>

\* recordMismatchRefund decides again inside its write; the payout runs anyhow.
RecordRefund(p) ==
    /\ At(p, "recordRefund")
    /\ pe' = [pe EXCEPT !.pay = IF RefundForFlagged(pe, proc[p].ref) THEN "waived" ELSE @]
    /\ Move(p, To(p, "readPayout"))
    /\ OnlyRow /\ Running

HandleEvent(p) == MarkPaid(p) \/ MarkFailed(p) \/ MarkRefunded(p) \/ RecordRefund(p)

-----------------------------------------------------------------------------
\* A payment Stripe had accepted settles.
SettleIntent ==
    /\ \E i \in Intent, st \in {"succeeded", "failed"} :
          /\ intents[i].st = "processing"
          /\ intents' = [intents EXCEPT ![i].st = st]
          /\ inbox' = inbox \cup PaymentEvents(st, i)
    /\ UNCHANGED <<pe, proc, links, chargeKey, refundKey, payKey, sends, alerts, envVars>>
    /\ Running

\* The client pays a link, once, perhaps by a method that settles later.
PayLink ==
    /\ \E l \in Link, i \in Intent, st \in {"succeeded"} \cup ({"processing"} \cap PayOutcomes) :
          /\ links[l].st = "active" /\ FreshIntent(i)
          /\ links' = [links EXCEPT ![l].st = "paid"]
          /\ Raise(i, "link", links[l].id, links[l].amt, st)
          /\ inbox' = inbox \cup PaymentEvents(st, i)
    /\ UNCHANGED <<pe, proc, chargeKey, refundKey, payKey, sends, alerts, envVars>>
    /\ Running

\* Staff refund a payment at Stripe, or the client disputes it.
GiveBack ==
    /\ "refund" \in Ops
    /\ \E i \in Intent, kind \in {"refunded", "disputed"} :
          /\ intents[i].st = "succeeded"
          /\ intents' = [intents EXCEPT ![i].st = "refunded"]
          /\ inbox' = inbox \cup {EventOf(kind, i)}
    /\ UNCHANGED <<pe, proc, links, chargeKey, refundKey, payKey, sends, alerts, envVars>>
    /\ Running

\* A payment event that was acknowledged is delivered again.
Redeliver ==
    /\ "redeliver" \in Ops
    /\ \E i \in Intent :
          \E e \in PaymentEvents(intents[i].st, i) \ inbox : inbox' = inbox \cup {e}
    /\ UNCHANGED <<pe, proc, moneyVars, alerts, envVars>>
    /\ Fault

\* Stripe forgets idempotency keys after a day; no handler runs that long.
ExpireKeys ==
    /\ "expire" \in Ops
    /\ \A p \in Procs : At(p, "idle")
    /\ chargeKey' = [c \in Charge |-> 0]
    /\ refundKey' = [c \in Charge |-> 0]
    /\ payKey' = [c \in Charge |-> 0]
    /\ UNCHANGED <<pe, proc, intents, links, sends, inbox, alerts, envVars>>
    /\ Running

Stripe == SettleIntent \/ PayLink \/ GiveBack \/ Redeliver \/ ExpireKeys
=============================================================================
