------------------------------ MODULE CallMoney ------------------------------
(***************************************************************************)
(* The money of one engagement, end to end: invoicing, attendance, the     *)
(* mismatch guarantee, the expert's payout and Stripe's webhooks, running  *)
(* against each other on one row.                                          *)
(***************************************************************************)
EXTENDS StripeWebhook

\* The call begins; ten minutes and the grace pass.
Tick ==
    /\ "flag" \in Ops
    /\ \/ window = "before" /\ window' = "open"
       \/ window = "open" /\ window' = "closed"
    /\ UNCHANGED <<pe, proc, inbox, moneyVars, alerts, acct>> /\ Running

\* The expert follows the onboarding link, which the route serves while the
\* engagement is scheduled or completed; Stripe reports when they are through.
Onboard ==
    /\ \/ /\ acct = "none" /\ pe.onb = "pending" /\ pe.status \in {"scheduled", "completed"}
          /\ acct' = "open" /\ UNCHANGED inbox
       \/ /\ acct = "open"
          /\ acct' = "done" /\ inbox' = inbox \cup {EventOf("account", 0)}
    /\ UNCHANGED <<pe, proc, moneyVars, alerts, window>> /\ Running

\* A handler dies between two of its steps; Stripe delivers its event again.
Crash(p) ==
    /\ ~At(p, "idle")
    /\ proc' = [proc EXCEPT ![p] = Idle]
    /\ UNCHANGED <<pe, inbox, moneyVars, alerts, envVars>> /\ Fault

Request(p) ==
    \/ Complete(p) \/ ZoomEnded(p) \/ AdminAttendance(p) \/ CancelCall(p) \/ Flag(p)

Run(p) ==
    \/ Invoice(p) \/ Attend(p) \/ SettleFlag(p) \/ Pay(p) \/ HandleEvent(p)

Next ==
    \/ Stripe \/ Tick \/ Onboard \/ StaleOwed
    \/ \E p \in Procs :
          Request(p) \/ Run(p) \/ Deliver(p) \/ NightlySweep(p) \/ Crash(p)

Spec == Init /\ [][Next]_vars

\* A running handler goes on; Stripe delivers what was not acknowledged, the
\* sweep runs every night, each on some worker, though a worker that is free
\* now may be taken by then: hence the strong fairness.
FairSpec ==
    /\ Spec
    /\ \A p \in Procs : WF_vars(Run(p))
    /\ SF_vars(\E p \in Procs : Deliver(p))
    /\ SF_vars(\E p \in Procs : NightlySweep(p))
    /\ WF_vars(StaleOwed)

-----------------------------------------------------------------------------
\* The client's card is charged at most once for a call and at most once for
\* its late-cancel fee: chargeSavedCard under its key while Stripe remembers
\* keys, and shouldSkipBilling on the row after that.
OneCardChargePerCall ==
    \A id \in ChargeId : Cardinality(KeptCharges(id)) <= 1

\* The expert is sent at most one transfer for a call and one for the fee:
\* payoutAlreadySent on the row, and the transfer's key for the racing case.
OneTransferPerCall == \A id \in ChargeId : sends[id] <= 1

\* The payments a client has made, returned or not.
Paid == {i \in Intent : intents[i].st \in {"succeeded", "refunded"}}

Transfers == UNION {{id} \X (1 .. sends[id]) : id \in Charge}

\* The expert is never sent more payouts than the client made payments, but
\* for the one that the platform funds once a call is flagged: runExpertPayout
\* runs only on a settled or waived row, and once per call.
TransfersBacked ==
    Cardinality(Transfers)
        <= Cardinality(Paid) + (IF pe.flagged \/ pe.pay = "waived" THEN 1 ELSE 0)

-----------------------------------------------------------------------------
\* Nothing is running, and Stripe has nothing more to say.
AtRest ==
    /\ \A p \in Procs : At(p, "idle")
    /\ inbox = {}
    /\ \A i \in Intent : intents[i].st # "processing"

\* Payments for the flagged call that the client has not got back.
KeptForFlagged(via) ==
    {i \in Intent : /\ intents[i].via \in via /\ intents[i].st = "succeeded"
                    /\ ForFlagged(pe, intents[i].id)}

\* Somebody acts on a card payment that the row does not name: Stripe's event has
\* overtaken the write that ends createAndSendInvoice.
Overtaken ==
    \E p \in Procs : LET e == proc[p].ev IN
        e.kind = "paid" /\ intents[e.of].via = "card" /\ pe.intent # e.of

\* Once all is quiet no card charge for the flagged call is kept, unless staff
\* were told that it could not be refunded.
FlaggedCardIsReturned ==
    AtRest /\ "mismatch" \notin alerts => KeptForFlagged({"card"}) = {}

\* Whatever raced the client's flag - a completion, Zoom's report, the payment
\* event of a charge in flight - its card charge is refunded, in every run where
\* no payment event overtakes the write that records the charge. After that one
\* the row is 'paid' for no call, and the guarantee is lost: the flag is waived
\* with the money kept, and nobody is told.
CardMoneyOfFlaggedReturned == <>Overtaken \/ []FlaggedCardIsReturned

\* The same of every payment, links included: handleStripeEvent's header says
\* that a payment for a flagged call is refunded instead of recorded. It does
\* not hold: a link payment's event can be decided on before the flag is stored.
FlaggedMoneyReturned ==
    AtRest /\ "mismatch" \notin alerts => KeptForFlagged({"card", "link"}) = {}

\* A flagged call that was completed is brought to 'waived', unless staff were
\* told: createAndSendInvoice, finding the flag, leaves that to its caller. It
\* does not hold, since the complete route leaves it to nobody.
FlaggedCallIsSettled ==
    AtRest /\ pe.flagged /\ pe.status = "completed" /\ alerts = {}
        => pe.pay \in {"waived", "refunded"}

\* 'refunded' is terminal, as handleRefundOrDispute says: no payment event
\* makes the row 'paid' again. It does not hold: handlePaymentSucceeded looks at
\* no status.
RefundIsTerminal == [][pe.pay = "refunded" => pe'.pay # "paid"]_vars

-----------------------------------------------------------------------------
\* A payout that staff are asked to look at.
PayoutReported == {"payout", "stale"} \cap alerts # {}

\* Once the client's payment for a call (or fee) is recorded and the expert can
\* be paid, the expert is paid, or the row stops saying so, or staff are told:
\* no payout is dropped between the webhook, account.updated and the sweep.
NoPaidCallForgotten ==
    \A id \in ChargeId :
        pe.pay = "paid" /\ pe.billed = id /\ acct = "done"
            ~> sends[id] > 0 \/ pe.pay # "paid" \/ pe.billed # id \/ PayoutReported

\* Likewise the expert of a waived call, for which no payment event will come.
NoWaivedCallForgotten ==
    pe.pay = "waived" /\ acct = "done"
        ~> sends["call"] > 0 \/ pe.pay # "waived" \/ PayoutReported
=============================================================================
