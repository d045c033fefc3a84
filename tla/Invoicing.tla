------------------------------ MODULE Invoicing ------------------------------
(***************************************************************************)
(* The manual complete route and createAndSendInvoice: the client is       *)
(* charged off-session for a call or for the late-cancel fee, or is sent a *)
(* payment link.                                                           *)
(***************************************************************************)
EXTENDS Engagement

CONSTANT PayOutcomes   \* what a first charge of the saved card can come to;
                       \* a link can be paid at once, or by a delayed method

ASSUME PayOutcomesAssumption ==
    PayOutcomes \subseteq {"succeeded", "processing", "declined", "none"}

\* A manual id is the time it was minted at, so it differs from every other.
FreshManual(m) ==
    /\ m # pe.minted
    /\ \A p \in Procs : proc[p].id # m
    /\ \A i \in Intent : intents[i].id # m
    /\ \A l \in Link : links[l].id # m

\* POST .../complete, past its checks: the id of the call, and what the row as
\* read says is to be done.  A replay with other numbers ends in a 409.
Complete(p) ==
    /\ Start(p, "complete")
    /\ \E m \in Minutes, id \in ChargeId :
          /\ LET existing == ResolveCallId(pe, None) IN
             IF existing # None THEN id = existing
                                ELSE id \in Manuals /\ FreshManual(id)
          /\ LET conflict == ReplayConflict(pe, id, m)
                 frame(l) == [Idle EXCEPT !.pc = l, !.id = id, !.min = m,
                              !.by = "complete", !.fresh = (ResolveCallId(pe, None) = None)]
             IN \/ /\ ForFlagged(pe, id) /\ VoidedBy(m)
                   /\ Move(p, frame(IF conflict THEN "voidOnly" ELSE "void"))
                \/ /\ ForFlagged(pe, id) /\ ~VoidedBy(m)
                   /\ Move(p, frame("completeFlagged"))
                \/ /\ ~ForFlagged(pe, id) /\ ~conflict
                   /\ Move(p, frame("completeWrite"))
    /\ OnlyRead

\* The call ran past ten minutes, so its flag is void.  Written by the
\* complete route before it goes on or refuses, and by the attendance path
\* before it bills.
VoidFlag(p) ==
    /\ pe' = [pe EXCEPT !.flagged = FALSE]
    /\ \/ /\ At(p, "void") /\ proc[p].by = "complete"
          /\ Move(p, To(p, "completeWrite"))
       \/ /\ At(p, "void") /\ proc[p].by = "attendance"
          /\ Move(p, To(p, "readInvoice"))
       \/ /\ At(p, "voidOnly")
          /\ Done(p)
    /\ OnlyRow /\ Running

\* A flagged call is completed and its money is settled, never charged.
CompleteFlagged(p) ==
    /\ At(p, "completeFlagged")
    /\ pe' = [pe EXCEPT !.status = "completed", !.callMin = proc[p].min]
    /\ Move(p, To(p, "settle"))
    /\ OnlyRow /\ Running

\* The id is stored before it is charged under.
CompleteWrite(p) ==
    /\ At(p, "completeWrite")
    /\ pe' = [pe EXCEPT !.status = "completed", !.callMin = proc[p].min,
                        !.minted = IF proc[p].fresh THEN proc[p].id ELSE @]
    /\ Move(p, To(p, "readInvoice"))
    /\ OnlyRow /\ Running

-----------------------------------------------------------------------------
\* createAndSendInvoice is over; only the late-cancel fee goes on.
Invoiced(p) ==
    IF proc[p].by = "fee" THEN Move(p, To(p, "stampFee")) ELSE Done(p)

\* The guards of createAndSendInvoice, on one read of the row.  An invoice
\* refused for want of entitlements, or because they could not be read, ends
\* the handler.
ReadInvoice(p) ==
    /\ At(p, "readInvoice")
    /\ LET id == ResolveCallId(pe, proc[p].id)
           frame(l) == [proc[p] EXCEPT !.pc = l, !.id = id]
       IN \/ /\ ForFlagged(pe, id) /\ Running
             /\ IF proc[p].by = "complete" THEN Done(p)
                                           ELSE Move(p, To(p, "settleEnded"))
          \/ ~ForFlagged(pe, id) /\ Fault /\ Done(p)
          \/ /\ ~ForFlagged(pe, id) /\ ShouldSkipBilling(pe, id) /\ Running
             /\ Invoiced(p)
          \/ /\ ~ForFlagged(pe, id) /\ ~ShouldSkipBilling(pe, id) /\ Running
             /\ Move(p, frame(IF IsRepeatCall(pe, id) THEN "reset" ELSE "charge"))
    /\ OnlyRead

\* A repeat call clears the paymentStatus of the call before it.
ResetUnpaid(p) ==
    /\ At(p, "reset")
    /\ pe' = [pe EXCEPT !.pay = "unpaid"]
    /\ Move(p, To(p, "charge"))
    /\ OnlyRow /\ Running

\* The intent Stripe replays for the charge's idempotency key, if any.
Keyed(id) == chargeKey[id]

\* chargeSavedCard.  The same key with the same amount replays the answer to
\* the first request; with another amount it is an error, and every error,
\* and a card that is missing or declined, falls through to a payment link.
ChargeCard(p) ==
    LET id == proc[p].id
        amt == Billable(proc[p].min)
    IN
    /\ At(p, "charge")
    /\ \/ /\ Keyed(id) # 0
          /\ Move(p, IF intents[Keyed(id)].amt = amt /\ intents[Keyed(id)].st # "declined"
                     THEN [To(p, "recordCharge") EXCEPT !.ref = Keyed(id)]
                     ELSE To(p, "createLink"))
          /\ Running /\ OnlyRead
       \/ /\ "none" \in PayOutcomes
          /\ Move(p, To(p, "createLink"))
          /\ Running /\ OnlyRead
       \/ \E i \in Intent, st \in PayOutcomes \ {"none"} :
             /\ Keyed(id) = 0 /\ FreshIntent(i)
             /\ Raise(i, "card", id, amt, st)
             /\ chargeKey' = [chargeKey EXCEPT ![id] = i]
             /\ inbox' = inbox \cup PaymentEvents(st, i)
             /\ \/ /\ st # "declined" /\ Running
                   /\ proc' = [proc EXCEPT ![p] = [To(p, "recordCharge") EXCEPT !.ref = i]]
                \/ /\ IF st = "declined" THEN Running ELSE Fault
                   /\ proc' = [proc EXCEPT ![p] = To(p, "createLink")]
             /\ UNCHANGED <<pe, links, refundKey, payKey, sends, alerts, envVars>>

\* The intent and the call it is for, in one write.
RecordCharge(p) ==
    /\ At(p, "recordCharge")
    /\ pe' = [pe EXCEPT !.intent = proc[p].ref, !.billed = proc[p].id]
    /\ Invoiced(p)
    /\ OnlyRow /\ Running

CreateLink(p) ==
    /\ At(p, "createLink")
    /\ \E l \in Link :
          /\ FreshLink(l)
          /\ links' = [links EXCEPT ![l] = [id |-> proc[p].id,
                                            amt |-> Billable(proc[p].min),
                                            st |-> "created"]]
          /\ Move(p, [To(p, "recordLink") EXCEPT !.ref = l])
    /\ Running
    /\ UNCHANGED <<pe, intents, chargeKey, refundKey, payKey, sends, alerts, envVars>>

\* The link, 'invoice_sent' and the call it is for, in one write; only then is
\* the client mailed the link.
RecordLink(p) ==
    /\ At(p, "recordLink")
    /\ links' = [links EXCEPT ![proc[p].ref].st = "active"]
    /\ pe' = [pe EXCEPT !.link = proc[p].ref, !.pay = "invoice_sent",
                        !.billed = proc[p].id]
    /\ Invoiced(p)
    /\ Running
    /\ UNCHANGED <<intents, chargeKey, refundKey, payKey, sends, alerts, envVars>>

\* applyClientLateCancelMoney marks the fee as charged.
StampFee(p) ==
    /\ At(p, "stampFee")
    /\ pe' = [pe EXCEPT !.feeFor = TRUE]
    /\ Done(p)
    /\ OnlyRow /\ Running

Invoice(p) ==
    \/ VoidFlag(p) \/ CompleteFlagged(p) \/ CompleteWrite(p) \/ ReadInvoice(p)
    \/ ResetUnpaid(p) \/ ChargeCard(p) \/ RecordCharge(p) \/ CreateLink(p)
    \/ RecordLink(p) \/ StampFee(p)
=============================================================================
