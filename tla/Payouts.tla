------------------------------- MODULE Payouts -------------------------------
(***************************************************************************)
(* runExpertPayout and the sweeps that retry it.                           *)
(***************************************************************************)
EXTENDS Settlement

\* The one read of the row, the checks made on it, and the look at the
\* expert's account.
ReadPayout(p) ==
    LET id == PayoutCallId(pe)
        due == PayoutSettled(pe) /\ ~PayoutAlreadySent(pe, id)
        hold == IF pe.onb = "pending" THEN Done(p) ELSE Move(p, To(p, "hold"))
    IN
    /\ At(p, "readPayout")
    /\ \/ ~PayoutSettled(pe) /\ PayoutOwed(pe) /\ hold /\ Running
       \/ ~PayoutSettled(pe) /\ ~PayoutOwed(pe) /\ Done(p) /\ Running
       \/ PayoutSettled(pe) /\ ~due /\ Done(p) /\ Running
       \/ due /\ hold /\ Fault             \* entitlements refused or unreadable
       \/ due /\ acct = "none" /\ Move(p, To(p, "park")) /\ Running
       \/ due /\ acct = "open" /\ Move(p, To(p, "parkAccount")) /\ Running
       \/ /\ due /\ acct = "done" /\ PayoutMinutes(pe, id) # 0 /\ Running
          /\ Move(p, [To(p, "transfer") EXCEPT !.id = id,
                                               !.min = PayoutMinutes(pe, id),
                                               !.paidIds = pe.paid,
                                               !.attempts = pe.attempts])
       \/ due /\ acct = "done" /\ PayoutMinutes(pe, id) = 0 /\ Done(p) /\ Running
    /\ OnlyRead

Hold(p) ==
    /\ At(p, "hold")
    /\ pe' = [pe EXCEPT !.onb = "pending"]
    /\ Alert("payout")
    /\ Done(p)
    /\ Running /\ UNCHANGED <<moneyVars, envVars>>

\* The expert has no usable account: 'pending', and an onboarding link is sent.
Park(p) ==
    /\ At(p, "park") \/ At(p, "parkAccount")
    /\ pe' = [pe EXCEPT !.onb = "pending",
                        !.account = @ \/ At(p, "parkAccount")]
    /\ Done(p)
    /\ OnlyRow /\ Running

\* The minutes transferred under the payout's idempotency key, if any.
PayKeyed(id) == payKey[id]

\* The transfer, under a key of the charge's id: the same amount replays the
\* first transfer, another amount is refused.
Transfer(p) ==
    LET id == proc[p].id
        amt == Billable(proc[p].min)
    IN
    /\ At(p, "transfer")
    /\ \/ /\ PayKeyed(id) = 0
          /\ sends' = [sends EXCEPT ![id] = @ + 1]
          /\ payKey' = [payKey EXCEPT ![id] = amt]
          /\ \/ Move(p, To(p, "recordTransfer")) /\ Running
             \/ Move(p, To(p, "recordFail")) /\ Fault     \* the answer is lost
       \/ /\ PayKeyed(id) = amt /\ Running
          /\ Move(p, To(p, "recordTransfer"))
          /\ UNCHANGED <<sends, payKey>>
       \/ /\ IF PayKeyed(id) \in {0, amt} THEN Fault ELSE Running
          /\ Move(p, To(p, "recordFail"))
          /\ UNCHANGED <<sends, payKey>>
    /\ UNCHANGED <<pe, intents, links, chargeKey, refundKey, alerts, envVars>>

\* The transfer and the ids paid, in a write of their own.  The ids are those
\* the handler read, and this one.
RecordTransfer(p) ==
    /\ At(p, "recordTransfer")
    /\ pe' = [pe EXCEPT !.transfer = TRUE,
                        !.paid = proc[p].paidIds \cup ({proc[p].id} \ {None})]
    /\ Move(p, To(p, "bookkeep"))
    /\ OnlyRow /\ Running

Bookkeep(p) ==
    /\ At(p, "bookkeep")
    /\ pe' = [pe EXCEPT !.onb = "complete", !.account = TRUE]
    /\ Done(p)
    /\ OnlyRow /\ Running

RecordFail(p) ==
    /\ At(p, "recordFail")
    /\ pe' = [pe EXCEPT !.onb = "failed", !.account = TRUE,
                        !.attempts = IF proc[p].attempts < MaxAttempts
                                     THEN proc[p].attempts + 1 ELSE MaxAttempts]
    /\ Alert("payout")
    /\ Done(p)
    /\ Running /\ UNCHANGED <<moneyVars, envVars>>

\* A read or a write fails.  runExpertPayout never throws, so its caller goes on
\* and an event is acknowledged; only where money is known to be owed or gone
\* is a person told.
PayoutError(p) ==
    /\ \/ /\ At(p, "readPayout") \/ At(p, "park") \/ At(p, "parkAccount")
          /\ "outage" \in Ops /\ UNCHANGED alerts
       \/ /\ \/ At(p, "hold") \/ At(p, "recordFail")
             \/ At(p, "recordTransfer") \/ At(p, "bookkeep")
          /\ Alert("payout")
    /\ Done(p) /\ Fault
    /\ UNCHANGED <<pe, moneyVars, envVars>>

Pay(p) ==
    \/ ReadPayout(p) \/ Hold(p) \/ Park(p) \/ Transfer(p) \/ RecordTransfer(p)
    \/ Bookkeep(p) \/ RecordFail(p) \/ PayoutError(p)

\* The nightly sweep: rows still owed, on an account the row itself stores.
NightlySweep(p) ==
    /\ "sweep" \in Ops
    /\ At(p, "idle")
    /\ ShouldRetryPayout(pe) /\ pe.account
    /\ Move(p, [Idle EXCEPT !.pc = "readPayout"])
    /\ OnlyRead /\ Running

\* It also counts the payouts that stay unpaid for fourteen days.
StaleOwed ==
    /\ "sweep" \in Ops
    /\ ShouldRetryPayout(pe) /\ pe.pay = "paid"
    /\ Alert("stale")
    /\ UNCHANGED <<pe, proc, inbox, moneyVars, envVars>> /\ Running
=============================================================================
