----------------------------- MODULE Settlement -----------------------------
(***************************************************************************)
(* The ten-minute mismatch guarantee: the client flags the call, and       *)
(* settleMismatchFlag gives back whatever the client paid for it, waives   *)
(* the charge and has the expert paid the minimum.                         *)
(***************************************************************************)
EXTENDS Attendance

\* POST .../mismatch.  The eligibility it read is decided again inside the
\* write.  A replay of the click only settles.
Flag(p) ==
    /\ Start(p, "flag")
    /\ pe.flagged \/ window = "open"
    /\ MayFlag(pe)
    /\ pe' = [pe EXCEPT !.flagged = TRUE]
    /\ Move(p, [Idle EXCEPT !.pc = "settle"])
    /\ OnlyRow

\* settleMismatchFlag's read and its decision, from the row or, for a payment
\* that came in ("settlePaid"), from that payment.
Settle(p) ==
    LET paying == At(p, "settlePaid")
        what == IF ~paying THEN Settlement(pe, At(p, "settleEnded"))
                ELSE IF PaymentForFlagged(pe, proc[p].ref) THEN "refund" ELSE "not_flagged"
    IN
    /\ \/ At(p, "settle") \/ At(p, "settleEnded") \/ paying
    /\ \/ what \in {"not_flagged", "settled", "await"} /\ Done(p)
       \/ /\ what = "refund"
          /\ Move(p, [To(p, "refund") EXCEPT
                        !.ref = IF paying THEN @ ELSE pe.intent,
                        !.id = IF ForFlagged(pe, pe.billed) THEN pe.billed ELSE "call"])
       \/ what = "cancel_link" /\ Move(p, [To(p, "offLink") EXCEPT !.ref = pe.link])
       \/ what = "waive" /\ Move(p, [To(p, "waive") EXCEPT !.ref = 0])
    /\ OnlyRead /\ Running

\* settleMismatchFlag reports failure.  The webhook throws, so that Stripe
\* delivers the event again; the other callers end.
SettleFailed(p) == proc' = [proc EXCEPT ![p] = Idle] /\ UNCHANGED inbox

\* The full refund, under a key of the charge's id.
Refund(p) ==
    LET i == proc[p].ref
        key == refundKey[proc[p].id]
        given == intents[i].st = "refunded"
    IN
    /\ At(p, "refund")
    /\ \/ /\ key = 0 /\ intents[i].st = "succeeded"
          /\ intents' = [intents EXCEPT ![i].st = "refunded"]
          /\ refundKey' = [refundKey EXCEPT ![proc[p].id] = i]
          /\ inbox' = inbox \cup {EventOf("refunded", i)}
          /\ \/ proc' = [proc EXCEPT ![p] = To(p, "waive")] /\ Running /\ UNCHANGED alerts
             \/ proc' = [proc EXCEPT ![p] = Idle] /\ Fault /\ Alert("mismatch")
       \/ /\ key = i \/ (key = 0 /\ given)    \* a replay, or already refunded
          /\ Running
          /\ Move(p, To(p, "waive"))
          /\ UNCHANGED <<intents, refundKey, alerts>>
       \/ /\ \/ key \notin {0, i} /\ Running
             \/ key = 0 /\ ~given /\ intents[i].st # "succeeded" /\ Running
             \/ Fault
          /\ SettleFailed(p) /\ Alert("mismatch")
          /\ UNCHANGED <<intents, refundKey>>
    /\ UNCHANGED <<pe, links, chargeKey, payKey, sends, envVars>>

\* The payment link is deactivated; failing to is only reported.
OffLink(p) ==
    LET l == proc[p].ref IN
    /\ At(p, "offLink")
    /\ \/ /\ links' = [links EXCEPT ![l].st = IF @ = "active" THEN "off" ELSE @]
          /\ Running /\ UNCHANGED alerts
       \/ Fault /\ Alert("mismatch") /\ UNCHANGED links
    /\ Move(p, [To(p, "waive") EXCEPT !.ref = 0])
    /\ UNCHANGED <<pe, intents, chargeKey, refundKey, payKey, sends, envVars>>

\* The condition of the waiver's write.
StillFlagged == pe.flagged

\* writeWaiver: 'waived' for the flagged call and the refunded intent, in one
\* write, unless the flag has gone.  Then the expert is paid.
WriteWaiver(p) ==
    LET billed == ForFlagged(pe, pe.billed) IN
    /\ At(p, "waive")
    /\ \/ /\ StillFlagged
          /\ pe' = [pe EXCEPT !.pay = "waived",
                              !.billed = IF billed THEN @ ELSE "call",
                              !.intent = IF proc[p].ref # 0 THEN proc[p].ref
                                         ELSE IF billed THEN @ ELSE 0]
          /\ Move(p, To(p, "readPayout"))
       \/ ~StillFlagged /\ SettleFailed(p) /\ UNCHANGED pe
    /\ OnlyRow /\ Running

SettleFlag(p) == Settle(p) \/ Refund(p) \/ OffLink(p) \/ WriteWaiver(p)
=============================================================================
