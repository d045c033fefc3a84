----------------------------- MODULE MoneyGuards -----------------------------
(***************************************************************************)
(* The pure decisions about one engagement's money.  An engagement is one  *)
(* project_experts row; of its fields the record `e` below keeps those the *)
(* money depends on:                                                       *)
(*                                                                         *)
(*   status     pipeline status; "ended" stands for rejected_after_outreach*)
(*   booked     the row has a booking, whose icsUid is the call id "call"  *)
(*   cancelled  booking.cancelledAt is set                                 *)
(*   ended      zoomMeetingEndedAt: unset, or inside / after the ten-minute*)
(*              window of the mismatch guarantee                           *)
(*   callMin, actualMin   callDurationMin, actualDurationMin; 0 is unset   *)
(*   minted     callId, the id the manual complete route invented          *)
(*   flagged    mismatchCallId is the booking's icsUid                     *)
(*   pay        paymentStatus                                              *)
(*   billed     billedCallId                                               *)
(*   intent     stripePaymentIntentId, link  stripePaymentLinkId; 0 unset  *)
(*   feeFor     lateCancelCallId is set                                    *)
(*   onb        expertOnboardingStatus, attempts  payoutAttempts           *)
(*   account    stripeConnectAccountId is stored                           *)
(*   transfer   stripeTransferId is set, paid  paidCallIds                 *)
(*                                                                         *)
(* An engagement is booked at most once and a rebooking keeps the icsUid,  *)
(* so it has one booked call id, one fee id derived from it, and the ids   *)
(* the manual route mints.                                                 *)
(***************************************************************************)
EXTENDS Naturals, FiniteSets

CONSTANTS
    Manuals,      \* ids `manual:...` the complete route can mint
    None,         \* null
    Minutes,      \* call durations that occur
    BookedMin,    \* booking.durationMin
    MaxAttempts   \* MAX_PAYOUT_ATTEMPTS

ASSUME IdsAssumption == {"call", "fee", None} \cap Manuals = {} /\ None \notin {"call", "fee"}
ASSUME MinutesAssumption == Minutes \subseteq Nat \ {0} /\ BookedMin \in Minutes
ASSUME AttemptsAssumption == MaxAttempts \in Nat

\* The identity of what is billed: a call, or the late-cancel fee of the
\* booked call (`<icsUid>:late-cancel`).
ChargeId == {"call", "fee"} \cup Manuals

MinBillable == 15

AllMinutes == Minutes \cup {0, MinBillable}

\* billableMinutes: amounts are a fixed rate times this, so two amounts are
\* equal when these are.
Billable(m) == IF m \in 1 .. MinBillable THEN MinBillable ELSE m

\* flagVoidedByDuration: past ten minutes the guarantee does not apply.
VoidedBy(m) == m > 10

Statuses == {"open", "scheduled", "completed", "ended"}
PayStatuses == {"none", "unpaid", "invoice_sent", "paid", "failed", "refunded", "waived"}
OnbStatuses == {"none", "pending", "failed", "complete"}

Amount == {Billable(m) : m \in AllMinutes}

-----------------------------------------------------------------------------
\* resolveCallId: what the caller passed, else the booked call, else the
\* minted id.
ResolveCallId(e, passed) ==
    IF passed # None THEN passed ELSE IF e.booked THEN "call" ELSE e.minted

\* chargeIsForFlaggedCall: the flagged call, or an id derived from it.
ForFlagged(e, id) == e.flagged /\ id \in {"call", "fee"}

\* Mutant: a charge that Stripe has accepted but not settled is not seen.
MutAlreadyBilled(e) == e.pay \in {"paid", "waived"}

\* Settled, waived, or a charge was raised.
AlreadyBilled(e) == e.pay \in {"paid", "waived"} \/ e.intent # 0

\* shouldSkipBilling, the durable guard: billed, and for this call as far as
\* the row can tell.
ShouldSkipBilling(e, id) ==
    /\ AlreadyBilled(e)
    /\ e.billed = None \/ id = None \/ e.billed = id

\* isRepeatCallForBilledRow: billed, but for another call.
IsRepeatCall(e, id) == AlreadyBilled(e) /\ ~ShouldSkipBilling(e, id)

\* completionReplay = 'conflict': billed already, with other numbers.
ReplayConflict(e, id, m) == ShouldSkipBilling(e, id) /\ e.callMin # m

-----------------------------------------------------------------------------
\* mismatchEligibility inside the open window: a click that may flag, or
\* replays the flag of, the booked call.
MayFlag(e) ==
    /\ e.booked /\ ~e.cancelled
    /\ \/ e.flagged
       \/ e.status = "scheduled"
       \/ e.status = "completed" /\ ~VoidedBy(e.actualMin) /\ e.ended = "inside"

\* Mutant: only a payment the row already tells of.
MutPaymentForFlagged(e, i) == ForFlagged(e, e.billed) /\ e.pay = "waived" /\ e.intent = i

\* paymentIsForFlaggedCall: a settled payment belongs to the flagged call.
PaymentForFlagged(e, i) ==
    ForFlagged(e, e.billed) /\ (e.intent = 0 \/ i = 0 \/ e.intent = i)

\* refundIsForFlaggedCall.
RefundForFlagged(e, i) == ForFlagged(e, e.billed) /\ i # 0 /\ e.intent = i

\* mismatchSettlement: what brings the money of a flagged call to rest.  Its
\* 'manual_refund' needs a row that is 'paid' without a PaymentIntent, which
\* no write of this model leaves behind.
Settlement(e, callEnded) ==
    LET billed == ForFlagged(e, e.billed) IN
    CASE ~e.flagged                                            -> "not_flagged"
      [] billed /\ e.pay = "waived"                            -> "settled"
      [] billed /\ e.pay \notin {"waived", "failed"} /\ e.intent # 0
                                                               -> "refund"
      [] billed /\ e.pay \notin {"waived", "paid"} /\ e.link # 0
                /\ (e.intent = 0 \/ e.pay = "failed")          -> "cancel_link"
      [] OTHER -> IF callEnded \/ e.status = "completed" THEN "waive" ELSE "await"

-----------------------------------------------------------------------------
\* payoutCallId: the call the row was last billed for.
PayoutCallId(e) == ResolveCallId(e, e.billed)

\* Mutant: nobody pays the expert of a waived call.
MutPayoutSettled(e) == e.pay = "paid"

\* The client's payment settled, or the call is waived and the expert is paid
\* by the platform.
PayoutSettled(e) ==
    \/ e.pay = "paid"
    \/ e.pay = "waived" /\ ForFlagged(e, PayoutCallId(e))

\* Mutant: only the rows that have no paidCallIds are recognised.
MutPayoutAlreadySent(e, id) == e.transfer /\ e.paid = {}

\* payoutAlreadySent: this call's transfer is on the row, or one that no id
\* identifies is.
PayoutAlreadySent(e, id) ==
    \/ id \in e.paid
    \/ e.transfer /\ (e.paid = {} \/ id = None)

\* payoutMinutesFor.
PayoutMinutes(e, id) ==
    IF id = "fee" \/ ForFlagged(e, id) THEN MinBillable
    ELSE IF e.actualMin # 0 THEN e.actualMin ELSE e.callMin

\* Mutant: only a failed transfer is looked for.
MutPayoutOwed(e) == e.onb = "failed" /\ ~e.transfer

\* payoutOwed: an unfinished payout the sweeps look for.
PayoutOwed(e) == e.onb \in {"pending", "failed"} /\ ~e.transfer

\* shouldRetryPayoutRow.
ShouldRetryPayout(e) == PayoutOwed(e) /\ e.attempts < MaxAttempts

\* decideRefundTransition for a refund: write unless already there.
RefundWrites(e, mismatch) ==
    IF mismatch THEN e.pay # "waived" ELSE e.pay # "refunded"
=============================================================================
