--------------------------- MODULE CallMoneyProofs ---------------------------
(***************************************************************************)
(* Proofs about CallMoney, for every set of handlers, operations, minted   *)
(* ids and durations and every bound, but for what a theorem assumes of    *)
(* them by name.                                                           *)
(***************************************************************************)
EXTENDS CallMoney, FiniteSetTheorems, TLAPS

\* What a handler holds at the steps that write it to the row: an intent, a
\* link, an id it minted, minutes that are not zero.
FrameOK(f) ==
    /\ f.pc \in {"recordCharge", "refund", "settlePaid", "markPaid"} => f.ref \in Intent
    /\ f.pc = "waive" => f.ref \in 0 .. MaxIntents
    /\ f.pc \in {"recordLink", "offLink"} => f.ref \in Link
    /\ f.pc \in {"both", "void", "completeWrite"} /\ f.fresh => f.id \in Manuals
    /\ f.pc = "transfer" => f.min # 0

Frames ==
    /\ proc \in [Procs -> Frame]
    /\ \A p \in Procs : FrameOK(proc[p])

Counters == starts \in 0 .. MaxStarts /\ faults \in 0 .. MaxFaults

\* The inductive invariant: types, and what is in the hands of handlers.
IInv == TypeOK /\ Frames

\* Every step either moves a handler or leaves it, and keeps the events.
FramesStep == Frames' /\ inbox' \in SUBSET Event

\* The steps at which FrameOK asks nothing of a frame.
Plain == Step \ {"recordCharge", "refund", "settlePaid", "markPaid", "waive",
                 "recordLink", "offLink", "both", "void", "completeWrite", "transfer"}

-----------------------------------------------------------------------------
LEMMA IdleFrame == Idle \in Frame /\ FrameOK(Idle)
  BY IdsAssumption, AttemptsAssumption
  DEF Idle, Frame, FrameOK, AllMinutes, Charge, Step, Endings

LEMMA MoveFrame ==
    ASSUME IInv, NEW p \in Procs, NEW f \in Frame, FrameOK(f), Move(p, f)
    PROVE  FramesStep
  BY DEF IInv, TypeOK, LedgerTypeOK, Frames, Move, FrameOK, FramesStep

LEMMA DoneFrame ==
    ASSUME IInv, NEW p \in Procs, Done(p)
    PROVE  FramesStep
  BY IdleFrame DEF IInv, Frames, Done, TypeOK, LedgerTypeOK, FrameOK, FramesStep

LEMMA ToFrame ==
    ASSUME IInv, NEW p \in Procs, NEW l \in Step
    PROVE  /\ To(p, l) \in Frame
           /\ To(p, l).pc = l /\ To(p, l).ref = proc[p].ref
           /\ To(p, l).id = proc[p].id /\ To(p, l).min = proc[p].min
           /\ To(p, l).fresh = proc[p].fresh
  BY DEF IInv, Frames, To, Frame

LEMMA RefFrame ==
    ASSUME NEW f \in Frame, NEW r \in Nat
    PROVE  /\ [f EXCEPT !.ref = r] \in Frame
           /\ [f EXCEPT !.ref = r].pc = f.pc /\ [f EXCEPT !.ref = r].ref = r
           /\ [f EXCEPT !.ref = r].id = f.id /\ [f EXCEPT !.ref = r].min = f.min
           /\ [f EXCEPT !.ref = r].fresh = f.fresh
  BY DEF Frame

LEMMA ObjectNumbers ==
    /\ Intent \subseteq 0 .. MaxIntents /\ Intent \subseteq Nat
    /\ Link \subseteq 0 .. MaxLinks /\ Link \subseteq Nat
  BY LedgerAssumption DEF Intent, Link

LEMMA PlainFrame ==
    ASSUME NEW f \in Frame, f.pc \in Plain
    PROVE  FrameOK(f)
  BY DEF Plain, FrameOK

LEMMA PlainMove ==
    ASSUME IInv, NEW p \in Procs, NEW l \in Plain, Move(p, To(p, l))
    PROVE  FramesStep
  BY ToFrame, PlainFrame, MoveFrame DEF Plain

LEMMA CountersStep ==
    ASSUME IInv, Running \/ Fault
    PROVE  Counters'
  BY BoundsAssumption DEF IInv, TypeOK, Running, Fault, Counters

LEMMA StartCounters ==
    ASSUME IInv, NEW p \in Procs, NEW op, Start(p, op)
    PROVE  Counters'
  BY BoundsAssumption DEF IInv, TypeOK, Start, Counters

LEMMA ReadStep ==
    ASSUME IInv, FramesStep, OnlyRead, Counters'
    PROVE  IInv'
  BY DEF IInv, TypeOK, LedgerTypeOK, Frames, FramesStep, OnlyRead, Counters, moneyVars, envVars

LEMMA RowStep ==
    ASSUME IInv, FramesStep, OnlyRow, Counters', pe' \in Row
    PROVE  IInv'
  BY DEF IInv, TypeOK, LedgerTypeOK, Frames, FramesStep, OnlyRow, Counters, moneyVars, envVars

LEMMA BillableAmount == \A m \in AllMinutes : Billable(m) \in Amount
  BY DEF Amount

-----------------------------------------------------------------------------
\* Invoicing.

LEMMA CompleteStep == ASSUME IInv, NEW p \in Procs, Complete(p) PROVE IInv'
<1>1. PICK m \in Minutes, id \in ChargeId :
        /\ ResolveCallId(pe, None) = None => id \in Manuals
        /\ \E l \in {"voidOnly", "void", "completeFlagged", "completeWrite"} :
              Move(p, [Idle EXCEPT !.pc = l, !.id = id, !.min = m, !.by = "complete",
                                   !.fresh = (ResolveCallId(pe, None) = None)])
  BY Zenon DEF Complete
<1>2. PICK l \in {"voidOnly", "void", "completeFlagged", "completeWrite"} :
              Move(p, [Idle EXCEPT !.pc = l, !.id = id, !.min = m, !.by = "complete",
                                   !.fresh = (ResolveCallId(pe, None) = None)])
  BY <1>1
<1> DEFINE f == [Idle EXCEPT !.pc = l, !.id = id, !.min = m, !.by = "complete",
                             !.fresh = (ResolveCallId(pe, None) = None)]
<1>3. f \in Frame /\ FrameOK(f)
  BY <1>1, IdleFrame DEF Idle, Frame, Step, AllMinutes, Charge, FrameOK
<1>4. FramesStep
  BY <1>2, <1>3, MoveFrame
<1>5. QED
  BY <1>4, ReadStep, StartCounters DEF Complete

LEMMA VoidFlagStep == ASSUME IInv, NEW p \in Procs, VoidFlag(p) PROVE IInv'
<1>1. pe' \in Row
  BY DEF VoidFlag, IInv, TypeOK, Row
<1>2. FramesStep
  <2>1. CASE Move(p, To(p, "completeWrite")) /\ At(p, "void")
    <3>1. FrameOK(To(p, "completeWrite"))
      BY <2>1, ToFrame DEF FrameOK, At, IInv, Frames, Step
    <3>2. QED
      BY <2>1, <3>1, ToFrame, MoveFrame DEF Step
  <2>2. CASE Move(p, To(p, "readInvoice"))
    BY <2>2, PlainMove DEF Step, Plain
  <2>3. CASE Done(p)
    BY <2>3, DoneFrame
  <2>4. QED
    BY <2>1, <2>2, <2>3 DEF VoidFlag
<1>3. QED
  BY <1>1, <1>2, RowStep, CountersStep DEF VoidFlag

LEMMA CompleteFlaggedStep == ASSUME IInv, NEW p \in Procs, CompleteFlagged(p) PROVE IInv'
<1>1. pe' \in Row
  BY DEF CompleteFlagged, IInv, TypeOK, Row, Frames, Frame, Statuses
<1>2. FramesStep
  BY PlainMove DEF CompleteFlagged, Step, Plain
<1>3. QED
  BY <1>1, <1>2, RowStep, CountersStep DEF CompleteFlagged

LEMMA CompleteWriteStep == ASSUME IInv, NEW p \in Procs, CompleteWrite(p) PROVE IInv'
<1>1. pe' \in Row
  <2>1. proc[p] \in Frame /\ (proc[p].fresh => proc[p].id \in Manuals)
    BY DEF CompleteWrite, IInv, Frames, FrameOK, At
  <2>2. QED
    BY <2>1 DEF CompleteWrite, IInv, TypeOK, Row, Frame, Statuses
<1>2. FramesStep
  BY PlainMove DEF CompleteWrite, Step, Plain
<1>3. QED
  BY <1>1, <1>2, RowStep, CountersStep DEF CompleteWrite

LEMMA InvoicedFrame == ASSUME IInv, NEW p \in Procs, Invoiced(p) PROVE FramesStep
  BY PlainMove, DoneFrame DEF Invoiced, Step, Plain

LEMMA ReadInvoiceStep == ASSUME IInv, NEW p \in Procs, ReadInvoice(p) PROVE IInv'
<1> DEFINE id == ResolveCallId(pe, proc[p].id)
           f(l) == [proc[p] EXCEPT !.pc = l, !.id = id]
<1>1. ASSUME NEW l \in {"reset", "charge"}
      PROVE  f(l) \in Frame /\ FrameOK(f(l))
  <2>1. proc[p] \in Frame /\ id \in Charge
    BY DEF IInv, TypeOK, Row, Frames, Frame, Charge, ChargeId, ResolveCallId
  <2> HIDE DEF id
  <2>2. f(l) \in Frame /\ f(l).pc = l
    BY <2>1 DEF Frame, Step
  <2>3. QED
    BY <2>2, PlainFrame DEF Plain, Step
<1>2. FramesStep
  <2>1. CASE Done(p)
    BY <2>1, DoneFrame
  <2>2. CASE Move(p, To(p, "settleEnded"))
    BY <2>2, PlainMove DEF Step, Plain
  <2>3. CASE Invoiced(p)
    BY <2>3, InvoicedFrame
  <2>4. CASE \E l \in {"reset", "charge"} : Move(p, f(l))
    BY <2>4, <1>1, MoveFrame
  <2>5. QED
    BY <2>1, <2>2, <2>3, <2>4 DEF ReadInvoice
<1>3. Counters'
  BY CountersStep DEF ReadInvoice
<1>4. QED
  BY <1>2, <1>3, ReadStep DEF ReadInvoice

LEMMA ResetUnpaidStep == ASSUME IInv, NEW p \in Procs, ResetUnpaid(p) PROVE IInv'
<1>1. pe' \in Row
  BY DEF ResetUnpaid, IInv, TypeOK, Row, PayStatuses
<1>2. FramesStep
  BY PlainMove DEF ResetUnpaid, Step, Plain
<1>3. QED
  BY <1>1, <1>2, RowStep, CountersStep DEF ResetUnpaid

LEMMA WholeStep ==
    ASSUME IInv, FramesStep, Counters', pe' \in Row, LedgerTypeOK',
           alerts' \in SUBSET {"payout", "mismatch", "payment", "stale"},
           UNCHANGED envVars
    PROVE  IInv'
  BY DEF IInv, TypeOK, Frames, FramesStep, Counters, envVars

LEMMA ChargeCardStep == ASSUME IInv, NEW p \in Procs, ChargeCard(p) PROVE IInv'
<1> DEFINE id == proc[p].id
           amt == Billable(proc[p].min)
<1>1. proc[p] \in Frame /\ amt \in Amount /\ Keyed(id) \in 0 .. MaxIntents
  BY BillableAmount DEF IInv, Frames, Frame, TypeOK, LedgerTypeOK, Keyed
<1> HIDE DEF amt
<1>2. ASSUME NEW i \in Intent
      PROVE  [To(p, "recordCharge") EXCEPT !.ref = i] \in Frame
             /\ FrameOK([To(p, "recordCharge") EXCEPT !.ref = i])
  BY ToFrame, RefFrame, ObjectNumbers DEF FrameOK, Step
<1>3. CASE OnlyRead /\ Running /\ Move(p, To(p, "createLink"))
  BY <1>3, PlainMove, ReadStep, CountersStep DEF Step, Plain
<1>4. CASE /\ Keyed(id) # 0 /\ OnlyRead /\ Running
           /\ Move(p, [To(p, "recordCharge") EXCEPT !.ref = Keyed(id)])
  <2>1. Keyed(id) \in Intent
    BY <1>1, <1>4, LedgerAssumption DEF Intent
  <2>2. FramesStep
    BY <1>2, <1>4, <2>1, MoveFrame
  <2>3. QED
    BY <1>4, <2>2, ReadStep, CountersStep
<1>5. ASSUME NEW i \in Intent, NEW st \in PayOutcomes \ {"none"},
             Raise(i, "card", id, amt, st),
             chargeKey' = [chargeKey EXCEPT ![id] = i],
             inbox' = inbox \cup PaymentEvents(st, i),
             \/ proc' = [proc EXCEPT ![p] = [To(p, "recordCharge") EXCEPT !.ref = i]]
             \/ proc' = [proc EXCEPT ![p] = To(p, "createLink")],
             Running \/ Fault,
             UNCHANGED <<pe, links, refundKey, payKey, sends, alerts, envVars>>
      PROVE  IInv'
  <2>1. PaymentEvents(st, i) \in SUBSET Event
    BY DEF PaymentEvents, EventOf, Event
  <2>2. inbox' \in SUBSET Event
    BY <1>5, <2>1 DEF IInv, TypeOK, LedgerTypeOK
  <2>3. FrameOK(To(p, "createLink")) /\ To(p, "createLink") \in Frame
    BY ToFrame, PlainFrame DEF Step, Plain
  <2>4. FramesStep
    BY <1>2, <1>5, <2>2, <2>3 DEF FramesStep, Frames, IInv
  <2>5. intents' \in [Intent -> [via : {"card", "link"}, id : Charge, amt : Amount,
                                 st : IntentState]]
    <3>1. st \in IntentState
      BY PayOutcomesAssumption DEF IntentState
    <3>2. [via |-> "card", id |-> id, amt |-> amt, st |-> st]
             \in [via : {"card", "link"}, id : Charge, amt : Amount, st : IntentState]
      BY <1>1, <3>1 DEF Frame
    <3>3. QED
      BY <1>5, <3>2 DEF Raise, IInv, TypeOK, LedgerTypeOK
  <2>6. chargeKey' \in [Charge -> 0 .. MaxIntents]
    BY <1>5, ObjectNumbers DEF IInv, TypeOK, LedgerTypeOK
  <2>7. LedgerTypeOK'
    BY <1>5, <2>2, <2>5, <2>6 DEF IInv, TypeOK, LedgerTypeOK
  <2>8. QED
    BY <1>5, <2>4, <2>7, WholeStep, CountersStep DEF IInv, TypeOK, envVars
<1>6. QED
  BY <1>3, <1>4, <1>5 DEF ChargeCard, amt

LEMMA RecordChargeStep == ASSUME IInv, NEW p \in Procs, RecordCharge(p) PROVE IInv'
<1>1. pe' \in Row
  <2>1. proc[p].ref \in 0 .. MaxIntents /\ proc[p].id \in Charge
    BY ObjectNumbers DEF RecordCharge, At, IInv, Frames, Frame, FrameOK
  <2>2. QED
    BY <2>1 DEF RecordCharge, IInv, TypeOK, Row
<1>2. FramesStep
  BY InvoicedFrame DEF RecordCharge
<1>3. QED
  BY <1>1, <1>2, RowStep, CountersStep DEF RecordCharge

LEMMA CreateLinkStep == ASSUME IInv, NEW p \in Procs, CreateLink(p) PROVE IInv'
<1>1. PICK l \in Link :
        /\ links' = [links EXCEPT ![l] = [id |-> proc[p].id, amt |-> Billable(proc[p].min),
                                          st |-> "created"]]
        /\ Move(p, [To(p, "recordLink") EXCEPT !.ref = l])
  BY DEF CreateLink
<1>2. proc[p] \in Frame /\ Billable(proc[p].min) \in Amount
  BY BillableAmount DEF IInv, Frames, Frame
<1>3. FramesStep
  <2>1. [To(p, "recordLink") EXCEPT !.ref = l] \in Frame
        /\ FrameOK([To(p, "recordLink") EXCEPT !.ref = l])
    BY ToFrame, RefFrame, ObjectNumbers DEF FrameOK, Step
  <2>2. QED
    BY <1>1, <2>1, MoveFrame
<1>4. LedgerTypeOK'
  <2>1. links' \in [Link -> [id : Charge, amt : Amount,
                             st : {"unused", "created", "active", "off", "paid"}]]
    BY <1>1, <1>2 DEF IInv, TypeOK, LedgerTypeOK, Frame
  <2>2. QED
    BY <1>3, <2>1 DEF CreateLink, IInv, TypeOK, LedgerTypeOK, FramesStep
<1>5. QED
  BY <1>3, <1>4, WholeStep, CountersStep DEF CreateLink, IInv, TypeOK, envVars

LEMMA RecordLinkStep == ASSUME IInv, NEW p \in Procs, RecordLink(p) PROVE IInv'
<1>1. proc[p] \in Frame /\ proc[p].ref \in Link
  BY DEF RecordLink, At, IInv, Frames, FrameOK
<1>2. pe' \in Row
  <2>1. proc[p].ref \in 0 .. MaxLinks /\ proc[p].id \in Charge
    BY <1>1, ObjectNumbers DEF Frame
  <2>2. QED
    BY <2>1 DEF RecordLink, IInv, TypeOK, Row, PayStatuses
<1>3. FramesStep
  BY InvoicedFrame DEF RecordLink
<1>4. LedgerTypeOK'
  <2>1. links' \in [Link -> [id : Charge, amt : Amount,
                             st : {"unused", "created", "active", "off", "paid"}]]
    BY <1>1 DEF RecordLink, IInv, TypeOK, LedgerTypeOK
  <2>2. QED
    BY <1>3, <2>1 DEF RecordLink, IInv, TypeOK, LedgerTypeOK, FramesStep
<1>5. QED
  BY <1>2, <1>3, <1>4, WholeStep, CountersStep DEF RecordLink, IInv, TypeOK, envVars

LEMMA StampFeeStep == ASSUME IInv, NEW p \in Procs, StampFee(p) PROVE IInv'
<1>1. pe' \in Row
  BY DEF StampFee, IInv, TypeOK, Row
<1>2. QED
  BY <1>1, DoneFrame, RowStep, CountersStep DEF StampFee

LEMMA InvoiceStep == ASSUME IInv, NEW p \in Procs, Invoice(p) PROVE IInv'
  BY VoidFlagStep, CompleteFlaggedStep, CompleteWriteStep, ReadInvoiceStep,
     ResetUnpaidStep, ChargeCardStep, RecordChargeStep, CreateLinkStep,
     RecordLinkStep, StampFeeStep
  DEF Invoice

-----------------------------------------------------------------------------
\* Attendance.

LEMMA ReadingFrame ==
    ASSUME IInv, NEW l \in {"both", "clientNoShow", "expertNoShow", "neither", "unknown"},
           NEW m \in AllMinutes, NEW e \in Endings
    PROVE  Reading(l, m, e) \in Frame /\ FrameOK(Reading(l, m, e))
<1>1. pe.flagged \in BOOLEAN /\ pe.feeFor \in BOOLEAN
  BY DEF IInv, TypeOK, Row
<1> DEFINE fl == pe.flagged
           fe == pe.feeFor
<1>2. Idle \in Frame /\ Idle.fresh = FALSE
  BY IdleFrame DEF Idle
<1>3. fl \in BOOLEAN /\ fe \in BOOLEAN
  BY <1>1
<1> HIDE DEF fl, fe
<1> DEFINE r == [Idle EXCEPT !.pc = l, !.min = m, !.by = "attendance", !.ended = e,
                             !.flagged = fl, !.fee = fe]
<1>4. r \in Frame /\ r.pc = l /\ r.fresh = FALSE
  BY <1>2, <1>3 DEF Frame, Step
<1>5. FrameOK(r)
  BY <1>4 DEF FrameOK
<1>6. QED
  BY <1>4, <1>5 DEF Reading, fl, fe

LEMMA ZoomEndedStep == ASSUME IInv, NEW p \in Procs, ZoomEnded(p) PROVE IInv'
<1>1. PICK m \in Minutes, outcome \in Outcomes \ {"neither"} :
        Move(p, Reading(outcome, m, IF window = "closed" THEN "late" ELSE "inside"))
  BY DEF ZoomEnded
<1>2. m \in AllMinutes /\ (IF window = "closed" THEN "late" ELSE "inside") \in Endings
  BY DEF AllMinutes, Endings
<1>3. FramesStep
  BY <1>1, <1>2, OutcomesAssumption, ReadingFrame, MoveFrame
<1>4. QED
  BY <1>3, ReadStep, StartCounters DEF ZoomEnded

LEMMA AdminAttendanceStep == ASSUME IInv, NEW p \in Procs, AdminAttendance(p) PROVE IInv'
<1>1. PICK outcome \in Outcomes \ {"unknown"}, m \in AllMinutes :
        Move(p, Reading(outcome, m, pe.ended))
  <2>1. /\ pe.actualMin \in AllMinutes /\ pe.callMin \in AllMinutes
        /\ BookedMin \in AllMinutes /\ MinBillable \in AllMinutes
    BY MinutesAssumption DEF IInv, TypeOK, Row, AllMinutes
  <2>2. (CASE pe.actualMin # 0 -> pe.actualMin
           [] pe.actualMin = 0 /\ pe.booked -> BookedMin
           [] pe.actualMin = 0 /\ ~pe.booked /\ pe.callMin # 0 -> pe.callMin
           [] OTHER -> MinBillable) \in AllMinutes
    BY <2>1
  <2>3. QED
    BY <2>2 DEF AdminAttendance
<1>2. pe.ended \in Endings
  BY DEF IInv, TypeOK, Row
<1>3. FramesStep
  BY <1>1, <1>2, OutcomesAssumption, ReadingFrame, MoveFrame
<1>4. QED
  BY <1>3, ReadStep, StartCounters DEF AdminAttendance

LEMMA StampEnding == ASSUME IInv, NEW p \in Procs PROVE Stamp(p) \in Endings
  BY DEF Stamp, IInv, TypeOK, Row, Frames, Frame

LEMMA BothAttendedStep == ASSUME IInv, NEW p \in Procs, BothAttended(p) PROVE IInv'
<1>1. pe' \in Row
  <2>1. proc[p].min \in AllMinutes
    BY DEF IInv, Frames, Frame
  <2>2. QED
    BY <2>1, StampEnding DEF BothAttended, IInv, TypeOK, Row, Statuses
<1>2. FramesStep
  <2>1. CASE Move(p, To(p, "void"))
    <3>1. FrameOK(To(p, "void"))
      BY ToFrame DEF BothAttended, At, FrameOK, IInv, Frames, Step
    <3>2. QED
      BY <2>1, <3>1, ToFrame, MoveFrame DEF Step
  <2>2. CASE \E l \in {"settleEnded", "readInvoice"} : Move(p, To(p, l))
    BY <2>2, PlainMove DEF Step, Plain
  <2>3. QED
    BY <2>1, <2>2 DEF BothAttended
<1>3. QED
  BY <1>1, <1>2, RowStep, CountersStep DEF BothAttended

LEMMA LateCancelFrame ==
    ASSUME IInv, NEW p \in Procs, NEW fl, NEW fe, LateCancelMoney(p, fl, fe)
    PROVE  FramesStep
<1>1. CASE Move(p, [Idle EXCEPT !.pc = "settleEnded"])
  <2>1. /\ [Idle EXCEPT !.pc = "settleEnded"] \in Frame
        /\ [Idle EXCEPT !.pc = "settleEnded"].pc = "settleEnded"
    BY IdleFrame DEF Frame, Step
  <2>2. QED
    BY <1>1, <2>1, PlainFrame, MoveFrame DEF Plain, Step
<1>2. CASE Move(p, [Idle EXCEPT !.pc = "readInvoice", !.id = "fee",
                                !.min = MinBillable, !.by = "fee"])
  <2> DEFINE f == [Idle EXCEPT !.pc = "readInvoice", !.id = "fee",
                               !.min = MinBillable, !.by = "fee"]
  <2>1. f \in Frame /\ f.pc = "readInvoice"
    BY IdleFrame DEF Frame, Step, Charge, ChargeId, AllMinutes
  <2>2. QED
    BY <1>2, <2>1, PlainFrame, MoveFrame DEF Plain, Step
<1>3. CASE Done(p)
  BY <1>3, DoneFrame
<1>4. QED
  BY <1>1, <1>2, <1>3 DEF LateCancelMoney

LEMMA ClientNoShowStep == ASSUME IInv, NEW p \in Procs, ClientNoShow(p) PROVE IInv'
<1>1. pe' \in Row
  BY StampEnding DEF ClientNoShow, IInv, TypeOK, Row, Statuses
<1>2. QED
  BY <1>1, LateCancelFrame, RowStep, CountersStep DEF ClientNoShow

LEMMA ExpertNoShowStep == ASSUME IInv, NEW p \in Procs, ExpertNoShow(p) PROVE IInv'
<1>1. pe' \in Row
  BY StampEnding DEF ExpertNoShow, IInv, TypeOK, Row
<1>2. FramesStep
  BY PlainMove DEF ExpertNoShow, Step, Plain
<1>3. QED
  BY <1>1, <1>2, RowStep, CountersStep DEF ExpertNoShow

LEMMA EndEngagementStep == ASSUME IInv, NEW p \in Procs, EndEngagement(p) PROVE IInv'
<1>1. pe' \in Row
  <2>1. CASE pe' = [pe EXCEPT !.status = "ended"]
    BY <2>1 DEF IInv, TypeOK, Row, Statuses
  <2>2. CASE pe' = [pe EXCEPT !.status = "ended", !.ended = Stamp(p)]
    BY <2>2, StampEnding DEF IInv, TypeOK, Row, Statuses
  <2>3. QED
    BY <2>1, <2>2 DEF EndEngagement
<1>2. QED
  BY <1>1, DoneFrame, RowStep, CountersStep DEF EndEngagement

LEMMA UnknownAttendanceStep == ASSUME IInv, NEW p \in Procs, UnknownAttendance(p) PROVE IInv'
<1>1. pe' \in Row
  <2>1. proc[p].min \in AllMinutes
    BY DEF IInv, Frames, Frame
  <2>2. QED
    BY <2>1, StampEnding DEF UnknownAttendance, IInv, TypeOK, Row
<1>2. QED
  BY <1>1, DoneFrame, RowStep, CountersStep DEF UnknownAttendance

LEMMA CancelCallStep == ASSUME IInv, NEW p \in Procs, CancelCall(p) PROVE IInv'
<1>1. pe' \in Row
  BY DEF CancelCall, IInv, TypeOK, Row, Statuses
<1>2. CASE LateCancelMoney(p, pe.flagged, pe.feeFor)
  BY <1>1, <1>2, LateCancelFrame, RowStep, StartCounters DEF CancelCall
<1>3. CASE UNCHANGED <<proc, inbox>>
  <2>1. FramesStep
    BY <1>3 DEF FramesStep, Frames, IInv, TypeOK, LedgerTypeOK
  <2>2. QED
    BY <1>1, <2>1, RowStep, StartCounters DEF CancelCall
<1>4. QED
  BY <1>2, <1>3 DEF CancelCall

LEMMA AttendStep == ASSUME IInv, NEW p \in Procs, Attend(p) PROVE IInv'
  BY BothAttendedStep, ClientNoShowStep, ExpertNoShowStep, EndEngagementStep,
     UnknownAttendanceStep
  DEF Attend

-----------------------------------------------------------------------------
\* Settlement.

LEMMA FlagStep == ASSUME IInv, NEW p \in Procs, Flag(p) PROVE IInv'
<1>1. pe' \in Row
  BY DEF Flag, IInv, TypeOK, Row
<1>2. FramesStep
  <2>1. [Idle EXCEPT !.pc = "settle"] \in Frame /\ [Idle EXCEPT !.pc = "settle"].pc = "settle"
    BY IdleFrame DEF Frame, Step
  <2>2. QED
    BY <2>1, PlainFrame, MoveFrame DEF Flag, Plain, Step
<1>3. QED
  BY <1>1, <1>2, RowStep, StartCounters DEF Flag

\* A refund is decided upon only for an intent the row or the payment names, a
\* link is deactivated only if the row has one.
LEMMA SettlementRefs ==
    ASSUME IInv, NEW b
    PROVE  /\ Settlement(pe, b) = "refund" => pe.intent \in Intent
           /\ Settlement(pe, b) = "cancel_link" => pe.link \in Link
<1>1. pe.intent \in 0 .. MaxIntents /\ pe.link \in 0 .. MaxLinks
  BY DEF IInv, TypeOK, Row
<1>2. Settlement(pe, b) = "refund" => pe.intent # 0
  BY DEF Settlement
<1>3. Settlement(pe, b) = "cancel_link" => pe.link # 0
  BY DEF Settlement
<1>4. QED
  BY <1>1, <1>2, <1>3, LedgerAssumption DEF Intent, Link

LEMMA WaiveFrame ==
    ASSUME IInv, NEW p \in Procs
    PROVE  /\ [To(p, "waive") EXCEPT !.ref = 0] \in Frame
           /\ FrameOK([To(p, "waive") EXCEPT !.ref = 0])
<1> DEFINE g == To(p, "waive")
<1>1. g \in Frame /\ g.pc = "waive"
  BY ToFrame DEF Step
<1> HIDE DEF g
<1>2. [g EXCEPT !.ref = 0] \in Frame
      /\ [g EXCEPT !.ref = 0].pc = "waive" /\ [g EXCEPT !.ref = 0].ref = 0
  BY <1>1, RefFrame
<1>3. 0 \in 0 .. MaxIntents
  BY LedgerAssumption
<1>4. FrameOK([g EXCEPT !.ref = 0])
  BY <1>2, <1>3 DEF FrameOK
<1>5. QED
  BY <1>2, <1>4 DEF g

LEMMA SettleStep == ASSUME IInv, NEW p \in Procs, Settle(p) PROVE IInv'
<1> DEFINE billed == IF ForFlagged(pe, pe.billed) THEN pe.billed ELSE "call"
<1>1. billed \in Charge
  BY DEF IInv, TypeOK, Row, Charge, ChargeId
<1> HIDE DEF billed
<1>2. CASE Done(p)
  BY <1>2, DoneFrame, ReadStep, CountersStep DEF Settle
<1>3. ASSUME NEW i \in Intent,
             Move(p, [To(p, "refund") EXCEPT !.ref = i, !.id = billed])
      PROVE  FramesStep
  <2> DEFINE g == [To(p, "refund") EXCEPT !.ref = i]
  <2>1. g \in Frame /\ g.pc = "refund" /\ g.ref = i
    BY ToFrame, RefFrame, ObjectNumbers DEF Step
  <2> HIDE DEF g
  <2>2. [g EXCEPT !.id = billed] \in Frame /\ FrameOK([g EXCEPT !.id = billed])
    BY <1>1, <2>1 DEF Frame, FrameOK
  <2>3. QED
    BY <1>3, <2>2, MoveFrame DEF g
<1>4. ASSUME NEW l \in Link, Move(p, [To(p, "offLink") EXCEPT !.ref = l])
      PROVE  FramesStep
  <2>1. /\ [To(p, "offLink") EXCEPT !.ref = l] \in Frame
        /\ FrameOK([To(p, "offLink") EXCEPT !.ref = l])
    BY ToFrame, RefFrame, ObjectNumbers DEF FrameOK, Step
  <2>2. QED
    BY <1>4, <2>1, MoveFrame
<1>5. CASE Move(p, [To(p, "waive") EXCEPT !.ref = 0])
  <2>1. /\ [To(p, "waive") EXCEPT !.ref = 0] \in Frame
        /\ FrameOK([To(p, "waive") EXCEPT !.ref = 0])
    BY WaiveFrame
  <2>2. FramesStep
    BY <1>5, <2>1, MoveFrame
  <2>3. QED
    BY <2>2, ReadStep, CountersStep DEF Settle
<1>6. CASE \E i \in Intent : Move(p, [To(p, "refund") EXCEPT !.ref = i, !.id = billed])
  BY <1>3, <1>6, ReadStep, CountersStep DEF Settle
<1>7. CASE \E l \in Link : Move(p, [To(p, "offLink") EXCEPT !.ref = l])
  BY <1>4, <1>7, ReadStep, CountersStep DEF Settle
<1>8. \/ Done(p)
      \/ Move(p, [To(p, "waive") EXCEPT !.ref = 0])
      \/ \E i \in Intent : Move(p, [To(p, "refund") EXCEPT !.ref = i, !.id = billed])
      \/ \E l \in Link : Move(p, [To(p, "offLink") EXCEPT !.ref = l])
  <2>1. CASE At(p, "settlePaid")
    <3>1. proc[p].ref \in Intent /\ To(p, "refund").ref = proc[p].ref
      BY <2>1, ToFrame DEF At, IInv, Frames, FrameOK, Step
    <3>2. \/ Done(p)
          \/ Move(p, [To(p, "refund") EXCEPT !.ref = To(p, "refund").ref, !.id = billed])
      BY <2>1 DEF Settle, billed
    <3>3. QED
      BY <3>1, <3>2
  <2>2. CASE ~At(p, "settlePaid")
    BY <2>2, SettlementRefs DEF Settle, billed
  <2>3. QED
    BY <2>1, <2>2
<1>9. QED
  BY <1>2, <1>5, <1>6, <1>7, <1>8

LEMMA EndFrame ==
    ASSUME IInv, NEW p \in Procs, SettleFailed(p)
    PROVE  FramesStep
  BY IdleFrame DEF SettleFailed, IInv, Frames, TypeOK, LedgerTypeOK, FrameOK, FramesStep

LEMMA RefundStep == ASSUME IInv, NEW p \in Procs, Refund(p) PROVE IInv'
<1> DEFINE i == proc[p].ref
<1>1. i \in Intent /\ FrameOK(To(p, "waive")) /\ To(p, "waive") \in Frame
  BY ToFrame, ObjectNumbers DEF Refund, At, IInv, Frames, FrameOK, Step
<1>2. Counters'
  BY CountersStep DEF Refund
<1>3. alerts' \in SUBSET {"payout", "mismatch", "payment", "stale"}
  BY DEF Refund, Alert, IInv, TypeOK
<1>4. CASE /\ intents' = [intents EXCEPT ![i].st = "refunded"]
           /\ refundKey' = [refundKey EXCEPT ![proc[p].id] = i]
           /\ inbox' = inbox \cup {EventOf("refunded", i)}
           /\ \/ proc' = [proc EXCEPT ![p] = To(p, "waive")]
              \/ proc' = [proc EXCEPT ![p] = Idle]
  <2>1. inbox' \in SUBSET Event
    BY <1>1, <1>4 DEF EventOf, Event, IInv, TypeOK, LedgerTypeOK
  <2>2. FramesStep
    BY <1>1, <1>4, <2>1, IdleFrame DEF FramesStep, Frames, FrameOK, IInv
  <2>3. intents' \in [Intent -> [via : {"card", "link"}, id : Charge, amt : Amount,
                                 st : IntentState]]
    BY <1>1, <1>4 DEF IInv, TypeOK, LedgerTypeOK, IntentState
  <2>4. refundKey' \in [Charge -> 0 .. MaxIntents]
    BY <1>1, <1>4, ObjectNumbers DEF IInv, TypeOK, LedgerTypeOK
  <2>5. LedgerTypeOK'
    BY <2>1, <2>3, <2>4 DEF Refund, IInv, TypeOK, LedgerTypeOK
  <2>6. QED
    BY <1>2, <1>3, <2>2, <2>5, WholeStep DEF Refund, IInv, TypeOK, envVars
<1>5. CASE Move(p, To(p, "waive")) /\ UNCHANGED <<intents, refundKey>>
  <2>1. FramesStep
    BY <1>1, <1>5, MoveFrame
  <2>2. LedgerTypeOK'
    BY <1>5, <2>1 DEF Refund, IInv, TypeOK, LedgerTypeOK, FramesStep
  <2>3. QED
    BY <1>2, <1>3, <2>1, <2>2, WholeStep DEF Refund, IInv, TypeOK, envVars
<1>6. CASE SettleFailed(p) /\ UNCHANGED <<intents, refundKey>>
  <2>1. FramesStep
    BY <1>6, EndFrame
  <2>2. LedgerTypeOK'
    BY <1>6, <2>1 DEF Refund, IInv, TypeOK, LedgerTypeOK, FramesStep
  <2>3. QED
    BY <1>2, <1>3, <2>1, <2>2, WholeStep DEF Refund, IInv, TypeOK, envVars
<1>7. QED
  BY <1>4, <1>5, <1>6 DEF Refund

LEMMA OffLinkStep == ASSUME IInv, NEW p \in Procs, OffLink(p) PROVE IInv'
<1> DEFINE l == proc[p].ref
<1>1. l \in Link
  BY DEF OffLink, At, IInv, Frames, FrameOK
<1>2. FramesStep
  <2>1. /\ [To(p, "waive") EXCEPT !.ref = 0] \in Frame
        /\ FrameOK([To(p, "waive") EXCEPT !.ref = 0])
    BY WaiveFrame
  <2>2. QED
    BY <2>1, MoveFrame DEF OffLink
<1>3. links' \in [Link -> [id : Charge, amt : Amount,
                           st : {"unused", "created", "active", "off", "paid"}]]
  <2>1. CASE links' = [links EXCEPT ![l].st = IF @ = "active" THEN "off" ELSE @]
    BY <1>1, <2>1 DEF IInv, TypeOK, LedgerTypeOK
  <2>2. CASE UNCHANGED links
    BY <2>2 DEF IInv, TypeOK, LedgerTypeOK
  <2>3. QED
    BY <2>1, <2>2 DEF OffLink
<1>4. LedgerTypeOK'
  BY <1>2, <1>3 DEF OffLink, IInv, TypeOK, LedgerTypeOK, FramesStep
<1>5. alerts' \in SUBSET {"payout", "mismatch", "payment", "stale"}
  BY DEF OffLink, Alert, IInv, TypeOK
<1>6. Counters'
  BY CountersStep DEF OffLink
<1>7. QED
  BY <1>2, <1>4, <1>5, <1>6, WholeStep DEF OffLink, IInv, TypeOK, envVars

LEMMA WriteWaiverStep == ASSUME IInv, NEW p \in Procs, WriteWaiver(p) PROVE IInv'
<1>1. pe' \in Row
  <2>1. proc[p].ref \in 0 .. MaxIntents /\ "call" \in Charge
    BY DEF WriteWaiver, At, IInv, Frames, FrameOK, Charge, ChargeId
  <2>2. CASE pe' = [pe EXCEPT !.pay = "waived",
                              !.billed = IF ForFlagged(pe, pe.billed) THEN @ ELSE "call",
                              !.intent = IF proc[p].ref # 0 THEN proc[p].ref
                                         ELSE IF ForFlagged(pe, pe.billed) THEN @ ELSE 0]
    BY <2>1, <2>2, LedgerAssumption DEF IInv, TypeOK, Row, PayStatuses
  <2>3. CASE UNCHANGED pe
    BY <2>3 DEF IInv, TypeOK
  <2>4. QED
    BY <2>2, <2>3 DEF WriteWaiver
<1>2. FramesStep
  BY PlainMove, EndFrame DEF WriteWaiver, Step, Plain
<1>3. QED
  BY <1>1, <1>2, RowStep, CountersStep DEF WriteWaiver

LEMMA SettleFlagStep == ASSUME IInv, NEW p \in Procs, SettleFlag(p) PROVE IInv'
  BY SettleStep, RefundStep, OffLinkStep, WriteWaiverStep DEF SettleFlag

-----------------------------------------------------------------------------
\* Payouts.

LEMMA ReadPayoutStep == ASSUME IInv, NEW p \in Procs, ReadPayout(p) PROVE IInv'
<1> DEFINE id == PayoutCallId(pe)
           m == PayoutMinutes(pe, id)
           paid == pe.paid
           n == pe.attempts
<1>1. id \in Charge
  BY DEF IInv, TypeOK, Row, PayoutCallId, ResolveCallId, Charge, ChargeId
<1>2. m \in AllMinutes
  BY DEF IInv, TypeOK, Row, PayoutMinutes, AllMinutes
<1>3. paid \in SUBSET ChargeId /\ n \in 0 .. MaxAttempts
  BY DEF IInv, TypeOK, Row
<1>4. ASSUME m # 0,
             Move(p, [To(p, "transfer") EXCEPT !.id = id, !.min = m, !.paidIds = paid,
                                               !.attempts = n])
      PROVE  FramesStep
  <2> DEFINE g == To(p, "transfer")
  <2>1. g \in Frame /\ g.pc = "transfer"
    BY ToFrame DEF Step
  <2> HIDE DEF g, id, m, paid, n
  <2> DEFINE f == [g EXCEPT !.id = id, !.min = m, !.paidIds = paid, !.attempts = n]
  <2>2. f \in Frame
    BY <1>1, <1>2, <1>3, <2>1 DEF Frame
  <2>3. f.pc = "transfer" /\ f.min = m
    BY <2>1 DEF Frame
  <2>4. FrameOK(f)
    BY <1>4, <2>3 DEF FrameOK
  <2>5. Move(p, f)
    BY <1>4 DEF g
  <2> HIDE DEF f
  <2>6. QED
    BY <2>2, <2>4, <2>5, MoveFrame
<1>5. ASSUME NEW l \in {"hold", "park", "parkAccount"}, Move(p, To(p, l))
      PROVE  FramesStep
  BY <1>5, PlainMove DEF Step, Plain
<1>6. \/ Done(p)
      \/ m # 0 /\ Move(p, [To(p, "transfer") EXCEPT !.id = id, !.min = m,
                                                    !.paidIds = paid, !.attempts = n])
      \/ \E l \in {"hold", "park", "parkAccount"} : Move(p, To(p, l))
  BY Zenon DEF ReadPayout
<1>7. FramesStep
  BY <1>4, <1>5, <1>6, DoneFrame
<1>8. Counters'
  BY CountersStep DEF ReadPayout
<1>9. QED
  BY <1>7, <1>8, ReadStep DEF ReadPayout

\* A step that writes the row, raises an alert or not, and is the last.
LEMMA AlertStep ==
    ASSUME IInv, FramesStep, Counters', pe' \in Row,
           UNCHANGED <<moneyVars, envVars>>,
           alerts' = alerts \/ Alert("payout") \/ Alert("payment")
    PROVE  IInv'
<1>1. alerts' \in SUBSET {"payout", "mismatch", "payment", "stale"}
  BY DEF Alert, IInv, TypeOK
<1>2. LedgerTypeOK'
  BY DEF FramesStep, IInv, TypeOK, LedgerTypeOK, moneyVars
<1>3. QED
  BY <1>1, <1>2, WholeStep

LEMMA HoldStep == ASSUME IInv, NEW p \in Procs, Hold(p) PROVE IInv'
<1>1. pe' \in Row
  BY DEF Hold, IInv, TypeOK, Row, OnbStatuses
<1>2. QED
  BY <1>1, DoneFrame, AlertStep, CountersStep DEF Hold

LEMMA ParkStep == ASSUME IInv, NEW p \in Procs, Park(p) PROVE IInv'
<1>1. (pe.account \/ At(p, "parkAccount")) \in BOOLEAN
  OBVIOUS
<1> DEFINE b == pe.account \/ At(p, "parkAccount")
<1>2. pe' = [pe EXCEPT !.onb = "pending", !.account = b]
  BY DEF Park, IInv, TypeOK, Row
<1>3. b \in BOOLEAN
  BY <1>1
<1> HIDE DEF b
<1>4. pe' \in Row
  BY <1>2, <1>3 DEF IInv, TypeOK, Row, OnbStatuses
<1>5. QED
  BY <1>4, DoneFrame, RowStep, CountersStep DEF Park

LEMMA TransferStep == ASSUME IInv, NEW p \in Procs, Transfer(p) PROVE IInv'
<1> DEFINE id == proc[p].id
           amt == Billable(proc[p].min)
<1>1. id \in Charge /\ amt \in Amount
  BY BillableAmount DEF IInv, Frames, Frame
<1>2. FramesStep
  BY PlainMove DEF Transfer, Step, Plain
<1>3. Counters'
  BY CountersStep DEF Transfer
<1> HIDE DEF amt
<1>4. sends' \in [Charge -> Nat] /\ payKey' \in [Charge -> Amount]
  <2>1. CASE sends' = [sends EXCEPT ![id] = @ + 1] /\ payKey' = [payKey EXCEPT ![id] = amt]
    BY <1>1, <2>1 DEF IInv, TypeOK, LedgerTypeOK
  <2>2. CASE UNCHANGED <<sends, payKey>>
    BY <2>2 DEF IInv, TypeOK, LedgerTypeOK
  <2>3. QED
    BY <2>1, <2>2 DEF Transfer, amt
<1>5. LedgerTypeOK'
  BY <1>2, <1>4 DEF Transfer, FramesStep, IInv, TypeOK, LedgerTypeOK
<1>6. QED
  BY <1>2, <1>3, <1>5, WholeStep DEF Transfer, IInv, TypeOK, envVars

LEMMA RecordTransferStep == ASSUME IInv, NEW p \in Procs, RecordTransfer(p) PROVE IInv'
<1>1. pe' \in Row
  <2>1. proc[p].paidIds \cup ({proc[p].id} \ {None}) \in SUBSET ChargeId
    BY DEF IInv, Frames, Frame, Charge
  <2>2. QED
    BY <2>1 DEF RecordTransfer, IInv, TypeOK, Row
<1>2. FramesStep
  BY PlainMove DEF RecordTransfer, Step, Plain
<1>3. QED
  BY <1>1, <1>2, RowStep, CountersStep DEF RecordTransfer

LEMMA BookkeepStep == ASSUME IInv, NEW p \in Procs, Bookkeep(p) PROVE IInv'
<1>1. pe' \in Row
  BY DEF Bookkeep, IInv, TypeOK, Row, OnbStatuses
<1>2. QED
  BY <1>1, DoneFrame, RowStep, CountersStep DEF Bookkeep

LEMMA RecordFailStep == ASSUME IInv, NEW p \in Procs, RecordFail(p) PROVE IInv'
<1> DEFINE n == IF proc[p].attempts < MaxAttempts THEN proc[p].attempts + 1 ELSE MaxAttempts
<1>1. n \in 0 .. MaxAttempts
  <2>1. proc[p].attempts \in 0 .. MaxAttempts
    BY DEF IInv, Frames, Frame
  <2>2. QED
    BY <2>1, AttemptsAssumption
<1>2. pe' = [pe EXCEPT !.onb = "failed", !.account = TRUE, !.attempts = n]
  BY DEF RecordFail
<1> HIDE DEF n
<1>3. pe' \in Row
  BY <1>1, <1>2 DEF IInv, TypeOK, Row, OnbStatuses
<1>4. QED
  BY <1>3, DoneFrame, AlertStep, CountersStep DEF RecordFail

LEMMA PayoutErrorStep == ASSUME IInv, NEW p \in Procs, PayoutError(p) PROVE IInv'
<1>1. pe' \in Row
  BY DEF PayoutError, IInv, TypeOK
<1>2. QED
  BY <1>1, DoneFrame, AlertStep, CountersStep DEF PayoutError

LEMMA PayStep == ASSUME IInv, NEW p \in Procs, Pay(p) PROVE IInv'
  BY ReadPayoutStep, HoldStep, ParkStep, TransferStep, RecordTransferStep,
     BookkeepStep, RecordFailStep, PayoutErrorStep
  DEF Pay

LEMMA NightlySweepStep == ASSUME IInv, NEW p \in Procs, NightlySweep(p) PROVE IInv'
<1>1. [Idle EXCEPT !.pc = "readPayout"] \in Frame
      /\ [Idle EXCEPT !.pc = "readPayout"].pc = "readPayout"
  BY IdleFrame DEF Frame, Step
<1>2. FramesStep
  BY <1>1, PlainFrame, MoveFrame DEF NightlySweep, Plain, Step
<1>3. QED
  BY <1>2, ReadStep, CountersStep DEF NightlySweep

LEMMA StaleOwedStep == ASSUME IInv, StaleOwed PROVE IInv'
<1>1. FramesStep /\ LedgerTypeOK' /\ pe' \in Row
  BY DEF StaleOwed, FramesStep, Frames, IInv, TypeOK, LedgerTypeOK, moneyVars
<1>2. alerts' \in SUBSET {"payout", "mismatch", "payment", "stale"}
  BY DEF StaleOwed, Alert, IInv, TypeOK
<1>3. QED
  BY <1>1, <1>2, WholeStep, CountersStep DEF StaleOwed

-----------------------------------------------------------------------------
\* The webhook, and Stripe.

LEMMA DeliverStep == ASSUME IInv, NEW p \in Procs, Deliver(p) PROVE IInv'
<1>1. PICK e \in inbox, read \in BOOLEAN :
        \/ /\ Leads(e, read) # "idle"
           /\ Move(p, [Idle EXCEPT !.pc = Leads(e, read), !.ref = e.of, !.ev = e])
           /\ UNCHANGED alerts
        \/ /\ inbox' = inbox \ {e} /\ UNCHANGED proc
           /\ Alert("payment") \/ UNCHANGED alerts
  BY DEF Deliver
<1>2. e \in Event /\ (e.kind = "paid" => e.of \in Intent) /\ e.of \in Nat
  <2>1. e \in Event
    BY DEF IInv, TypeOK, LedgerTypeOK
  <2>2. CASE e = EventOf("account", 0)
    BY <2>1, <2>2 DEF EventOf
  <2>3. CASE e \in [kind : {"paid", "failed", "refunded", "disputed"}, of : Intent]
    BY <2>1, <2>3, ObjectNumbers
  <2>4. QED
    BY <2>1, <2>2, <2>3 DEF Event
<1>3. /\ Leads(e, read) \in {"idle", "settlePaid", "markPaid", "markFailed", "recordRefund",
                             "readPayout", "markRefunded"}
      /\ Leads(e, read) \in {"settlePaid", "markPaid"} => e.kind = "paid"
  BY DEF Leads, Route, RouteUnread
<1>4. FramesStep
  <2>1. CASE Move(p, [Idle EXCEPT !.pc = Leads(e, read), !.ref = e.of, !.ev = e])
    <3> DEFINE l == Leads(e, read)
               r == e.of
               f == [Idle EXCEPT !.pc = l, !.ref = r, !.ev = e]
    <3>1. l \in Step /\ r \in Nat
      BY <1>2, <1>3 DEF Step
    <3>2. l \in {"settlePaid", "markPaid"} => r \in Intent
      BY <1>2, <1>3
    <3>3. l \notin {"recordCharge", "refund", "waive", "recordLink", "offLink", "both",
                    "void", "completeWrite", "transfer"}
      BY <1>3
    <3> HIDE DEF l, r
    <3>4. f \in Frame /\ f.pc = l /\ f.ref = r
      BY <1>2, <3>1, IdleFrame DEF Frame
    <3>5. FrameOK(f)
      BY <3>2, <3>3, <3>4 DEF FrameOK
    <3>6. QED
      BY <2>1, <3>4, <3>5, MoveFrame DEF l, r
  <2>2. CASE inbox' = inbox \ {e} /\ UNCHANGED proc
    BY <2>2 DEF FramesStep, Frames, IInv, TypeOK, LedgerTypeOK
  <2>3. QED
    BY <1>1, <2>1, <2>2
<1>5. alerts' = alerts \/ Alert("payment")
  BY <1>1
<1>6. pe' \in Row /\ Counters'
  BY CountersStep DEF Deliver, IInv, TypeOK
<1>7. QED
  BY <1>4, <1>5, <1>6, AlertStep DEF Deliver

LEMMA MarkPaidStep == ASSUME IInv, NEW p \in Procs, MarkPaid(p) PROVE IInv'
<1>1. pe' \in Row
  <2>1. proc[p].ref \in 0 .. MaxIntents
    BY ObjectNumbers DEF MarkPaid, At, IInv, Frames, FrameOK
  <2>2. QED
    BY <2>1 DEF MarkPaid, IInv, TypeOK, Row, PayStatuses
<1>2. FramesStep
  BY PlainMove DEF MarkPaid, Step, Plain
<1>3. QED
  BY <1>1, <1>2, RowStep, CountersStep DEF MarkPaid

LEMMA MarkFailedStep == ASSUME IInv, NEW p \in Procs, MarkFailed(p) PROVE IInv'
<1>1. pe' \in Row
  BY DEF MarkFailed, IInv, TypeOK, Row, PayStatuses
<1>2. QED
  BY <1>1, DoneFrame, AlertStep, CountersStep DEF MarkFailed

LEMMA MarkRefundedStep == ASSUME IInv, NEW p \in Procs, MarkRefunded(p) PROVE IInv'
<1>1. pe' \in Row
  BY DEF MarkRefunded, IInv, TypeOK, Row, PayStatuses
<1>2. QED
  BY <1>1, DoneFrame, AlertStep, CountersStep DEF MarkRefunded

LEMMA RecordRefundStep == ASSUME IInv, NEW p \in Procs, RecordRefund(p) PROVE IInv'
<1>1. pe' \in Row
  BY DEF RecordRefund, IInv, TypeOK, Row, PayStatuses
<1>2. FramesStep
  BY PlainMove DEF RecordRefund, Step, Plain
<1>3. QED
  BY <1>1, <1>2, RowStep, CountersStep DEF RecordRefund

LEMMA HandleEventStep == ASSUME IInv, NEW p \in Procs, HandleEvent(p) PROVE IInv'
  BY MarkPaidStep, MarkFailedStep, MarkRefundedStep, RecordRefundStep DEF HandleEvent

LEMMA StayFrames ==
    ASSUME IInv, UNCHANGED proc, inbox' \in SUBSET Event
    PROVE  FramesStep
  BY DEF FramesStep, Frames, IInv

LEMMA PaymentEventsType == \A st, i : i \in Intent => PaymentEvents(st, i) \in SUBSET Event
  BY DEF PaymentEvents, EventOf, Event

LEMMA StripeStep == ASSUME IInv, Stripe PROVE IInv'
<1>1. CASE SettleIntent
  <2>1. PICK i \in Intent, st \in {"succeeded", "failed"} :
          /\ intents' = [intents EXCEPT ![i].st = st]
          /\ inbox' = inbox \cup PaymentEvents(st, i)
    BY <1>1 DEF SettleIntent
  <2>2. inbox' \in SUBSET Event
    BY <2>1, PaymentEventsType DEF IInv, TypeOK, LedgerTypeOK
  <2>3. intents' \in [Intent -> [via : {"card", "link"}, id : Charge, amt : Amount,
                                 st : IntentState]]
    BY <2>1 DEF IInv, TypeOK, LedgerTypeOK, IntentState
  <2>4. LedgerTypeOK'
    BY <1>1, <2>2, <2>3 DEF SettleIntent, IInv, TypeOK, LedgerTypeOK
  <2>5. QED
    BY <1>1, <2>2, <2>4, StayFrames, WholeStep, CountersStep
    DEF SettleIntent, IInv, TypeOK, envVars
<1>2. CASE PayLink
  <2>1. PICK l \in Link, i \in Intent, st \in {"succeeded", "processing"} :
          /\ links' = [links EXCEPT ![l].st = "paid"]
          /\ Raise(i, "link", links[l].id, links[l].amt, st)
          /\ inbox' = inbox \cup PaymentEvents(st, i)
    BY <1>2 DEF PayLink
  <2>2. inbox' \in SUBSET Event
    BY <2>1, PaymentEventsType DEF IInv, TypeOK, LedgerTypeOK
  <2>3. intents' \in [Intent -> [via : {"card", "link"}, id : Charge, amt : Amount,
                                 st : IntentState]]
    <3>1. links[l].id \in Charge /\ links[l].amt \in Amount
      BY DEF IInv, TypeOK, LedgerTypeOK
    <3>2. [via |-> "link", id |-> links[l].id, amt |-> links[l].amt, st |-> st]
             \in [via : {"card", "link"}, id : Charge, amt : Amount, st : IntentState]
      BY <3>1 DEF IntentState
    <3>3. QED
      BY <2>1, <3>2 DEF Raise, IInv, TypeOK, LedgerTypeOK
  <2>4. links' \in [Link -> [id : Charge, amt : Amount,
                             st : {"unused", "created", "active", "off", "paid"}]]
    BY <2>1 DEF IInv, TypeOK, LedgerTypeOK
  <2>5. LedgerTypeOK'
    BY <1>2, <2>2, <2>3, <2>4 DEF PayLink, IInv, TypeOK, LedgerTypeOK
  <2>6. QED
    BY <1>2, <2>2, <2>5, StayFrames, WholeStep, CountersStep
    DEF PayLink, IInv, TypeOK, envVars
<1>3. CASE GiveBack
  <2>1. PICK i \in Intent, kind \in {"refunded", "disputed"} :
          /\ intents' = [intents EXCEPT ![i].st = "refunded"]
          /\ inbox' = inbox \cup {EventOf(kind, i)}
    BY <1>3 DEF GiveBack
  <2>2. inbox' \in SUBSET Event
    BY <2>1 DEF EventOf, Event, IInv, TypeOK, LedgerTypeOK
  <2>3. intents' \in [Intent -> [via : {"card", "link"}, id : Charge, amt : Amount,
                                 st : IntentState]]
    BY <2>1 DEF IInv, TypeOK, LedgerTypeOK, IntentState
  <2>4. LedgerTypeOK'
    BY <1>3, <2>2, <2>3 DEF GiveBack, IInv, TypeOK, LedgerTypeOK
  <2>5. QED
    BY <1>3, <2>2, <2>4, StayFrames, WholeStep, CountersStep
    DEF GiveBack, IInv, TypeOK, envVars
<1>4. CASE Redeliver
  <2>1. inbox' \in SUBSET Event
    BY <1>4, PaymentEventsType DEF Redeliver, IInv, TypeOK, LedgerTypeOK
  <2>2. LedgerTypeOK'
    BY <1>4, <2>1 DEF Redeliver, IInv, TypeOK, LedgerTypeOK, moneyVars
  <2>3. QED
    BY <1>4, <2>1, <2>2, StayFrames, WholeStep, CountersStep
    DEF Redeliver, IInv, TypeOK, envVars
<1>5. CASE ExpireKeys
  <2>1. inbox' \in SUBSET Event
    BY <1>5 DEF ExpireKeys, IInv, TypeOK, LedgerTypeOK
  <2>2. 0 \in Amount /\ 0 \in 0 .. MaxIntents
    BY LedgerAssumption DEF Amount, Billable, AllMinutes, MinBillable
  <2>3. LedgerTypeOK'
    BY <1>5, <2>1, <2>2 DEF ExpireKeys, IInv, TypeOK, LedgerTypeOK
  <2>4. QED
    BY <1>5, <2>1, <2>3, StayFrames, WholeStep, CountersStep
    DEF ExpireKeys, IInv, TypeOK, envVars
<1>6. QED
  BY <1>1, <1>2, <1>3, <1>4, <1>5 DEF Stripe

-----------------------------------------------------------------------------
\* The whole specification.

LEMMA WholeInit == Init => IInv
<1> SUFFICES ASSUME Init PROVE IInv
  OBVIOUS
<1>1. pe \in Row
  BY IdsAssumption, AttemptsAssumption, BookingsAssumption, LedgerAssumption
  DEF Init, Row, Statuses, Endings, AllMinutes, PayStatuses, OnbStatuses, Charge
<1>2. Frames
  BY IdleFrame DEF Init, Frames
<1>3. LedgerTypeOK
  <2>1. 0 \in Amount /\ 0 \in 0 .. MaxIntents /\ None \in Charge
    BY LedgerAssumption DEF Amount, Billable, AllMinutes, MinBillable, Charge
  <2>2. QED
    BY <2>1 DEF Init, LedgerInit, LedgerTypeOK, IntentState
<1>4. starts \in 0 .. MaxStarts /\ faults \in 0 .. MaxFaults
  BY BoundsAssumption DEF Init
<1>5. QED
  BY <1>1, <1>2, <1>3, <1>4 DEF Init, IInv, TypeOK, Frames

LEMMA TickStep == ASSUME IInv, Tick PROVE IInv'
<1>1. FramesStep /\ LedgerTypeOK'
  BY DEF Tick, FramesStep, Frames, IInv, TypeOK, LedgerTypeOK, moneyVars
<1>2. Counters'
  BY CountersStep DEF Tick
<1>3. window' \in {"before", "open", "closed"}
  BY DEF Tick
<1>4. QED
  BY <1>1, <1>2, <1>3 DEF Tick, FramesStep, Frames, Counters, IInv, TypeOK

LEMMA OnboardStep == ASSUME IInv, Onboard PROVE IInv'
<1>1. inbox' \in SUBSET Event
  BY DEF Onboard, Event, IInv, TypeOK, LedgerTypeOK
<1>2. FramesStep
  BY <1>1, StayFrames DEF Onboard
<1>3. LedgerTypeOK'
  BY <1>1 DEF Onboard, IInv, TypeOK, LedgerTypeOK, moneyVars
<1>4. Counters'
  BY CountersStep DEF Onboard
<1>5. acct' \in {"none", "open", "done"}
  BY DEF Onboard
<1>6. QED
  BY <1>2, <1>3, <1>4, <1>5 DEF Onboard, FramesStep, Frames, Counters, IInv, TypeOK

LEMMA CrashStep == ASSUME IInv, NEW p \in Procs, Crash(p) PROVE IInv'
<1>1. FramesStep
  BY IdleFrame DEF Crash, FramesStep, Frames, IInv, TypeOK, LedgerTypeOK
<1>2. OnlyRead
  BY DEF Crash, OnlyRead
<1>3. QED
  BY <1>1, <1>2, ReadStep, CountersStep DEF Crash

LEMMA RequestStep == ASSUME IInv, NEW p \in Procs, Request(p) PROVE IInv'
  BY CompleteStep, ZoomEndedStep, AdminAttendanceStep, CancelCallStep, FlagStep
  DEF Request

LEMMA RunStep == ASSUME IInv, NEW p \in Procs, Run(p) PROVE IInv'
  BY InvoiceStep, AttendStep, SettleFlagStep, PayStep, HandleEventStep DEF Run

LEMMA NextStep == IInv /\ [Next]_vars => IInv'
<1> SUFFICES ASSUME IInv, [Next]_vars PROVE IInv'
  OBVIOUS
<1>1. CASE UNCHANGED vars
  BY <1>1 DEF vars, moneyVars, envVars, IInv, TypeOK, LedgerTypeOK, Frames
<1>2. CASE Next
  <2>1. CASE Stripe
    BY <2>1, StripeStep
  <2>2. CASE Tick \/ Onboard \/ StaleOwed
    BY <2>2, TickStep, OnboardStep, StaleOwedStep
  <2>3. ASSUME NEW p \in Procs,
               Request(p) \/ Run(p) \/ Deliver(p) \/ NightlySweep(p) \/ Crash(p)
        PROVE  IInv'
    BY <2>3, RequestStep, RunStep, DeliverStep, NightlySweepStep, CrashStep
  <2>4. QED
    BY <1>2, <2>1, <2>2, <2>3 DEF Next
<1>3. QED
  BY <1>1, <1>2

LEMMA Invariant == Spec => []IInv
  BY WholeInit, NextStep, PTL DEF Spec

\* The row, the handlers and Stripe's objects stay of their types: above all, no
\* handler writes to the row an intent, a link or an id it does not have.
THEOREM TypesHold == Spec => []TypeOK
<1>1. IInv => TypeOK
  BY DEF IInv
<1>2. QED
  BY <1>1, Invariant, PTL

-----------------------------------------------------------------------------
(* What the idempotency keys guarantee for as long as Stripe remembers them   *)
(* ("expire" is not in Ops), whatever the handlers do, however they           *)
(* interleave and wherever they crash.                                        *)

\* Every card charge Stripe was asked for is the one its id's key replays.
ChargesKeyed ==
    \A i \in Intent :
        intents[i].via = "card" /\ intents[i].st # "unused"
            => chargeKey[intents[i].id] = i

\* A transfer was made for an id exactly if its key says so.
SendsKeyed == \A c \in Charge : sends[c] = IF payKey[c] = 0 THEN 0 ELSE 1

KInv == IInv /\ ChargesKeyed /\ SendsKeyed

-----------------------------------------------------------------------------
\* Only seven actions touch what the keys speak of.
LEMMA KeySteps ==
    ASSUME Next
    PROVE  \/ UNCHANGED <<intents, chargeKey, payKey, sends>>
           \/ SettleIntent \/ PayLink \/ GiveBack \/ ExpireKeys
           \/ \E p \in Procs : ChargeCard(p) \/ Refund(p) \/ Transfer(p)
<1>1. CASE Stripe
  BY <1>1 DEF Stripe, Redeliver, moneyVars
<1>2. CASE Tick \/ Onboard \/ StaleOwed
  BY <1>2 DEF Tick, Onboard, StaleOwed, moneyVars
<1> USE DEF moneyVars, OnlyRow, OnlyRead
<1>3. ASSUME NEW p \in Procs, Request(p) \/ Deliver(p) \/ NightlySweep(p) \/ Crash(p)
      PROVE  UNCHANGED <<intents, chargeKey, payKey, sends>>
  BY <1>3
  DEF Request, Complete, ZoomEnded, AdminAttendance, CancelCall, Flag, Deliver,
      NightlySweep, Crash
<1>4. ASSUME NEW p \in Procs, Invoice(p)
      PROVE  ChargeCard(p) \/ UNCHANGED <<intents, chargeKey, payKey, sends>>
  BY <1>4
  DEF Invoice, VoidFlag, CompleteFlagged, CompleteWrite, ReadInvoice, ResetUnpaid,
      RecordCharge, CreateLink, RecordLink, StampFee
<1>5. ASSUME NEW p \in Procs, Attend(p)
      PROVE  UNCHANGED <<intents, chargeKey, payKey, sends>>
  BY <1>5
  DEF Attend, BothAttended, ClientNoShow, ExpertNoShow, EndEngagement,
      UnknownAttendance
<1>6. ASSUME NEW p \in Procs, SettleFlag(p)
      PROVE  Refund(p) \/ UNCHANGED <<intents, chargeKey, payKey, sends>>
  BY <1>6 DEF SettleFlag, Settle, OffLink, WriteWaiver
<1>7. ASSUME NEW p \in Procs, Pay(p)
      PROVE  Transfer(p) \/ UNCHANGED <<intents, chargeKey, payKey, sends>>
  BY <1>7
  DEF Pay, ReadPayout, Hold, Park, RecordTransfer, Bookkeep, RecordFail, PayoutError
<1>8. ASSUME NEW p \in Procs, HandleEvent(p)
      PROVE  UNCHANGED <<intents, chargeKey, payKey, sends>>
  BY <1>8 DEF HandleEvent, MarkPaid, MarkFailed, MarkRefunded, RecordRefund
<1>9. QED
  BY <1>1, <1>2, <1>3, <1>4, <1>5, <1>6, <1>7, <1>8 DEF Next, Run

LEMMA KeyedKept ==
    ASSUME ChargesKeyed, SendsKeyed, UNCHANGED <<intents, chargeKey, payKey, sends>>
    PROVE  ChargesKeyed' /\ SendsKeyed'
  BY DEF ChargesKeyed, SendsKeyed

\* An intent that was raised already only moves on.
LEMMA IntentMoves ==
    ASSUME IInv, ChargesKeyed, NEW i \in Intent, NEW st, intents[i].st # "unused",
           intents' = [intents EXCEPT ![i].st = st], UNCHANGED chargeKey
    PROVE  ChargesKeyed'
  BY DEF IInv, TypeOK, LedgerTypeOK, ChargesKeyed

LEMMA ChargeCardKeyed ==
    ASSUME IInv, ChargesKeyed, NEW p \in Procs, ChargeCard(p)
    PROVE  ChargesKeyed'
<1> DEFINE id == proc[p].id
           amt == Billable(proc[p].min)
<1>1. CASE UNCHANGED <<intents, chargeKey>>
  BY <1>1 DEF ChargesKeyed
<1>2. ASSUME NEW i \in Intent, NEW st, chargeKey[id] = 0, FreshIntent(i),
             Raise(i, "card", id, amt, st), chargeKey' = [chargeKey EXCEPT ![id] = i]
      PROVE  ChargesKeyed'
  <2>1. id \in Charge
    BY DEF IInv, Frames, Frame
  <2> HIDE DEF id, amt
  <2>2. intents' = [intents EXCEPT ![i] = [via |-> "card", id |-> id, amt |-> amt, st |-> st]]
    BY <1>2 DEF Raise
  <2>3. chargeKey'[id] = i /\ intents'[i].id = id
    BY <1>2, <2>1, <2>2 DEF IInv, TypeOK, LedgerTypeOK
  <2>4. ASSUME NEW j \in Intent \ {i}, intents[j].via = "card", intents[j].st # "unused"
        PROVE  intents[j].id # id /\ chargeKey'[intents[j].id] = j
    <3>1. chargeKey[intents[j].id] = j
      BY <2>4 DEF ChargesKeyed
    <3>2. intents[j].id \in Charge
      BY <2>4 DEF IInv, TypeOK, LedgerTypeOK
    <3>3. j # 0
      BY LedgerAssumption DEF Intent
    <3>4. QED
      BY <1>2, <2>1, <3>1, <3>2, <3>3 DEF IInv, TypeOK, LedgerTypeOK
  <2>5. \A j \in Intent \ {i} : intents'[j] = intents[j]
    BY <2>2 DEF IInv, TypeOK, LedgerTypeOK
  <2>6. QED
    BY <2>3, <2>4, <2>5 DEF ChargesKeyed
<1>3. QED
  BY <1>1, <1>2 DEF ChargeCard, Keyed, OnlyRead, moneyVars

LEMMA PayLinkKeyed == ASSUME IInv, ChargesKeyed, PayLink PROVE ChargesKeyed'
<1>1. PICK i \in Intent, l \in Link, st \in {"succeeded", "processing"} :
        Raise(i, "link", links[l].id, links[l].amt, st)
  BY DEF PayLink
<1>2. intents'[i].via = "link" /\ \A j \in Intent \ {i} : intents'[j] = intents[j]
  BY <1>1 DEF Raise, IInv, TypeOK, LedgerTypeOK
<1>3. QED
  BY <1>2 DEF PayLink, ChargesKeyed

LEMMA TransferKeyed ==
    ASSUME IInv, SendsKeyed, NEW p \in Procs, Transfer(p)
    PROVE  SendsKeyed'
<1> DEFINE id == proc[p].id
           amt == Billable(proc[p].min)
<1>1. id \in Charge /\ amt # 0
  <2>1. proc[p].id \in Charge /\ proc[p].min \in AllMinutes /\ proc[p].min # 0
    BY DEF Transfer, At, IInv, Frames, Frame, FrameOK
  <2>2. QED
    BY <2>1 DEF Billable, MinBillable
<1> HIDE DEF amt
<1>2. CASE UNCHANGED <<sends, payKey>>
  BY <1>2 DEF SendsKeyed
<1>3. CASE /\ payKey[id] = 0
           /\ sends' = [sends EXCEPT ![id] = @ + 1]
           /\ payKey' = [payKey EXCEPT ![id] = amt]
  <2>1. sends[id] = 0
    BY <1>1, <1>3 DEF SendsKeyed
  <2>2. \A c \in Charge : IF c = id THEN sends'[c] = 1 /\ payKey'[c] = amt
                                    ELSE sends'[c] = sends[c] /\ payKey'[c] = payKey[c]
    BY <1>1, <1>3, <2>1 DEF IInv, TypeOK, LedgerTypeOK
  <2>3. QED
    BY <1>1, <2>2 DEF SendsKeyed
<1>4. QED
  BY <1>2, <1>3 DEF Transfer, PayKeyed, amt

-----------------------------------------------------------------------------
LEMMA KeyInit == Init => KInv
<1> SUFFICES ASSUME Init PROVE KInv
  OBVIOUS
<1>1. ChargesKeyed /\ SendsKeyed
  BY DEF Init, LedgerInit, ChargesKeyed, SendsKeyed
<1>2. QED
  BY <1>1, WholeInit DEF KInv

LEMMA KeyNext ==
    ASSUME "expire" \notin Ops
    PROVE  KInv /\ [Next]_vars => KInv'
<1> SUFFICES ASSUME KInv, [Next]_vars PROVE ChargesKeyed' /\ SendsKeyed'
  BY NextStep DEF KInv
<1> USE DEF KInv
<1>1. CASE UNCHANGED <<intents, chargeKey, payKey, sends>>
  BY <1>1, KeyedKept
<1>2. CASE SettleIntent \/ GiveBack
  <2>1. PICK i \in Intent, st \in {"succeeded", "failed", "refunded"} :
          intents[i].st # "unused" /\ intents' = [intents EXCEPT ![i].st = st]
    BY <1>2 DEF SettleIntent, GiveBack
  <2>2. UNCHANGED <<chargeKey, payKey, sends>>
    BY <1>2 DEF SettleIntent, GiveBack
  <2>3. QED
    BY <2>1, <2>2, IntentMoves DEF SendsKeyed
<1>3. CASE PayLink
  BY <1>3, PayLinkKeyed DEF PayLink, SendsKeyed
<1>4. ASSUME NEW p \in Procs, ChargeCard(p) PROVE ChargesKeyed' /\ SendsKeyed'
  <2>1. UNCHANGED <<payKey, sends>>
    BY <1>4 DEF ChargeCard, OnlyRead, moneyVars
  <2>2. QED
    BY <1>4, <2>1, ChargeCardKeyed DEF SendsKeyed
<1>5. ASSUME NEW p \in Procs, Refund(p) PROVE ChargesKeyed' /\ SendsKeyed'
  <2>1. UNCHANGED <<chargeKey, payKey, sends>>
    BY <1>5 DEF Refund
  <2>2. CASE UNCHANGED intents
    BY <2>1, <2>2, KeyedKept
  <2>3. CASE intents[proc[p].ref].st = "succeeded"
             /\ intents' = [intents EXCEPT ![proc[p].ref].st = "refunded"]
    <3>1. proc[p].ref \in Intent
      BY <1>5 DEF Refund, At, IInv, Frames, FrameOK
    <3>2. QED
      BY <2>1, <2>3, <3>1, IntentMoves DEF SendsKeyed
  <2>4. QED
    BY <1>5, <2>2, <2>3 DEF Refund
<1>6. ASSUME NEW p \in Procs, Transfer(p) PROVE ChargesKeyed' /\ SendsKeyed'
  <2>1. UNCHANGED <<intents, chargeKey>>
    BY <1>6 DEF Transfer, OnlyRead, moneyVars
  <2>2. QED
    BY <1>6, <2>1, TransferKeyed DEF ChargesKeyed
<1>7. QED
  <2>1. CASE Next
    BY <1>1, <1>2, <1>3, <1>4, <1>5, <1>6, <2>1, KeySteps DEF ExpireKeys
  <2>2. CASE UNCHANGED vars
    BY <1>1, <2>2 DEF vars, moneyVars
  <2>3. QED
    BY <2>1, <2>2

LEMMA KeyInvariant == ASSUME "expire" \notin Ops PROVE Spec => []KInv
  BY KeyInit, KeyNext, PTL DEF Spec

-----------------------------------------------------------------------------
\* While Stripe remembers chargeSavedCard's key, a client's card is charged at
\* most once for a call and at most once for its late-cancel fee: by any number
\* of overlapping completions, Zoom reports, staff decisions and cancellations,
\* with any durations, crashes and lost answers.
THEOREM CardChargedOnce ==
    ASSUME "expire" \notin Ops
    PROVE  Spec => []OneCardChargePerCall
<1>1. KInv => OneCardChargePerCall
  <2> SUFFICES ASSUME KInv, NEW id \in ChargeId
               PROVE  Cardinality(KeptCharges(id)) <= 1
    BY DEF OneCardChargePerCall
  <2>1. KeptCharges(id) \subseteq {chargeKey[id]}
    BY DEF KInv, ChargesKeyed, KeptCharges
  <2>2. IsFiniteSet({chargeKey[id]}) /\ Cardinality({chargeKey[id]}) = 1
    BY FS_Singleton
  <2>3. /\ Cardinality(KeptCharges(id)) \in Nat
        /\ Cardinality(KeptCharges(id)) <= Cardinality({chargeKey[id]})
    BY <2>1, <2>2, FS_Subset, FS_CardinalityType
  <2>4. QED
    BY <2>2, <2>3
<1>2. QED
  BY <1>1, KeyInvariant, PTL

\* While Stripe remembers the payout's key, the expert is sent at most one
\* transfer for a call and one for the fee: by any number of webhook deliveries,
\* account updates and nightly sweeps that pass payoutAlreadySent at once.
THEOREM ExpertPaidOnce ==
    ASSUME "expire" \notin Ops
    PROVE  Spec => []OneTransferPerCall
<1>1. KInv => OneTransferPerCall
  BY DEF KInv, SendsKeyed, OneTransferPerCall, Charge
<1>2. QED
  BY <1>1, KeyInvariant, PTL

-----------------------------------------------------------------------------
(* Where a handler goes on, and with what in its hands.                        *)

\* What a handler read before it began, and the request or event it serves.
Keeps(p, f) == f.by = proc[p].by /\ f.ev = proc[p].ev /\ f.flagged = proc[p].flagged

LEMMA ToKeeps == ASSUME IInv, NEW p \in Procs, NEW l \in Step PROVE Keeps(p, To(p, l))
  BY DEF IInv, Frames, To, Frame, Keeps

\* Settle ends, or goes on to give a payment back, to switch a link off or to
\* waive the charge.
LEMMA SettleGoesOn ==
    ASSUME IInv, NEW p \in Procs, Settle(p)
    PROVE  \/ Done(p)
           \/ \E f : /\ Move(p, f) /\ Keeps(p, f)
                    /\ \/ /\ f.pc = "refund"
                          /\ f.ref = IF At(p, "settlePaid") THEN proc[p].ref ELSE pe.intent
                          /\ f.id = IF ForFlagged(pe, pe.billed) THEN pe.billed ELSE "call"
                       \/ f.pc = "offLink" /\ f.ref = pe.link /\ f.id = proc[p].id
                       \/ f.pc = "waive" /\ f.ref = 0 /\ f.id = proc[p].id
<1> DEFINE billed == IF ForFlagged(pe, pe.billed) THEN pe.billed ELSE "call"
           paid == IF At(p, "settlePaid") THEN proc[p].ref ELSE pe.intent
<1>1. ASSUME NEW l \in Step, NEW r, NEW id
      PROVE  LET f == [To(p, l) EXCEPT !.ref = r, !.id = id]
                 g == [To(p, l) EXCEPT !.ref = r]
             IN  /\ f.pc = l /\ f.ref = r /\ f.id = id
                 /\ Keeps(p, f)
                 /\ g.pc = l /\ g.ref = r /\ g.id = proc[p].id
                 /\ Keeps(p, g)
  BY DEF IInv, Frames, To, Frame, Keeps
<1>2. \/ Done(p)
      \/ Move(p, [To(p, "refund") EXCEPT !.ref = paid, !.id = billed])
      \/ Move(p, [To(p, "offLink") EXCEPT !.ref = pe.link])
      \/ Move(p, [To(p, "waive") EXCEPT !.ref = 0])
  <2>1. CASE At(p, "settlePaid")
    <3>1. To(p, "refund").ref = proc[p].ref
      BY ToFrame DEF Step
    <3>2. \/ Done(p)
          \/ Move(p, [To(p, "refund") EXCEPT !.ref = To(p, "refund").ref, !.id = billed])
      BY <2>1 DEF Settle
    <3>3. QED
      BY <2>1, <3>1, <3>2
  <2>2. CASE ~At(p, "settlePaid")
    BY <2>2 DEF Settle
  <2>3. QED
    BY <2>1, <2>2
<1> HIDE DEF billed, paid
<1>3. CASE Done(p)
  BY <1>3
<1>4. CASE Move(p, [To(p, "refund") EXCEPT !.ref = paid, !.id = billed])
  <2> DEFINE f == [To(p, "refund") EXCEPT !.ref = paid, !.id = billed]
  <2>1. /\ f.pc = "refund" /\ f.ref = paid /\ f.id = billed
        /\ Keeps(p, f)
    BY <1>1 DEF Step, Keeps
  <2>2. Move(p, f)
    BY <1>4
  <2> HIDE DEF f
  <2>3. QED
    BY <2>1, <2>2 DEF billed, paid
<1>5. CASE Move(p, [To(p, "offLink") EXCEPT !.ref = pe.link])
  <2> DEFINE f == [To(p, "offLink") EXCEPT !.ref = pe.link]
  <2>1. /\ f.pc = "offLink" /\ f.ref = pe.link /\ f.id = proc[p].id
        /\ Keeps(p, f)
    BY <1>1 DEF Step, Keeps
  <2>2. Move(p, f)
    BY <1>5
  <2> HIDE DEF f
  <2>3. QED
    BY <2>1, <2>2
<1>6. CASE Move(p, [To(p, "waive") EXCEPT !.ref = 0])
  <2> DEFINE f == [To(p, "waive") EXCEPT !.ref = 0]
  <2>1. /\ f.pc = "waive" /\ f.ref = 0 /\ f.id = proc[p].id
        /\ Keeps(p, f)
    BY <1>1 DEF Step, Keeps
  <2>2. Move(p, f)
    BY <1>6
  <2> HIDE DEF f
  <2>3. QED
    BY <2>1, <2>2
<1>7. QED
  BY <1>2, <1>3, <1>4, <1>5, <1>6

\* A payout ends, waits, or transfers for the id the row was last billed for.
LEMMA PayoutGoesOn ==
    ASSUME IInv, NEW p \in Procs, ReadPayout(p)
    PROVE  \/ Done(p)
           \/ \E f : /\ Move(p, f) /\ Keeps(p, f)
                    /\ \/ f.pc \in {"hold", "park", "parkAccount"} /\ f.id = proc[p].id
                       \/ /\ f.pc = "transfer" /\ f.id = PayoutCallId(pe)
                          /\ f.min = PayoutMinutes(pe, PayoutCallId(pe)) /\ f.min # 0
                          /\ PayoutSettled(pe)
<1> DEFINE id == PayoutCallId(pe)
           m == PayoutMinutes(pe, id)
           paid == pe.paid
           n == pe.attempts
           t == [To(p, "transfer") EXCEPT !.id = id, !.min = m, !.paidIds = paid,
                                          !.attempts = n]
<1>1. \/ Done(p)
      \/ m # 0 /\ PayoutSettled(pe) /\ Move(p, t)
      \/ \E l \in {"hold", "park", "parkAccount"} : Move(p, To(p, l))
  BY Zenon DEF ReadPayout
<1>2. CASE \E l \in {"hold", "park", "parkAccount"} : Move(p, To(p, l))
  BY <1>2, ToFrame, ToKeeps DEF Step
<1>3. CASE m # 0 /\ PayoutSettled(pe) /\ Move(p, t)
  <2> HIDE DEF id, m, paid, n
  <2>1. t.pc = "transfer" /\ t.id = id /\ t.min = m /\ Keeps(p, t)
    BY DEF IInv, Frames, To, Frame, Keeps
  <2> HIDE DEF t
  <2>2. QED
    BY <1>3, <2>1 DEF id, m
<1>4. QED
  BY <1>1, <1>2, <1>3

\* createAndSendInvoice ends, or goes on with the id it resolved.
LEMMA InvoiceGoesOn ==
    ASSUME IInv, NEW p \in Procs, ReadInvoice(p)
    PROVE  \/ Done(p)
           \/ Move(p, To(p, "settleEnded"))
           \/ proc[p].by = "fee" /\ Move(p, To(p, "stampFee"))
           \/ \E f : /\ Move(p, f) /\ Keeps(p, f)
                    /\ f.id = ResolveCallId(pe, proc[p].id) /\ f.min = proc[p].min
                    /\ \/ f.pc = "reset" /\ IsRepeatCall(pe, f.id)
                       \/ f.pc = "charge"
                    /\ ~ForFlagged(pe, f.id) /\ ~ShouldSkipBilling(pe, f.id)
<1> DEFINE id == ResolveCallId(pe, proc[p].id)
           l == IF IsRepeatCall(pe, id) THEN "reset" ELSE "charge"
           f == [proc[p] EXCEPT !.pc = l, !.id = id]
<1>1. \/ Done(p)
      \/ Move(p, To(p, "settleEnded"))
      \/ proc[p].by = "fee" /\ Move(p, To(p, "stampFee"))
      \/ ~ForFlagged(pe, id) /\ ~ShouldSkipBilling(pe, id) /\ Move(p, f)
  BY DEF ReadInvoice, Invoiced
<1>2. f.pc = l /\ f.id = id /\ f.min = proc[p].min /\ Keeps(p, f)
  <2> HIDE DEF l, id
  <2>1. QED
    BY DEF IInv, Frames, Frame, Keeps
<1>3. (f.pc = "reset" /\ IsRepeatCall(pe, f.id)) \/ f.pc = "charge"
  <2> HIDE DEF f, id
  <2>1. QED
    BY <1>2 DEF l
<1> HIDE DEF f, l
<1>4. CASE ~ForFlagged(pe, id) /\ ~ShouldSkipBilling(pe, id) /\ Move(p, f)
  <2>1. ~ForFlagged(pe, f.id) /\ ~ShouldSkipBilling(pe, f.id)
    BY <1>2, <1>4
  <2>2. f.id = ResolveCallId(pe, proc[p].id)
    BY <1>2
  <2> HIDE DEF id
  <2>3. QED
    BY <1>2, <1>3, <1>4, <2>1, <2>2
<1>5. QED
  BY <1>1, <1>4

-----------------------------------------------------------------------------
(* A row says 'paid' only of money: whatever is delivered twice, in another   *)
(* order or after a crash.                                                     *)

\* A row is 'paid' because some payment succeeded, and so is every event, and
\* every handler, that is about to make it so.
PaidForReal ==
    /\ pe.pay = "paid" => Paid # {}
    /\ \A e \in inbox : e.kind = "paid" => e.of \in Paid
    /\ \A p \in Procs : At(p, "markPaid") => proc[p].ref \in Paid

\* A step that makes nothing 'paid' and tells of no new payment.
PaysNothing ==
    /\ UNCHANGED intents
    /\ inbox' \subseteq inbox \cup {EventOf("account", 0)}
    /\ pe'.pay = "paid" => pe.pay = "paid"
    /\ \A q \in Procs : proc'[q].pc \in {"markPaid", "transfer"} => proc'[q] = proc[q]

\* The handler that moves goes to neither of these steps.
LEMMA MovesOn ==
    ASSUME IInv, NEW p \in Procs, NEW f, f.pc \notin {"markPaid", "transfer"}, Move(p, f)
    PROVE  /\ inbox' = inbox
           /\ \A q \in Procs : proc'[q].pc \in {"markPaid", "transfer"} => proc'[q] = proc[q]
  BY DEF IInv, Frames, Move

LEMMA DoneMoves ==
    ASSUME IInv, NEW p \in Procs, Done(p)
    PROVE  /\ inbox' \subseteq inbox
           /\ \A q \in Procs : proc'[q].pc \in {"markPaid", "transfer"} => proc'[q] = proc[q]
  BY DEF IInv, Frames, Done, Idle

LEMMA InvoicePays ==
    ASSUME IInv, NEW p \in Procs, Invoice(p)
    PROVE  PaysNothing \/ ChargeCard(p)
<1> USE DEF PaysNothing, OnlyRow, OnlyRead, moneyVars
<1>0. pe \in Row
  BY DEF IInv, TypeOK
<1>1. CASE VoidFlag(p)
  BY <1>0, <1>1, ToFrame, MovesOn, DoneMoves DEF VoidFlag, Row, Step
<1>2. CASE CompleteFlagged(p)
  BY <1>0, <1>2, ToFrame, MovesOn DEF CompleteFlagged, Row, Step
<1>3. CASE CompleteWrite(p)
  BY <1>0, <1>3, ToFrame, MovesOn DEF CompleteWrite, Row, Step
<1>4. CASE ReadInvoice(p)
  <2>1. CASE Done(p) \/ Move(p, To(p, "settleEnded")) \/ Move(p, To(p, "stampFee"))
    BY <1>4, <2>1, ToFrame, MovesOn, DoneMoves DEF ReadInvoice, Step
  <2>2. ASSUME NEW f, Move(p, f), f.pc = "reset" \/ f.pc = "charge"
        PROVE  PaysNothing
    BY <1>4, <2>2, MovesOn DEF ReadInvoice
  <2>3. \/ Done(p) \/ Move(p, To(p, "settleEnded")) \/ Move(p, To(p, "stampFee"))
        \/ \E f : Move(p, f) /\ (f.pc = "reset" \/ f.pc = "charge")
    BY <1>4, InvoiceGoesOn, Zenon
  <2>4. QED
    BY <2>1, <2>2, <2>3, Zenon
<1>5. CASE ResetUnpaid(p)
  BY <1>0, <1>5, ToFrame, MovesOn DEF ResetUnpaid, Row, Step
<1>6. CASE RecordCharge(p)
  BY <1>0, <1>6, ToFrame, MovesOn, DoneMoves DEF RecordCharge, Invoiced, Row, Step
<1>7. CASE CreateLink(p)
  <2>1. PICK l \in Link : Move(p, [To(p, "recordLink") EXCEPT !.ref = l])
    BY <1>7 DEF CreateLink
  <2>2. [To(p, "recordLink") EXCEPT !.ref = l].pc = "recordLink"
    BY ToFrame, RefFrame, ObjectNumbers DEF Step
  <2>3. QED
    BY <1>7, <2>1, <2>2, MovesOn DEF CreateLink
<1>8. CASE RecordLink(p)
  BY <1>0, <1>8, ToFrame, MovesOn, DoneMoves DEF RecordLink, Invoiced, Row, Step
<1>9. CASE StampFee(p)
  BY <1>0, <1>9, ToFrame, MovesOn, DoneMoves DEF StampFee, Row, Step
<1>10. QED
  BY <1>1, <1>2, <1>3, <1>4, <1>5, <1>6, <1>7, <1>8, <1>9 DEF Invoice

LEMMA AttendPays ==
    ASSUME IInv, NEW p \in Procs, Attend(p)
    PROVE  PaysNothing
<1> USE DEF PaysNothing, OnlyRow, OnlyRead, moneyVars
<1>0. pe \in Row
  BY DEF IInv, TypeOK
<1>1. CASE BothAttended(p)
  BY <1>0, <1>1, ToFrame, MovesOn DEF BothAttended, Row, Step
<1>2. CASE ClientNoShow(p)
  BY <1>0, <1>2, MovesOn, DoneMoves DEF ClientNoShow, LateCancelMoney, Idle, Row
<1>3. CASE ExpertNoShow(p)
  BY <1>0, <1>3, ToFrame, MovesOn DEF ExpertNoShow, Row, Step
<1>4. CASE EndEngagement(p)
  BY <1>0, <1>4, DoneMoves DEF EndEngagement, Row
<1>5. CASE UnknownAttendance(p)
  BY <1>0, <1>5, DoneMoves DEF UnknownAttendance, Row
<1>6. QED
  BY <1>1, <1>2, <1>3, <1>4, <1>5 DEF Attend

LEMMA RequestPays ==
    ASSUME IInv, NEW p \in Procs, Request(p)
    PROVE  PaysNothing
<1> USE DEF PaysNothing, OnlyRow, OnlyRead, moneyVars
<1>0. pe \in Row
  BY DEF IInv, TypeOK
<1>1. CASE Complete(p)
  <2>1. PICK f : f.pc \notin {"markPaid", "transfer"} /\ Move(p, f)
    BY <1>1, Zenon DEF Complete, Idle
  <2>2. QED
    BY <1>1, <2>1, MovesOn DEF Complete
<1>2. CASE ZoomEnded(p)
  <2>1. PICK f : f.pc \in Outcomes /\ Move(p, f)
    BY <1>2 DEF ZoomEnded, Reading, Idle
  <2>2. QED
    BY <1>2, <2>1, MovesOn, OutcomesAssumption DEF ZoomEnded
<1>3. CASE AdminAttendance(p)
  <2>1. PICK f : f.pc \in Outcomes /\ Move(p, f)
    BY <1>3 DEF AdminAttendance, Reading, Idle
  <2>2. QED
    BY <1>3, <2>1, MovesOn, OutcomesAssumption DEF AdminAttendance
<1>4. CASE CancelCall(p)
  BY <1>0, <1>4, MovesOn, DoneMoves DEF CancelCall, LateCancelMoney, Idle, Row
<1>5. CASE Flag(p)
  BY <1>0, <1>5, MovesOn DEF Flag, Idle, Row
<1>6. QED
  BY <1>1, <1>2, <1>3, <1>4, <1>5 DEF Request

LEMMA SettlePays ==
    ASSUME IInv, NEW p \in Procs, SettleFlag(p)
    PROVE  PaysNothing \/ Refund(p)
<1> USE DEF PaysNothing, OnlyRow, OnlyRead, moneyVars
<1>0. pe \in Row /\ proc[p] \in Frame
  BY DEF IInv, TypeOK, Frames
<1>1. CASE Settle(p)
  BY <1>1, SettleGoesOn, MovesOn, DoneMoves DEF Settle
<1>2. CASE OffLink(p)
  <2>1. \E f : f.pc = "waive" /\ Move(p, f)
    BY <1>0, <1>2 DEF OffLink, To, Frame
  <2>2. QED
    BY <1>2, <2>1, MovesOn DEF OffLink
<1>3. CASE WriteWaiver(p)
  <2>1. CASE Move(p, To(p, "readPayout")) /\ pe'.pay = "waived"
    BY <1>3, <2>1, ToFrame, MovesOn DEF WriteWaiver, Step
  <2>2. CASE SettleFailed(p) /\ UNCHANGED pe
    BY <1>3, <2>2 DEF WriteWaiver, SettleFailed, IInv, Frames, Idle
  <2>3. QED
    BY <1>0, <1>3, <2>1, <2>2 DEF WriteWaiver, Row
<1>4. QED
  BY <1>1, <1>2, <1>3 DEF SettleFlag

LEMMA PayPays ==
    ASSUME IInv, NEW p \in Procs, Pay(p)
    PROVE  PaysNothing \/ ReadPayout(p)
<1> USE DEF PaysNothing, OnlyRow, OnlyRead, moneyVars
<1>0. pe \in Row /\ proc[p] \in Frame
  BY DEF IInv, TypeOK, Frames
<1>2. CASE Hold(p) \/ Bookkeep(p) \/ RecordFail(p) \/ PayoutError(p)
  BY <1>0, <1>2, DoneMoves DEF Hold, Bookkeep, RecordFail, PayoutError, Row
<1>3. CASE Park(p)
  BY <1>0, <1>3, DoneMoves DEF Park, Row
<1>4. CASE Transfer(p)
  BY <1>4, ToFrame, MovesOn DEF Transfer, Step
<1>5. CASE RecordTransfer(p)
  BY <1>0, <1>5, ToFrame, MovesOn DEF RecordTransfer, Row, Step
<1>6. QED
  BY <1>2, <1>3, <1>4, <1>5 DEF Pay

\* What is left tells Stripe's news, or takes it in.
LEMMA PaySteps ==
    ASSUME IInv, Next
    PROVE  \/ PaysNothing
           \/ SettleIntent \/ PayLink \/ GiveBack \/ Redeliver
           \/ \E p \in Procs :
                 ChargeCard(p) \/ Refund(p) \/ ReadPayout(p) \/ Deliver(p) \/ MarkPaid(p)
<1>0. pe \in Row /\ inbox \subseteq Event
  BY DEF IInv, TypeOK, LedgerTypeOK
<1>1. CASE ExpireKeys \/ Tick \/ Onboard \/ StaleOwed
  BY <1>1 DEF PaysNothing, ExpireKeys, Tick, Onboard, StaleOwed, moneyVars
<1>2. ASSUME NEW p \in Procs, Crash(p) PROVE PaysNothing
  BY <1>2 DEF PaysNothing, Crash, moneyVars, IInv, Frames, Idle
<1>3. ASSUME NEW p \in Procs, NightlySweep(p) PROVE PaysNothing
  BY <1>3, MovesOn DEF PaysNothing, NightlySweep, OnlyRead, moneyVars, Idle
<1>4. ASSUME NEW p \in Procs, HandleEvent(p) PROVE PaysNothing \/ MarkPaid(p)
  <2> USE DEF PaysNothing, OnlyRow, moneyVars
  <2>1. CASE MarkFailed(p) \/ MarkRefunded(p)
    BY <1>0, <2>1, DoneMoves DEF MarkFailed, MarkRefunded, Row
  <2>2. CASE RecordRefund(p)
    BY <1>0, <2>2, ToFrame, MovesOn DEF RecordRefund, Row, Step
  <2>3. QED
    BY <1>4, <2>1, <2>2 DEF HandleEvent
<1>5. QED
  BY <1>1, <1>2, <1>3, <1>4, InvoicePays, AttendPays, RequestPays, SettlePays, PayPays
  DEF Next, Run, Stripe

\* Payments are made, never undone: a refund leaves one in Paid.
LEMMA PaidGrows == ASSUME IInv, [Next]_vars PROVE Paid \subseteq Paid'
<1>1. CASE UNCHANGED intents
  BY <1>1 DEF Paid
<1>2. ASSUME NEW i \in Intent, NEW st \in {"succeeded", "failed", "refunded"},
             intents[i].st = "processing" \/ st = "refunded",
             intents' = [intents EXCEPT ![i].st = st]
      PROVE  Paid \subseteq Paid'
  BY <1>2 DEF Paid, IInv, TypeOK, LedgerTypeOK
<1>3. ASSUME NEW i \in Intent, NEW via, NEW id, NEW amt, NEW st,
             FreshIntent(i), Raise(i, via, id, amt, st)
      PROVE  Paid \subseteq Paid'
  BY <1>3 DEF FreshIntent, Raise, Paid, IInv, TypeOK, LedgerTypeOK
<1>4. CASE SettleIntent \/ GiveBack
  BY <1>2, <1>4 DEF SettleIntent, GiveBack
<1>5. CASE PayLink
  BY <1>3, <1>5 DEF PayLink
<1>6. ASSUME NEW p \in Procs, ChargeCard(p) PROVE Paid \subseteq Paid'
  BY <1>1, <1>3, <1>6 DEF ChargeCard, OnlyRead, moneyVars
<1>7. ASSUME NEW p \in Procs, Refund(p) PROVE Paid \subseteq Paid'
  <2>1. proc[p].ref \in Intent
    BY <1>7 DEF Refund, At, IInv, Frames, FrameOK
  <2>2. QED
    BY <1>1, <1>2, <1>7, <2>1 DEF Refund
<1>8. QED
  <2>1. CASE Next
    BY <1>1, <1>4, <1>5, <1>6, <1>7, <2>1, KeySteps DEF ExpireKeys, Transfer, OnlyRead, moneyVars
  <2>2. QED
    BY <1>1, <2>1 DEF vars, moneyVars

LEMMA PaidStays ==
    ASSUME IInv, PaidForReal, [Next]_vars, PaysNothing
    PROVE  PaidForReal'
<1>1. Paid \subseteq Paid'
  BY PaidGrows
<1>2. \A e \in inbox' : e.kind = "paid" => e.of \in Paid'
  BY <1>1 DEF PaidForReal, PaysNothing, EventOf
<1>3. \A q \in Procs : proc'[q].pc = "markPaid" => proc'[q].ref \in Paid'
  BY <1>1 DEF PaidForReal, PaysNothing, At
<1>4. pe'.pay = "paid" => Paid' # {}
  BY <1>1 DEF PaidForReal, PaysNothing
<1>5. QED
  BY <1>2, <1>3, <1>4 DEF PaidForReal, At

\* Stripe tells of a payment it has, and the handlers stay where they are.
LEMMA PaidNews ==
    ASSUME IInv, PaidForReal, [Next]_vars, UNCHANGED pe,
           NEW i \in Intent, NEW st, PaymentEvents(st, i) = {} \/ intents'[i].st = st,
           inbox' = inbox \cup PaymentEvents(st, i),
           \A q \in Procs : proc'[q].pc = "markPaid" => proc'[q] = proc[q]
    PROVE  PaidForReal'
<1>1. Paid \subseteq Paid'
  BY PaidGrows
<1>2. \A e \in PaymentEvents(st, i) : e.kind = "paid" => e.of \in Paid'
  BY DEF PaymentEvents, EventOf, Paid
<1>3. \A e \in inbox' : e.kind = "paid" => e.of \in Paid'
  BY <1>1, <1>2 DEF PaidForReal
<1>4. \A q \in Procs : proc'[q].pc = "markPaid" => proc'[q].ref \in Paid'
  BY <1>1 DEF PaidForReal, At
<1>5. pe'.pay = "paid" => Paid' # {}
  BY <1>1 DEF PaidForReal
<1>6. QED
  BY <1>3, <1>4, <1>5 DEF PaidForReal, At

\* A charge is replayed or passed over, or Stripe takes it up.
LEMMA ChargeGoesOn ==
    ASSUME IInv, NEW p \in Procs, ChargeCard(p)
    PROVE  \/ /\ OnlyRead /\ Running
              /\ \E f : /\ Move(p, f) /\ f.id = proc[p].id /\ Keeps(p, f) /\ f.min = proc[p].min
                       /\ \/ /\ f.pc = "recordCharge" /\ f.ref = chargeKey[proc[p].id]
                             /\ f.ref # 0
                          \/ /\ f.pc = "createLink"
                             /\ \/ "none" \in PayOutcomes
                                \/ /\ chargeKey[proc[p].id] # 0
                                   /\ LET k == intents[chargeKey[proc[p].id]] IN
                                      k.amt # Billable(proc[p].min) \/ k.st = "declined"
           \/ /\ UNCHANGED pe
              /\ \E i \in Intent, st \in PayOutcomes \ {"none"} : \E f :
                    /\ chargeKey[proc[p].id] = 0 /\ FreshIntent(i)
                    /\ Raise(i, "card", proc[p].id, Billable(proc[p].min), st)
                    /\ chargeKey' = [chargeKey EXCEPT ![proc[p].id] = i]
                    /\ intents'[i].st = st
                    /\ inbox' = inbox \cup PaymentEvents(st, i)
                    /\ proc' = [proc EXCEPT ![p] = f]
                    /\ f.id = proc[p].id /\ Keeps(p, f)
                    /\ f.min = proc[p].min
                    /\ \/ f.pc = "recordCharge" /\ f.ref = i
                       \/ f.pc = "createLink" /\ (st = "declined" \/ Fault)
<1> DEFINE id == proc[p].id
           k == chargeKey[id]
           g(r) == [To(p, "recordCharge") EXCEPT !.ref = r]
<1>1. ASSUME NEW r
      PROVE  /\ g(r).pc = "recordCharge" /\ g(r).ref = r /\ g(r).id = id
             /\ Keeps(p, g(r)) /\ g(r).min = proc[p].min
  BY DEF IInv, Frames, To, Frame, Keeps
<1>2. LET f == To(p, "createLink")
      IN  /\ f.pc = "createLink" /\ f.id = id /\ Keeps(p, f)
          /\ f.min = proc[p].min
  BY ToFrame, ToKeeps DEF Step
<1>3. CASE OnlyRead /\ Running /\ k # 0 /\ Move(p, g(k))
  <2> DEFINE f == g(k)
  <2>1. /\ f.pc = "recordCharge" /\ f.ref = k /\ f.id = id
        /\ Keeps(p, f) /\ f.min = proc[p].min
    BY <1>1
  <2>2. Move(p, f)
    BY <1>3
  <2> HIDE DEF f
  <2>3. QED
    BY <1>3, <2>1, <2>2
<1>4. CASE /\ OnlyRead /\ Running /\ Move(p, To(p, "createLink"))
           /\ \/ "none" \in PayOutcomes
              \/ k # 0 /\ (intents[k].amt # Billable(proc[p].min) \/ intents[k].st = "declined")
  BY <1>2, <1>4
<1>5. ASSUME NEW i \in Intent, NEW st \in PayOutcomes \ {"none"},
             k = 0, FreshIntent(i), Raise(i, "card", id, Billable(proc[p].min), st),
             chargeKey' = [chargeKey EXCEPT ![id] = i],
             inbox' = inbox \cup PaymentEvents(st, i), UNCHANGED pe,
             \/ proc' = [proc EXCEPT ![p] = g(i)]
             \/ /\ proc' = [proc EXCEPT ![p] = To(p, "createLink")]
                /\ st = "declined" \/ Fault
      PROVE  \E f :
                    /\ intents'[i].st = st
                    /\ proc' = [proc EXCEPT ![p] = f]
                    /\ f.id = id /\ Keeps(p, f)
                    /\ f.min = proc[p].min
                    /\ \/ f.pc = "recordCharge" /\ f.ref = i
                       \/ f.pc = "createLink" /\ (st = "declined" \/ Fault)
  <2>1. intents'[i].st = st
    BY <1>5 DEF Raise, IInv, TypeOK, LedgerTypeOK
  <2>2. CASE proc' = [proc EXCEPT ![p] = g(i)]
    <3> DEFINE f == g(i)
    <3>1. /\ f.pc = "recordCharge" /\ f.ref = i /\ f.id = id
          /\ Keeps(p, f) /\ f.min = proc[p].min
      BY <1>1
    <3>2. proc' = [proc EXCEPT ![p] = f]
      BY <2>2
    <3> HIDE DEF f
    <3>3. QED
      BY <2>1, <3>1, <3>2
  <2>3. CASE /\ proc' = [proc EXCEPT ![p] = To(p, "createLink")]
             /\ st = "declined" \/ Fault
    BY <1>2, <2>1, <2>3
  <2>4. QED
    BY <1>5, <2>2, <2>3
<1>6. \/ OnlyRead /\ Running /\ k # 0 /\ Move(p, g(k))
      \/ /\ OnlyRead /\ Running /\ Move(p, To(p, "createLink"))
         /\ \/ "none" \in PayOutcomes
            \/ k # 0 /\ (intents[k].amt # Billable(proc[p].min) \/ intents[k].st = "declined")
      \/ \E i \in Intent, st \in PayOutcomes \ {"none"} :
            /\ k = 0 /\ FreshIntent(i) /\ Raise(i, "card", id, Billable(proc[p].min), st)
            /\ chargeKey' = [chargeKey EXCEPT ![id] = i]
            /\ inbox' = inbox \cup PaymentEvents(st, i) /\ UNCHANGED pe
            /\ \/ proc' = [proc EXCEPT ![p] = g(i)]
               \/ /\ proc' = [proc EXCEPT ![p] = To(p, "createLink")]
                  /\ st = "declined" \/ Fault
  BY DEF ChargeCard, Keyed
<1> HIDE DEF g
<1>7. QED
  BY <1>3, <1>4, <1>5, <1>6

\* What a delivery makes of its event.
LEMMA DeliverGoesOn ==
    ASSUME IInv, NEW p \in Procs, Deliver(p)
    PROVE  \E e \in inbox, read \in BOOLEAN :
              /\ ~Handling(e) /\ (read \/ Fault)
              /\ \/ /\ Leads(e, read) = "idle" /\ inbox' = inbox \ {e} /\ UNCHANGED proc
                 \/ /\ Leads(e, read) # "idle"
                    /\ \E f : /\ Move(p, f) /\ f.pc = Leads(e, read) /\ f.ref = e.of
                             /\ f.ev = e /\ f.id = None /\ f.by = "none" /\ ~f.flagged
<1>1. PICK e \in inbox, read \in BOOLEAN :
        /\ ~Handling(e) /\ (read \/ Fault)
        /\ \/ /\ Leads(e, read) # "idle"
              /\ Move(p, [Idle EXCEPT !.pc = Leads(e, read), !.ref = e.of, !.ev = e])
           \/ Leads(e, read) = "idle" /\ inbox' = inbox \ {e} /\ UNCHANGED proc
  BY DEF Deliver
<1> DEFINE f == [Idle EXCEPT !.pc = Leads(e, read), !.ref = e.of, !.ev = e]
<1>2. /\ f.pc = Leads(e, read) /\ f.ref = e.of /\ f.ev = e
      /\ f.id = None /\ f.by = "none" /\ ~f.flagged
  BY DEF Idle
<1>3. CASE Leads(e, read) # "idle" /\ Move(p, f)
  <2> HIDE DEF f
  <2>1. QED
    BY <1>1, <1>2, <1>3
<1>4. QED
  BY <1>1, <1>3

\* Only an event of a payment goes on to markPaid.
LEMMA PaidRoute ==
    ASSUME NEW e, NEW read, Leads(e, read) = "markPaid"
    PROVE  e.kind = "paid"
  BY DEF Leads, Route, RouteUnread

LEMMA PaidInit == Init => PaidForReal
  BY DEF Init, LedgerInit, PaidForReal, At, Idle

LEMMA PaidNext == IInv /\ PaidForReal /\ [Next]_vars => PaidForReal'
<1> SUFFICES ASSUME IInv, PaidForReal, [Next]_vars PROVE PaidForReal'
  OBVIOUS
<1>1. CASE PaysNothing
  BY <1>1, PaidStays
<1>2. CASE SettleIntent
  <2>1. PICK i \in Intent, st \in {"succeeded", "failed"} :
          /\ intents' = [intents EXCEPT ![i].st = st]
          /\ inbox' = inbox \cup PaymentEvents(st, i)
    BY <1>2 DEF SettleIntent
  <2>2. intents'[i].st = st
    BY <2>1 DEF IInv, TypeOK, LedgerTypeOK
  <2>3. QED
    BY <1>2, <2>1, <2>2, PaidNews DEF SettleIntent
<1>3. CASE PayLink
  <2>1. PICK l \in Link, i \in Intent, st \in {"succeeded"} \cup ({"processing"} \cap PayOutcomes) :
          /\ Raise(i, "link", links[l].id, links[l].amt, st)
          /\ inbox' = inbox \cup PaymentEvents(st, i)
    BY <1>3 DEF PayLink
  <2>2. intents'[i].st = st
    BY <2>1 DEF Raise, IInv, TypeOK, LedgerTypeOK
  <2>3. QED
    BY <1>3, <2>1, <2>2, PaidNews DEF PayLink
<1>4. CASE GiveBack
  <2>1. PICK i \in Intent, kind \in {"refunded", "disputed"} :
          inbox' = inbox \cup {EventOf(kind, i)}
    BY <1>4 DEF GiveBack
  <2>2. Paid \subseteq Paid'
    BY PaidGrows
  <2>3. \A e \in inbox' : e.kind = "paid" => e.of \in Paid'
    BY <2>1, <2>2 DEF PaidForReal, EventOf
  <2>4. QED
    BY <1>4, <2>2, <2>3 DEF GiveBack, PaidForReal, At
<1>5. CASE Redeliver
  <2>1. PICK i \in Intent : \E e \in PaymentEvents(intents[i].st, i) : inbox' = inbox \cup {e}
    BY <1>5 DEF Redeliver
  <2>2. \A e \in PaymentEvents(intents[i].st, i) : e.kind = "paid" => e.of \in Paid
    BY DEF PaymentEvents, EventOf, Paid
  <2>3. UNCHANGED <<pe, proc, intents>> /\ Paid' = Paid
    BY <1>5 DEF Redeliver, moneyVars, Paid
  <2>4. QED
    BY <2>1, <2>2, <2>3 DEF PaidForReal, At
<1>6. ASSUME NEW p \in Procs, ChargeCard(p) PROVE PaidForReal'
  <2>1. CASE OnlyRead /\ \E f : f.pc \in {"recordCharge", "createLink"} /\ Move(p, f)
    BY <2>1, MovesOn, PaidStays DEF PaysNothing, OnlyRead, moneyVars
  <2>2. ASSUME NEW i \in Intent, NEW st, intents'[i].st = st,
               inbox' = inbox \cup PaymentEvents(st, i),
               NEW f, f.pc \in {"recordCharge", "createLink"},
               proc' = [proc EXCEPT ![p] = f], UNCHANGED pe
        PROVE  PaidForReal'
    <3>1. \A q \in Procs : proc'[q].pc = "markPaid" => proc'[q] = proc[q]
      BY <2>2 DEF IInv, Frames
    <3>2. QED
      BY <2>2, <3>1, PaidNews
  <2>3. QED
    BY <1>6, <2>1, <2>2, ChargeGoesOn
<1>7. ASSUME NEW p \in Procs, Refund(p) PROVE PaidForReal'
  <2>1. /\ inbox' \subseteq inbox \cup {EventOf("refunded", proc[p].ref)}
        /\ \A q \in Procs : proc'[q].pc = "markPaid" => proc'[q] = proc[q]
    BY <1>7, ToFrame DEF Refund, Move, SettleFailed, IInv, Frames, Idle, Step
  <2>2. Paid \subseteq Paid' /\ UNCHANGED pe
    BY <1>7, PaidGrows DEF Refund
  <2>3. \A e \in inbox' : e.kind = "paid" => e.of \in Paid'
    BY <2>1, <2>2 DEF PaidForReal, EventOf
  <2>4. \A q \in Procs : proc'[q].pc = "markPaid" => proc'[q].ref \in Paid'
    BY <2>1, <2>2 DEF PaidForReal, At
  <2>5. QED
    BY <2>2, <2>3, <2>4 DEF PaidForReal, At
<1>8. ASSUME NEW p \in Procs, Deliver(p) PROVE PaidForReal'
  <2>1. PICK e \in inbox, read \in BOOLEAN :
          \/ inbox' = inbox \ {e} /\ UNCHANGED proc
          \/ \E f : Move(p, f) /\ f.pc = Leads(e, read) /\ f.ref = e.of
    BY <1>8, DeliverGoesOn
  <2>2. UNCHANGED <<pe, intents>> /\ Paid' = Paid
    BY <1>8 DEF Deliver, moneyVars, Paid
  <2>3. CASE inbox' = inbox \ {e} /\ UNCHANGED proc
    BY <2>2, <2>3 DEF PaidForReal, At
  <2>4. ASSUME NEW f, Move(p, f), f.pc = Leads(e, read), f.ref = e.of
        PROVE  PaidForReal'
    <3>1. f.pc = "markPaid" => f.ref \in Paid
      BY <2>4, PaidRoute DEF PaidForReal
    <3>2. \A q \in Procs : proc'[q].pc = "markPaid" => proc'[q].ref \in Paid
      BY <2>4, <3>1 DEF Move, PaidForReal, At, IInv, Frames
    <3>3. QED
      BY <2>2, <2>4, <3>2 DEF PaidForReal, At, Move
  <2>5. QED
    BY <2>1, <2>3, <2>4
<1>9. ASSUME NEW p \in Procs, MarkPaid(p) PROVE PaidForReal'
  <2>1. proc[p].ref \in Paid /\ Paid' = Paid
    BY <1>9 DEF MarkPaid, PaidForReal, OnlyRow, moneyVars, Paid, At
  <2>2. /\ inbox' = inbox
        /\ \A q \in Procs : proc'[q].pc = "markPaid" => proc'[q] = proc[q]
    BY <1>9, ToFrame, MovesOn DEF MarkPaid, Step
  <2>3. QED
    BY <2>1, <2>2 DEF PaidForReal, At
<1>10. ASSUME NEW p \in Procs, ReadPayout(p) PROVE PaidForReal'
  <2>1. Done(p) \/ \E f : Move(p, f) /\ f.pc # "markPaid"
    BY <1>10, PayoutGoesOn
  <2>2. /\ inbox' \subseteq inbox
        /\ \A q \in Procs : proc'[q].pc = "markPaid" => proc'[q] = proc[q]
    BY <2>1, DoneMoves DEF Move, IInv, Frames
  <2>3. UNCHANGED <<pe, intents>> /\ Paid' = Paid
    BY <1>10 DEF ReadPayout, OnlyRead, moneyVars, Paid
  <2>4. QED
    BY <2>2, <2>3 DEF PaidForReal, At
<1>11. QED
  <2>1. CASE Next
    BY <1>1, <1>2, <1>3, <1>4, <1>5, <1>6, <1>7, <1>8, <1>9, <1>10, <2>1, PaySteps
  <2>2. CASE UNCHANGED vars
    BY <2>2 DEF vars, moneyVars, PaidForReal, At, Paid
  <2>3. QED
    BY <2>1, <2>2

LEMMA PaidInvariant == Spec => []PaidForReal
  BY PaidInit, PaidNext, Invariant, PTL DEF Spec

\* A row is never 'paid' of money that no client sent: whatever number of
\* handlers overlap, events overtake the writes they follow from, are delivered
\* twice or handled again after a crash, handlePaymentSucceeded only ever
\* records a payment that succeeded at Stripe.
THEOREM PaidRowWasPaid == Spec => [](pe.pay = "paid" => Paid # {})
<1>1. PaidForReal => (pe.pay = "paid" => Paid # {})
  BY DEF PaidForReal
<1>2. QED
  BY <1>1, PaidInvariant, PTL

-----------------------------------------------------------------------------
(* An engagement with one booked call that nobody cancels and whose client     *)
(* comes: completions, Zoom's reports, staff decisions, flags, webhooks and     *)
(* sweeps overlap in any number, but all of them are about that call, and a     *)
(* flag, if there is one, stays.                                                *)

NoLongCall == \A m \in Minutes : ~VoidedBy(m)

OneCall ==
    /\ Bookings = {TRUE}
    /\ "cancel" \notin Ops /\ "clientNoShow" \notin Outcomes
    /\ "flag" \notin Ops \/ NoLongCall

CallRow(e) ==
    /\ e.booked /\ e.billed \in {None, "call"}
    /\ e.pay = "waived" => e.flagged
    /\ "flag" \notin Ops => ~e.flagged
    /\ NoLongCall => ~VoidedBy(e.actualMin)

\* The steps at which a handler has resolved the id it works for.
Resolved == {"charge", "recordCharge", "createLink", "recordLink", "transfer",
             "recordTransfer"}

\* The steps of the fee, of a second call and of a flag that is void.
Elsewhere == {"clientNoShow", "stampFee", "reset", "void", "voidOnly"}

CallFrame(f) ==
    /\ f.id \in {None, "call"} /\ f.by # "fee"
    /\ f.pc \in Resolved => f.id = "call"
    /\ f.pc \notin Elsewhere
    /\ "flag" \notin Ops => ~f.flagged
    /\ NoLongCall /\ f.pc \in {"both", "unknown"} => ~VoidedBy(f.min)

CallInv == CallRow(pe) /\ \A p \in Procs : CallFrame(proc[p])

LEMMA CallMove ==
    ASSUME IInv, CallInv, CallRow(pe'), NEW p \in Procs, NEW f, CallFrame(f),
           proc' = [proc EXCEPT ![p] = f]
    PROVE  CallInv'
<1>1. \A q \in Procs : proc'[q] = f \/ proc'[q] = proc[q]
  BY DEF IInv, Frames
<1>2. \A q \in Procs : CallFrame(proc'[q])
  BY <1>1 DEF CallInv
<1>3. QED
  BY <1>2 DEF CallInv, CallFrame

LEMMA CallIdle == CallFrame(Idle)
  BY DEF CallFrame, Idle, Resolved, Elsewhere

LEMMA CallDone ==
    ASSUME IInv, CallInv, CallRow(pe'), NEW p \in Procs, Done(p) \/ SettleFailed(p)
    PROVE  CallInv'
  BY CallIdle, CallMove DEF Done, SettleFailed

LEMMA CallStay ==
    ASSUME CallInv, CallRow(pe'), UNCHANGED proc
    PROVE  CallInv'
  BY DEF CallInv, CallFrame

\* A handler that only changes its place.
LEMMA CallTo ==
    ASSUME IInv, CallInv, CallRow(pe'), NEW p \in Procs,
           NEW l \in Step \ (Elsewhere \cup {"both", "unknown"}),
           l \in Resolved => proc[p].pc \in Resolved,
           proc' = [proc EXCEPT ![p] = To(p, l)]
    PROVE  CallInv'
<1> DEFINE f == To(p, l)
<1>1. /\ f.pc = l /\ f.id = proc[p].id /\ Keeps(p, f)
  BY ToFrame, ToKeeps
<1>2. proc' = [proc EXCEPT ![p] = f]
  OBVIOUS
<1> HIDE DEF f
<1>3. CallFrame(f)
  BY <1>1 DEF CallInv, CallFrame, Keeps
<1>4. QED
  BY <1>2, <1>3, CallMove

LEMMA CallToMove ==
    ASSUME IInv, CallInv, CallRow(pe'), NEW p \in Procs,
           NEW l \in Step \ (Elsewhere \cup {"both", "unknown"}),
           l \in Resolved => proc[p].pc \in Resolved, Move(p, To(p, l))
    PROVE  CallInv'
  BY CallTo DEF Move

LEMMA CallRowSame == ASSUME CallInv, UNCHANGED pe PROVE CallRow(pe')
  BY DEF CallInv, CallRow

LEMMA InvoiceCalls ==
    ASSUME OneCall, IInv, CallInv, NEW p \in Procs, Invoice(p)
    PROVE  CallInv'
<1>0. pe \in Row /\ CallFrame(proc[p]) /\ CallRow(pe)
  BY DEF IInv, TypeOK, CallInv
<1>1. ~VoidFlag(p) /\ ~ResetUnpaid(p) /\ ~StampFee(p)
  BY <1>0 DEF VoidFlag, ResetUnpaid, StampFee, At, CallFrame, Elsewhere
<1>2. CASE CompleteFlagged(p)
  <2>1. CallRow(pe')
    BY <1>0, <1>2 DEF CompleteFlagged, Row, CallRow
  <2>2. QED
    BY <1>2, <2>1, CallToMove DEF CompleteFlagged, Step, Elsewhere, Resolved
<1>3. CASE CompleteWrite(p)
  <2>1. CallRow(pe')
    BY <1>0, <1>3 DEF CompleteWrite, Row, CallRow
  <2>2. QED
    BY <1>3, <2>1, CallToMove DEF CompleteWrite, Step, Elsewhere, Resolved
<1>4. CASE ReadInvoice(p)
  <2>0. CallRow(pe')
    BY <1>4, CallRowSame DEF ReadInvoice, OnlyRead
  <2>1. CASE Done(p)
    BY <2>0, <2>1, CallDone
  <2>2. CASE Move(p, To(p, "settleEnded"))
    BY <2>0, <2>2, CallToMove DEF Step, Elsewhere, Resolved
  <2>3. ASSUME NEW f, Move(p, f), Keeps(p, f),
               f.id = ResolveCallId(pe, proc[p].id),
               \/ f.pc = "reset" /\ IsRepeatCall(pe, f.id)
               \/ f.pc = "charge"
        PROVE  CallInv'
    <3>1. f.id = "call"
      BY <1>0, <2>3 DEF ResolveCallId, CallFrame, CallRow
    <3>2. ~IsRepeatCall(pe, f.id)
      BY <1>0, <3>1 DEF IsRepeatCall, ShouldSkipBilling, CallRow
    <3>3. CallFrame(f)
      BY <1>0, <2>3, <3>1, <3>2 DEF CallFrame, Resolved, Elsewhere, Keeps
    <3>4. QED
      BY <2>0, <2>3, <3>3, CallMove DEF Move
  <2>4. QED
    BY <1>0, <1>4, <2>1, <2>2, <2>3, InvoiceGoesOn DEF CallFrame
<1>5. CASE ChargeCard(p)
  <2>1. CallRow(pe')
    BY <1>5, CallRowSame DEF ChargeCard, OnlyRead
  <2>2. \E f : /\ proc' = [proc EXCEPT ![p] = f] /\ f.id = proc[p].id /\ Keeps(p, f)
               /\ f.pc \in {"recordCharge", "createLink"}
    BY <1>5, ChargeGoesOn DEF Move
  <2>3. proc[p].pc = "charge"
    BY <1>5 DEF ChargeCard, At
  <2>4. QED
    BY <1>0, <2>1, <2>2, <2>3, CallMove DEF CallFrame, Resolved, Elsewhere, Keeps
<1>6. CASE RecordCharge(p)
  <2>1. proc[p].id = "call" /\ proc[p].by # "fee"
    BY <1>0, <1>6 DEF RecordCharge, At, CallFrame, Resolved
  <2>2. CallRow(pe')
    BY <1>0, <1>6, <2>1 DEF RecordCharge, Row, CallRow
  <2>3. QED
    BY <1>6, <2>1, <2>2, CallDone DEF RecordCharge, Invoiced
<1>7. CASE CreateLink(p)
  <2>1. CallRow(pe')
    BY <1>7, CallRowSame DEF CreateLink
  <2>2. \E r : Move(p, [To(p, "recordLink") EXCEPT !.ref = r])
    BY <1>7 DEF CreateLink
  <2>3. ASSUME NEW r
        PROVE  LET f == [To(p, "recordLink") EXCEPT !.ref = r]
               IN  /\ f.pc = "recordLink" /\ f.id = proc[p].id /\ Keeps(p, f)
    BY DEF IInv, Frames, To, Frame, Keeps
  <2>4. proc[p].id = "call"
    BY <1>0, <1>7 DEF CreateLink, At, CallFrame, Resolved
  <2>5. \A r : CallFrame([To(p, "recordLink") EXCEPT !.ref = r])
    BY <1>0, <2>3, <2>4 DEF CallFrame, Resolved, Elsewhere, Keeps
  <2>6. QED
    BY <2>1, <2>2, <2>5, CallMove DEF Move
<1>8. CASE RecordLink(p)
  <2>1. proc[p].id = "call" /\ proc[p].by # "fee"
    BY <1>0, <1>8 DEF RecordLink, At, CallFrame, Resolved
  <2>2. CallRow(pe')
    BY <1>0, <1>8, <2>1 DEF RecordLink, Row, CallRow
  <2>3. QED
    BY <1>8, <2>1, <2>2, CallDone DEF RecordLink, Invoiced
<1>9. QED
  BY <1>1, <1>2, <1>3, <1>4, <1>5, <1>6, <1>7, <1>8 DEF Invoice

LEMMA RequestCalls ==
    ASSUME OneCall, IInv, CallInv, NEW p \in Procs, Request(p)
    PROVE  CallInv'
<1>0. pe \in Row /\ CallRow(pe)
  BY DEF IInv, TypeOK, CallInv
<1>1. CASE Complete(p)
  <2>1. PICK m \in Minutes, id \in ChargeId,
             l \in {"voidOnly", "void", "completeFlagged", "completeWrite"} :
          /\ ResolveCallId(pe, None) # None => id = ResolveCallId(pe, None)
          /\ l \in {"void", "voidOnly"} => ForFlagged(pe, id) /\ VoidedBy(m)
          /\ Move(p, [Idle EXCEPT !.pc = l, !.id = id, !.min = m, !.by = "complete",
                                   !.fresh = (ResolveCallId(pe, None) = None)])
    <3>1. PICK m \in Minutes, id \in ChargeId :
            /\ ResolveCallId(pe, None) # None => id = ResolveCallId(pe, None)
            /\ \E l \in {"voidOnly", "void", "completeFlagged", "completeWrite"} :
                  /\ l \in {"void", "voidOnly"} => ForFlagged(pe, id) /\ VoidedBy(m)
                  /\ Move(p, [Idle EXCEPT !.pc = l, !.id = id, !.min = m, !.by = "complete",
                                           !.fresh = (ResolveCallId(pe, None) = None)])
      BY <1>1 DEF Complete
    <3>2. QED
      BY <3>1
  <2> DEFINE b == (ResolveCallId(pe, None) = None)
             f == [Idle EXCEPT !.pc = l, !.id = id, !.min = m, !.by = "complete", !.fresh = b]
  <2>2. f.pc = l /\ f.id = id /\ f.by = "complete" /\ ~f.flagged
    BY DEF Idle
  <2>3. id = "call"
    BY <1>0, <2>1, IdsAssumption DEF ResolveCallId, CallRow
  <2>4. l \notin {"void", "voidOnly"}
    BY <1>0, <2>1 DEF OneCall, NoLongCall, ForFlagged, CallRow
  <2> HIDE DEF b
  <2>5. CallFrame(f)
    <3> HIDE DEF f
    <3>1. QED
      BY <2>2, <2>3, <2>4 DEF CallFrame, Resolved, Elsewhere
  <2>6. Move(p, f)
    BY <2>1 DEF b
  <2> HIDE DEF f
  <2>7. QED
    BY <1>1, <2>5, <2>6, CallRowSame, CallMove DEF Complete, OnlyRead, Move
<1>2. CASE ZoomEnded(p) \/ AdminAttendance(p)
  <2>1. PICK l, m, e :
          l \in Outcomes /\ Move(p, Reading(l, m, e)) /\ (NoLongCall => ~VoidedBy(m))
    <3>1. CASE ZoomEnded(p)
      BY <3>1 DEF ZoomEnded, NoLongCall
    <3>2. CASE AdminAttendance(p)
      <4>1. NoLongCall => ~VoidedBy(pe.actualMin) /\ ~VoidedBy(BookedMin)
        BY <1>0, MinutesAssumption DEF CallRow, NoLongCall
      <4>2. QED
        BY <1>0, <3>2, <4>1 DEF AdminAttendance, CallRow
    <3>3. QED
      BY <1>2, <3>1, <3>2
  <2> DEFINE fl == pe.flagged
             fe == pe.feeFor
             f == [Idle EXCEPT !.pc = l, !.min = m, !.by = "attendance", !.ended = e,
                               !.flagged = fl, !.fee = fe]
  <2>2. f.pc = l /\ f.id = None /\ f.by = "attendance" /\ f.flagged = fl /\ f.min = m
    BY DEF Idle
  <2>3. Move(p, f)
    BY <2>1 DEF Reading
  <2>4. "flag" \notin Ops => ~fl
    BY <1>0 DEF CallRow
  <2>5. l \notin Elsewhere \cup Resolved
    BY <2>1, OutcomesAssumption DEF OneCall, Elsewhere, Resolved
  <2> HIDE DEF f, fl
  <2>6. CallFrame(f)
    BY <2>1, <2>2, <2>4, <2>5 DEF CallFrame
  <2>7. QED
    BY <1>2, <2>3, <2>6, CallRowSame, CallMove DEF ZoomEnded, AdminAttendance, OnlyRead, Move
<1>3. ~CancelCall(p)
  BY DEF CancelCall, Start, OneCall
<1>4. CASE Flag(p)
  <2>1. "flag" \in Ops
    BY <1>4 DEF Flag, Start
  <2>2. CallRow(pe')
    BY <1>0, <1>4, <2>1 DEF Flag, CallRow, Row
  <2>3. CallFrame([Idle EXCEPT !.pc = "settle"])
    BY DEF CallFrame, Idle, Resolved, Elsewhere
  <2>4. QED
    BY <1>4, <2>2, <2>3, CallMove DEF Flag, Move
<1>5. QED
  BY <1>1, <1>2, <1>3, <1>4 DEF Request

LEMMA AttendCalls ==
    ASSUME OneCall, IInv, CallInv, NEW p \in Procs, Attend(p)
    PROVE  CallInv'
<1>0. pe \in Row /\ CallRow(pe) /\ CallFrame(proc[p])
  BY DEF IInv, TypeOK, CallInv
<1>1. CASE BothAttended(p)
  <2>1. NoLongCall => ~VoidedBy(proc[p].min)
    BY <1>0, <1>1 DEF BothAttended, At, CallFrame
  <2>2. CallRow(pe')
    BY <1>0, <1>1, <2>1 DEF BothAttended, CallRow, Row
  <2>3. ~(proc[p].flagged /\ VoidedBy(proc[p].min))
    BY <1>0, <2>1 DEF OneCall, CallFrame
  <2>4. Move(p, To(p, "settleEnded")) \/ Move(p, To(p, "readInvoice"))
    BY <1>1, <2>3 DEF BothAttended
  <2>5. QED
    BY <2>2, <2>4, CallToMove DEF Step, Elsewhere, Resolved
<1>2. ~ClientNoShow(p)
  BY <1>0 DEF ClientNoShow, At, CallFrame, Elsewhere
<1>3. CASE ExpertNoShow(p)
  <2>1. CallRow(pe')
    BY <1>0, <1>3 DEF ExpertNoShow, CallRow, Row
  <2>2. QED
    BY <1>3, <2>1, CallToMove DEF ExpertNoShow, Step, Elsewhere, Resolved
<1>4. CASE EndEngagement(p)
  <2>1. CallRow(pe')
    BY <1>0, <1>4 DEF EndEngagement, CallRow, Row
  <2>2. QED
    BY <1>4, <2>1, CallDone DEF EndEngagement
<1>5. CASE UnknownAttendance(p)
  <2>1. NoLongCall => ~VoidedBy(proc[p].min)
    BY <1>0, <1>5 DEF UnknownAttendance, At, CallFrame
  <2>2. CallRow(pe')
    BY <1>0, <1>5, <2>1 DEF UnknownAttendance, CallRow, Row
  <2>3. QED
    BY <1>5, <2>2, CallDone DEF UnknownAttendance
<1>6. QED
  BY <1>1, <1>2, <1>3, <1>4, <1>5 DEF Attend

LEMMA SettleCalls ==
    ASSUME OneCall, IInv, CallInv, NEW p \in Procs, SettleFlag(p)
    PROVE  CallInv'
<1>0. pe \in Row /\ CallRow(pe) /\ CallFrame(proc[p])
  BY DEF IInv, TypeOK, CallInv
<1>1. CASE Settle(p)
  <2>0. CallRow(pe')
    BY <1>1, CallRowSame DEF Settle, OnlyRead
  <2>1. CASE Done(p)
    BY <2>0, <2>1, CallDone
  <2>2. ASSUME NEW f, Move(p, f), Keeps(p, f), f.pc \in {"refund", "offLink", "waive"},
               f.id \in {proc[p].id, "call", pe.billed}
        PROVE  CallInv'
    <3>1. CallFrame(f)
      BY <1>0, <2>2 DEF CallFrame, CallRow, Keeps, Resolved, Elsewhere
    <3>2. QED
      BY <2>0, <2>2, <3>1, CallMove DEF Move
  <2>3. QED
    BY <1>1, <2>1, <2>2, SettleGoesOn
<1>2. CASE Refund(p)
  <2>1. CallRow(pe')
    BY <1>2, CallRowSame DEF Refund
  <2>2. SettleFailed(p) \/ proc' = [proc EXCEPT ![p] = Idle]
        \/ proc' = [proc EXCEPT ![p] = To(p, "waive")]
    BY <1>2 DEF Refund, Move
  <2>3. QED
    BY <2>1, <2>2, CallTo, CallMove, CallIdle, CallDone DEF Step, Elsewhere, Resolved
<1>3. CASE OffLink(p)
  <2>1. CallRow(pe')
    BY <1>3, CallRowSame DEF OffLink
  <2>2. LET f == [To(p, "waive") EXCEPT !.ref = 0]
        IN  f.pc = "waive" /\ f.id = proc[p].id /\ Keeps(p, f)
    BY DEF IInv, Frames, To, Frame, Keeps
  <2>3. CallFrame([To(p, "waive") EXCEPT !.ref = 0])
    BY <1>0, <2>2 DEF CallFrame, Keeps, Resolved, Elsewhere
  <2>4. QED
    BY <1>3, <2>1, <2>3, CallMove DEF OffLink, Move
<1>4. CASE WriteWaiver(p)
  <2>1. CASE SettleFailed(p) /\ UNCHANGED pe
    BY <2>1, CallRowSame, CallDone
  <2>2. CASE StillFlagged /\ Move(p, To(p, "readPayout"))
    <3>1. CallRow(pe')
      BY <1>0, <1>4, <2>2 DEF WriteWaiver, StillFlagged, SettleFailed, CallRow, Row
    <3>2. QED
      BY <2>2, <3>1, CallToMove DEF Step, Elsewhere, Resolved
  <2>3. QED
    BY <1>4, <2>1, <2>2 DEF WriteWaiver
<1>5. QED
  BY <1>1, <1>2, <1>3, <1>4 DEF SettleFlag

LEMMA PayCalls ==
    ASSUME OneCall, IInv, CallInv, NEW p \in Procs, Pay(p)
    PROVE  CallInv'
<1>0. pe \in Row /\ CallRow(pe) /\ CallFrame(proc[p])
  BY DEF IInv, TypeOK, CallInv
<1>1. CASE ReadPayout(p)
  <2>0. CallRow(pe')
    BY <1>1, CallRowSame DEF ReadPayout, OnlyRead
  <2>1. CASE Done(p)
    BY <2>0, <2>1, CallDone
  <2>2. ASSUME NEW f, Move(p, f), Keeps(p, f),
               \/ f.pc \in {"hold", "park", "parkAccount"} /\ f.id = proc[p].id
               \/ f.pc = "transfer" /\ f.id = PayoutCallId(pe)
        PROVE  CallInv'
    <3>1. PayoutCallId(pe) = "call"
      BY <1>0 DEF PayoutCallId, ResolveCallId, CallRow
    <3>2. CallFrame(f)
      BY <1>0, <2>2, <3>1 DEF CallFrame, Keeps, Resolved, Elsewhere
    <3>3. QED
      BY <2>0, <2>2, <3>2, CallMove DEF Move
  <2>3. QED
    BY <1>1, <2>1, <2>2, PayoutGoesOn
<1>2. CASE Hold(p) \/ Park(p) \/ Bookkeep(p) \/ RecordFail(p) \/ PayoutError(p)
  <2>1. CallRow(pe')
    BY <1>0, <1>2 DEF Hold, Park, Bookkeep, RecordFail, PayoutError, Row, CallRow
  <2>2. QED
    BY <1>2, <2>1, CallDone DEF Hold, Park, Bookkeep, RecordFail, PayoutError
<1>3. CASE Transfer(p)
  <2>1. CallRow(pe')
    BY <1>3, CallRowSame DEF Transfer
  <2>2. Move(p, To(p, "recordTransfer")) \/ Move(p, To(p, "recordFail"))
    BY <1>3 DEF Transfer
  <2>3. proc[p].pc \in Resolved
    BY <1>3 DEF Transfer, At, Resolved
  <2>4. QED
    BY <2>1, <2>2, <2>3, CallToMove DEF Step, Elsewhere
<1>4. CASE RecordTransfer(p)
  <2>1. CallRow(pe')
    BY <1>0, <1>4 DEF RecordTransfer, Row, CallRow
  <2>2. QED
    BY <1>4, <2>1, CallToMove DEF RecordTransfer, Step, Elsewhere, Resolved
<1>5. QED
  BY <1>1, <1>2, <1>3, <1>4 DEF Pay

LEMMA EventCalls ==
    ASSUME OneCall, IInv, CallInv, NEW p \in Procs, Deliver(p) \/ HandleEvent(p)
    PROVE  CallInv'
<1>0. pe \in Row /\ CallRow(pe) /\ CallFrame(proc[p])
  BY DEF IInv, TypeOK, CallInv
<1>1. CASE Deliver(p)
  <2>0. CallRow(pe')
    BY <1>1, CallRowSame DEF Deliver
  <2>1. CASE UNCHANGED proc
    BY <2>0, <2>1, CallStay
  <2>2. ASSUME NEW f, NEW e, NEW read, Move(p, f), f.pc = Leads(e, read),
               f.id = None, f.by = "none", ~f.flagged
        PROVE  CallInv'
    <3>1. f.pc \notin Resolved \cup Elsewhere \cup {"both", "unknown"}
      BY <2>2 DEF Leads, Route, RouteUnread, Resolved, Elsewhere
    <3>2. CallFrame(f)
      BY <2>2, <3>1 DEF CallFrame
    <3>3. QED
      BY <2>0, <2>2, <3>2, CallMove DEF Move
  <2>3. UNCHANGED proc \/ \E e, f, read : /\ Move(p, f) /\ f.pc = Leads(e, read) /\ f.id = None
                                          /\ f.by = "none" /\ ~f.flagged
    BY <1>1, DeliverGoesOn
  <2>4. QED
    BY <2>1, <2>2, <2>3
<1>2. CASE MarkPaid(p) \/ RecordRefund(p)
  <2>1. CallRow(pe')
    BY <1>0, <1>2 DEF MarkPaid, RecordRefund, RefundForFlagged, ForFlagged, Row, CallRow
  <2>2. QED
    BY <1>2, <2>1, CallToMove DEF MarkPaid, RecordRefund, Step, Elsewhere, Resolved
<1>3. CASE MarkFailed(p) \/ MarkRefunded(p)
  <2>1. CallRow(pe')
    BY <1>0, <1>3 DEF MarkFailed, MarkRefunded, Row, CallRow
  <2>2. QED
    BY <1>3, <2>1, CallDone DEF MarkFailed, MarkRefunded
<1>4. QED
  BY <1>1, <1>2, <1>3 DEF HandleEvent

LEMMA CallInit == OneCall /\ Init => CallInv
  BY CallIdle DEF OneCall, Init, CallInv, CallRow, VoidedBy

LEMMA CallNext == OneCall /\ IInv /\ CallInv /\ [Next]_vars => CallInv'
<1> SUFFICES ASSUME OneCall, IInv, CallInv, [Next]_vars PROVE CallInv'
  OBVIOUS
<1>1. CASE UNCHANGED <<pe, proc>>
  BY <1>1, CallRowSame, CallStay
<1>2. ASSUME NEW p \in Procs, NightlySweep(p) \/ Crash(p) PROVE CallInv'
  <2>1. CallRow(pe')
    BY <1>2, CallRowSame DEF NightlySweep, Crash, OnlyRead
  <2>2. CallFrame([Idle EXCEPT !.pc = "readPayout"])
    BY DEF CallFrame, Idle, Resolved, Elsewhere
  <2>3. QED
    BY <1>2, <2>1, <2>2, CallIdle, CallMove DEF NightlySweep, Crash, Move
<1>3. CASE Stripe \/ Tick \/ Onboard \/ StaleOwed
  BY <1>1, <1>3
  DEF Stripe, SettleIntent, PayLink, GiveBack, Redeliver, ExpireKeys, Tick, Onboard, StaleOwed
<1>4. QED
  BY <1>1, <1>2, <1>3, InvoiceCalls, RequestCalls, AttendCalls, SettleCalls, PayCalls,
     EventCalls
  DEF Next, Run, vars

LEMMA CallInvariant == ASSUME OneCall PROVE Spec => [](IInv /\ CallInv)
  BY CallInit, CallNext, Invariant, PTL DEF Spec

-----------------------------------------------------------------------------
\* Only the client's click sets a flag, and only a call that ran long voids it.
LEMMA FlagSteps ==
    ASSUME IInv, Next
    PROVE  pe'.flagged = pe.flagged \/ \E p \in Procs : Flag(p) \/ VoidFlag(p)
<1>0. pe \in Row
  BY DEF IInv, TypeOK
<1>1. CASE Stripe \/ Tick \/ Onboard \/ StaleOwed
  BY <1>1
  DEF Stripe, SettleIntent, PayLink, GiveBack, Redeliver, ExpireKeys, Tick, Onboard, StaleOwed
<1> USE DEF OnlyRead
<1>2. ASSUME NEW p \in Procs, Request(p), ~Flag(p) PROVE pe'.flagged = pe.flagged
  BY <1>0, <1>2 DEF Request, Complete, ZoomEnded, AdminAttendance, CancelCall, Row
<1>3. ASSUME NEW p \in Procs, Invoice(p), ~VoidFlag(p) PROVE pe'.flagged = pe.flagged
  BY <1>0, <1>3
  DEF Invoice, CompleteFlagged, CompleteWrite, ReadInvoice, ResetUnpaid, ChargeCard,
      RecordCharge, CreateLink, RecordLink, StampFee, Row
<1>4. ASSUME NEW p \in Procs, Attend(p) PROVE pe'.flagged = pe.flagged
  BY <1>0, <1>4
  DEF Attend, BothAttended, ClientNoShow, ExpertNoShow, EndEngagement, UnknownAttendance, Row
<1>5. ASSUME NEW p \in Procs, SettleFlag(p) PROVE pe'.flagged = pe.flagged
  BY <1>0, <1>5 DEF SettleFlag, Settle, Refund, OffLink, WriteWaiver, Row
<1>6. ASSUME NEW p \in Procs, Pay(p) PROVE pe'.flagged = pe.flagged
  BY <1>0, <1>6
  DEF Pay, ReadPayout, Hold, Park, Transfer, RecordTransfer, Bookkeep, RecordFail,
      PayoutError, Row
<1>7. ASSUME NEW p \in Procs, HandleEvent(p) PROVE pe'.flagged = pe.flagged
  BY <1>0, <1>7 DEF HandleEvent, MarkPaid, MarkFailed, MarkRefunded, RecordRefund, Row
<1>8. ASSUME NEW p \in Procs, Deliver(p) \/ NightlySweep(p) \/ Crash(p)
      PROVE  pe'.flagged = pe.flagged
  BY <1>8 DEF Deliver, NightlySweep, Crash
<1>9. QED
  BY <1>1, <1>2, <1>3, <1>4, <1>5, <1>6, <1>7, <1>8 DEF Next, Run

LEMMA FlagStays ==
    ASSUME IInv, CallInv, [Next]_vars, pe.flagged
    PROVE  pe'.flagged
<1>1. \A p \in Procs : ~VoidFlag(p)
  BY DEF VoidFlag, At, CallInv, CallFrame, Elsewhere
<1>2. ASSUME NEW p \in Procs, Flag(p) PROVE pe'.flagged
  BY <1>2 DEF Flag, IInv, TypeOK, Row
<1>3. QED
  BY <1>1, <1>2, FlagSteps DEF vars

\* There is money for the expert of the call.
Backed == Paid # {} \/ pe.flagged

\* A handler transfers, and Stripe has transferred, for the call only, and
\* because there is money for it.
TransfersInv ==
    /\ \A p \in Procs : At(p, "transfer") => Backed
    /\ sends["call"] > 0 => Backed
    /\ \A c \in Charge \ {"call"} : sends[c] = 0

LEMMA BackedStays == ASSUME IInv, CallInv, [Next]_vars, Backed PROVE Backed'
  BY PaidGrows, FlagStays DEF Backed

LEMMA TransfersStay ==
    ASSUME IInv, CallInv, TransfersInv, [Next]_vars, UNCHANGED sends,
           \A q \in Procs : proc'[q].pc = "transfer" => proc'[q] = proc[q]
    PROVE  TransfersInv'
<1>1. \A q \in Procs : proc'[q].pc = "transfer" => Backed'
  BY BackedStays DEF TransfersInv, At
<1>2. QED
  BY <1>1, BackedStays DEF TransfersInv, At

\* The payout of the call reads a row that is 'paid', or flagged and waived.
LEMMA SettledIsBacked ==
    ASSUME CallInv, PaidForReal, PayoutSettled(pe)
    PROVE  Backed
  BY DEF CallInv, CallRow, PaidForReal, PayoutSettled, Backed

LEMMA TransfersInit == Init => TransfersInv
  BY DEF Init, LedgerInit, TransfersInv, At, Idle, Charge, ChargeId

LEMMA TransfersNext ==
    IInv /\ CallInv /\ PaidForReal /\ TransfersInv /\ [Next]_vars => TransfersInv'
<1> SUFFICES ASSUME IInv, CallInv, PaidForReal, TransfersInv, [Next]_vars
             PROVE  TransfersInv'
  OBVIOUS
<1>0. \A p \in Procs : proc[p].pc # "transfer" => proc[p].pc \in Step
  BY DEF IInv, Frames, Frame
<1>1. ASSUME NEW p \in Procs, Transfer(p) PROVE TransfersInv'
  <2>1. proc[p].id = "call" /\ Backed
    BY <1>1 DEF Transfer, At, TransfersInv, CallInv, CallFrame, Resolved
  <2>2. \/ UNCHANGED sends
        \/ sends' = [sends EXCEPT !["call"] = @ + 1]
    BY <1>1, <2>1 DEF Transfer
  <2>3. \A q \in Procs : proc'[q].pc = "transfer" => proc'[q] = proc[q]
    <3>1. Move(p, To(p, "recordTransfer")) \/ Move(p, To(p, "recordFail"))
      BY <1>1 DEF Transfer
    <3>2. QED
      BY <3>1, ToFrame, MovesOn DEF Step
  <2>4. CASE UNCHANGED sends
    BY <2>3, <2>4, TransfersStay
  <2>5. CASE sends' = [sends EXCEPT !["call"] = @ + 1]
    <3>1. Backed'
      BY <2>1, BackedStays
    <3>2. \A c \in Charge \ {"call"} : sends'[c] = 0
      BY <2>5 DEF TransfersInv, IInv, TypeOK, LedgerTypeOK
    <3>3. QED
      BY <3>1, <3>2 DEF TransfersInv
  <2>6. QED
    BY <2>2, <2>4, <2>5
<1>2. ASSUME NEW p \in Procs, ReadPayout(p) PROVE TransfersInv'
  <2>1. UNCHANGED sends
    BY <1>2 DEF ReadPayout, OnlyRead, moneyVars
  <2>2. CASE Backed
    <3>1. Backed'
      BY <2>2, BackedStays
    <3>2. QED
      BY <2>1, <3>1 DEF TransfersInv
  <2>3. CASE ~Backed
    <3>1. Done(p) \/ \E f : Move(p, f) /\ f.pc # "transfer"
      BY <1>2, <2>3, PayoutGoesOn, SettledIsBacked
    <3>2. \A q \in Procs : proc'[q].pc = "transfer" => proc'[q] = proc[q]
      BY <3>1, DoneMoves DEF Move, IInv, Frames
    <3>3. QED
      BY <2>1, <3>2, TransfersStay
  <2>4. QED
    BY <2>2, <2>3
<1>3. CASE UNCHANGED sends /\ PaysNothing
  BY <1>3, TransfersStay DEF PaysNothing
<1>4. CASE SettleIntent \/ PayLink \/ GiveBack \/ Redeliver
  BY <1>4, TransfersStay DEF SettleIntent, PayLink, GiveBack, Redeliver, moneyVars
<1>5. ASSUME NEW p \in Procs, NEW f, f.pc # "transfer", proc' = [proc EXCEPT ![p] = f],
             UNCHANGED sends
      PROVE  TransfersInv'
  <2>1. \A q \in Procs : proc'[q].pc = "transfer" => proc'[q] = proc[q]
    BY <1>5 DEF IInv, Frames
  <2>2. QED
    BY <1>5, <2>1, TransfersStay
<1>6. ASSUME NEW p \in Procs, ChargeCard(p) PROVE TransfersInv'
  <2>1. UNCHANGED sends
    BY <1>6 DEF ChargeCard, OnlyRead, moneyVars
  <2>2. \E f : f.pc # "transfer" /\ proc' = [proc EXCEPT ![p] = f]
    BY <1>6, ChargeGoesOn DEF Move
  <2>3. QED
    BY <1>5, <2>1, <2>2
<1>7. ASSUME NEW p \in Procs, Refund(p) PROVE TransfersInv'
  <2>1. \E f : f.pc # "transfer" /\ proc' = [proc EXCEPT ![p] = f]
    BY <1>7, ToFrame DEF Refund, Move, SettleFailed, Idle, Step
  <2>2. QED
    BY <1>5, <1>7, <2>1 DEF Refund
<1>8. ASSUME NEW p \in Procs, Deliver(p) PROVE TransfersInv'
  <2>1. UNCHANGED sends
    BY <1>8 DEF Deliver, moneyVars
  <2>2. UNCHANGED proc \/ \E f : f.pc # "transfer" /\ proc' = [proc EXCEPT ![p] = f]
    <3>1. \A e, read : Leads(e, read) # "transfer"
      BY DEF Leads, Route, RouteUnread
    <3>2. QED
      BY <1>8, <3>1, DeliverGoesOn DEF Move
  <2>3. QED
    BY <1>5, <2>1, <2>2, TransfersStay
<1>9. ASSUME NEW p \in Procs, MarkPaid(p) PROVE TransfersInv'
  <2>1. \E f : f.pc # "transfer" /\ proc' = [proc EXCEPT ![p] = f]
    BY <1>9, ToFrame DEF MarkPaid, Move, Step
  <2>2. QED
    BY <1>5, <1>9, <2>1 DEF MarkPaid, OnlyRow, moneyVars
<1>10. QED
  <2>1. CASE Next /\ UNCHANGED sends
    BY <1>2, <1>3, <1>4, <1>6, <1>7, <1>8, <1>9, <2>1, PaySteps
  <2>2. CASE Next /\ ~UNCHANGED sends
    BY <1>1, <2>2, KeySteps
    DEF SettleIntent, PayLink, GiveBack, ExpireKeys, ChargeCard, Refund, OnlyRead, moneyVars
  <2>3. CASE UNCHANGED vars
    BY <2>3, TransfersStay DEF vars, moneyVars
  <2>4. QED
    BY <2>1, <2>2, <2>3

\* There is at most one transfer, and one only if there is money for it.
LEMMA CallTransfers ==
    ASSUME KInv, TransfersInv
    PROVE  TransfersBacked
<1>1. /\ IsFiniteSet(Paid)
      /\ Cardinality(Paid) \in Nat
      /\ Paid # {} => Cardinality(Paid) >= 1
  <2>1. IsFiniteSet(Intent)
    BY FS_Interval, LedgerAssumption DEF Intent
  <2>2. IsFiniteSet(Paid)
    BY <2>1, FS_Subset DEF Paid
  <2>3. QED
    BY <2>2, FS_CardinalityType, FS_EmptySet
<1>2. \A c \in Charge : sends[c] = 0 \/ (c = "call" /\ sends[c] = 1)
  BY DEF KInv, SendsKeyed, TransfersInv
<1>3. Transfers \subseteq {<<"call", 1>>} /\ (sends["call"] = 0 => Transfers = {})
  BY <1>2 DEF Transfers
<1>4. Cardinality(Transfers) \in {0, 1} /\ (Transfers = {} => Cardinality(Transfers) = 0)
  <2>1. Transfers = {} \/ Transfers = {<<"call", 1>>}
    BY <1>3
  <2>2. QED
    BY <2>1, FS_EmptySet, FS_Singleton
<1>5. Transfers # {} => Backed
  BY <1>2, <1>3 DEF TransfersInv, Charge, ChargeId
<1>6. CASE Transfers = {}
  BY <1>1, <1>4, <1>6 DEF TransfersBacked
<1>7. CASE Paid # {}
  BY <1>1, <1>4, <1>7 DEF TransfersBacked
<1>8. CASE pe.flagged
  BY <1>1, <1>4, <1>8 DEF TransfersBacked
<1>9. QED
  BY <1>5, <1>6, <1>7, <1>8 DEF Backed

\* A call that is neither cancelled nor missed by its client: the expert is
\* never sent more transfers than the client made payments, but for the one of a
\* flagged call.
THEOREM CallTransfersBacked ==
    ASSUME OneCall, "expire" \notin Ops
    PROVE  Spec => []TransfersBacked
<1>1. Spec => [](IInv /\ CallInv /\ PaidForReal /\ TransfersInv)
  BY CallInvariant, TransfersInit, TransfersNext, PaidInvariant, PTL DEF Spec
<1>2. KInv /\ TransfersInv => TransfersBacked
  BY CallTransfers
<1>3. QED
  BY <1>1, <1>2, KeyInvariant, PTL

-----------------------------------------------------------------------------
(* One request of any kind, in an engagement of any kind, with any number of   *)
(* webhook deliveries, sweeps, crashes and lost answers.                        *)

\* The id a handler resolves when it is given none.
OwnId(e) == ResolveCallId(e, None)

NoMinutes(e) == e.callMin = 0 /\ e.actualMin = 0

Reads == {"both", "clientNoShow", "expertNoShow", "remove", "neither", "unknown"}

\* Nobody was asked for money yet.
UnbilledRow(e) ==
    /\ e.pay = "none" /\ e.billed = None /\ e.intent = 0 /\ e.onb = "none"
    /\ e.flagged => e.status # "completed"

\* The one request, on its way to createAndSendInvoice: with the id of the call,
\* with none, or with the fee of a call that has no minutes.
UnbilledFrame(f, e) ==
    /\ f.pc \in Reads \cup {"idle", "settle", "completeWrite", "readInvoice"}
    /\ e.flagged => f.pc \in {"idle", "settle"}
    /\ f.pc \in Reads => /\ f.by = "attendance" /\ f.id = None /\ ~f.flagged
                         /\ NoMinutes(e)
    /\ f.pc = "completeWrite" =>
          /\ f.by = "complete" /\ f.id # None
          /\ IF OwnId(e) = None THEN f.fresh ELSE ~f.fresh /\ f.id = OwnId(e)
    /\ f.pc = "readInvoice" =>
          \/ f.by # "fee" /\ f.id \in {None, OwnId(e)}
          \/ f.by = "fee" /\ f.id = "fee" /\ OwnId(e) = "call" /\ NoMinutes(e)

Unbilled ==
    /\ UnbilledRow(pe)
    /\ \A p \in Procs : UnbilledFrame(proc[p], pe)
    /\ \A p, q \in Procs : ~At(p, "idle") /\ ~At(q, "idle") => p = q
    /\ starts = 0 => /\ \A p \in Procs : At(p, "idle")
                     /\ ~pe.flagged /\ pe.status # "completed" /\ NoMinutes(pe)
    /\ \A i \in Intent : intents[i].st = "unused"
    /\ \A l \in Link : links[l].st = "unused"
    /\ \A c \in Charge : sends[c] = 0
    /\ inbox = {} /\ acct # "open"

\* The request came to createAndSendInvoice, for the charge c.
Asking == {"charge", "recordCharge", "createLink", "recordLink"}
Answering == {"readPayout", "hold", "park", "parkAccount", "transfer", "recordTransfer",
              "bookkeep", "recordFail", "markPaid", "markFailed", "markRefunded"}

BilledRow(e, c) ==
    /\ ~e.flagged /\ e.pay # "waived" /\ e.billed \in {None, c}
    /\ c = OwnId(e) \/ PayoutMinutes(e, OwnId(e)) = 0

BilledFrame(f, c) ==
    /\ f.pc \in Asking \cup Answering \cup {"idle", "stampFee"}
    /\ f.pc \in Asking \cup {"transfer"} => f.id = c

BilledFor(c) ==
    /\ starts = 1
    /\ BilledRow(pe, c)
    /\ \A p \in Procs : BilledFrame(proc[p], c)
    /\ \A p \in Procs : At(p, "transfer") => Paid # {}
    /\ sends[c] > 0 => Paid # {}
    /\ \A d \in Charge \ {c} : sends[d] = 0

OneRequestInv == Unbilled \/ \E c \in Charge : BilledFor(c)

-----------------------------------------------------------------------------
\* The one handler that runs goes on, or the first begins.
LEMMA UnbilledMove ==
    ASSUME IInv, Unbilled, NEW p \in Procs, NEW f, UnbilledFrame(f, pe'), UnbilledRow(pe'),
           proc' = [proc EXCEPT ![p] = f], starts' # 0, inbox' = {}, starts = 0 \/ ~At(p, "idle"),
           OnlyRow
    PROVE  Unbilled'
<1>1. \A q \in Procs : q # p => proc[q].pc = "idle" /\ proc'[q] = proc[q]
  BY DEF IInv, Frames, Unbilled, At
<1>2. proc'[p] = f
  BY DEF IInv, Frames
<1>3. \A q \in Procs : UnbilledFrame(proc'[q], pe')
  <2>1. \A q \in Procs : q # p => UnbilledFrame(proc'[q], pe')
    BY <1>1 DEF UnbilledFrame, Reads
  <2>2. QED
    BY <1>2, <2>1
<1>4. \A q, r \in Procs : proc'[q].pc # "idle" /\ proc'[r].pc # "idle" => q = r
  BY <1>1
<1>5. QED
  BY <1>3, <1>4 DEF Unbilled, OnlyRow, moneyVars, envVars, At

LEMMA UnbilledDone ==
    ASSUME IInv, Unbilled, NEW p \in Procs, UnbilledRow(pe'), Done(p), OnlyRow, starts' # 0,
           starts = 0 \/ ~At(p, "idle")
    PROVE  Unbilled'
<1>1. UnbilledFrame(Idle, pe')
  BY DEF UnbilledFrame, Idle, Reads
<1>2. inbox' = {}
  BY DEF Done, Unbilled
<1>3. QED
  BY <1>1, <1>2, UnbilledMove DEF Done

LEMMA UnbilledStarted ==
    ASSUME IInv, Unbilled, NEW p \in Procs, ~At(p, "idle"), Running \/ Fault
    PROVE  starts # 0 /\ starts' # 0
  BY DEF Unbilled, Running, Fault

LEMMA UnbilledRequest ==
    ASSUME MaxStarts <= 1, IInv, Unbilled, NEW p \in Procs, Request(p)
    PROVE  Unbilled'
<1>0. /\ starts = 0 /\ starts' # 0 /\ inbox = {}
      /\ ~pe.flagged /\ pe.status # "completed" /\ NoMinutes(pe)
  <2>1. starts = 0 /\ starts' # 0
    <3>1. \E op : Start(p, op)
      BY DEF Request, Complete, ZoomEnded, AdminAttendance, CancelCall, Flag
    <3>2. starts \in 0 .. MaxStarts /\ starts < MaxStarts /\ starts' = starts + 1
      BY <3>1 DEF Start, IInv, TypeOK
    <3>3. QED
      BY <3>2, BoundsAssumption
  <2>2. QED
    BY <2>1 DEF Unbilled
<1>1. pe \in Row
  BY DEF IInv, TypeOK
<1>2. CASE Complete(p)
  <2>1. PICK m \in Minutes, id \in ChargeId :
          /\ IF OwnId(pe) # None THEN id = OwnId(pe) ELSE id \in Manuals
          /\ Move(p, [Idle EXCEPT !.pc = "completeWrite", !.id = id, !.min = m,
                                  !.by = "complete", !.fresh = (ResolveCallId(pe, None) = None)])
    BY <1>0, <1>2 DEF Complete, ForFlagged, OwnId
  <2> DEFINE b == (ResolveCallId(pe, None) = None)
             f == [Idle EXCEPT !.pc = "completeWrite", !.id = id, !.min = m,
                               !.by = "complete", !.fresh = b]
  <2>2. f.pc = "completeWrite" /\ f.id = id /\ f.by = "complete" /\ f.fresh = b
    BY DEF Idle
  <2>3. Move(p, f)
    BY <2>1
  <2>4. id # None
    BY IdsAssumption DEF ChargeId
  <2> HIDE DEF f
  <2>5. UnbilledFrame(f, pe)
    BY <1>0, <2>1, <2>2, <2>4 DEF UnbilledFrame, Reads, OwnId
  <2>6. QED
    BY <1>0, <1>2, <2>3, <2>5, UnbilledMove
    DEF Complete, OnlyRead, OnlyRow, Move, Unbilled
<1>3. CASE ZoomEnded(p) \/ AdminAttendance(p)
  <2>1. PICK l, m, e : l \in Outcomes /\ Move(p, Reading(l, m, e))
    BY <1>3 DEF ZoomEnded, AdminAttendance
  <2> DEFINE fl == pe.flagged
             fe == pe.feeFor
             f == [Idle EXCEPT !.pc = l, !.min = m, !.by = "attendance", !.ended = e,
                               !.flagged = fl, !.fee = fe]
  <2>2. f.pc = l /\ f.id = None /\ f.by = "attendance" /\ f.flagged = fl
    BY DEF Idle
  <2>3. Move(p, f)
    BY <2>1 DEF Reading
  <2> HIDE DEF f
  <2>4. UnbilledFrame(f, pe)
    BY <1>0, <2>1, <2>2, OutcomesAssumption DEF UnbilledFrame, Reads
  <2>5. QED
    BY <1>0, <1>3, <2>3, <2>4, UnbilledMove
    DEF ZoomEnded, AdminAttendance, OnlyRead, OnlyRow, Move, Unbilled
<1>4. CASE CancelCall(p)
  <2>1. UnbilledRow(pe')
    BY <1>0, <1>1, <1>4 DEF CancelCall, Unbilled, UnbilledRow, Row
  <2>2. OwnId(pe') = "call" /\ NoMinutes(pe')
    BY <1>0, <1>1, <1>4 DEF CancelCall, OwnId, ResolveCallId, NoMinutes, Row
  <2>3. CASE UNCHANGED <<proc, inbox>>
    <3>1. proc' = [proc EXCEPT ![p] = proc[p]]
      BY <2>3 DEF IInv, Frames
    <3>2. UnbilledFrame(proc[p], pe')
      BY <1>0 DEF Unbilled, At, UnbilledFrame, Reads
    <3>3. QED
      BY <1>0, <1>4, <2>1, <2>3, <3>1, <3>2, UnbilledMove DEF CancelCall
  <2>4. CASE Done(p)
    BY <1>0, <1>4, <2>1, <2>4, UnbilledDone DEF CancelCall
  <2>5. CASE Move(p, [Idle EXCEPT !.pc = "readInvoice", !.id = "fee",
                                  !.min = MinBillable, !.by = "fee"])
    <3> DEFINE f == [Idle EXCEPT !.pc = "readInvoice", !.id = "fee",
                                 !.min = MinBillable, !.by = "fee"]
    <3>1. f.pc = "readInvoice" /\ f.id = "fee" /\ f.by = "fee"
      BY DEF Idle
    <3>2. ~pe'.flagged
      BY <1>0, <1>1, <1>4 DEF CancelCall, Row
    <3> HIDE DEF f
    <3>3. UnbilledFrame(f, pe')
      BY <2>2, <3>1, <3>2 DEF UnbilledFrame, Reads
    <3>4. QED
      BY <1>0, <1>4, <2>1, <2>5, <3>3, UnbilledMove DEF CancelCall, Move, f
  <2>6. QED
    BY <1>0, <1>4, <2>3, <2>4, <2>5 DEF CancelCall, LateCancelMoney
<1>5. CASE Flag(p)
  <2>1. UnbilledRow(pe')
    BY <1>0, <1>1, <1>5 DEF Flag, Unbilled, UnbilledRow, Row
  <2>2. UnbilledFrame([Idle EXCEPT !.pc = "settle"], pe')
    BY DEF UnbilledFrame, Idle, Reads
  <2>3. QED
    BY <1>0, <1>5, <2>1, <2>2, UnbilledMove DEF Flag, Move
<1>6. QED
  BY <1>2, <1>3, <1>4, <1>5 DEF Request

LEMMA UnbilledInvoice ==
    ASSUME MaxStarts <= 1, IInv, Unbilled, NEW p \in Procs, Invoice(p)
    PROVE  OneRequestInv'
<1>0. /\ pe \in Row /\ UnbilledRow(pe) /\ UnbilledFrame(proc[p], pe)
      /\ inbox = {}
  BY DEF IInv, TypeOK, Unbilled
<1>1. CASE CompleteWrite(p)
  <2>1. starts # 0 /\ starts' # 0
    BY <1>1, UnbilledStarted DEF CompleteWrite, At
  <2>2. proc[p].by = "complete" /\ proc[p].id # None /\ ~pe.flagged
    BY <1>0, <1>1 DEF CompleteWrite, At, UnbilledFrame
  <2>3. UnbilledRow(pe')
    BY <1>0, <1>1, <2>2 DEF CompleteWrite, UnbilledRow, Row
  <2>4. OwnId(pe') = proc[p].id /\ ~pe'.flagged
    <3>0. /\ pe'.booked = pe.booked /\ pe'.flagged = pe.flagged
          /\ pe'.minted = IF proc[p].fresh THEN proc[p].id ELSE pe.minted
      BY <1>0, <1>1 DEF CompleteWrite, Row
    <3>1. CASE proc[p].fresh
      <4>1. OwnId(pe) = None
        BY <1>0, <1>1, <3>1 DEF CompleteWrite, At, UnbilledFrame
      <4>2. ~pe.booked
        BY <4>1, IdsAssumption DEF OwnId, ResolveCallId
      <4>3. QED
        BY <2>2, <3>0, <3>1, <4>2 DEF OwnId, ResolveCallId
    <3>2. CASE ~proc[p].fresh
      <4>1. OwnId(pe) = proc[p].id
        BY <1>0, <1>1, <3>2 DEF CompleteWrite, At, UnbilledFrame
      <4>2. QED
        BY <2>2, <3>0, <3>2, <4>1 DEF OwnId, ResolveCallId
    <3>3. QED
      BY <3>1, <3>2
  <2> DEFINE f == To(p, "readInvoice")
  <2>5. f.pc = "readInvoice" /\ f.by = "complete" /\ f.id = proc[p].id
    BY <2>2, ToFrame, ToKeeps DEF Keeps, Step
  <2>6. Move(p, f)
    BY <1>1 DEF CompleteWrite
  <2> HIDE DEF f
  <2>7. UnbilledFrame(f, pe')
    BY <2>4, <2>5 DEF UnbilledFrame, Reads
  <2>8. Unbilled'
    BY <1>0, <1>1, <2>1, <2>3, <2>6, <2>7, UnbilledMove DEF CompleteWrite, Move, At
  <2>9. QED
    BY <2>8 DEF OneRequestInv
<1>2. CASE ReadInvoice(p)
  <2>1. starts # 0 /\ starts' = 1
    <3>1. starts # 0 /\ (Running \/ Fault)
      BY <1>2, UnbilledStarted DEF ReadInvoice, At
    <3>2. starts \in 0 .. MaxStarts /\ starts' = starts
      BY <3>1 DEF IInv, TypeOK, Running, Fault
    <3>3. QED
      BY <3>1, <3>2, BoundsAssumption
  <2>2. ~pe.flagged
    BY <1>0, <1>2 DEF ReadInvoice, At, UnbilledFrame
  <2>3. \A id : /\ ~ForFlagged(pe, id) /\ ~ShouldSkipBilling(pe, id)
                /\ ~IsRepeatCall(pe, id)
    BY <1>0, <2>2 DEF UnbilledRow, ForFlagged, ShouldSkipBilling, IsRepeatCall, AlreadyBilled
  <2>4. CASE Done(p)
    <3>1. Unbilled'
      BY <1>0, <1>2, <2>1, <2>4, UnbilledDone DEF ReadInvoice, OnlyRead, OnlyRow, At
    <3>2. QED
      BY <3>1 DEF OneRequestInv
  <2>5. CASE ~Done(p)
    <3>1. PICK f : /\ Move(p, f) /\ f.pc = "charge"
                   /\ f.id = ResolveCallId(pe, proc[p].id)
      <4>1. ~Move(p, To(p, "settleEnded")) /\ ~Move(p, To(p, "stampFee"))
        <5>1. \E l \in {"reset", "charge"} : \E id :
                 Move(p, [proc[p] EXCEPT !.pc = l, !.id = id])
          BY <1>2, <2>3, <2>5 DEF ReadInvoice
        <5>2. ASSUME NEW l \in {"reset", "charge"}, NEW id
              PROVE  [proc[p] EXCEPT !.pc = l, !.id = id].pc = l
          BY DEF IInv, Frames, Frame
        <5>3. proc'[p].pc \in {"reset", "charge"}
          BY <5>1, <5>2 DEF Move, IInv, Frames
        <5>4. To(p, "settleEnded").pc = "settleEnded" /\ To(p, "stampFee").pc = "stampFee"
          BY ToFrame DEF Step
        <5>5. QED
          BY <5>3, <5>4 DEF Move, IInv, Frames
      <4>2. QED
        BY <1>2, <2>3, <2>5, <4>1, InvoiceGoesOn
    <3>2. \/ f.id = OwnId(pe)
          \/ f.id = "fee" /\ OwnId(pe) = "call" /\ NoMinutes(pe)
      BY <1>0, <1>2, <3>1, IdsAssumption DEF ReadInvoice, At, UnbilledFrame, OwnId, ResolveCallId
    <3>3. UNCHANGED <<pe, sends>>
      BY <1>2 DEF ReadInvoice, OnlyRead, moneyVars
    <3>4. f.id \in Charge
      BY <1>0, <3>2, IdsAssumption DEF OwnId, ResolveCallId, Row, Charge, ChargeId
    <3>5. BilledRow(pe', f.id)
      <4>1. f.id # OwnId(pe) => PayoutMinutes(pe, OwnId(pe)) = 0
        BY <2>2, <3>2 DEF PayoutMinutes, ForFlagged, NoMinutes
      <4>2. QED
        BY <1>0, <2>2, <3>3, <4>1 DEF BilledRow, UnbilledRow
    <3>6. \A q \in Procs : IF q = p THEN proc'[q] = f ELSE proc'[q].pc = "idle"
      BY <1>2, <3>1 DEF Move, IInv, Frames, Unbilled, At, ReadInvoice
    <3>7. \A q \in Procs : BilledFrame(proc'[q], f.id) /\ proc'[q].pc # "transfer"
      BY <3>1, <3>6 DEF BilledFrame, Asking, Answering
    <3>8. \A d \in Charge : sends'[d] = 0
      BY <3>3 DEF Unbilled
    <3>9. BilledFor(f.id)'
      BY <2>1, <3>3, <3>4, <3>5, <3>7, <3>8 DEF BilledFor, At
    <3>10. QED
      BY <3>4, <3>9 DEF OneRequestInv
  <2>6. QED
    BY <2>4, <2>5
<1>3. proc[p].pc \in {"completeWrite", "readInvoice"}
  BY <1>0
  DEF Invoice, VoidFlag, CompleteFlagged, CompleteWrite, ReadInvoice, ResetUnpaid, ChargeCard,
      RecordCharge, CreateLink, RecordLink, StampFee, At, UnbilledFrame, Reads
<1>4. QED
  BY <1>1, <1>2, <1>3
  DEF Invoice, VoidFlag, CompleteFlagged, ResetUnpaid, ChargeCard, RecordCharge, CreateLink,
      RecordLink, StampFee, At

LEMMA UnbilledAttend ==
    ASSUME IInv, Unbilled, NEW p \in Procs, Attend(p)
    PROVE  Unbilled'
<1>0. /\ pe \in Row /\ UnbilledRow(pe) /\ UnbilledFrame(proc[p], pe)
      /\ inbox = {}
  BY DEF IInv, TypeOK, Unbilled
<1>1. /\ proc[p].pc \in Reads /\ ~At(p, "idle")
      /\ Running /\ OnlyRow
  BY DEF Attend, BothAttended, ClientNoShow, ExpertNoShow, EndEngagement,
         UnknownAttendance, At, Reads
<1>2. starts # 0 /\ starts' # 0
  BY <1>1, UnbilledStarted
<1>3. proc[p].by = "attendance" /\ proc[p].id = None /\ ~proc[p].flagged /\ NoMinutes(pe)
      /\ ~pe.flagged
  BY <1>0, <1>1 DEF UnbilledFrame, Reads
<1>4. CASE BothAttended(p)
  <2>1. UnbilledRow(pe')
    BY <1>0, <1>3, <1>4 DEF BothAttended, UnbilledRow, Row
  <2>2. ~pe'.flagged
    BY <1>0, <1>3, <1>4 DEF BothAttended, Row
  <2> DEFINE f == To(p, "readInvoice")
  <2>3. f.pc = "readInvoice" /\ f.by = "attendance" /\ f.id = None
    BY <1>3, ToFrame, ToKeeps DEF Keeps, Step
  <2>4. Move(p, f)
    BY <1>3, <1>4 DEF BothAttended
  <2> HIDE DEF f
  <2>5. UnbilledFrame(f, pe')
    BY <2>2, <2>3 DEF UnbilledFrame, Reads
  <2>6. QED
    BY <1>0, <1>1, <1>2, <2>1, <2>4, <2>5, UnbilledMove DEF Move
<1>5. CASE ClientNoShow(p)
  <2>1. UnbilledRow(pe') /\ ~pe'.flagged /\ NoMinutes(pe') /\ pe'.booked = pe.booked
    BY <1>0, <1>3, <1>5 DEF ClientNoShow, UnbilledRow, NoMinutes, Row
  <2>2. CASE Done(p)
    BY <1>1, <1>2, <2>1, <2>2, UnbilledDone
  <2>3. CASE pe.booked /\ Move(p, [Idle EXCEPT !.pc = "readInvoice", !.id = "fee",
                                               !.min = MinBillable, !.by = "fee"])
    <3> DEFINE f == [Idle EXCEPT !.pc = "readInvoice", !.id = "fee",
                                 !.min = MinBillable, !.by = "fee"]
    <3>1. f.pc = "readInvoice" /\ f.id = "fee" /\ f.by = "fee"
      BY DEF Idle
    <3>2. OwnId(pe') = "call"
      BY <2>1, <2>3 DEF OwnId, ResolveCallId
    <3> HIDE DEF f
    <3>3. UnbilledFrame(f, pe')
      BY <2>1, <3>1, <3>2 DEF UnbilledFrame, Reads
    <3>4. QED
      BY <1>0, <1>1, <1>2, <2>1, <2>3, <3>3, UnbilledMove DEF Move, f
  <2>4. QED
    BY <1>3, <1>5, <2>2, <2>3 DEF ClientNoShow, LateCancelMoney
<1>6. CASE ExpertNoShow(p)
  <2>1. UnbilledRow(pe') /\ ~pe'.flagged /\ NoMinutes(pe')
    BY <1>0, <1>3, <1>6 DEF ExpertNoShow, UnbilledRow, NoMinutes, Row
  <2> DEFINE f == To(p, "remove")
  <2>2. f.pc = "remove" /\ f.by = "attendance" /\ f.id = None /\ ~f.flagged
    BY <1>3, ToFrame, ToKeeps DEF Keeps, Step
  <2>3. Move(p, f)
    BY <1>6 DEF ExpertNoShow
  <2> HIDE DEF f
  <2>4. UnbilledFrame(f, pe')
    BY <2>1, <2>2 DEF UnbilledFrame, Reads
  <2>5. QED
    BY <1>0, <1>1, <1>2, <2>1, <2>3, <2>4, UnbilledMove DEF Move
<1>7. CASE EndEngagement(p) \/ UnknownAttendance(p)
  <2>1. UnbilledRow(pe')
    BY <1>0, <1>3, <1>7 DEF EndEngagement, UnknownAttendance, UnbilledRow, Row
  <2>2. QED
    BY <1>1, <1>2, <1>7, <2>1, UnbilledDone DEF EndEngagement, UnknownAttendance
<1>8. QED
  BY <1>4, <1>5, <1>6, <1>7 DEF Attend

LEMMA UnbilledNext ==
    ASSUME MaxStarts <= 1, IInv, Unbilled, Next
    PROVE  OneRequestInv'
<1>0. /\ pe \in Row /\ UnbilledRow(pe) /\ inbox = {}
      /\ \A p \in Procs : UnbilledFrame(proc[p], pe)
  BY DEF IInv, TypeOK, Unbilled
<1>1. CASE Stripe
  <2>1. ExpireKeys
    BY <1>1 DEF Stripe, SettleIntent, PayLink, GiveBack, Redeliver, Unbilled, PaymentEvents
  <2>2. UNCHANGED <<pe, proc, intents, links, sends, inbox, acct, starts>>
    BY <2>1 DEF ExpireKeys, envVars, Running
  <2>3. \A p \in Procs : UnbilledFrame(proc'[p], pe')
    BY <2>2 DEF Unbilled
  <2>4. UnbilledRow(pe') /\ NoMinutes(pe') = NoMinutes(pe)
    BY <2>2 DEF Unbilled
  <2>5. Unbilled'
    BY <2>2, <2>3, <2>4 DEF Unbilled, At
  <2>6. QED
    BY <2>5 DEF OneRequestInv
<1>2. CASE Tick
  <2>1. Unbilled'
    BY <1>2 DEF Tick, moneyVars, Unbilled, Running, At
  <2>2. QED
    BY <2>1 DEF OneRequestInv
<1>3. ~Onboard /\ ~StaleOwed
  BY <1>0 DEF Onboard, StaleOwed, ShouldRetryPayout, PayoutOwed, UnbilledRow, Unbilled
<1>4. ASSUME NEW p \in Procs PROVE ~Deliver(p) /\ ~NightlySweep(p) /\ ~Pay(p) /\ ~HandleEvent(p)
  <2>1. ~Deliver(p) /\ ~NightlySweep(p)
    BY <1>0 DEF Deliver, NightlySweep, ShouldRetryPayout, PayoutOwed, UnbilledRow
  <2>2. UnbilledFrame(proc[p], pe)
    BY <1>0
  <2>3. ~Pay(p) /\ ~HandleEvent(p)
    BY <2>2
    DEF Pay, ReadPayout, Hold, Park, Transfer, RecordTransfer, Bookkeep, RecordFail,
        PayoutError, HandleEvent, MarkPaid, MarkFailed, MarkRefunded, RecordRefund, At,
        UnbilledFrame, Reads
  <2>4. QED
    BY <2>1, <2>3
<1>5. ASSUME NEW p \in Procs, Crash(p) PROVE Unbilled'
  <2>1. starts # 0 /\ starts' # 0
    BY <1>5, UnbilledStarted DEF Crash
  <2>2. UnbilledFrame(Idle, pe')
    BY DEF UnbilledFrame, Idle, Reads
  <2>3. QED
    BY <1>0, <1>5, <2>1, <2>2, UnbilledMove DEF Crash, OnlyRow
<1>6. ASSUME NEW p \in Procs, SettleFlag(p) PROVE Unbilled'
  <2>1. UnbilledFrame(proc[p], pe)
    BY <1>0
  <2>2. Settle(p) /\ At(p, "settle")
    BY <1>6, <2>1
    DEF SettleFlag, Settle, Refund, OffLink, WriteWaiver, At, UnbilledFrame, Reads
  <2>3. Settlement(pe, FALSE) \in {"not_flagged", "await"}
    BY <1>0, IdsAssumption DEF Settlement, ForFlagged, UnbilledRow, Unbilled
  <2>4. Done(p) /\ Running /\ OnlyRead
    BY <2>2, <2>3 DEF Settle, At
  <2>5. starts # 0 /\ starts' # 0
    BY <2>2, <2>4, UnbilledStarted DEF At
  <2>6. QED
    BY <1>0, <2>2, <2>4, <2>5, UnbilledDone DEF OnlyRead, OnlyRow, At
<1>7. QED
  BY <1>1, <1>2, <1>3, <1>4, <1>5, <1>6, UnbilledRequest, UnbilledInvoice, UnbilledAttend
  DEF Next, Run, OneRequestInv

-----------------------------------------------------------------------------
\* The row's fields that BilledRow speaks of.
LEMMA BilledRowKept ==
    ASSUME NEW c, BilledRow(pe, c), pe'.flagged = pe.flagged, pe'.booked = pe.booked,
           pe'.minted = pe.minted, pe'.callMin = pe.callMin, pe'.actualMin = pe.actualMin,
           pe'.pay # "waived", pe'.billed \in {None, c, pe.billed}
    PROVE  BilledRow(pe', c)
<1>1. OwnId(pe') = OwnId(pe)
  BY DEF OwnId, ResolveCallId
<1>2. PayoutMinutes(pe', OwnId(pe)) = PayoutMinutes(pe, OwnId(pe))
  BY DEF PayoutMinutes, ForFlagged
<1>3. QED
  BY <1>1, <1>2 DEF BilledRow

LEMMA BilledStay ==
    ASSUME NEW c \in Charge, BilledFor(c), BilledRow(pe', c), Running \/ Fault,
           Paid \subseteq Paid', UNCHANGED <<proc, sends>>
    PROVE  BilledFor(c)'
<1>1. starts' = 1
  BY DEF BilledFor, Running, Fault
<1>2. QED
  BY <1>1 DEF BilledFor, At

LEMMA BilledMove ==
    ASSUME IInv, NEW c \in Charge, BilledFor(c), BilledRow(pe', c), Running \/ Fault,
           Paid \subseteq Paid', UNCHANGED sends,
           NEW p \in Procs, NEW f, BilledFrame(f, c), f.pc = "transfer" => Paid # {},
           proc' = [proc EXCEPT ![p] = f]
    PROVE  BilledFor(c)'
<1>1. starts' = 1
  BY DEF BilledFor, Running, Fault
<1>2. \A q \in Procs : proc'[q] = f \/ proc'[q] = proc[q]
  BY DEF IInv, Frames
<1>3. \A q \in Procs : BilledFrame(proc'[q], c)
  BY <1>2 DEF BilledFor
<1>4. \A q \in Procs : proc'[q].pc = "transfer" => Paid' # {}
  BY <1>2 DEF BilledFor, At
<1>5. QED
  BY <1>1, <1>3, <1>4 DEF BilledFor, At

LEMMA BilledIdle == \A c : BilledFrame(Idle, c) /\ Idle.pc # "transfer"
  BY DEF BilledFrame, Idle, Asking

LEMMA BilledDone ==
    ASSUME IInv, NEW c \in Charge, BilledFor(c), BilledRow(pe', c), Running \/ Fault,
           Paid \subseteq Paid', UNCHANGED sends, NEW p \in Procs, Done(p)
    PROVE  BilledFor(c)'
  BY BilledIdle, BilledMove DEF Done

\* A handler that only changes its place.
LEMMA BilledTo ==
    ASSUME IInv, NEW c \in Charge, BilledFor(c), BilledRow(pe', c), Running \/ Fault,
           Paid \subseteq Paid', UNCHANGED sends, NEW p \in Procs,
           NEW l \in Asking \cup Answering \cup {"stampFee"}, l # "transfer",
           l \in Asking => proc[p].id = c, Move(p, To(p, l))
    PROVE  BilledFor(c)'
<1> DEFINE f == To(p, l)
<1>1. f.pc = l /\ f.id = proc[p].id
  BY ToFrame DEF Step, Asking, Answering
<1>2. proc' = [proc EXCEPT ![p] = f]
  BY DEF Move
<1> HIDE DEF f
<1>3. BilledFrame(f, c)
  BY <1>1 DEF BilledFrame
<1>4. QED
  BY <1>1, <1>2, <1>3, BilledMove

LEMMA BilledInvoice ==
    ASSUME IInv, NEW c \in Charge, BilledFor(c), NEW p \in Procs, Invoice(p), Next
    PROVE  BilledFor(c)'
<1>0. /\ pe \in Row /\ BilledRow(pe, c) /\ BilledFrame(proc[p], c)
      /\ Paid \subseteq Paid' /\ UNCHANGED sends
  <2>1. UNCHANGED sends
    BY DEF Invoice, VoidFlag, CompleteFlagged, CompleteWrite, ReadInvoice, ResetUnpaid,
           ChargeCard, RecordCharge, CreateLink, RecordLink, StampFee, OnlyRow, OnlyRead,
           moneyVars
  <2>2. QED
    BY <2>1, PaidGrows DEF IInv, TypeOK, BilledFor
<1>1. CASE ChargeCard(p)
  <2>1. \E f : /\ proc' = [proc EXCEPT ![p] = f] /\ f.id = proc[p].id
               /\ f.pc \in {"recordCharge", "createLink"}
    BY <1>1, ChargeGoesOn DEF Move
  <2>2. proc[p].id = c
    BY <1>0, <1>1 DEF ChargeCard, At, BilledFrame, Asking
  <2>3. UNCHANGED pe /\ (Running \/ Fault)
    BY <1>1 DEF ChargeCard, OnlyRead
  <2>4. QED
    BY <1>0, <2>1, <2>2, <2>3, BilledMove DEF BilledFrame, Asking
<1>2. CASE RecordCharge(p) \/ RecordLink(p)
  <2>1. proc[p].id = c
    BY <1>0, <1>2 DEF RecordCharge, RecordLink, At, BilledFrame, Asking
  <2>2. BilledRow(pe', c)
    BY <1>0, <1>2, <2>1, BilledRowKept DEF RecordCharge, RecordLink, Row, BilledRow
  <2>3. Done(p) \/ Move(p, To(p, "stampFee"))
    BY <1>2 DEF RecordCharge, RecordLink, Invoiced
  <2>4. QED
    BY <1>0, <1>2, <2>2, <2>3, BilledDone, BilledTo
    DEF RecordCharge, RecordLink, Asking, Answering
<1>3. CASE CreateLink(p)
  <2>1. \E r : Move(p, [To(p, "recordLink") EXCEPT !.ref = r])
    BY <1>3 DEF CreateLink
  <2>2. \A r : LET f == [To(p, "recordLink") EXCEPT !.ref = r]
               IN  f.pc = "recordLink" /\ f.id = proc[p].id
    BY DEF IInv, Frames, To, Frame
  <2>3. proc[p].id = c
    BY <1>0, <1>3 DEF CreateLink, At, BilledFrame, Asking
  <2>4. \A r : BilledFrame([To(p, "recordLink") EXCEPT !.ref = r], c)
    BY <2>2, <2>3 DEF BilledFrame, Asking
  <2>5. QED
    BY <1>0, <1>3, <2>1, <2>2, <2>4, BilledMove DEF CreateLink, Move
<1>4. CASE StampFee(p)
  <2>1. BilledRow(pe', c)
    BY <1>0, <1>4, BilledRowKept DEF StampFee, Row, BilledRow
  <2>2. QED
    BY <1>0, <1>4, <2>1, BilledDone DEF StampFee
<1>5. QED
  BY <1>0, <1>1, <1>2, <1>3, <1>4
  DEF Invoice, VoidFlag, CompleteFlagged, CompleteWrite, ReadInvoice, ResetUnpaid, At,
      BilledFrame, Asking, Answering

\* The expert's payout is for the charge of the request, or for a call that has
\* no minutes, which comes to nothing.
LEMMA BilledPayout ==
    ASSUME NEW c, BilledRow(pe, c), PayoutMinutes(pe, PayoutCallId(pe)) # 0
    PROVE  PayoutCallId(pe) = c
<1>1. CASE pe.billed = None
  BY <1>1 DEF BilledRow, PayoutCallId, OwnId
<1>2. CASE pe.billed = c /\ pe.billed # None
  BY <1>2 DEF PayoutCallId, ResolveCallId
<1>3. QED
  BY <1>1, <1>2 DEF BilledRow

LEMMA BilledPay ==
    ASSUME IInv, PaidForReal, NEW c \in Charge, BilledFor(c), NEW p \in Procs, Pay(p), Next
    PROVE  BilledFor(c)'
<1>0. /\ pe \in Row /\ BilledRow(pe, c) /\ BilledFrame(proc[p], c)
      /\ Paid \subseteq Paid'
  BY PaidGrows DEF IInv, TypeOK, BilledFor
<1>1. CASE ReadPayout(p)
  <2>0. UNCHANGED <<pe, sends>> /\ (Running \/ Fault)
    BY <1>1 DEF ReadPayout, OnlyRead, moneyVars
  <2>1. CASE Done(p)
    BY <1>0, <2>0, <2>1, BilledDone
  <2>2. ASSUME NEW f, Move(p, f),
               \/ f.pc \in {"hold", "park", "parkAccount"}
               \/ /\ f.pc = "transfer" /\ f.id = PayoutCallId(pe)
                  /\ f.min = PayoutMinutes(pe, PayoutCallId(pe)) /\ f.min # 0
                  /\ PayoutSettled(pe)
        PROVE  BilledFor(c)'
    <3>1. f.pc = "transfer" => f.id = c
      BY <1>0, <2>2, BilledPayout
    <3>2. f.pc = "transfer" => Paid # {}
      BY <1>0, <2>2 DEF PayoutSettled, BilledRow, PaidForReal
    <3>3. BilledFrame(f, c)
      BY <2>2, <3>1 DEF BilledFrame, Asking, Answering
    <3>4. QED
      BY <1>0, <2>0, <2>2, <3>2, <3>3, BilledMove DEF Move
  <2>3. QED
    BY <1>1, <2>1, <2>2, PayoutGoesOn
<1>2. CASE Hold(p) \/ Park(p) \/ Bookkeep(p) \/ RecordFail(p) \/ PayoutError(p)
  <2>1. BilledRow(pe', c)
    BY <1>0, <1>2, BilledRowKept
    DEF Hold, Park, Bookkeep, RecordFail, PayoutError, Row, BilledRow
  <2>2. UNCHANGED sends /\ Done(p) /\ (Running \/ Fault)
    BY <1>2 DEF Hold, Park, Bookkeep, RecordFail, PayoutError, OnlyRow, moneyVars
  <2>3. QED
    BY <1>0, <2>1, <2>2, BilledDone
<1>3. CASE Transfer(p)
  <2>1. UNCHANGED pe /\ (Running \/ Fault)
    BY <1>3 DEF Transfer
  <2>2. proc[p].id = c /\ Paid # {}
    BY <1>0, <1>3 DEF Transfer, At, BilledFrame, BilledFor
  <2>3. Move(p, To(p, "recordTransfer")) \/ Move(p, To(p, "recordFail"))
    BY <1>3 DEF Transfer
  <2>4. CASE UNCHANGED sends
    BY <1>0, <2>1, <2>3, <2>4, BilledTo DEF Asking, Answering
  <2>5. CASE sends' = [sends EXCEPT ![c] = @ + 1]
    <3>1. \A d \in Charge \ {c} : sends'[d] = 0
      BY <2>5 DEF BilledFor, IInv, TypeOK, LedgerTypeOK
    <3>2. \A q \in Procs : BilledFrame(proc'[q], c)
      <4>1. \A l \in {"recordTransfer", "recordFail"} : BilledFrame(To(p, l), c)
        <5>1. \A l \in {"recordTransfer", "recordFail"} : To(p, l).pc = l
          BY ToFrame DEF Step
        <5>2. QED
          BY <5>1 DEF BilledFrame, Asking, Answering
      <4>2. QED
        BY <2>3, <4>1 DEF Move, IInv, Frames, BilledFor
    <3>3. starts' = 1 /\ Paid' # {}
      BY <1>0, <2>1, <2>2 DEF BilledFor, Running, Fault
    <3>4. QED
      BY <1>0, <2>1, <3>1, <3>2, <3>3 DEF BilledFor
  <2>6. QED
    BY <1>3, <2>2, <2>4, <2>5 DEF Transfer
<1>4. CASE RecordTransfer(p)
  <2>1. BilledRow(pe', c)
    BY <1>0, <1>4, BilledRowKept DEF RecordTransfer, Row, BilledRow
  <2>2. QED
    BY <1>0, <1>4, <2>1, BilledTo DEF RecordTransfer, OnlyRow, moneyVars, Asking, Answering
<1>5. QED
  BY <1>1, <1>2, <1>3, <1>4 DEF Pay

LEMMA BilledEvent ==
    ASSUME IInv, NEW c \in Charge, BilledFor(c), NEW p \in Procs,
           Deliver(p) \/ HandleEvent(p), Next
    PROVE  BilledFor(c)'
<1>0. /\ pe \in Row /\ BilledRow(pe, c) /\ BilledFrame(proc[p], c)
      /\ Paid \subseteq Paid'
  BY PaidGrows DEF IInv, TypeOK, BilledFor
<1>1. CASE Deliver(p)
  <2>0. UNCHANGED <<pe, sends>> /\ (Running \/ Fault)
    BY <1>1 DEF Deliver, moneyVars
  <2>1. \A e, read :
           Leads(e, read) \in {"markPaid", "markFailed", "markRefunded", "readPayout", "idle"}
    BY <1>0
    DEF Leads, Route, RouteUnread, PaymentForFlagged, RefundForFlagged, ForFlagged, BilledRow
  <2>2. CASE UNCHANGED proc
    BY <1>0, <2>0, <2>2, BilledStay
  <2>3. ASSUME NEW e, NEW read, NEW f, Move(p, f), f.pc = Leads(e, read)
        PROVE  BilledFor(c)'
    <3>1. f.pc \in {"markPaid", "markFailed", "markRefunded", "readPayout", "idle"}
      BY <2>1, <2>3
    <3>2. BilledFrame(f, c)
      BY <3>1 DEF BilledFrame, Asking, Answering
    <3>3. QED
      BY <1>0, <2>0, <2>3, <3>1, <3>2, BilledMove DEF Move
  <2>4. QED
    BY <1>1, <2>2, <2>3, DeliverGoesOn
<1>2. CASE MarkPaid(p)
  <2>1. BilledRow(pe', c)
    BY <1>0, <1>2, BilledRowKept DEF MarkPaid, Row, BilledRow
  <2>2. QED
    BY <1>0, <1>2, <2>1, BilledTo DEF MarkPaid, OnlyRow, moneyVars, Asking, Answering
<1>3. CASE MarkFailed(p) \/ MarkRefunded(p)
  <2>1. BilledRow(pe', c)
    BY <1>0, <1>3, BilledRowKept DEF MarkFailed, MarkRefunded, Row, BilledRow
  <2>2. QED
    BY <1>0, <1>3, <2>1, BilledDone DEF MarkFailed, MarkRefunded, moneyVars
<1>4. ~RecordRefund(p)
  BY <1>0 DEF RecordRefund, At, BilledFrame, Asking, Answering
<1>5. QED
  BY <1>1, <1>2, <1>3, <1>4 DEF HandleEvent

LEMMA BilledNext ==
    ASSUME MaxStarts <= 1, IInv, PaidForReal, NEW c \in Charge, BilledFor(c), Next
    PROVE  BilledFor(c)'
<1>0. /\ pe \in Row /\ BilledRow(pe, c) /\ Paid \subseteq Paid'
      /\ \A p \in Procs : BilledFrame(proc[p], c)
  BY PaidGrows DEF IInv, TypeOK, BilledFor
<1>1. CASE Stripe \/ Tick \/ Onboard \/ StaleOwed
  <2>1. UNCHANGED <<pe, proc, sends>> /\ (Running \/ Fault)
    BY <1>1
    DEF Stripe, SettleIntent, PayLink, GiveBack, Redeliver, ExpireKeys, Tick, Onboard,
        StaleOwed, moneyVars
  <2>2. QED
    BY <1>0, <2>1, BilledStay
<1>2. ASSUME NEW p \in Procs PROVE ~Request(p)
  <2>1. ~(starts < MaxStarts)
    BY BoundsAssumption DEF BilledFor
  <2>2. Request(p) => \E op : Start(p, op)
    BY DEF Request, Complete, ZoomEnded, AdminAttendance, CancelCall, Flag
  <2>3. QED
    BY <2>1, <2>2 DEF Start
<1>3. ASSUME NEW p \in Procs PROVE ~Attend(p) /\ ~SettleFlag(p)
  <2>1. BilledFrame(proc[p], c)
    BY <1>0
  <2>2. QED
    BY <2>1
    DEF Attend, BothAttended, ClientNoShow, ExpertNoShow, EndEngagement, UnknownAttendance,
        SettleFlag, Settle, Refund, OffLink, WriteWaiver, At, BilledFrame, Asking, Answering
<1>4. ASSUME NEW p \in Procs, NightlySweep(p) \/ Crash(p) PROVE BilledFor(c)'
  <2>1. UNCHANGED <<pe, sends>> /\ (Running \/ Fault)
    BY <1>4 DEF NightlySweep, Crash, OnlyRead, moneyVars
  <2>2. LET f == [Idle EXCEPT !.pc = "readPayout"]
        IN  BilledFrame(f, c) /\ f.pc # "transfer"
    BY DEF BilledFrame, Idle, Asking, Answering
  <2>3. QED
    BY <1>0, <1>4, <2>1, <2>2, BilledIdle, BilledMove DEF NightlySweep, Crash, Move
<1>5. QED
  BY <1>1, <1>2, <1>3, <1>4, BilledInvoice, BilledPay, BilledEvent DEF Next, Run

-----------------------------------------------------------------------------
LEMMA OneRequestInit == Init => OneRequestInv
<1> SUFFICES ASSUME Init PROVE Unbilled
  BY DEF OneRequestInv
<1>1. UnbilledRow(pe) /\ NoMinutes(pe) /\ ~pe.flagged /\ pe.status # "completed"
  BY DEF Init, UnbilledRow, NoMinutes
<1>2. \A p \in Procs : proc[p] = Idle
  BY DEF Init
<1>3. \A e : UnbilledFrame(Idle, e)
  BY DEF UnbilledFrame, Idle, Reads
<1>4. \A p \in Procs : proc[p].pc = "idle"
  BY <1>2 DEF Idle
<1>5. QED
  BY <1>1, <1>2, <1>3, <1>4 DEF Init, LedgerInit, Unbilled, At

LEMMA OneRequestNext ==
    ASSUME MaxStarts <= 1
    PROVE  IInv /\ PaidForReal /\ OneRequestInv /\ [Next]_vars => OneRequestInv'
<1> SUFFICES ASSUME IInv, PaidForReal, OneRequestInv, [Next]_vars PROVE OneRequestInv'
  OBVIOUS
<1>1. CASE UNCHANGED vars
  <2>1. UNCHANGED <<pe, proc, intents, links, sends, inbox, acct, starts>>
    BY <1>1 DEF vars, moneyVars, envVars
  <2>2. CASE Unbilled
    <3>1. \A p \in Procs : UnbilledFrame(proc'[p], pe')
      BY <2>1, <2>2 DEF Unbilled
    <3>2. Unbilled'
      BY <2>1, <2>2, <3>1 DEF Unbilled, At
    <3>3. QED
      BY <3>2 DEF OneRequestInv
  <2>3. ASSUME NEW c \in Charge, BilledFor(c) PROVE BilledFor(c)'
    BY <2>1, <2>3 DEF BilledFor, At, Paid
  <2>4. QED
    BY <2>2, <2>3 DEF OneRequestInv
<1>2. CASE Next
  <2>1. ASSUME NEW c \in Charge, BilledFor(c) PROVE OneRequestInv'
    BY <1>2, <2>1, BilledNext DEF OneRequestInv
  <2>2. QED
    BY <1>2, <2>1, UnbilledNext DEF OneRequestInv
<1>3. QED
  BY <1>1, <1>2

\* One charge, one transfer at most, and that only of money the client paid.
LEMMA OneRequestTransfers ==
    ASSUME KInv, OneRequestInv
    PROVE  TransfersBacked
<1>1. /\ IsFiniteSet(Paid)
      /\ Cardinality(Paid) \in Nat
      /\ Paid # {} => Cardinality(Paid) >= 1
  <2>1. IsFiniteSet(Intent)
    BY FS_Interval, LedgerAssumption DEF Intent
  <2>2. IsFiniteSet(Paid)
    BY <2>1, FS_Subset DEF Paid
  <2>3. QED
    BY <2>2, FS_CardinalityType, FS_EmptySet
<1>2. CASE Transfers = {}
  BY <1>1, <1>2, FS_EmptySet DEF TransfersBacked
<1>3. ASSUME NEW c \in Charge, BilledFor(c), Transfers # {} PROVE TransfersBacked
  <2>1. \A d \in Charge : sends[d] = 0 \/ (d = c /\ sends[d] = 1)
    BY <1>3 DEF KInv, SendsKeyed, BilledFor
  <2>2. Transfers \subseteq {<<c, 1>>} /\ (sends[c] = 0 => Transfers = {})
    BY <2>1 DEF Transfers
  <2>3. Transfers = {<<c, 1>>} /\ Paid # {}
    BY <1>3, <2>1, <2>2 DEF BilledFor
  <2>4. Cardinality(Transfers) = 1
    BY <2>3, FS_Singleton
  <2>5. QED
    BY <1>1, <2>3, <2>4 DEF TransfersBacked
<1>4. CASE Unbilled
  <2>1. Transfers = {}
    BY <1>4 DEF Unbilled, Transfers
  <2>2. QED
    BY <1>2, <2>1
<1>5. QED
  BY <1>2, <1>3, <1>4 DEF OneRequestInv

\* One request of any kind, with every duplicate of what follows from it: the
\* expert is never sent a transfer for which no client has paid, whatever
\* deliveries, sweeps, crashes, lost answers and refunds come in between.
THEOREM RequestTransfersBacked ==
    ASSUME MaxStarts <= 1, "expire" \notin Ops
    PROVE  Spec => []TransfersBacked
<1>1. Spec => [](IInv /\ PaidForReal /\ OneRequestInv)
  BY OneRequestInit, OneRequestNext, Invariant, PaidInvariant, PTL DEF Spec
<1>2. KInv /\ OneRequestInv => TransfersBacked
  BY OneRequestTransfers
<1>3. QED
  BY <1>1, <1>2, KeyInvariant, PTL

-----------------------------------------------------------------------------
(* The card charge of a flagged call, whatever raced the flag: until an event  *)
(* overtakes the write of the charge it tells of, its money goes back.         *)

\* No fault, and a card that is charged.
OneCard ==
    /\ OneCall /\ "expire" \notin Ops
    /\ MaxFaults = 0 /\ PayOutcomes \subseteq {"succeeded", "processing"}

\* The one payment of the call, 0 before it is raised, and where it stands.
Payment == chargeKey["call"]

Standing == IF Payment = 0 THEN "unused" ELSE intents[Payment].st

\* The row tells of the payment.
Recorded == Payment # 0 /\ pe.billed = "call" /\ pe.intent = Payment

\* A handler has raised payment i and is about to write it to the row.
Unrecorded(i) == \E p \in Procs : At(p, "recordCharge") /\ proc[p].ref = i

CardLedger ==
    /\ \A i \in Intent : i # Payment => intents[i].st = "unused"
    /\ \A l \in Link : links[l].st = "unused"
    /\ Payment # 0 => /\ Standing \notin {"unused", "declined"}
                      /\ intents[Payment].amt = MinBillable
                      /\ intents[Payment].via = "card"
    /\ refundKey["call"] \in {0, Payment}
    /\ refundKey["call"] # 0 => Standing = "refunded"

CardRow ==
    /\ pe.link = 0
    /\ pe.intent \in {0, Payment} /\ (pe.intent # 0 => pe.billed = "call")
    /\ pe.pay = "failed" => Standing = "failed"
    /\ Payment # 0 => Recorded \/ Unrecorded(Payment)

\* What an event says of payment k, which stands at st, is so.
CardEvent(e, k, st) ==
    /\ e.kind = "paid" => st \in {"succeeded", "refunded"}
    /\ e.kind = "failed" => st = "failed"
    /\ e.kind \in {"refunded", "disputed"} => st = "refunded"
    /\ e.kind \in {"paid", "failed", "refunded", "disputed"} => k # 0 /\ e.of = k

\* A handler knows of payment k and of no other; rec: the row tells of it.
CardFrame(f, k, st, rec, flagged) ==
    /\ f.pc \notin {"createLink", "recordLink", "offLink"}
    /\ f.pc \in {"both", "completeWrite", "readInvoice", "charge"} =>
          Billable(f.min) = MinBillable
    /\ f.pc \in {"recordCharge", "refund"} => k # 0 /\ f.ref = k
    /\ f.pc = "refund" => f.id = "call"
    /\ f.pc = "waive" => f.ref \in {0, k}
    /\ f.pc \in {"refund", "waive"} => flagged
    /\ CardEvent(f.ev, k, st)
    /\ f.ev.kind = "paid" => rec
    /\ f.pc \in {"markPaid", "settlePaid"} => f.ev = EventOf("paid", f.ref)
    /\ f.pc = "markFailed" => f.ev.kind = "failed"
    /\ f.pc = "recordRefund" => f.ev.kind \in {"refunded", "disputed"}

\* The payment's event is still to come.
Awaited ==
    LET e == EventOf("paid", Payment) IN e \in inbox /\ ~Handling(e)

\* Somebody is about to see that the payment of the flagged call goes back.
GoesBack ==
    \/ Awaited
    \/ \E p \in Procs : At(p, "settlePaid") \/ At(p, "refund")
    \/ /\ Recorded /\ pe.pay \notin {"waived", "failed"}
       /\ \E p \in Procs : At(p, "settle") \/ At(p, "settleEnded")
       /\ \A p \in Procs : ~At(p, "waive")

CardInv ==
    /\ CardLedger /\ CardRow
    /\ \A p \in Procs : CardFrame(proc[p], Payment, Standing, Recorded, pe.flagged)
    /\ \A e \in inbox : CardEvent(e, Payment, Standing)
    /\ Standing = "succeeded" =>
          /\ ~Recorded => Awaited
          /\ pe.flagged /\ "mismatch" \notin alerts => GoesBack

-----------------------------------------------------------------------------
LEMMA NoFault == ASSUME OneCard, IInv PROVE ~Fault
  BY DEF OneCard, IInv, TypeOK, Fault

\* The steps a handler leaves with the money of the call in its hands.
Busy == {"recordCharge", "settle", "settleEnded", "settlePaid", "refund"}

\* A handler in frame g that goes on in frame f has none of it.
Quietly(g, f, k, st, rec, fl) ==
    \/ f = g
    \/ /\ g.pc \notin Busy /\ f.pc # "waive"
       /\ f.ev.kind = "paid" => f.ev = g.ev
       /\ CardFrame(f, k, st, rec, fl)

LedgerKept == UNCHANGED <<intents, links, chargeKey, refundKey>>

RowKept ==
    /\ pe'.link = pe.link /\ pe'.billed = pe.billed /\ pe'.intent = pe.intent
    /\ pe'.flagged = pe.flagged
    /\ \/ pe'.pay = pe.pay
       \/ pe'.pay \notin {"waived", "failed"}
       \/ pe'.pay = "failed" /\ Standing = "failed"
       \/ pe'.pay = "waived" /\ Standing # "succeeded"
    /\ "mismatch" \in alerts => "mismatch" \in alerts'

LEMMA CardKept ==
    ASSUME IInv, CardInv, LedgerKept, RowKept,
           \A e \in inbox' : CardEvent(e, Payment, Standing),
           Awaited => EventOf("paid", Payment) \in inbox',
           \A q \in Procs : Quietly(proc[q], proc'[q], Payment, Standing, Recorded, pe.flagged)
    PROVE  CardInv'
<1>1. Payment' = Payment /\ Standing' = Standing /\ Recorded' = Recorded
  BY DEF LedgerKept, RowKept, Payment, Standing, Recorded
<1>2. CardLedger'
  BY <1>1 DEF CardInv, CardLedger, LedgerKept
<1>3. Unrecorded(Payment) => Unrecorded(Payment)'
  BY <1>1 DEF Unrecorded, At, Quietly, Busy
<1>4. CardRow'
  BY <1>1, <1>3 DEF CardInv, CardRow, RowKept
<1>5. \A q \in Procs : CardFrame(proc'[q], Payment, Standing, Recorded, pe.flagged)
  BY DEF CardInv, Quietly
<1>6. Awaited => Awaited'
  <2>1. \A q \in Procs : proc'[q].ev = EventOf("paid", Payment) =>
           proc[q].ev = EventOf("paid", Payment)
    BY DEF Quietly, EventOf
  <2>2. QED
    BY <1>1, <2>1 DEF Awaited, Handling
<1>7. ASSUME Standing = "succeeded", GoesBack PROVE GoesBack'
  <2>1. pe'.pay \in {"waived", "failed"} => pe.pay \in {"waived", "failed"}
    BY <1>7 DEF RowKept
  <2>2. \A q \in Procs : proc[q].pc \in Busy => proc'[q] = proc[q]
    BY DEF Quietly
  <2>3. \A q \in Procs : proc'[q].pc = "waive" => proc[q].pc = "waive"
    BY DEF Quietly
  <2>4. QED
    BY <1>1, <1>6, <1>7, <2>1, <2>2, <2>3 DEF GoesBack, At, Busy
<1>8. pe'.flagged = pe.flagged /\ ("mismatch" \in alerts => "mismatch" \in alerts')
  BY DEF RowKept
<1>9. QED
  BY <1>1, <1>2, <1>4, <1>5, <1>6, <1>7, <1>8 DEF CardInv

LEMMA CardStill ==
    ASSUME IInv, CardInv, LedgerKept, RowKept, UNCHANGED proc, UNCHANGED inbox
    PROVE  CardInv'
  BY CardKept DEF Quietly, CardInv, Awaited

LEMMA CardMove ==
    ASSUME IInv, CardInv, LedgerKept, RowKept, NEW p \in Procs, NEW f,
           proc[p].pc \notin Busy, f.pc # "waive", f.ev.kind = "paid" => f.ev = proc[p].ev,
           CardFrame(f, Payment, Standing, Recorded, pe.flagged), Move(p, f)
    PROVE  CardInv'
<1>1. \A q \in Procs : Quietly(proc[q], proc'[q], Payment, Standing, Recorded, pe.flagged)
  BY DEF Move, IInv, Frames, Quietly
<1>2. QED
  BY <1>1, CardKept DEF Move, CardInv, Awaited

LEMMA CardIdle ==
    /\ \A k, st, rec, fl : CardFrame(Idle, k, st, rec, fl)
    /\ Idle.pc = "idle" /\ Idle.ev.kind = "none"
  BY DEF CardFrame, CardEvent, Idle, NoEvent, EventOf

LEMMA CardDone ==
    ASSUME IInv, CardInv, LedgerKept, RowKept, NEW p \in Procs, proc[p].pc \notin Busy, Done(p)
    PROVE  CardInv'
<1>1. \A q \in Procs : Quietly(proc[q], proc'[q], Payment, Standing, Recorded, pe.flagged)
  BY CardIdle DEF Done, IInv, Frames, Quietly
<1>2. Awaited => EventOf("paid", Payment) \in inbox'
  BY DEF Done, Awaited, Handling
<1>3. QED
  BY <1>1, <1>2, CardKept DEF Done, CardInv

\* A handler that goes on, with what it had, to a step that asks for nothing.
Light == Step \ ({"createLink", "recordLink", "offLink", "both", "completeWrite", "readInvoice",
                  "charge", "recordCharge", "waive", "markPaid", "markFailed", "recordRefund"}
                 \cup {"settlePaid", "refund"})

LEMMA CardLight ==
    ASSUME IInv, CardInv, NEW p \in Procs, NEW f, Keeps(p, f),
           \/ f.pc \in Light
           \/ /\ f.pc \in {"completeWrite", "readInvoice", "charge"} /\ f.min = proc[p].min
              /\ proc[p].pc \in {"both", "completeWrite", "readInvoice", "charge"}
    PROVE  /\ CardFrame(f, Payment, Standing, Recorded, pe.flagged)
           /\ f.pc # "waive" /\ f.ev = proc[p].ev
<1>1. CardFrame(proc[p], Payment, Standing, Recorded, pe.flagged)
  BY DEF CardInv
<1>2. QED
  BY <1>1 DEF CardFrame, Keeps, Light, Step

LEMMA CardTo ==
    ASSUME IInv, CardInv, LedgerKept, RowKept, NEW p \in Procs, proc[p].pc \notin Busy,
           NEW l \in Step, Move(p, To(p, l)),
           \/ l \in Light
           \/ /\ l = "readInvoice"
              /\ proc[p].pc \in {"both", "completeWrite", "readInvoice", "charge"}
    PROVE  CardInv'
<1> DEFINE f == To(p, l)
<1>1. f.pc = l /\ f.min = proc[p].min /\ Keeps(p, f)
  BY ToFrame, ToKeeps DEF IInv, Frames, To, Frame
<1>2. Move(p, f)
  OBVIOUS
<1> HIDE DEF f
<1>3. QED
  BY <1>1, <1>2, CardLight, CardMove

-----------------------------------------------------------------------------
\* A short call costs the minimum.
LEMMA ShortCalls ==
    ASSUME NoLongCall, NEW m \in AllMinutes, m # 0, m \in Minutes \/ ~VoidedBy(m)
    PROVE  Billable(m) = MinBillable
  BY MinutesAssumption DEF NoLongCall, VoidedBy, AllMinutes, Billable, MinBillable

\* The payment is raised.
LEMMA ChargeCards ==
    ASSUME OneCard, NoLongCall, IInv, CallInv, CardInv, NEW p \in Procs, ChargeCard(p)
    PROVE  CardInv'
<1>0. /\ CallFrame(proc[p]) /\ CardFrame(proc[p], Payment, Standing, Recorded, pe.flagged)
      /\ proc[p].pc = "charge"
  BY DEF CallInv, CardInv, ChargeCard, At
<1>1. proc[p].id = "call" /\ Billable(proc[p].min) = MinBillable
  BY <1>0 DEF CallFrame, Resolved, CardFrame
<1>2. CASE OnlyRead
  <2>1. \E f : /\ Move(p, f) /\ Keeps(p, f)
               /\ f.pc = "recordCharge" /\ f.ref = Payment /\ f.ref # 0
    BY <1>1, <1>2, ChargeGoesOn, NoFault
    DEF OneCard, CardInv, CardLedger, Payment, Standing, Raise, OnlyRead, moneyVars,
        FreshIntent, IInv, TypeOK, LedgerTypeOK
  <2>2. ASSUME NEW f, Move(p, f), Keeps(p, f), f.pc = "recordCharge", f.ref = Payment, f.ref # 0
        PROVE  CardInv'
    <3>1. CardFrame(f, Payment, Standing, Recorded, pe.flagged)
      BY <1>0, <2>2 DEF CardFrame, Keeps
    <3>2. QED
      BY <1>0, <1>2, <2>2, <3>1, CardMove DEF OnlyRead, moneyVars, LedgerKept, RowKept, Keeps, Busy
  <2>3. QED
    BY <2>1, <2>2
<1>3. ASSUME NEW i \in Intent, NEW st \in PayOutcomes \ {"none"}, NEW f,
             Payment = 0, UNCHANGED pe,
             Raise(i, "card", "call", MinBillable, st),
             chargeKey' = [chargeKey EXCEPT !["call"] = i],
             inbox' = inbox \cup PaymentEvents(st, i),
             proc' = [proc EXCEPT ![p] = f], Keeps(p, f),
             f.pc = "recordCharge", f.ref = i,
             UNCHANGED <<links, refundKey, alerts>>
      PROVE  CardInv'
  <2>1. Payment' = i /\ i # 0 /\ st \in {"succeeded", "processing"}
    BY <1>3 DEF Payment, Charge, ChargeId, Intent, OneCard, IInv, TypeOK, LedgerTypeOK
  <2>2. Standing' = st /\ intents'[i].amt = MinBillable /\ intents'[i].via = "card"
    BY <1>3, <2>1 DEF Standing, Raise, IInv, TypeOK, LedgerTypeOK
  <2>3. Standing = "unused" /\ ~Recorded /\ ~Recorded' /\ pe.intent = 0
    BY <1>3, <2>1 DEF Standing, Recorded, CardInv, CardRow
  <2>4. CardLedger'
    <3>1. \A j \in Intent : j # i => intents'[j] = intents[j]
      BY <1>3 DEF Raise, IInv, TypeOK, LedgerTypeOK
    <3>2. \A j \in Intent : j # i => intents'[j].st = "unused"
      BY <1>3, <3>1 DEF CardInv, CardLedger, Intent
    <3>3. refundKey' = refundKey /\ refundKey["call"] = 0 /\ links' = links
      BY <1>3 DEF CardInv, CardLedger
    <3>4. \A l \in Link : links[l].st = "unused"
      BY DEF CardInv, CardLedger
    <3>5. QED
      BY <2>1, <2>2, <3>2, <3>3, <3>4 DEF CardLedger
  <2>5. \A q \in Procs : IF q = p THEN proc'[q] = f ELSE proc'[q] = proc[q]
    BY <1>3 DEF IInv, Frames
  <2>6. CardRow'
    <3>1. Unrecorded(Payment)'
      BY <1>3, <2>1, <2>5 DEF Unrecorded, At
    <3>2. QED
      BY <1>3, <2>3, <3>1 DEF CardInv, CardRow
  <2>7. \A q \in Procs : CardFrame(proc'[q], Payment', Standing', Recorded', pe'.flagged)
    <3>1. CardFrame(f, i, st, FALSE, pe.flagged)
      BY <1>0, <1>3, <2>1, <2>3 DEF CardFrame, CardEvent, Keeps
    <3>2. ASSUME NEW q \in Procs
          PROVE  CardFrame(proc[q], i, st, FALSE, pe.flagged)
      <4>1. CardFrame(proc[q], Payment, Standing, Recorded, pe.flagged)
        BY DEF CardInv
      <4>2. QED
        BY <1>3, <2>3, <4>1 DEF CardFrame, CardEvent
    <3>3. pe'.flagged = pe.flagged /\ Recorded' = FALSE
      BY <1>3, <2>3
    <3>4. \A q \in Procs : CardFrame(proc'[q], i, st, FALSE, pe.flagged)
      BY <2>5, <3>1, <3>2
    <3>5. QED
      BY <2>1, <2>2, <3>3, <3>4
  <2>8. \A e \in inbox' : CardEvent(e, Payment', Standing')
    BY <1>3, <2>1, <2>2, <2>3 DEF CardInv, CardEvent, PaymentEvents, EventOf
  <2>9. st = "succeeded" => Awaited'
    <3>1. ASSUME st = "succeeded" PROVE EventOf("paid", i) \in inbox'
      BY <1>3, <3>1 DEF PaymentEvents
    <3>2. \A q \in Procs : proc'[q].ev.kind # "paid"
      BY <1>3, <2>3, <2>5 DEF CardInv, CardFrame, Keeps
    <3>3. QED
      BY <2>1, <3>1, <3>2 DEF Awaited, Handling, EventOf
  <2>10. QED
    BY <2>2, <2>4, <2>6, <2>7, <2>8, <2>9 DEF CardInv, GoesBack
<1>4. CASE ~OnlyRead
  <2>1. \E i \in Intent, st \in PayOutcomes \ {"none"} : \E f :
           /\ Payment = 0 /\ UNCHANGED pe
           /\ Raise(i, "card", "call", MinBillable, st)
           /\ chargeKey' = [chargeKey EXCEPT !["call"] = i]
           /\ inbox' = inbox \cup PaymentEvents(st, i)
           /\ proc' = [proc EXCEPT ![p] = f] /\ Keeps(p, f)
           /\ f.pc = "recordCharge" /\ f.ref = i
    <3>1. \A st \in PayOutcomes : st # "declined"
      BY DEF OneCard
    <3>2. QED
      BY <1>1, <1>4, <3>1, ChargeGoesOn, NoFault DEF Payment
  <2>2. UNCHANGED <<links, refundKey, alerts>>
    BY <1>4 DEF ChargeCard
  <2>3. QED
    BY <1>3, <2>1, <2>2
<1>5. QED
  BY <1>2, <1>4

\* The row tells of it.
LEMMA RecordCards ==
    ASSUME IInv, CallInv, CardInv, NEW p \in Procs, RecordCharge(p)
    PROVE  CardInv'
<1>0. /\ CallFrame(proc[p]) /\ CardFrame(proc[p], Payment, Standing, Recorded, pe.flagged)
      /\ proc[p].pc = "recordCharge" /\ pe \in Row
  BY DEF CallInv, CardInv, RecordCharge, At, IInv, TypeOK
<1>1. proc[p].id = "call" /\ proc[p].by # "fee" /\ proc[p].ref = Payment /\ Payment # 0
  BY <1>0 DEF CallFrame, Resolved, CardFrame
<1>2. LedgerKept /\ Payment' = Payment /\ Standing' = Standing
  BY DEF RecordCharge, OnlyRow, moneyVars, LedgerKept, Payment, Standing
<1>3. /\ pe'.link = pe.link /\ pe'.intent = Payment /\ pe'.billed = "call"
      /\ pe'.pay = pe.pay /\ pe'.flagged = pe.flagged
  BY <1>0, <1>1 DEF RecordCharge, Row
<1>4. Recorded' /\ Done(p) /\ alerts' = alerts
  BY <1>1, <1>2, <1>3 DEF Recorded, RecordCharge, Invoiced, OnlyRow
<1>5. CardLedger' /\ CardRow'
  BY <1>2, <1>3, <1>4 DEF CardInv, CardLedger, LedgerKept, CardRow
<1>6. \A q \in Procs : IF q = p THEN proc'[q] = Idle ELSE proc'[q] = proc[q]
  BY <1>4 DEF Done, IInv, Frames
<1>7. \A q \in Procs : CardFrame(proc'[q], Payment', Standing', Recorded', pe'.flagged)
  <2>1. ASSUME NEW q \in Procs
        PROVE  CardFrame(proc[q], Payment, Standing, TRUE, pe.flagged)
    <3>1. CardFrame(proc[q], Payment, Standing, Recorded, pe.flagged)
      BY DEF CardInv
    <3>2. QED
      BY <3>1 DEF CardFrame, CardEvent
  <2>2. QED
    BY <1>2, <1>3, <1>4, <1>6, <2>1, CardIdle
<1>8. \A e \in inbox' : CardEvent(e, Payment', Standing')
  BY <1>2, <1>4 DEF CardInv, Done
<1>9. Awaited => Awaited'
  BY <1>2, <1>4, <1>6, CardIdle DEF Awaited, Handling, Done, EventOf
<1>10. GoesBack => GoesBack'
  <2>1. \A q \in Procs : proc[q].pc # "recordCharge" => proc'[q] = proc[q]
    BY <1>0, <1>6
  <2>2. \A q \in Procs : proc'[q].pc = "waive" => proc[q].pc = "waive"
    BY <1>6, CardIdle
  <2>3. QED
    BY <1>3, <1>4, <1>9, <2>1, <2>2 DEF GoesBack, At
<1>11. QED
  BY <1>2, <1>3, <1>4, <1>5, <1>7, <1>8, <1>10 DEF CardInv

LEMMA InvoiceCards ==
    ASSUME OneCard, NoLongCall, IInv, CallInv, CallInv', CardInv, NEW p \in Procs, Invoice(p)
    PROVE  CardInv'
<1>0. /\ pe \in Row /\ CallFrame(proc[p])
      /\ CardFrame(proc[p], Payment, Standing, Recorded, pe.flagged)
  BY DEF IInv, TypeOK, CallInv, CardInv
<1>1. ~VoidFlag(p) /\ ~ResetUnpaid(p) /\ ~StampFee(p) /\ ~CreateLink(p) /\ ~RecordLink(p)
  BY <1>0
  DEF VoidFlag, ResetUnpaid, StampFee, CreateLink, RecordLink, At, CallFrame, Elsewhere, CardFrame
<1>2. CASE CompleteFlagged(p)
  <2>1. RowKept /\ LedgerKept
    BY <1>0, <1>2 DEF CompleteFlagged, Row, RowKept, LedgerKept, OnlyRow, moneyVars
  <2>2. QED
    BY <1>2, <2>1, CardTo DEF CompleteFlagged, At, Busy, Light, Step
<1>3. CASE CompleteWrite(p)
  <2>1. RowKept /\ LedgerKept
    BY <1>0, <1>3 DEF CompleteWrite, Row, RowKept, LedgerKept, OnlyRow, moneyVars
  <2>2. QED
    BY <1>3, <2>1, CardTo DEF CompleteWrite, At, Busy, Light, Step
<1>4. CASE ReadInvoice(p)
  <2>0. RowKept /\ LedgerKept /\ proc[p].pc = "readInvoice"
    BY <1>4 DEF ReadInvoice, OnlyRead, RowKept, LedgerKept, moneyVars, At
  <2>1. CASE Done(p)
    BY <2>0, <2>1, CardDone DEF Busy
  <2>2. CASE Move(p, To(p, "settleEnded"))
    BY <2>0, <2>2, CardTo DEF Busy, Light, Step
  <2>3. ASSUME NEW f, Move(p, f), Keeps(p, f), f.min = proc[p].min, f.pc \in {"reset", "charge"}
        PROVE  CardInv'
    <3>1. f.pc = "charge"
      <4>1. proc'[p] = f
        BY <2>3 DEF Move, IInv, Frames
      <4>2. proc'[p].pc \notin Elsewhere
        BY DEF CallInv, CallFrame
      <4>3. QED
        BY <2>3, <4>1, <4>2 DEF Elsewhere
    <3>2. QED
      BY <2>0, <2>3, <3>1, CardLight, CardMove DEF Busy
  <2>4. QED
    BY <1>0, <1>4, <2>1, <2>2, <2>3, InvoiceGoesOn DEF CallFrame
<1>5. QED
  BY <1>1, <1>2, <1>3, <1>4, ChargeCards, RecordCards DEF Invoice

LEMMA AttendCards ==
    ASSUME OneCard, NoLongCall, IInv, CallInv, CallInv', CardInv, NEW p \in Procs, Attend(p)
    PROVE  CardInv'
<1>0. pe \in Row /\ CallFrame(proc[p])
  BY DEF IInv, TypeOK, CallInv
<1>1. /\ RowKept /\ LedgerKept /\ proc[p].pc \notin Busy
  BY <1>0
  DEF Attend, BothAttended, ClientNoShow, ExpertNoShow, EndEngagement, UnknownAttendance, Row,
      RowKept, LedgerKept, OnlyRow, moneyVars, At, Busy
<1>2. CASE BothAttended(p)
  <2>1. ~(proc[p].flagged /\ VoidedBy(proc[p].min))
    BY <1>0, <1>2 DEF BothAttended, At, CallFrame
  <2>2. Move(p, To(p, "settleEnded")) \/ Move(p, To(p, "readInvoice"))
    BY <1>2, <2>1 DEF BothAttended
  <2>3. QED
    BY <1>1, <1>2, <2>2, CardTo DEF BothAttended, At, Light, Step
<1>3. ~ClientNoShow(p)
  BY <1>0 DEF ClientNoShow, At, CallFrame, Elsewhere
<1>4. CASE ExpertNoShow(p)
  BY <1>1, <1>4, CardTo DEF ExpertNoShow, Light, Step
<1>5. CASE EndEngagement(p) \/ UnknownAttendance(p)
  BY <1>1, <1>5, CardDone DEF EndEngagement, UnknownAttendance
<1>6. QED
  BY <1>2, <1>3, <1>4, <1>5 DEF Attend

LEMMA PayCards ==
    ASSUME IInv, CardInv, NEW p \in Procs, Pay(p)
    PROVE  CardInv'
<1>0. pe \in Row
  BY DEF IInv, TypeOK
<1>1. CASE ReadPayout(p)
  <2>0. RowKept /\ LedgerKept /\ proc[p].pc \notin Busy
    BY <1>1 DEF ReadPayout, OnlyRead, moneyVars, RowKept, LedgerKept, At, Busy
  <2>1. CASE Done(p)
    BY <2>0, <2>1, CardDone
  <2>2. ASSUME NEW f, Move(p, f), Keeps(p, f),
               f.pc \in {"hold", "park", "parkAccount", "transfer"}
        PROVE  CardInv'
    BY <2>0, <2>2, CardLight, CardMove DEF Light, Step
  <2>3. QED
    BY <1>1, <2>1, <2>2, PayoutGoesOn
<1>2. CASE Hold(p) \/ Park(p) \/ Bookkeep(p) \/ RecordFail(p) \/ PayoutError(p)
  <2>1. RowKept /\ LedgerKept /\ proc[p].pc \notin Busy /\ Done(p)
    BY <1>0, <1>2
    DEF Hold, Park, Bookkeep, RecordFail, PayoutError, Row, RowKept, LedgerKept, OnlyRow,
        moneyVars, Alert, At, Busy
  <2>2. QED
    BY <2>1, CardDone
<1>3. CASE Transfer(p)
  <2>1. RowKept /\ LedgerKept /\ proc[p].pc \notin Busy
    BY <1>3 DEF Transfer, RowKept, LedgerKept, At, Busy
  <2>2. Move(p, To(p, "recordTransfer")) \/ Move(p, To(p, "recordFail"))
    BY <1>3 DEF Transfer
  <2>3. QED
    BY <2>1, <2>2, CardTo DEF Light, Step
<1>4. CASE RecordTransfer(p)
  <2>1. RowKept /\ LedgerKept /\ proc[p].pc \notin Busy
    BY <1>0, <1>4
    DEF RecordTransfer, Row, RowKept, LedgerKept, OnlyRow, moneyVars, At, Busy
  <2>2. QED
    BY <1>4, <2>1, CardTo DEF RecordTransfer, Light, Step
<1>5. QED
  BY <1>1, <1>2, <1>3, <1>4 DEF Pay

\* The client's click: a payment of the call that has come in is still ahead of
\* the settlement, or the settlement will see it on the row.
LEMMA FlagCards ==
    ASSUME IInv, CallInv, CardInv, NEW p \in Procs, Flag(p)
    PROVE  CardInv'
<1> DEFINE f == [Idle EXCEPT !.pc = "settle"]
<1>0. f.pc = "settle" /\ f.ev = NoEvent /\ Move(p, f)
  BY DEF Idle, Flag
<1> HIDE DEF f
<1>1. /\ LedgerKept /\ alerts' = alerts /\ proc[p].pc = "idle" /\ inbox' = inbox
      /\ Payment' = Payment /\ Standing' = Standing
  BY DEF Flag, Start, At, OnlyRow, moneyVars, LedgerKept, Payment, Standing, Move
<1>2. /\ pe'.link = pe.link /\ pe'.intent = pe.intent /\ pe'.billed = pe.billed
      /\ pe'.pay = pe.pay /\ pe'.flagged
  BY DEF Flag, IInv, TypeOK, Row
<1>3. Recorded' = Recorded
  BY <1>1, <1>2 DEF Recorded
<1>4. \A k, st, rec, fl : CardFrame(f, k, st, rec, fl)
  BY <1>0 DEF CardFrame, CardEvent, NoEvent, EventOf
<1>5. \A q \in Procs : IF q = p THEN proc'[q] = f ELSE proc'[q] = proc[q]
  BY <1>0 DEF Move, IInv, Frames
<1>6. CASE pe.flagged
  <2>1. RowKept
    BY <1>1, <1>2, <1>6 DEF RowKept, IInv, TypeOK, Row
  <2>2. f.ev.kind # "paid"
    BY <1>0 DEF NoEvent, EventOf
  <2>3. QED
    BY <1>0, <1>1, <1>4, <2>1, <2>2, CardMove DEF Busy
<1>7. CASE ~pe.flagged
  <2>1. CardLedger' /\ CardRow'
    BY <1>1, <1>2, <1>3, <1>5 DEF CardInv, CardLedger, CardRow, LedgerKept, Unrecorded, At
  <2>2. \A q \in Procs : CardFrame(proc'[q], Payment', Standing', Recorded', pe'.flagged)
    <3>1. ASSUME NEW q \in Procs
          PROVE  CardFrame(proc[q], Payment, Standing, Recorded, pe'.flagged)
      <4>1. CardFrame(proc[q], Payment, Standing, Recorded, pe.flagged)
        BY DEF CardInv
      <4>2. QED
        BY <1>2, <4>1 DEF CardFrame
    <3>2. QED
      BY <1>1, <1>3, <1>4, <1>5, <3>1
  <2>3. \A e \in inbox' : CardEvent(e, Payment', Standing')
    BY <1>1 DEF CardInv
  <2>4. Awaited => Awaited'
    BY <1>0, <1>1, <1>5 DEF Awaited, Handling, EventOf, NoEvent
  <2>5. Standing = "succeeded" => (~Recorded => Awaited) /\ GoesBack'
    <3>1. \A q \in Procs : proc'[q].pc # "waive"
      BY <1>0, <1>5, <1>7 DEF CardInv, CardFrame
    <3>2. Standing = "succeeded" => pe'.pay \notin {"waived", "failed"}
      BY <1>2, <1>7 DEF CallInv, CallRow, CardInv, CardRow
    <3>3. proc'[p].pc = "settle"
      BY <1>0, <1>5
    <3>4. QED
      BY <1>3, <2>4, <3>1, <3>2, <3>3 DEF CardInv, GoesBack, At
  <2>6. QED
    BY <1>1, <1>3, <2>1, <2>2, <2>3, <2>4, <2>5 DEF CardInv
<1>8. QED
  BY <1>6, <1>7

LEMMA RequestCards ==
    ASSUME OneCard, NoLongCall, IInv, CallInv, CardInv, NEW p \in Procs, Request(p)
    PROVE  CardInv'
<1>0. pe \in Row /\ CallRow(pe)
  BY DEF IInv, TypeOK, CallInv
<1>1. ASSUME NEW f, Move(p, f), At(p, "idle"), OnlyRead, f.ev = NoEvent,
             \/ f.pc \in Light
             \/ f.pc \in {"both", "completeWrite"} /\ Billable(f.min) = MinBillable
      PROVE  CardInv'
  <2>1. RowKept /\ LedgerKept /\ proc[p].pc \notin Busy
    BY <1>1 DEF OnlyRead, moneyVars, RowKept, LedgerKept, At, Busy
  <2>2. CardFrame(f, Payment, Standing, Recorded, pe.flagged) /\ f.pc # "waive"
    BY <1>1 DEF CardFrame, CardEvent, NoEvent, EventOf, Light
  <2>3. f.ev.kind # "paid"
    BY <1>1 DEF NoEvent, EventOf
  <2>4. QED
    BY <1>1, <2>1, <2>2, <2>3, CardMove
<1>2. CASE Complete(p)
  <2>1. PICK m \in Minutes, id \in ChargeId,
             l \in {"voidOnly", "void", "completeFlagged", "completeWrite"} :
          Move(p, [Idle EXCEPT !.pc = l, !.id = id, !.min = m, !.by = "complete",
                               !.fresh = (ResolveCallId(pe, None) = None)])
    <3>1. PICK m \in Minutes, id \in ChargeId :
            \E l \in {"voidOnly", "void", "completeFlagged", "completeWrite"} :
               Move(p, [Idle EXCEPT !.pc = l, !.id = id, !.min = m, !.by = "complete",
                                    !.fresh = (ResolveCallId(pe, None) = None)])
      BY <1>2 DEF Complete
    <3>2. QED
      BY <3>1
  <2> DEFINE b == (ResolveCallId(pe, None) = None)
             f == [Idle EXCEPT !.pc = l, !.id = id, !.min = m, !.by = "complete", !.fresh = b]
  <2>2. f.pc = l /\ f.min = m /\ f.ev = NoEvent
    BY DEF Idle
  <2>3. Move(p, f)
    BY <2>1
  <2> HIDE DEF f
  <2>4. Billable(m) = MinBillable
    BY MinutesAssumption, ShortCalls DEF AllMinutes
  <2>5. QED
    BY <1>1, <1>2, <2>2, <2>3, <2>4 DEF Complete, Start, Light, Step
<1>3. CASE ZoomEnded(p) \/ AdminAttendance(p)
  <2>1. PICK l, m, e :
          l \in Outcomes /\ Move(p, Reading(l, m, e)) /\ Billable(m) = MinBillable
    <3>1. CASE ZoomEnded(p)
      BY <3>1, MinutesAssumption, ShortCalls DEF ZoomEnded, AllMinutes
    <3>2. CASE AdminAttendance(p)
      <4>1. pe.actualMin # 0 => Billable(pe.actualMin) = MinBillable
        BY <1>0, ShortCalls DEF CallRow, Row
      <4>2. Billable(BookedMin) = MinBillable
        BY MinutesAssumption, ShortCalls DEF AllMinutes
      <4>3. QED
        BY <1>0, <3>2, <4>1, <4>2 DEF AdminAttendance, CallRow
    <3>3. QED
      BY <1>3, <3>1, <3>2
  <2> DEFINE fl == pe.flagged
             fe == pe.feeFor
             f == [Idle EXCEPT !.pc = l, !.min = m, !.by = "attendance", !.ended = e,
                               !.flagged = fl, !.fee = fe]
  <2>2. f.pc = l /\ f.min = m /\ f.ev = NoEvent
    BY DEF Idle
  <2>3. Move(p, f)
    BY <2>1 DEF Reading
  <2> HIDE DEF f, fl
  <2>4. l = "both" \/ l \in Light
    BY <2>1, OutcomesAssumption DEF Light, Step
  <2>5. QED
    BY <1>1, <1>3, <2>1, <2>2, <2>3, <2>4 DEF ZoomEnded, AdminAttendance, Start
<1>4. ~CancelCall(p)
  BY DEF CancelCall, Start, OneCard, OneCall
<1>5. QED
  BY <1>2, <1>3, <1>4, FlagCards DEF Request

-----------------------------------------------------------------------------
\* The settlement of a call that has no flag does nothing.
LEMMA SettleUnflagged ==
    ASSUME NEW p \in Procs, Settle(p), ~pe.flagged
    PROVE  Done(p)
  BY DEF Settle, Settlement, PaymentForFlagged, ForFlagged

\* One that sees the payment of a flagged call goes on to give it back.
LEMMA SettleSees ==
    ASSUME IInv, CardInv, NEW p \in Procs, Settle(p), pe.flagged, Recorded,
           At(p, "settlePaid") \/ pe.pay \notin {"waived", "failed"}
    PROVE  \E f : Move(p, f) /\ f.pc = "refund"
<1>1. ForFlagged(pe, pe.billed) /\ pe.intent = Payment /\ Payment # 0
  BY DEF ForFlagged, Recorded
<1>2. \A r, id : [To(p, "refund") EXCEPT !.ref = r, !.id = id].pc = "refund"
  BY DEF IInv, Frames, To, Frame
<1>3. CASE At(p, "settlePaid")
  <2>1. CardFrame(proc[p], Payment, Standing, Recorded, pe.flagged)
    BY DEF CardInv
  <2>2. proc[p].ref = Payment
    BY <1>3, <2>1 DEF At, CardFrame, CardEvent, EventOf
  <2>3. PaymentForFlagged(pe, proc[p].ref)
    BY <1>1, <2>2 DEF PaymentForFlagged
  <2>4. Move(p, [To(p, "refund") EXCEPT
                    !.ref = To(p, "refund").ref,
                    !.id = IF ForFlagged(pe, pe.billed) THEN pe.billed ELSE "call"])
    BY <1>3, <2>3 DEF Settle
  <2>5. QED
    BY <1>2, <2>4
<1>4. CASE ~At(p, "settlePaid")
  <2>1. \A ended : Settlement(pe, ended) = "refund"
    BY <1>1, <1>4 DEF Settlement
  <2>2. Move(p, [To(p, "refund") EXCEPT
                    !.ref = pe.intent,
                    !.id = IF ForFlagged(pe, pe.billed) THEN pe.billed ELSE "call"])
    BY <1>4, <2>1 DEF Settle
  <2>3. QED
    BY <1>2, <2>2
<1>5. QED
  BY <1>3, <1>4

\* The settlement goes on, knowing what it has to.
LEMMA SettleHolds ==
    ASSUME IInv, CallInv, CardInv, NEW p \in Procs, Settle(p)
    PROVE  \/ Done(p)
           \/ \E f : /\ Move(p, f) /\ Keeps(p, f) /\ f.pc \in {"refund", "waive"}
                     /\ CardFrame(f, Payment, Standing, Recorded, pe.flagged)
<1>0. CallRow(pe) /\ CardRow /\ CardFrame(proc[p], Payment, Standing, Recorded, pe.flagged)
  BY DEF CallInv, CardInv
<1>1. SUFFICES ASSUME ~Done(p) PROVE \E f :
           /\ Move(p, f) /\ Keeps(p, f) /\ f.pc \in {"refund", "waive"}
           /\ CardFrame(f, Payment, Standing, Recorded, pe.flagged)
  OBVIOUS
<1>2. pe.flagged
  BY <1>1, SettleUnflagged
<1>3. proc'[p].pc # "offLink"
  <2>1. pe.link = 0 /\ \A e : Settlement(pe, e) # "cancel_link"
    BY <1>0 DEF Settlement, CardRow
  <2>2. \/ \E r, id : Move(p, [To(p, "refund") EXCEPT !.ref = r, !.id = id])
        \/ \E r : Move(p, [To(p, "waive") EXCEPT !.ref = r])
    BY <1>1, <2>1 DEF Settle
  <2>3. \A r, id : /\ [To(p, "refund") EXCEPT !.ref = r, !.id = id].pc = "refund"
                   /\ [To(p, "waive") EXCEPT !.ref = r].pc = "waive"
    BY DEF IInv, Frames, To, Frame
  <2>4. \E f : f.pc \in {"refund", "waive"} /\ Move(p, f)
    <3>1. ASSUME NEW r, NEW id, Move(p, [To(p, "refund") EXCEPT !.ref = r, !.id = id])
          PROVE  \E f : f.pc \in {"refund", "waive"} /\ Move(p, f)
      <4> DEFINE f == [To(p, "refund") EXCEPT !.ref = r, !.id = id]
      <4>1. f.pc = "refund" /\ Move(p, f)
        BY <2>3, <3>1
      <4> HIDE DEF f
      <4>2. QED
        BY <4>1
    <3>2. ASSUME NEW r, Move(p, [To(p, "waive") EXCEPT !.ref = r])
          PROVE  \E f : f.pc \in {"refund", "waive"} /\ Move(p, f)
      <4> DEFINE f == [To(p, "waive") EXCEPT !.ref = r]
      <4>1. f.pc = "waive" /\ Move(p, f)
        BY <2>3, <3>2
      <4> HIDE DEF f
      <4>2. QED
        BY <4>1
    <3>3. QED
      BY <2>2, <3>1, <3>2
  <2>5. QED
    BY <2>4 DEF Move, IInv, Frames
<1>4. CASE \E f : /\ Move(p, f) /\ Keeps(p, f) /\ f.pc = "refund"
                  /\ f.ref = IF At(p, "settlePaid") THEN proc[p].ref ELSE pe.intent
                  /\ f.id = IF ForFlagged(pe, pe.billed) THEN pe.billed ELSE "call"
  <2>1. PICK f : /\ Move(p, f) /\ Keeps(p, f) /\ f.pc = "refund"
                 /\ f.ref = IF At(p, "settlePaid") THEN proc[p].ref ELSE pe.intent
                 /\ f.id = IF ForFlagged(pe, pe.billed) THEN pe.billed ELSE "call"
    BY <1>4
  <2>2. f.id = "call"
    BY <1>0, <2>1, IdsAssumption DEF CallRow, ForFlagged
  <2>3. f.ref = Payment /\ Payment # 0
    <3>1. CASE At(p, "settlePaid")
      BY <1>0, <2>1, <3>1 DEF At, CardFrame, CardEvent, EventOf
    <3>2. CASE ~At(p, "settlePaid")
      <4>1. pe.intent # 0
        <5>1. \E e : Settlement(pe, e) = "refund"
          <6>1. SUFFICES ASSUME \A e : Settlement(pe, e) # "refund" PROVE FALSE
            OBVIOUS
          <6>2. \/ \E r : Move(p, [To(p, "waive") EXCEPT !.ref = r])
                \/ \E r : Move(p, [To(p, "offLink") EXCEPT !.ref = r])
            BY <1>1, <3>2, <6>1 DEF Settle
          <6>3. \A r : /\ [To(p, "waive") EXCEPT !.ref = r].pc = "waive"
                       /\ [To(p, "offLink") EXCEPT !.ref = r].pc = "offLink"
            BY DEF IInv, Frames, To, Frame
          <6>4. QED
            BY <2>1, <6>2, <6>3 DEF Move, IInv, Frames
        <5>2. QED
          BY <5>1 DEF Settlement
      <4>2. QED
        BY <1>0, <2>1, <3>2, <4>1 DEF CardRow
    <3>3. QED
      BY <3>1, <3>2
  <2>4. CardFrame(f, Payment, Standing, Recorded, pe.flagged)
    BY <1>0, <1>2, <2>1, <2>2, <2>3 DEF CardFrame, Keeps
  <2>5. QED
    BY <2>1, <2>4
<1>5. CASE \E f : Move(p, f) /\ Keeps(p, f) /\ f.pc = "waive" /\ f.ref = 0
  <2>1. PICK f : Move(p, f) /\ Keeps(p, f) /\ f.pc = "waive" /\ f.ref = 0
    BY <1>5
  <2>2. CardFrame(f, Payment, Standing, Recorded, pe.flagged)
    BY <1>0, <1>2, <2>1 DEF CardFrame, Keeps
  <2>3. QED
    BY <2>1, <2>2
<1>6. ~\E f : Move(p, f) /\ f.pc = "offLink"
  BY <1>3 DEF Move, IInv, Frames
<1>7. QED
  BY <1>1, <1>4, <1>5, <1>6, SettleGoesOn

LEMMA SettleCards ==
    ASSUME IInv, CallInv, CardInv, NEW p \in Procs, Settle(p)
    PROVE  CardInv'
<1>0. /\ UNCHANGED <<pe, alerts>> /\ LedgerKept
      /\ proc[p].pc \in {"settle", "settleEnded", "settlePaid"}
      /\ Payment' = Payment /\ Standing' = Standing /\ Recorded' = Recorded
  BY DEF Settle, OnlyRead, LedgerKept, moneyVars, Payment, Standing, Recorded, At
<1>1. \E f : /\ proc' = [proc EXCEPT ![p] = f] /\ inbox' \in {inbox, inbox \ {proc[p].ev}}
             /\ f.ev.kind = "none" \/ f.ev = proc[p].ev
             /\ f.pc \in {"idle", "refund", "waive"}
             /\ f.pc = "idle" => f.ev.kind = "none"
             /\ inbox' # inbox => f.pc = "idle"
             /\ CardFrame(f, Payment, Standing, Recorded, pe.flagged)
  BY SettleHolds, CardIdle DEF Move, Done, Keeps
<1>2. PICK f : /\ proc' = [proc EXCEPT ![p] = f] /\ inbox' \in {inbox, inbox \ {proc[p].ev}}
               /\ f.ev.kind = "none" \/ f.ev = proc[p].ev
               /\ f.pc \in {"idle", "refund", "waive"}
               /\ CardFrame(f, Payment, Standing, Recorded, pe.flagged)
  BY <1>1
<1>3. \A q \in Procs : IF q = p THEN proc'[q] = f ELSE proc'[q] = proc[q]
  BY <1>2 DEF IInv, Frames
<1>4. \A q \in Procs : CardFrame(proc'[q], Payment, Standing, Recorded, pe.flagged)
  BY <1>2, <1>3 DEF CardInv
<1>5. \A e \in inbox' : CardEvent(e, Payment, Standing)
  BY <1>2 DEF CardInv
<1>6. Awaited => Awaited'
  BY <1>0, <1>2, <1>3 DEF Awaited, Handling, EventOf
<1>7. CardLedger' /\ CardRow'
  <2>1. Unrecorded(Payment) => Unrecorded(Payment)'
    BY <1>0, <1>3 DEF Unrecorded, At
  <2>2. QED
    BY <1>0, <2>1 DEF CardInv, CardLedger, CardRow, LedgerKept
<1>8. ASSUME pe.flagged, Standing = "succeeded", GoesBack PROVE GoesBack'
  <2>1. CASE Recorded /\ (At(p, "settlePaid") \/ pe.pay \notin {"waived", "failed"})
    <3>1. proc'[p].pc = "refund"
      BY <1>8, <2>1, SettleSees DEF Move, IInv, Frames
    <3>2. QED
      BY <3>1 DEF GoesBack, At
  <2>2. CASE ~Recorded
    BY <1>6, <1>8, <2>2 DEF CardInv, GoesBack
  <2>3. CASE Recorded /\ ~At(p, "settlePaid") /\ pe.pay \in {"waived", "failed"}
    <3>1. Awaited \/ \E q \in Procs \ {p} : At(q, "settlePaid") \/ At(q, "refund")
      BY <1>0, <1>8, <2>3 DEF GoesBack, At
    <3>2. QED
      BY <1>3, <1>6, <3>1 DEF GoesBack, At
  <2>4. QED
    BY <2>1, <2>2, <2>3
<1>9. QED
  BY <1>0, <1>4, <1>5, <1>6, <1>7, <1>8 DEF CardInv

\* The refund.
LEMMA RefundCards ==
    ASSUME OneCard, IInv, CardInv, NEW p \in Procs, Refund(p)
    PROVE  CardInv'
<1>0. /\ CardFrame(proc[p], Payment, Standing, Recorded, pe.flagged)
      /\ proc[p].pc = "refund" /\ UNCHANGED <<pe, links, chargeKey>>
  BY DEF CardInv, Refund, At
<1>1. /\ proc[p].ref = Payment /\ Payment # 0 /\ proc[p].id = "call" /\ pe.flagged
      /\ Payment \in Intent /\ Payment' = Payment /\ Standing = intents[Payment].st
      /\ Standing' = intents'[Payment].st
  BY <1>0 DEF CardFrame, Payment, Standing, IInv, TypeOK, LedgerTypeOK, Intent, Charge, ChargeId
<1>2. Recorded' = Recorded
  BY <1>0, <1>1 DEF Recorded
<1> DEFINE f == To(p, "waive")
<1>3. f.pc = "waive" /\ f.ref = Payment /\ Keeps(p, f)
  BY <1>1, ToFrame, ToKeeps DEF Step
<1>4. \/ /\ Standing = "succeeded" /\ proc' = [proc EXCEPT ![p] = f]
         /\ intents' = [intents EXCEPT ![Payment].st = "refunded"]
         /\ refundKey' = [refundKey EXCEPT !["call"] = Payment]
         /\ inbox' = inbox \cup {EventOf("refunded", Payment)}
         /\ UNCHANGED alerts
      \/ /\ Standing = "refunded" /\ Move(p, f) /\ UNCHANGED <<intents, refundKey, alerts>>
      \/ /\ SettleFailed(p) /\ Alert("mismatch") /\ UNCHANGED <<intents, refundKey>>
  <2>1. refundKey["call"] \in {0, Payment} /\ (refundKey["call"] # 0 => Standing = "refunded")
    BY DEF CardInv, CardLedger
  <2>2. ~Fault
    BY NoFault
  <2>3. QED
    BY <1>1, <2>1, <2>2 DEF Refund
<1> HIDE DEF f
<1>5. CardFrame(f, Payment, Standing, Recorded, pe.flagged)
  BY <1>0, <1>1, <1>3 DEF CardFrame, Keeps
<1>6. PICK g \in {f, Idle} : proc' = [proc EXCEPT ![p] = g]
  BY <1>4 DEF Move, SettleFailed
<1>7. \A q \in Procs : IF q = p THEN proc'[q] = g ELSE proc'[q] = proc[q]
  BY <1>6 DEF IInv, Frames
<1>8. \A q \in Procs : CardFrame(proc'[q], Payment, Standing, Recorded, pe.flagged)
  BY <1>5, <1>7, CardIdle DEF CardInv
<1>9. Unrecorded(Payment) => Unrecorded(Payment)'
  BY <1>0, <1>1, <1>7 DEF Unrecorded, At
<1>10. CASE intents' = [intents EXCEPT ![Payment].st = "refunded"] /\ Standing = "succeeded"
            /\ refundKey' = [refundKey EXCEPT !["call"] = Payment]
            /\ inbox' = inbox \cup {EventOf("refunded", Payment)}
  <2>1. /\ \A i \in Intent : i # Payment => intents'[i] = intents[i]
        /\ intents'[Payment].st = "refunded" /\ intents'[Payment].amt = intents[Payment].amt
        /\ intents'[Payment].via = intents[Payment].via
        /\ refundKey'["call"] = Payment
    BY <1>1, <1>10 DEF IInv, TypeOK, LedgerTypeOK, Charge, ChargeId
  <2>2. Standing' = "refunded"
    BY <1>1, <2>1
  <2>3. CardLedger'
    BY <1>0, <1>1, <2>1, <2>2 DEF CardInv, CardLedger
  <2>4. CardRow'
    BY <1>0, <1>1, <1>2, <1>9, <1>10 DEF CardInv, CardRow
  <2>5. ASSUME NEW q \in Procs
        PROVE  CardFrame(proc'[q], Payment, "refunded", Recorded, pe.flagged)
    <3>1. CardFrame(proc'[q], Payment, Standing, Recorded, pe.flagged)
      BY <1>8
    <3>2. QED
      BY <1>10, <3>1 DEF CardFrame, CardEvent
  <2>6. \A e \in inbox' : CardEvent(e, Payment, "refunded")
    BY <1>1, <1>10 DEF CardInv, CardEvent, EventOf
  <2>7. QED
    BY <1>0, <1>1, <1>2, <2>2, <2>3, <2>4, <2>5, <2>6 DEF CardInv
<1>11. CASE UNCHANGED <<intents, refundKey, inbox>>
            /\ (Standing = "refunded" \/ "mismatch" \in alerts')
  <2>1. Standing' = Standing
    BY <1>1, <1>11
  <2>2. CardLedger' /\ CardRow'
    BY <1>0, <1>1, <1>2, <1>9, <1>11, <2>1 DEF CardInv, CardLedger, CardRow
  <2>3. Awaited => Awaited'
    BY <1>1, <1>3, <1>7, <1>11, CardIdle DEF Awaited, Handling, EventOf, Keeps
  <2>4. QED
    BY <1>0, <1>1, <1>2, <1>8, <1>11, <2>1, <2>2, <2>3 DEF CardInv
<1>12. QED
  BY <1>4, <1>10, <1>11 DEF Move, SettleFailed, Alert

\* The waiver: of a flag that is still there, for the refund or the call it read.
LEMMA WaiverCards ==
    ASSUME IInv, CallInv, CardInv, NEW p \in Procs, WriteWaiver(p)
    PROVE  CardInv'
<1>0. /\ CardFrame(proc[p], Payment, Standing, Recorded, pe.flagged) /\ CardRow
      /\ proc[p].pc = "waive" /\ CallRow(pe) /\ pe \in Row
  BY DEF CardInv, CallInv, WriteWaiver, At, IInv, TypeOK
<1>1. pe.flagged /\ proc[p].ref \in {0, Payment}
  BY <1>0 DEF CardFrame
<1>2. LedgerKept /\ alerts' = alerts /\ Payment' = Payment /\ Standing' = Standing
  BY DEF WriteWaiver, OnlyRow, moneyVars, LedgerKept, Payment, Standing
<1>3. /\ Move(p, To(p, "readPayout"))
      /\ pe'.link = pe.link /\ pe'.flagged = pe.flagged /\ pe'.billed = "call"
      /\ pe'.pay = "waived" /\ pe'.intent \in {pe.intent, Payment}
      /\ Recorded => pe'.intent = Payment
  <2>1. ForFlagged(pe, pe.billed) <=> pe.billed = "call"
    BY <1>0, <1>1, IdsAssumption DEF ForFlagged, CallRow
  <2>2. /\ Move(p, To(p, "readPayout"))
        /\ pe' = [pe EXCEPT !.pay = "waived",
                            !.billed = IF ForFlagged(pe, pe.billed) THEN @ ELSE "call",
                            !.intent = IF proc[p].ref # 0 THEN proc[p].ref
                                       ELSE IF ForFlagged(pe, pe.billed) THEN @ ELSE 0]
    BY <1>1 DEF WriteWaiver, StillFlagged
  <2>3. pe'.intent = IF proc[p].ref # 0 THEN proc[p].ref
                     ELSE IF ForFlagged(pe, pe.billed) THEN pe.intent ELSE 0
    BY <1>0, <2>2 DEF Row
  <2>4. pe'.billed = IF ForFlagged(pe, pe.billed) THEN pe.billed ELSE "call"
    BY <1>0, <2>2 DEF Row
  <2>5. pe'.link = pe.link /\ pe'.flagged = pe.flagged /\ pe'.pay = "waived"
    BY <1>0, <2>2 DEF Row
  <2>6. QED
    BY <1>0, <1>1, <2>1, <2>2, <2>3, <2>4, <2>5 DEF CardRow, Recorded
<1> DEFINE f == To(p, "readPayout")
<1>4. Move(p, f) /\ f.pc = "readPayout" /\ Keeps(p, f)
  BY <1>3, ToFrame, ToKeeps DEF Step
<1> HIDE DEF f
<1>5. \A q \in Procs : IF q = p THEN proc'[q] = f ELSE proc'[q] = proc[q]
  BY <1>4 DEF Move, IInv, Frames
<1>6. Recorded => Recorded'
  BY <1>2, <1>3 DEF Recorded
<1>7. CardLedger' /\ CardRow'
  <2>1. Unrecorded(Payment) => Unrecorded(Payment)'
    BY <1>0, <1>2, <1>5 DEF Unrecorded, At
  <2>2. QED
    BY <1>0, <1>2, <1>3, <1>6, <2>1 DEF CardInv, CardLedger, CardRow, LedgerKept
<1>8. ASSUME NEW q \in Procs
      PROVE  CardFrame(proc'[q], Payment, Standing, Recorded', pe'.flagged)
  <2>1. CardFrame(f, Payment, Standing, Recorded, pe.flagged)
    BY <1>4, CardLight DEF Light, Step
  <2>2. CardFrame(proc'[q], Payment, Standing, Recorded, pe.flagged)
    BY <1>5, <2>1 DEF CardInv
  <2>3. QED
    BY <1>3, <1>6, <2>2 DEF CardFrame
<1>9. Awaited => Awaited'
  BY <1>2, <1>4, <1>5 DEF Awaited, Handling, Move, Keeps
<1>10. GoesBack => GoesBack'
  <2>1. GoesBack => Awaited \/ \E q \in Procs : At(q, "settlePaid") \/ At(q, "refund")
    BY <1>0 DEF GoesBack, At
  <2>2. QED
    BY <1>0, <1>5, <1>9, <2>1 DEF GoesBack, At
<1>11. QED
  BY <1>2, <1>3, <1>4, <1>6, <1>7, <1>8, <1>9, <1>10 DEF CardInv, Move

-----------------------------------------------------------------------------
\* A delivery of a payment's event that overtakes nothing finds the charge recorded.
LEMMA DeliverCards ==
    ASSUME OneCard, IInv, CardInv, NEW p \in Procs, Deliver(p), ~Overtaken'
    PROVE  CardInv'
<1>1. /\ RowKept /\ LedgerKept /\ proc[p].pc \notin Busy
  BY DEF Deliver, moneyVars, Alert, RowKept, LedgerKept, At, Busy
<1>2. PICK e \in inbox :
        \/ /\ Route(e) = "idle" /\ inbox' = inbox \ {e} /\ UNCHANGED proc
        \/ /\ Route(e) # "idle"
           /\ \E f : Move(p, f) /\ f.pc = Route(e) /\ f.ref = e.of /\ f.ev = e
  BY NoFault, DeliverGoesOn DEF Leads
<1>3. e.kind = "paid" => e.of = Payment /\ Payment # 0 /\ Recorded
  <2> SUFFICES ASSUME e.kind = "paid" PROVE e.of = Payment /\ Payment # 0 /\ Recorded
    OBVIOUS
  <2>1. e.of = Payment /\ Payment # 0 /\ intents[Payment].via = "card"
    BY <1>2 DEF CardInv, CardEvent, CardLedger
  <2>2. proc'[p].ev = e
    BY <1>2 DEF Route, Move, IInv, Frames
  <2>3. pe'.intent = e.of
    BY <1>1, <2>1, <2>2 DEF Overtaken, LedgerKept
  <2>4. QED
    BY <1>1, <2>1, <2>3 DEF RowKept, CardInv, CardRow, Recorded
<1>4. /\ Route(e) = "settlePaid" \/ Route(e) = "markPaid" <=> e.kind = "paid"
      /\ e.kind = "paid" /\ pe.flagged => Route(e) = "settlePaid"
      /\ Route(e) = "markFailed" => e.kind = "failed"
      /\ Route(e) = "recordRefund" => e.kind \in {"refunded", "disputed"}
      /\ Route(e) \in {"settlePaid", "markPaid", "markFailed", "recordRefund", "readPayout",
                       "markRefunded", "idle"}
  <2>1. e.kind = "paid" /\ pe.flagged => PaymentForFlagged(pe, e.of)
    BY <1>3 DEF Recorded, PaymentForFlagged, ForFlagged
  <2>2. QED
    BY <2>1 DEF Route
<1>5. CASE Route(e) = "idle" /\ inbox' = inbox \ {e} /\ UNCHANGED proc
  <2>1. e.kind # "paid"
    BY <1>4, <1>5
  <2>2. Awaited => EventOf("paid", Payment) \in inbox'
    BY <1>5, <2>1 DEF Awaited, EventOf
  <2>3. \A d \in inbox' : CardEvent(d, Payment, Standing)
    BY <1>5 DEF CardInv
  <2>4. QED
    BY <1>1, <1>5, <2>2, <2>3, CardKept DEF Quietly
<1>6. ASSUME NEW f, Move(p, f), f.pc = Route(e), f.ref = e.of, f.ev = e, Route(e) # "idle"
      PROVE  CardInv'
  <2>1. e = EventOf(e.kind, e.of)
    BY <1>2 DEF IInv, TypeOK, LedgerTypeOK, Event, EventOf
  <2>2. CardFrame(f, Payment, Standing, Recorded, pe.flagged) /\ f.pc # "waive"
    <3>1. CardEvent(e, Payment, Standing)
      BY <1>2 DEF CardInv
    <3>2. f.pc \in {"settlePaid", "markPaid"} => f.ev = EventOf("paid", f.ref)
      BY <1>4, <1>6, <2>1
    <3>3. f.pc \in {"settlePaid", "markPaid", "markFailed", "recordRefund", "readPayout",
                    "markRefunded"}
      BY <1>4, <1>6
    <3>4. QED
      BY <1>3, <1>4, <1>6, <3>1, <3>2, <3>3 DEF CardFrame
  <2>3. CASE e.kind # "paid"
    BY <1>1, <1>6, <2>2, <2>3, CardMove
  <2>4. CASE e.kind = "paid"
    <3>1. /\ UNCHANGED pe /\ inbox' = inbox /\ Payment' = Payment /\ Standing' = Standing
          /\ Recorded' = Recorded
      BY <1>6 DEF Deliver, moneyVars, Move, Payment, Standing, Recorded
    <3>2. \A q \in Procs : IF q = p THEN proc'[q] = f ELSE proc'[q] = proc[q]
      BY <1>6 DEF Move, IInv, Frames
    <3>3. \A q \in Procs : CardFrame(proc'[q], Payment, Standing, Recorded, pe.flagged)
      BY <2>2, <3>2 DEF CardInv
    <3>4. Unrecorded(Payment) => Unrecorded(Payment)'
      BY <1>1, <3>1, <3>2 DEF Unrecorded, At, Busy
    <3>5. CardLedger' /\ CardRow'
      BY <1>1, <3>1, <3>4 DEF CardInv, CardLedger, CardRow, LedgerKept
    <3>6. pe.flagged => GoesBack'
      BY <1>4, <1>6, <2>4, <3>2 DEF GoesBack, At
    <3>7. QED
      BY <1>3, <2>4, <3>1, <3>3, <3>5, <3>6 DEF CardInv
  <2>5. QED
    BY <2>3, <2>4
<1>7. QED
  BY <1>2, <1>5, <1>6

LEMMA EventCards ==
    ASSUME OneCard, IInv, CardInv, NEW p \in Procs, Deliver(p) \/ HandleEvent(p), ~Overtaken'
    PROVE  CardInv'
<1>0. pe \in Row /\ CardFrame(proc[p], Payment, Standing, Recorded, pe.flagged)
  BY DEF IInv, TypeOK, CardInv
<1>1. CASE MarkPaid(p)
  <2>1. proc[p].ref = Payment /\ Recorded
    BY <1>0, <1>1 DEF MarkPaid, At, CardFrame, CardEvent, EventOf
  <2>2. RowKept /\ LedgerKept /\ proc[p].pc \notin Busy
    BY <1>0, <1>1, <2>1
    DEF MarkPaid, Row, RowKept, LedgerKept, OnlyRow, moneyVars, At, Busy, Recorded
  <2>3. QED
    BY <1>1, <2>2, CardTo DEF MarkPaid, Light, Step
<1>2. CASE MarkFailed(p)
  <2>1. Standing = "failed"
    BY <1>0, <1>2 DEF MarkFailed, At, CardFrame, CardEvent
  <2>2. RowKept /\ LedgerKept /\ proc[p].pc \notin Busy
    BY <1>0, <1>2, <2>1 DEF MarkFailed, Row, RowKept, LedgerKept, moneyVars, Alert, At, Busy
  <2>3. QED
    BY <1>2, <2>2, CardDone DEF MarkFailed
<1>3. CASE MarkRefunded(p)
  <2>1. RowKept /\ LedgerKept /\ proc[p].pc \notin Busy
    BY <1>0, <1>3 DEF MarkRefunded, Row, RowKept, LedgerKept, moneyVars, Alert, At, Busy
  <2>2. QED
    BY <1>3, <2>1, CardDone DEF MarkRefunded
<1>4. CASE RecordRefund(p)
  <2>1. Standing = "refunded"
    BY <1>0, <1>4 DEF RecordRefund, At, CardFrame, CardEvent
  <2>2. RowKept /\ LedgerKept /\ proc[p].pc \notin Busy
    BY <1>0, <1>4, <2>1
    DEF RecordRefund, Row, RowKept, LedgerKept, OnlyRow, moneyVars, At, Busy
  <2>3. QED
    BY <1>4, <2>2, CardTo DEF RecordRefund, Light, Step
<1>5. QED
  BY <1>1, <1>2, <1>3, <1>4, DeliverCards DEF HandleEvent

\* Stripe moves the payment on, and tells of it.
LEMMA StripeCards ==
    ASSUME OneCard, IInv, CardInv, Stripe
    PROVE  CardInv'
<1>1. ~PayLink /\ ~Redeliver /\ ~ExpireKeys
  BY NoFault DEF PayLink, Redeliver, ExpireKeys, OneCard, CardInv, CardLedger
<1>2. PICK i \in Intent, st \in {"succeeded", "failed", "refunded"}, news \in SUBSET Event :
        /\ intents' = [intents EXCEPT ![i].st = st] /\ inbox' = inbox \cup news
        /\ \/ intents[i].st = "processing" /\ st # "refunded" /\ news = PaymentEvents(st, i)
           \/ /\ intents[i].st = "succeeded" /\ st = "refunded"
              /\ news \in {{EventOf("refunded", i)}, {EventOf("disputed", i)}}
  <2>1. CASE SettleIntent
    <3>1. PICK i \in Intent, st \in {"succeeded", "failed"} :
            /\ intents[i].st = "processing"
            /\ intents' = [intents EXCEPT ![i].st = st]
            /\ inbox' = inbox \cup PaymentEvents(st, i)
      BY <2>1 DEF SettleIntent
    <3>2. PaymentEvents(st, i) \in SUBSET Event
      BY PaymentEventsType
    <3>3. QED
      BY <3>1, <3>2
  <2>2. CASE GiveBack
    <3>1. PICK i \in Intent, kind \in {"refunded", "disputed"} :
            /\ intents[i].st = "succeeded"
            /\ intents' = [intents EXCEPT ![i].st = "refunded"]
            /\ inbox' = inbox \cup {EventOf(kind, i)}
      BY <2>2 DEF GiveBack
    <3>2. {EventOf(kind, i)} \in SUBSET Event
      BY DEF Event, EventOf
    <3>3. QED
      BY <3>1, <3>2
  <2>3. QED
    BY <1>1, <2>1, <2>2 DEF Stripe
<1>3. i = Payment /\ Payment # 0 /\ Standing = intents[i].st
  BY <1>2 DEF CardInv, CardLedger, Standing, Intent
<1>4. UNCHANGED <<pe, proc, links, chargeKey, refundKey, alerts>>
  BY <1>1 DEF Stripe, SettleIntent, GiveBack
<1>5. Payment' = Payment /\ Recorded' = Recorded
  BY <1>4 DEF Payment, Recorded
<1>6. /\ Standing' = st /\ intents'[Payment].amt = intents[Payment].amt
      /\ intents'[Payment].via = intents[Payment].via
      /\ \A j \in Intent : j # Payment => intents'[j] = intents[j]
  BY <1>2, <1>3, <1>5 DEF Standing, IInv, TypeOK, LedgerTypeOK
<1>7. CardLedger'
  BY <1>2, <1>3, <1>4, <1>5, <1>6 DEF CardInv, CardLedger
<1>8. CardRow'
  <2>1. Unrecorded(Payment) => Unrecorded(Payment)'
    BY <1>4, <1>5 DEF Unrecorded, At
  <2>2. QED
    BY <1>2, <1>3, <1>4, <1>5, <2>1 DEF CardInv, CardRow
<1>9. ASSUME NEW q \in Procs
      PROVE  CardFrame(proc[q], Payment, st, Recorded, pe.flagged)
  <2>1. CardFrame(proc[q], Payment, Standing, Recorded, pe.flagged)
    BY DEF CardInv
  <2>2. QED
    BY <1>2, <1>3, <2>1 DEF CardFrame, CardEvent
<1>10. \A e \in inbox' : CardEvent(e, Payment, st)
  <2>1. \A e \in inbox : CardEvent(e, Payment, st)
    BY <1>2, <1>3 DEF CardInv, CardEvent
  <2>2. \A e \in news : CardEvent(e, Payment, st)
    BY <1>2, <1>3 DEF CardEvent, PaymentEvents, EventOf
  <2>3. QED
    BY <1>2, <2>1, <2>2
<1>11. st = "succeeded" => Awaited'
  <2>1. ASSUME st = "succeeded" PROVE EventOf("paid", Payment) \in inbox'
    BY <1>2, <1>3, <2>1 DEF PaymentEvents
  <2>2. ASSUME st = "succeeded", NEW q \in Procs PROVE proc'[q].ev.kind # "paid"
    <3>1. CardFrame(proc[q], Payment, Standing, Recorded, pe.flagged)
      BY DEF CardInv
    <3>2. QED
      BY <1>2, <1>3, <1>4, <2>2, <3>1 DEF CardFrame, CardEvent
  <2>3. QED
    BY <1>5, <2>1, <2>2 DEF Awaited, Handling, EventOf
<1>12. QED
  BY <1>4, <1>5, <1>6, <1>7, <1>8, <1>9, <1>10, <1>11 DEF CardInv, GoesBack

-----------------------------------------------------------------------------
LEMMA CardInit == Init => CardInv
<1> SUFFICES ASSUME Init PROVE CardInv
  OBVIOUS
<1>1. Payment = 0 /\ Standing = "unused" /\ ~Recorded
  BY DEF Init, LedgerInit, Payment, Standing, Recorded, Charge, ChargeId
<1>2. CardLedger /\ CardRow
  BY <1>1 DEF Init, LedgerInit, CardLedger, CardRow, Charge, ChargeId
<1>3. \A p \in Procs : CardFrame(proc[p], Payment, Standing, Recorded, pe.flagged)
  BY CardIdle DEF Init
<1>4. QED
  BY <1>1, <1>2, <1>3 DEF Init, LedgerInit, CardInv

LEMMA CardNext ==
    ASSUME OneCard, NoLongCall
    PROVE  IInv /\ CallInv /\ CallInv' /\ CardInv /\ ~Overtaken' /\ [Next]_vars => CardInv'
<1> SUFFICES ASSUME IInv, CallInv, CallInv', CardInv, ~Overtaken', [Next]_vars PROVE CardInv'
  OBVIOUS
<1>1. CASE UNCHANGED vars
  BY <1>1, CardStill DEF vars, moneyVars, LedgerKept, RowKept
<1>2. CASE Tick \/ StaleOwed
  BY <1>2, CardStill DEF Tick, StaleOwed, moneyVars, LedgerKept, RowKept, Alert
<1>3. CASE Onboard
  <2>1. inbox' \in {inbox, inbox \cup {EventOf("account", 0)}}
    BY <1>3 DEF Onboard
  <2>2. \A e \in inbox' : CardEvent(e, Payment, Standing)
    BY <2>1 DEF CardInv, CardEvent, EventOf
  <2>3. QED
    BY <1>3, <2>1, <2>2, CardKept DEF Onboard, moneyVars, LedgerKept, RowKept, Quietly, Awaited
<1>4. ASSUME NEW p \in Procs, NightlySweep(p) PROVE CardInv'
  <2> DEFINE f == [Idle EXCEPT !.pc = "readPayout"]
  <2>1. f.pc = "readPayout" /\ f.ev = NoEvent /\ Move(p, f)
    BY <1>4 DEF NightlySweep, Idle
  <2> HIDE DEF f
  <2>2. CardFrame(f, Payment, Standing, Recorded, pe.flagged) /\ f.ev.kind # "paid"
    BY <2>1 DEF CardFrame, CardEvent, NoEvent, EventOf
  <2>3. QED
    BY <1>4, <2>1, <2>2, CardMove
    DEF NightlySweep, OnlyRead, moneyVars, LedgerKept, RowKept, At, Busy
<1>5. ASSUME NEW p \in Procs PROVE ~Crash(p)
  BY NoFault DEF Crash
<1>6. ASSUME NEW p \in Procs, SettleFlag(p) PROVE CardInv'
  <2>1. CardFrame(proc[p], Payment, Standing, Recorded, pe.flagged)
    BY DEF CardInv
  <2>2. ~OffLink(p)
    BY <2>1 DEF OffLink, At, CardFrame
  <2>3. QED
    BY <1>6, <2>2, SettleCards, RefundCards, WaiverCards DEF SettleFlag
<1>7. QED
  BY <1>1, <1>2, <1>3, <1>4, <1>5, <1>6, StripeCards, InvoiceCards, AttendCards, PayCards,
     EventCards, RequestCards
  DEF Next, Run

\* When nothing runs and nothing is owed, nobody is about to give anything back.
LEMMA CardReturned ==
    ASSUME CardInv
    PROVE  FlaggedCardIsReturned
<1> SUFFICES ASSUME AtRest, "mismatch" \notin alerts, NEW i \in KeptForFlagged({"card"})
             PROVE  FALSE
  BY DEF FlaggedCardIsReturned
<1>1. i \in Intent /\ intents[i].st = "succeeded" /\ pe.flagged
  BY DEF KeptForFlagged, ForFlagged
<1>2. i = Payment /\ Payment # 0 /\ Standing = "succeeded"
  BY <1>1 DEF CardInv, CardLedger, Standing, Intent
<1>3. GoesBack
  BY <1>1, <1>2 DEF CardInv
<1>4. QED
  BY <1>3 DEF GoesBack, Awaited, AtRest, At

\* Every charge of the card that raced the client's flag, in whatever order the
\* completions, reports, decisions, events and sweeps of a short call come, and
\* however many of them there are, has gone back once all is quiet: in every run
\* without a fault where no payment event overtakes createAndSendInvoice's write.
THEOREM FlaggedCardReturned ==
    ASSUME OneCard
    PROVE  Spec => CardMoneyOfFlaggedReturned
<1>1. CASE NoLongCall
  <2>1. OneCall
    BY DEF OneCard
  <2>2. Spec => [](IInv /\ CallInv)
    BY <2>1, CallInvariant
  <2>3. IInv /\ CallInv /\ CallInv' /\ CardInv /\ ~Overtaken' /\ [Next]_vars => CardInv'
    BY <1>1, CardNext
  <2>4. Spec => <>Overtaken \/ []CardInv
    BY <2>2, <2>3, CardInit, PTL DEF Spec
  <2>5. CardInv => FlaggedCardIsReturned
    BY CardReturned
  <2>6. QED
    BY <2>4, <2>5, PTL DEF CardMoneyOfFlaggedReturned
<1>2. CASE "flag" \notin Ops
  <2>1. OneCall
    BY DEF OneCard
  <2>2. Spec => []CallInv
    BY <2>1, CallInvariant, PTL
  <2>3. CallInv => FlaggedCardIsReturned
    BY <1>2 DEF CallInv, CallRow, FlaggedCardIsReturned, KeptForFlagged, ForFlagged
  <2>4. QED
    BY <2>2, <2>3, PTL DEF CardMoneyOfFlaggedReturned
<1>3. QED
  BY <1>1, <1>2 DEF OneCard, OneCall
=============================================================================
