----------------------------- MODULE Attendance -----------------------------
(***************************************************************************)
(* How a booked call ends: Zoom's meeting.ended, a staff decision about    *)
(* who attended, or a cancellation; and what each does to the row before   *)
(* it hands over to Invoicing or Settlement.                               *)
(***************************************************************************)
EXTENDS Invoicing

CONSTANT Outcomes   \* how calls can end in a run of TLC

ASSUME OutcomesAssumption ==
    Outcomes \subseteq {"both", "clientNoShow", "expertNoShow", "neither", "unknown"}

\* What a handler of the attendance path remembers of the row it read.
Reading(l, m, ended) ==
    [Idle EXCEPT !.pc = l, !.min = m, !.by = "attendance", !.ended = ended,
                 !.flagged = pe.flagged, !.fee = pe.feeFor]

\* resolveMeetingEnd and resolveAttendance: a call already ended or completed
\* is skipped; missing telemetry is nobody's fault and nobody's charge.
ZoomEnded(p) ==
    /\ Start(p, "zoom")
    /\ pe.booked /\ pe.ended = "no" /\ pe.status # "completed"
    /\ \E m \in Minutes, outcome \in Outcomes \ {"neither"} :
          Move(p, Reading(outcome, m, IF window = "closed" THEN "late" ELSE "inside"))
    /\ OnlyRead

\* POST /api/admin/attendance: no guard but that the row exists.
AdminAttendance(p) ==
    /\ Start(p, "admin")
    /\ \E outcome \in Outcomes \ {"unknown"} :
          Move(p, Reading(outcome,
                          CASE pe.actualMin # 0 -> pe.actualMin
                            [] pe.actualMin = 0 /\ pe.booked -> BookedMin
                            [] pe.actualMin = 0 /\ ~pe.booked /\ pe.callMin # 0 -> pe.callMin
                            [] OTHER -> MinBillable,
                          pe.ended))
    /\ OnlyRead

\* The stamp every outcome writes, unless the caller has none.
Stamp(p) == IF proc[p].ended = "no" THEN pe.ended ELSE proc[p].ended

BothAttended(p) ==
    /\ At(p, "both")
    /\ pe' = [pe EXCEPT !.status = "completed", !.actualMin = proc[p].min,
                        !.ended = Stamp(p)]
    /\ Move(p, To(p, CASE proc[p].flagged /\ VoidedBy(proc[p].min)  -> "void"
                       [] proc[p].flagged /\ ~VoidedBy(proc[p].min) -> "settleEnded"
                       [] OTHER                                     -> "readInvoice"))
    /\ OnlyRow /\ Running

\* applyClientLateCancelMoney on a row that reads `flagged` and `fee`: settle a
\* flagged call, charge the fee once, and nothing without a booking.
LateCancelMoney(p, flagged, fee) ==
    CASE flagged                        -> Move(p, [Idle EXCEPT !.pc = "settleEnded"])
      [] ~flagged /\ pe.booked /\ ~fee  -> Move(p, [Idle EXCEPT !.pc = "readInvoice",
                                                    !.id = "fee", !.min = MinBillable,
                                                    !.by = "fee"])
      [] OTHER                          -> Done(p)

ClientNoShow(p) ==
    /\ At(p, "clientNoShow")
    /\ pe' = [pe EXCEPT !.status = "ended", !.ended = Stamp(p)]
    /\ LateCancelMoney(p, proc[p].flagged, proc[p].fee)
    /\ OnlyRow /\ Running

\* Nobody is charged; the expert is then removed.
ExpertNoShow(p) ==
    /\ At(p, "expertNoShow")
    /\ pe' = [pe EXCEPT !.ended = Stamp(p)]
    /\ Move(p, To(p, "remove"))
    /\ OnlyRow /\ Running

\* removeExpertForFault's write, or the one of 'neither'.
EndEngagement(p) ==
    /\ \/ At(p, "remove") /\ pe' = [pe EXCEPT !.status = "ended"]
       \/ At(p, "neither") /\ pe' = [pe EXCEPT !.status = "ended", !.ended = Stamp(p)]
    /\ Done(p)
    /\ OnlyRow /\ Running

\* The row is parked for staff, with the minutes Zoom measured.
UnknownAttendance(p) ==
    /\ At(p, "unknown")
    /\ pe' = [pe EXCEPT !.actualMin = proc[p].min, !.ended = Stamp(p)]
    /\ Done(p)
    /\ OnlyRow /\ Running

\* cancelCall: its checks are repeated inside the write, and its side effects
\* read the row that write returned.  `fee`: a client cancelled late.
CancelCall(p) ==
    /\ Start(p, "cancel")
    /\ pe.booked /\ ~pe.cancelled
    /\ pe' = [pe EXCEPT !.cancelled = TRUE, !.status = "ended"]
    /\ \/ LateCancelMoney(p, pe.flagged, pe.feeFor)
       \/ UNCHANGED <<proc, inbox>>
    /\ OnlyRow

Attend(p) ==
    \/ BothAttended(p) \/ ClientNoShow(p) \/ ExpertNoShow(p) \/ EndEngagement(p)
    \/ UnknownAttendance(p)
=============================================================================
