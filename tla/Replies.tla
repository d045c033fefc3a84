------------------------------ MODULE Replies --------------------------------
(* The expert's replies (api/inbound-email) and what they set off: the        *)
(* follow-up that asks for terms, drafted or sent; the owner's release of a   *)
(* draft (messages/[id]/send); the owner's answer to a counter-offer          *)
(* (rate-decision); and the proposal of times, which CallBooking takes over.  *)
EXTENDS Delivery

\* What an e-mail can be read as. The classifier is a model call: a reply that
\* is delivered again may be read differently.
Intents == {"declined", "counter", "conflict", "unclear", "interested"}

Replies(a) ==
    /\ "reply" \in Ops /\ starts < MaxStarts /\ starts' = starts + 1
    /\ mail.intro[a] > 0 /\ a \notin DeadAddresses
    /\ events' = events \cup {Event("reply", a, starts')}
    /\ UNCHANGED <<Record, mail, locks, jobs, nudgeJobs, w, mode, suppressed, clock, faults>>

\* Mutant: a reply to a thread that was put aside is neither handled nor answered.
MutReplyEvent(p, e) ==
    /\ e.kind = "reply" /\ row.token /\ row.address = e.address
    /\ IsOutreachLive(row.status)
    /\ TakesEvent(p, e, "r_store")

\* Only the address on the row may move the thread.
ReplyEvent(p, e) ==
    /\ e.kind = "reply" /\ row.token /\ row.address = e.address
    /\ TakesEvent(p, e, "r_store")

\* A handler that ends: a request is over, a reply is answered with 200.
Ends(p) ==
    IF w[p].kind = "reply" THEN Acknowledge(p) ELSE Finish(p) /\ UNCHANGED events

----------------------------------------------------------------------------
(* Store, classify, and move the stage.                                      *)

\* Stored first. An automatic reply is labelled as one, and nothing moves.
ReplyStored(p) ==
    /\ At(p, "r_store")
    /\ \/ /\ "auto" \in Ops
          /\ Append1("expert", "auto", "sent") /\ Acknowledge(p)
       \/ /\ Append1("expert", "reply", "sent")
          /\ Goto(p, "r_read") /\ UNCHANGED events
    /\ UNCHANGED <<row, mail, locks, jobs, nudgeJobs>> /\ Unlisted /\ Uncounted

\* appendMessage answers null when it cannot store, and the pipeline goes on.
ReplyNotStored(p) ==
    /\ At(p, "r_store") /\ Fault("append_lost")
    /\ Goto(p, "r_read")
    /\ UNCHANGED <<Record, Vendors, clock, starts>> /\ Unlisted

\* While times are on the table the scheduling branch may answer instead; what
\* it does is CallBooking's.
ReplyScheduled(p) ==
    /\ At(p, "r_read") /\ w[p].row.status = "scheduling_sent"
    /\ Acknowledge(p)
    /\ UNCHANGED <<Record, mail, locks, jobs, nudgeJobs>> /\ Unlisted /\ Uncounted

ReplyMoves(p, intent) ==
    /\ At(p, "r_read") /\ intent \in Ops
    /\ UNCHANGED <<thread, mail, locks, jobs, nudgeJobs>> /\ Unlisted /\ Uncounted

Declined(p) ==
    /\ ReplyMoves(p, "declined")
    /\ row' = [row EXCEPT !.status = "rejected_after_outreach"]
    /\ Goto(p, "r_list") /\ UNCHANGED events

\* A counter with a number, or without one.
Countered(p) ==
    /\ ReplyMoves(p, "counter")
    /\ \E counter \in {w[p].at, row.counter} :
          row' = [row EXCEPT !.status = "rate_negotiation", !.counter = counter]
    /\ Acknowledge(p)

Flagged(p) ==
    /\ \/ ReplyMoves(p, "conflict") /\ row' = [row EXCEPT !.status = "conflict_flagged"]
       \/ ReplyMoves(p, "unclear") /\ row' = [row EXCEPT !.status = "replied"]
    /\ Acknowledge(p)

\* A yes to the follow-up agrees the standing rate; a yes to the intro earns
\* the follow-up, once, by the row as it was read before the reply was stored.
Interested(p) ==
    /\ ReplyMoves(p, "interested")
    /\ row' = [row EXCEPT !.status = "replied",
                          !.agreed = @ \/ w[p].row.status = "followup_sent"]
    /\ IF w[p].row.status = "followup_sent" THEN Goto(p, "t_gate") /\ UNCHANGED events
       ELSE IF ~w[p].row.followed /\ w[p].row.status \in {"contacted", "replied"}
            THEN Goto(p, "r_follow") /\ UNCHANGED events
       ELSE Acknowledge(p)

\* The "no" is listed after the status is written; the result is not looked at.
DeclineListed(p) ==
    /\ At(p, "r_list")
    /\ \/ suppressed' = suppressed \cup {w[p].addr} /\ UNCHANGED faults
       \/ Fault("write_lost") /\ UNCHANGED suppressed
    /\ Acknowledge(p)
    /\ UNCHANGED <<Record, mail, locks, jobs, nudgeJobs, mode, clock, starts>>

----------------------------------------------------------------------------
(* The follow-up.                                                            *)

FollowUpNotSent(p, went) == Stores("matchy", "followup", went) /\ Acknowledge(p)

\* Held in walkthrough, drafted on a review-first project, else sent.
FollowUpKept(p) ==
    /\ At(p, "r_follow") /\ w[p].mode # "live"
    /\ FollowUpNotSent(p, IF w[p].mode = "review" THEN "pending" ELSE "held")
    /\ UNCHANGED <<row, mail, locks, jobs, nudgeJobs, clock, starts>> /\ Unlisted

FollowUpGate(p) ==
    /\ At(p, "r_follow") /\ w[p].mode = "live"
    /\ \/ GateOpens(w[p].addr) /\ Goto(p, "r_send") /\ UNCHANGED <<thread, events, faults>>
       \/ (~GateOpens(w[p].addr) \/ "held" \in Ops) /\ FollowUpNotSent(p, "pending")
    /\ UNCHANGED <<row, mail, locks, jobs, nudgeJobs, clock, starts>> /\ Unlisted

FollowUpMailed(p) ==
    mail' = [mail EXCEPT !.followup = @ + 1, !.later[w[p].addr] = @ + 1]

FollowUpSent(p) ==
    /\ At(p, "r_send")
    /\ FollowUpMailed(p)
    /\ Goto(p, "r_append")
    /\ UNCHANGED <<Record, locks, jobs, nudgeJobs, events>> /\ Unlisted /\ Uncounted

\* The handler throws: the claim on the event is released, and the 500 asks
\* for the whole reply again.
FollowUpRefused(p) ==
    /\ At(p, "r_send")
    /\ \/ Fault("resend_down") /\ UNCHANGED mail
       \/ Fault("answer_lost") /\ FollowUpMailed(p)
    /\ Finish(p) /\ UNCHANGED events
    /\ UNCHANGED <<Record, locks, jobs, nudgeJobs, clock, starts>> /\ Unlisted

FollowUpAppend(p) ==
    /\ At(p, "r_append")
    /\ Stores("matchy", "followup", "sent")
    /\ Goto(p, "r_mark")
    /\ UNCHANGED <<row, Vendors, clock, starts>> /\ Unlisted

\* What a follow-up that went leaves on the row.
Asked(r) == [r EXCEPT !.status = "followup_sent", !.followed = TRUE]

FollowUpMarked(p) ==
    /\ At(p, "r_mark")
    /\ row' = Asked(row)
    /\ Acknowledge(p)
    /\ UNCHANGED <<thread, mail, locks, jobs, nudgeJobs>> /\ Unlisted /\ Uncounted

----------------------------------------------------------------------------
(* POST .../messages/[messageId]/send: the owner releases a draft.            *)

Release(p, i) ==
    /\ Request(p, "release")
    /\ i \in DOMAIN thread /\ thread[i].went = "pending"
    /\ mode # "walkthrough" /\ row.address # NoAddress /\ row.token
    /\ ~Suppressed(row.address)
    /\ w' = [w EXCEPT ![p] = [Idle EXCEPT !.kind = "release", !.addr = row.address,
                                          !.at = i, !.pc = "m_clear"]]
    /\ UNCHANGED <<Record, Vendors, clock, faults>> /\ Unlisted

Restamp(p, went) == thread' = [thread EXCEPT ![w[p].at].went = went]

\* Mutant: the flag is cleared without looking.
MutReleaseClears(p) ==
    /\ At(p, "m_clear")
    /\ Restamp(p, "sent") /\ Goto(p, "m_gate")
    /\ UNCHANGED <<row, Vendors>> /\ Unlisted /\ Uncounted

\* clearPendingIfPending: one of two owners' clicks wins. An error answers the
\* loser's 409 to a click that may have won: the flag is then gone for nothing.
ReleaseClears(p) ==
    /\ At(p, "m_clear")
    /\ \/ /\ thread[w[p].at].went = "pending"
          /\ Restamp(p, "sent") /\ Goto(p, "m_gate") /\ UNCHANGED faults
       \/ /\ thread[w[p].at].went # "pending"
          /\ Finish(p) /\ UNCHANGED <<thread, faults>>
       \/ /\ thread[w[p].at].went = "pending" /\ Fault("clear_lost")
          /\ Restamp(p, "sent") \/ UNCHANGED thread
          /\ Finish(p)
    /\ UNCHANGED <<row, Vendors, clock, starts>> /\ Unlisted

\* Mutant: a held release leaves its draft marked as sent.
MutReleaseGate(p) ==
    /\ At(p, "m_gate")
    /\ \/ GateOpens(w[p].addr) /\ Goto(p, "m_send")
       \/ (~GateOpens(w[p].addr) \/ "held" \in Ops) /\ Finish(p)
    /\ UNCHANGED <<Record, Vendors>> /\ Unlisted /\ Uncounted

ReleaseGate(p) ==
    /\ At(p, "m_gate")
    /\ \/ GateOpens(w[p].addr) /\ Goto(p, "m_send")
       \/ (~GateOpens(w[p].addr) \/ "held" \in Ops) /\ Goto(p, "m_restore")
    /\ UNCHANGED <<Record, Vendors>> /\ Unlisted /\ Uncounted

ReleaseSent(p) ==
    /\ At(p, "m_send")
    /\ FollowUpMailed(p)
    /\ Goto(p, "m_mark")
    /\ UNCHANGED <<Record, locks, jobs, nudgeJobs, events>> /\ Unlisted /\ Uncounted

ReleaseRefused(p) ==
    /\ At(p, "m_send")
    /\ \/ Fault("resend_down") /\ UNCHANGED mail
       \/ Fault("answer_lost") /\ FollowUpMailed(p)
    /\ Goto(p, "m_restore")
    /\ UNCHANGED <<Record, locks, jobs, nudgeJobs, events, clock, starts>> /\ Unlisted

\* Held or refused: restorePending puts the flag back and the draft waits on,
\* when the write succeeds.
ReleaseRestores(p) ==
    /\ At(p, "m_restore")
    /\ \/ Restamp(p, "pending") /\ UNCHANGED faults
       \/ Fault("restore_lost") /\ UNCHANGED thread
    /\ Finish(p)
    /\ UNCHANGED <<row, Vendors, clock, starts>> /\ Unlisted

ReleaseMarked(p) ==
    /\ At(p, "m_mark")
    /\ row' = Asked(row)
    /\ Finish(p)
    /\ UNCHANGED <<thread, Vendors>> /\ Unlisted /\ Uncounted

----------------------------------------------------------------------------
(* POST .../rate-decision: the owner accepts the counter or holds the rate.   *)

\* "at" is the counter that is accepted, 0 when the standing rate is held.
\* Nothing is mailed in walkthrough, nor to an expert without an address.
Decide(p, accept) ==
    /\ Request(p, "decide")
    /\ accept => row.counter # 0
    /\ w' = [w EXCEPT ![p] = [Idle EXCEPT !.kind = "decide", !.row = row, !.mode = mode,
                 !.addr = row.address, !.at = IF accept THEN row.counter ELSE 0,
                 !.pc = IF mode = "walkthrough" \/ row.address = NoAddress \/ ~row.token
                        THEN "q_write" ELSE "q_gate"]]
    /\ UNCHANGED <<Record, Vendors, clock, faults>> /\ Unlisted

\* Held: the line is kept on the thread and no money moves.
DecisionGate(p) ==
    /\ At(p, "q_gate")
    /\ \/ GateOpens(w[p].addr) /\ Goto(p, "q_send") /\ UNCHANGED <<thread, faults>>
       \/ /\ ~GateOpens(w[p].addr) \/ "held" \in Ops
          /\ Stores("matchy", "rate", "held") /\ Finish(p)
    /\ UNCHANGED <<row, Vendors, clock, starts>> /\ Unlisted

TermsMailed(p) ==
    mail' = [mail EXCEPT !.terms = @ + 1, !.later[w[p].addr] = @ + 1]

DecisionSent(p) ==
    /\ At(p, "q_send")
    /\ TermsMailed(p)
    /\ Goto(p, "q_write")
    /\ UNCHANGED <<Record, locks, jobs, nudgeJobs, events>> /\ Unlisted /\ Uncounted

DecisionRefused(p) ==
    /\ At(p, "q_send")
    /\ \/ Fault("resend_down") /\ UNCHANGED mail
       \/ Fault("answer_lost") /\ TermsMailed(p)
    /\ Finish(p)
    /\ UNCHANGED <<Record, locks, jobs, nudgeJobs, events, clock, starts>> /\ Unlisted

\* The money after the mail: the counter is settled whichever it was.
DecisionWritten(p) ==
    /\ At(p, "q_write")
    /\ row' = [row EXCEPT !.counter = 0, !.agreed = @ \/ w[p].at # 0]
    /\ Goto(p, "q_append")
    /\ UNCHANGED <<thread, Vendors>> /\ Unlisted /\ Uncounted

DecisionAppend(p) ==
    /\ At(p, "q_append")
    /\ Stores("matchy", "rate", IF w[p].mode = "walkthrough" THEN "held" ELSE "sent")
    /\ IF w[p].at # 0 THEN Goto(p, "t_gate") ELSE Finish(p)
    /\ UNCHANGED <<row, Vendors, clock, starts>> /\ Unlisted

----------------------------------------------------------------------------
(* proposeTimes, as far as this module needs it: a mail, its copy, a status.  *)

TimesGate(p) ==
    /\ At(p, "t_gate") /\ w[p].addr # NoAddress /\ GateOpens(w[p].addr)
    /\ Goto(p, "t_send")
    /\ UNCHANGED <<Record, Vendors>> /\ Unlisted /\ Uncounted

TimesSent(p) ==
    /\ At(p, "t_send")
    /\ TermsMailed(p)
    /\ Goto(p, "t_append")
    /\ UNCHANGED <<Record, locks, jobs, nudgeJobs, events>> /\ Unlisted /\ Uncounted

\* No address, no calendar or a hold: at most a held line on the thread.
TimesNotSent(p) ==
    /\ At(p, "t_gate")
    /\ \/ ("no_calendar" \in Ops \/ w[p].addr = NoAddress) /\ UNCHANGED <<thread, faults>>
       \/ /\ w[p].addr # NoAddress /\ (~GateOpens(w[p].addr) \/ "held" \in Ops)
          /\ Stores("matchy", "times", "held")
    /\ Ends(p)
    /\ UNCHANGED <<row, mail, locks, jobs, nudgeJobs, clock, starts>> /\ Unlisted

\* proposeTimes swallows a refused mail.
TimesRefused(p) ==
    /\ At(p, "t_send")
    /\ \/ Fault("resend_down") /\ UNCHANGED mail
       \/ Fault("answer_lost") /\ TermsMailed(p)
    /\ Ends(p)
    /\ UNCHANGED <<Record, locks, jobs, nudgeJobs, clock, starts>> /\ Unlisted

TimesAppend(p) ==
    /\ At(p, "t_append")
    /\ Stores("matchy", "times", "sent")
    /\ Goto(p, "t_status")
    /\ UNCHANGED <<row, Vendors, clock, starts>> /\ Unlisted

TimesStatus(p) ==
    /\ At(p, "t_status")
    /\ row' = [row EXCEPT !.status = "scheduling_sent"]
    /\ Ends(p)
    /\ UNCHANGED <<thread, mail, locks, jobs, nudgeJobs>> /\ Unlisted /\ Uncounted

OwnerRequest(p) ==
    \/ \E i \in DOMAIN thread : Release(p, i)
    \/ \E accept \in BOOLEAN : Decide(p, accept)

ReplyStep(p) ==
    \/ \E e \in events : ReplyEvent(p, e)
    \/ ReplyStored(p) \/ ReplyNotStored(p) \/ ReplyScheduled(p)
    \/ Declined(p) \/ Countered(p) \/ Flagged(p) \/ Interested(p) \/ DeclineListed(p)
    \/ FollowUpKept(p) \/ FollowUpGate(p) \/ FollowUpSent(p) \/ FollowUpRefused(p)
    \/ FollowUpAppend(p) \/ FollowUpMarked(p)
    \/ ReleaseClears(p) \/ ReleaseGate(p) \/ ReleaseSent(p) \/ ReleaseRefused(p)
    \/ ReleaseRestores(p) \/ ReleaseMarked(p) \/ DecisionGate(p) \/ DecisionSent(p) \/ DecisionRefused(p)
    \/ DecisionWritten(p) \/ DecisionAppend(p)
    \/ TimesGate(p) \/ TimesSent(p) \/ TimesNotSent(p) \/ TimesRefused(p) \/ TimesAppend(p) \/ TimesStatus(p)
=============================================================================
