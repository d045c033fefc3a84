---------------------------- MODULE Conversation -----------------------------
(* The thread with one expert who has had the intro, put together: replies,   *)
(* follow-ups drafted and sent, drafts released, counter-offers decided,      *)
(* times proposed, nudges planned and sent, complaints and opt-outs; the      *)
(* handlers interleaved step by step, and killed between any two steps.       *)
EXTENDS Nudges, Replies

\* Messages are counted from here on: no follow-up has gone yet, and what waits
\* for the owner is a follow-up, the intro being out.
ASSUME FirstThreadsAssumption ==
    \A first \in FirstRecords : \A i \in DOMAIN first.thread :
        /\ first.thread[i].went = "pending" => first.thread[i].what = "followup"
        /\ first.thread[i].what = "followup" => first.thread[i].went # "sent"

HandlerStep(p) == NudgeStep(p) \/ ReplyStep(p) \/ DeliveryStep(p)

Next ==
    \/ \E p \in Workers : OwnerRequest(p) \/ Morning(p) \/ CronTwice(p)
                          \/ HandlerStep(p) \/ Kill(p)
                          \/ \E n \in nudgeJobs : NudgeAgain(p, n)
    \/ Eight
    \/ \E m \in Modes : SetMode(m)
    \/ \E a \in Addresses : Replies(a) \/ Complains(a) \/ Unsubscribe(a)

Spec == OutreachInit /\ [][Next]_outreachVars

\* A handler that has begun goes on, a job is delivered when it is due, an
\* event is delivered until it is answered. Nobody has to ask or to reply, and
\* no morning has to come.
FairSpec == Spec /\ \A p \in Workers : WF_outreachVars(HandlerStep(p))

----------------------------------------------------------------------------
(* Properties.                                                               *)

SendingPoints == {"n_send", "r_send", "m_send", "q_send", "t_send"}

Quiet == INSTANCE ColdMail WITH
             Addresses <- Addresses,
             times     <- mail.later,
             cleared   <- {w[p].addr : p \in {q \in Workers : w[q].pc \in SendingPoints}},
             listed    <- suppressed,
             doubts    <- Len(faults)

\* The conversation implements ColdMail, without a limit on the mail: five
\* kinds of handler send mail, each checks the list on its own, and their
\* stale writes put a declined row back to 'replied' or 'followup_sent'; still
\* nothing goes to an address that was listed when its message was cleared.
QuietHolds == Quiet!Spec

\* Of the jobs for one morning - two planners', or one that QStash delivers
\* again - the first to finish wins (send-nudge, "read-then-write with no
\* compare-and-set"). Once a nudge has gone, a second is cleared only while the
\* first is not on the thread yet; or its line or Resend's answer was lost and
\* its slot in the state was not cleared when this job read it; or the first
\* was killed.
FirstFinisherWins ==
    [][\A p \in Workers :
          LET day == w[p].job.day
              Mate(pcs) == \E q \in Workers : w[q].pc \in pcs /\ w[q].job.day = day
          IN At(p, "n_check") /\ w'[p].pc = "n_list" /\ mail.nudge[day] > 0
             => \/ Mate({"n_append"})
                \/ /\ Faults({"append_lost", "answer_lost"}) > 0
                   /\ \/ row.nudge # w[p].row.nudge \/ Mate({"n_count", "n_clear"})
                      \/ Faults({"write_lost"}) > 0
                \/ Faults({"kill"}) > 0]_outreachVars

\* With nothing in flight, each follow-up that was mailed is on the thread as
\* sent: a draft released by two clicks goes once, and a draft whose release
\* failed waits again. A kill or a lost answer may hide one. A line that was
\* refused by the thread hides one as well, but not from the row, which says
\* that terms were asked for and lets no second "yes" ask again.
FollowUpsOnThread ==
    (\A p \in Workers : w[p] = Idle) =>
        mail.followup <= Cardinality({i \in DOMAIN thread :
                             thread[i].what = "followup" /\ thread[i].went = "sent"})
                         + Faults({"answer_lost", "kill"})
                         + IF row.followed THEN Faults({"append_lost"}) ELSE 0

\* The nudge code takes for said only what was said: of the follow-ups on the
\* thread that it counts, each was mailed, is just being released, or lost its
\* flag for nothing: its release was killed, the answer to the clear was lost,
\* or the flag could not be put back. A draft that waits for approval, one whose
\* release was held or refused, and a line kept by a hold start no wait.
SpokenWasMailed ==
    Cardinality({i \in Spoken(thread) : thread[i].what = "followup"})
        <= mail.followup
           + Cardinality({p \in Workers : w[p].pc \in {"m_gate", "m_send", "m_restore"}})
           + Faults({"kill", "clear_lost", "restore_lost"})

\* Every reply is answered in the end: refused mail, kills and the redelivery
\* they cause lead to an acknowledgement, never to a reply that circles.
\* Answered is not handled: one whose project could not be read is answered too.
ReplyEvents == {Event("reply", a, n) : a \in Addresses, n \in 1 .. MaxStarts}
EventsAnswered == \A e \in ReplyEvents : (e \in events) ~> (e \notin events)

\* What lib/nudges.ts:19-26 and its tests say of MAX_NUDGES, on the thread: no
\* more nudges in a row than that without a word of the expert. It does not hold.
Unanswered ==
    {i \in DOMAIN thread : thread[i].what = "nudge"
        /\ \A j \in DOMAIN thread : j > i => thread[j].from # "expert"}
NudgesCapped == Cardinality(Unanswered) <= MaxNudges

\* What inbound-email/route.ts says of followupSentAt: a second yes never
\* produces a second rate ask. It does not hold: two yeses that overlap both
\* send, and two drafts that wait for approval can both be released.
FollowUpOnce == mail.followup <= 1 + Len(faults)

\* A counter-offer leaves the row only by a decision that was made on it. It
\* does not hold: a counter that arrives while a decision is being mailed is
\* set to null by rate-decision's write.
CounterNotLost ==
    [][row.counter # 0 /\ row'.counter = 0
        => \E p \in Workers : At(p, "q_write") /\ w[p].row.counter = row.counter]_outreachVars
=============================================================================
