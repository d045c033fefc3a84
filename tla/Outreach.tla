------------------------------ MODULE Outreach -------------------------------
(* The intro to one expert on one project, put together: the bookmark, the    *)
(* approve button and the discovery jobs that lead to it, the bounces and     *)
(* complaints that come back, the client's and staff's changes of mind; the   *)
(* handlers interleaved step by step, and killed between any two steps.       *)
EXTENDS IntroRoutes, Delivery

\* An engagement as it is before its first intro.
ASSUME FirstIntroAssumption ==
    \A first \in FirstRecords : /\ first.row.claim = "none" /\ first.row.bounced = {}
                               /\ first.row.status # "contacted"

HandlerStep(p) == IntroStep(p) \/ RouteStep(p) \/ DeliveryStep(p)

Next ==
    \/ \E p \in Workers : RouteRequest(p) \/ HandlerStep(p) \/ Kill(p)
    \/ \E key \in locks : LockExpires(key)
    \/ \E m \in Modes : SetMode(m)
    \/ \E a \in Addresses : Bounces(a) \/ Complains(a) \/ Unsubscribe(a)

Spec == OutreachInit /\ [][Next]_outreachVars

\* A handler that has begun goes on, a published job is delivered, an event is
\* delivered until it is answered. Nobody has to make a request.
FairSpec == Spec /\ \A p \in Workers : WF_outreachVars(HandlerStep(p))

----------------------------------------------------------------------------
(* Properties.                                                               *)

\* The faults after which the code may write to an address a second time: the
\* lock could not be taken, or Resend's yes was lost and read as a no. A kill
\* counts because of one long story: a bounce handler dies after its row
\* write, a search that began before the bounce puts the dead address back,
\* and the event, delivered again, bounces the replacement's claim away.
Doubtful == {"redis_out", "answer_lost", "kill"}

\* Between the claim on the row and the end of the step that made it.
StepInFlight ==
    \E p \in Workers : w[p].pc \in {"i_line", "i_gate", "i_send", "i_release", "i_draft"}

\* An address that was written to is never seen as one still to write to: the
\* row that holds it says the intro went, whatever was written over the row
\* since by a bookmark, a redraft, a release, a bounce or a late search. This
\* is the durable half of runSequenceStep's send-once rule.
SentStaysClaimed ==
    \A a \in Addresses :
        row.address = a /\ mail.intro[a] > 0
            => IntroAlreadySent(row) \/ Faults(Doubtful) > 0

\* With no step in flight, a row that says 'contacted' had its intro accepted
\* at an address that is not known to have bounced: a claim whose send was
\* refused or held was taken back. Three things leave it standing: a kill between
\* the claim and the send, a release that could not be written, and a claim that
\* was written but answered with an error, which nothing takes back.
ContactedMeansSent ==
    row.status = "contacted" /\ ~StepInFlight
        => (\E a \in Addresses \ row.bounced : mail.intro[a] > 0)
           \/ Faults({"kill", "write_lost"}) > 0

Cold == INSTANCE ColdMail WITH
            Addresses <- Addresses,
            times     <- mail.intro,
            cleared   <- {a \in Addresses :
                             \E p \in Workers : At(p, "i_send") /\ w[p].addr = a},
            listed    <- suppressed,
            doubts    <- Faults(Doubtful)

\* The outreach code implements ColdMail with a budget of one: two bookmarks,
\* a double-clicked approve, two discovery jobs and a replacement search all
\* end in at most one intro per address, and none to an address that was on
\* the do-not-contact list when the chokepoint looked.
ColdMailHolds == Cold!Spec /\ [][Cold!WithinBudget(1)]_outreachVars

\* A bounce of the intro tells the client that another address is looked for.
\* That line does not stay: the search finds somebody, or says that it did
\* not, or could not be queued and says that, or Resend, Redis or the queue
\* failed it on the way. Excused is what the code leaves standing: a process
\* that died between the row write and the publish, a project the job could not
\* read, and a last line that could not be written.
SearchAnnounced ==
    row.status = "bookmarked" /\ row.contact \in {"intro_undelivered", "address_not_working"}
SearchEnds ==
    SearchAnnounced ~> (~SearchAnnounced
                        \/ Faults({"kill", "read_lost", "write_lost", "db_down"}) > 0)

\* What unbookmark/route.ts:5-9 says of its window, as a property of the row:
\* once the client has put the expert aside, no intro goes. It does not hold.
WithdrawnStaysQuiet ==
    [][row.status \in Withdrawn => row'.status # "contacted"]_outreachVars
=============================================================================
