------------------------------ MODULE Delivery -------------------------------
(* What comes back about a message: hard bounces and spam complaints from     *)
(* Resend (lib/deliveryEvents.ts), and the opt-out link (unsubscribe). Resend *)
(* delivers an event again until it is answered 2xx; the claim on its id      *)
(* (StripeEvents has the same protocol in full) keeps two handlers from one   *)
(* event, so an event waits in "events" until a handler has ended well.       *)
EXTENDS OutreachState

CONSTANT DeadAddresses  \* a message to one of these bounces

ASSUME DeadAddressesAssumption == DeadAddresses \subseteq Addresses

Event(kind, address, no) == [kind |-> kind, address |-> address, no |-> no]

\* The first message to a dead address bounces.
Bounces(a) ==
    /\ a \in DeadAddresses \ mail.bounced /\ mail.intro[a] > 0
    /\ mail' = [mail EXCEPT !.bounced = @ \cup {a}]
    /\ events' = events \cup {Event("bounce", a, 0)}
    /\ UNCHANGED <<Record, locks, jobs, nudgeJobs, w>> /\ Unlisted /\ Uncounted

\* A person who got a message may complain about it,
Complains(a) ==
    /\ "complain" \in Ops /\ starts < MaxStarts /\ starts' = starts + 1
    /\ a \notin DeadAddresses /\ mail.intro[a] > 0
    /\ events' = events \cup {Event("complaint", a, starts')}
    /\ UNCHANGED <<Record, mail, locks, jobs, nudgeJobs, w, mode, suppressed, clock, faults>>

\* or follow the opt-out link in its footer: one write to the list.
Unsubscribe(a) ==
    /\ "unsubscribe" \in Ops /\ starts < MaxStarts /\ starts' = starts + 1
    /\ a \notin DeadAddresses /\ mail.intro[a] > 0 /\ a \notin suppressed
    /\ suppressed' = suppressed \cup {a}
    /\ UNCHANGED <<Record, Vendors, mode, w, clock, faults>>

EventOf(p) == Event(w[p].kind, w[p].addr, w[p].at)

\* The event is answered: done and never delivered again.
Acknowledge(p) == events' = events \ {EventOf(p)} /\ Finish(p)

\* A handler takes an event that no other handler has.
TakesEvent(p, e, pc) ==
    /\ e \in events /\ w[p] = Idle /\ \A q \in Workers : EventOf(q) # e
    /\ w' = [w EXCEPT ![p] = [Idle EXCEPT !.pc = pc, !.kind = e.kind, !.at = e.no,
                             !.addr = e.address, !.row = row, !.mode = mode]]
    /\ UNCHANGED <<Record, Vendors>> /\ Unlisted /\ Uncounted

\* The engagement is the one that holds the address now; a bounce or a reply
\* that matches none is acknowledged, a complaint is listed all the same.
DeliveryEvent(p, e) ==
    /\ e.kind = "complaint" \/ (e.kind = "bounce" /\ row.address = e.address)
    /\ TakesEvent(p, e, "d_list")

Unmatched(e) ==
    /\ e.kind # "complaint" /\ row.address # e.address
    /\ \A q \in Workers : EventOf(q) # e
    /\ events' = events \ {e}
    /\ UNCHANGED <<Record, mail, locks, jobs, nudgeJobs, w>> /\ Unlisted /\ Uncounted

\* Listed first: the row stops holding the address in the next write, and a
\* redelivery could not find it any more.
DeliveryLists(p) ==
    /\ At(p, "d_list")
    /\ suppressed' = suppressed \cup {w[p].addr}
    /\ w' = [w EXCEPT ![p].mode = mode, ![p].pc = "d_row"]
    /\ UNCHANGED <<Record, Vendors, mode>> /\ Uncounted

\* planHardBounce, run inside mutateExpert on the row as it stands, and its note.
BounceRow(p) ==
    /\ At(p, "d_row") /\ w[p].kind = "bounce"
    /\ LET walkthrough == w[p].mode = "walkthrough"
       IN IF ~HardBounceActs(row, w[p].addr)
          THEN Acknowledge(p) /\ UNCHANGED Record
          ELSE /\ row' = PlanHardBounce(row, walkthrough)
               /\ Append1("matchy", "note", "sent")
               /\ IF BounceStartsSearch(row, walkthrough)
                  THEN Goto(p, "d_search") /\ UNCHANGED events
                  ELSE Acknowledge(p)
    /\ UNCHANGED <<mail, locks, jobs, nudgeJobs>> /\ Unlisted /\ Uncounted

\* An unreadable project is taken for one that is gone: the handler returns and
\* the event is answered.
Unread(p) ==
    /\ w[p].pc \in {"d_row", "r_store"} /\ Fault("read_lost")
    /\ Acknowledge(p)
    /\ UNCHANGED <<Record, mail, locks, jobs, nudgeJobs, clock, starts>> /\ Unlisted

BounceSearch(p) ==
    /\ At(p, "d_search")
    /\ jobs' = jobs + 1
    /\ Acknowledge(p)
    /\ UNCHANGED <<Record, mail, locks, nudgeJobs>> /\ Unlisted /\ Uncounted

\* Mutant: a search that could not be queued says nothing.
MutBounceSearchFailed(p) ==
    /\ At(p, "d_search") /\ Fault("queue_down")
    /\ Acknowledge(p)
    /\ UNCHANGED <<Record, mail, locks, jobs, nudgeJobs, clock, starts>> /\ Unlisted

BounceSearchFailed(p) ==
    /\ At(p, "d_search") /\ Fault("queue_down")
    /\ Goto(p, "d_failed")
    /\ UNCHANGED <<Record, Vendors, clock, starts>> /\ Unlisted

\* searchNotStarted: only over the line this handler has just written; a write
\* that fails is caught, and the line stands.
BounceSearchNotStarted(p) ==
    /\ At(p, "d_failed")
    /\ \/ /\ IF row.status = "bookmarked" /\ row.contact \in {"intro_undelivered", "address_not_working"}
             THEN row' = [row EXCEPT !.contact = "intro_failed"]
                  /\ Append1("matchy", "note", "sent")
             ELSE UNCHANGED Record
          /\ UNCHANGED faults
       \/ Fault("write_lost") /\ UNCHANGED Record
    /\ Acknowledge(p)
    /\ UNCHANGED <<mail, locks, jobs, nudgeJobs, clock, starts>> /\ Unlisted

ComplaintRow(p) ==
    /\ At(p, "d_row") /\ w[p].kind = "complaint"
    /\ IF ComplaintActs(row, w[p].addr)
       THEN /\ row' = PlanComplaint(row)
            /\ IF IsOutreachLive(row.status)
               THEN Append1("matchy", "note", "sent") ELSE UNCHANGED thread
       ELSE UNCHANGED Record
    /\ Acknowledge(p)
    /\ UNCHANGED <<mail, locks, jobs, nudgeJobs>> /\ Unlisted /\ Uncounted

DeliveryStep(p) ==
    \/ \E e \in events : DeliveryEvent(p, e) \/ Unmatched(e)
    \/ DeliveryLists(p) \/ BounceRow(p) \/ ComplaintRow(p) \/ Unread(p)
    \/ BounceSearch(p) \/ BounceSearchFailed(p) \/ BounceSearchNotStarted(p)
=============================================================================
