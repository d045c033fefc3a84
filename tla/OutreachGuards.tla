--------------------------- MODULE OutreachGuards ---------------------------
(* The decisions of the outreach code, as operators over one expert's row and *)
(* one thread: may an intro still go, what a bounce or a complaint does to    *)
(* the row, which thread is being waited on and whether it is nudged.         *)
(* lib/outreachSteps.ts, lib/deliveryEvents.ts, lib/nudges.ts; none of these  *)
(* reads or writes anything.                                                  *)
EXTENDS Naturals, Sequences, FiniteSets

CONSTANTS Addresses,         \* the e-mail addresses one expert may have
          NoAddress,         \* no address on the row
          MaxBounceRetries,  \* MAX_BOUNCE_RETRIES: searches after a bounce
          MaxNudges          \* MAX_NUDGES: nudges in one waiting stage

ASSUME AddressesAssumption == IsFiniteSet(Addresses)
ASSUME NoAddressAssumption == NoAddress \notin Addresses
ASSUME BounceRetriesAssumption == MaxBounceRetries \in Nat
ASSUME MaxNudgesAssumption == MaxNudges \in Nat \ {0}

----------------------------------------------------------------------------
(* Statuses. 'contact_found' and 'email2_sent' are in the code's sets but    *)
(* nothing writes them any more; 'scheduled' and later are CallBooking's.    *)

IntroStage == {"bookmarked", "outreach_drafted", "contacted"}

AfterReplyStage == {"replied", "followup_sent", "rate_negotiation",
                    "conflict_flagged", "scheduling_sent"}

\* A client has put the expert aside; no handler is working the engagement.
Withdrawn == {"discovered", "shortlisted", "rejected", "rejected_after_outreach"}

Statuses == IntroStage \cup AfterReplyStage \cup Withdrawn

ContactStatuses ==
    {"none", "contact_found", "contact_not_found", "no_other_address",
     "contact_suppressed", "contact_check_unavailable", "contact_stopped",
     "contact_discovery_unavailable", "contact_lost", "walkthrough_held",
     "intro_sent", "intro_drafted", "intro_failed", "intro_undelivered",
     "address_not_working"}

Bookmarkable == {"discovered", "shortlisted", "bookmarked"}

IsOutreachLive(status) == status \in IntroStage \cup AfterReplyStage

----------------------------------------------------------------------------
(* The send-once rule. A claim is what email1SentAt and outreachStep say;    *)
(* "stale" is a claim made at or before the last recorded bounce.            *)

Claims == {"none", "fresh", "stale"}

ClaimPredatesBounce(row) ==
    /\ row.address # NoAddress
    /\ row.bounced # {}
    /\ row.address \notin row.bounced
    /\ row.claim = "stale"

IntroAlreadySent(row) == row.claim # "none" /\ ~ClaimPredatesBounce(row)

\* The key of the Redis lock on one intro: how many addresses have bounced.
LockKey(row) == Cardinality(row.bounced)

----------------------------------------------------------------------------
(* Nudges. The instant a message was stored is its place in the thread.      *)

Stages == {"intro", "terms", "times"}

NudgeStage(status) ==
    CASE status = "contacted" -> "intro"
      [] status \in {"followup_sent", "rate_negotiation"} -> "terms"
      [] status = "scheduling_sent" -> "times"
      [] OTHER -> "none"

NoNudge == [stage |-> "none", since |-> 0, count |-> 0, day |-> 0]

\* Messages that count: drafts and holds never went, and an automatic reply
\* is not the expert answering.
Spoken(thread) ==
    {i \in DOMAIN thread : thread[i].went = "sent" /\ thread[i].what # "auto"}

\* When the message that is being waited on was stored; 0 when the last word
\* is the expert's, or nothing was said.
WaitingSince(thread) ==
    IF Spoken(thread) = {} THEN 0
    ELSE LET last == CHOOSE i \in Spoken(thread) : \A j \in Spoken(thread) : j <= i
         IN IF thread[last].from = "expert" THEN 0 ELSE last

SameStage(row, thread) ==
    /\ row.nudge.stage = NudgeStage(row.status)
    /\ row.nudge.since = WaitingSince(thread)

\* Nudges already counted in the stage that is being waited on.
NudgesCounted(row, thread) == IF SameStage(row, thread) THEN row.nudge.count ELSE 0

\* Clock ticks: day d is 2*d before eight in the morning and 2*d + 1 after.
NextNudgeDay(clock) == (clock + 1) \div 2
NudgeDue(day) == 2 * day + 1

ShouldSchedule(row, thread, clock) ==
    /\ NudgeStage(row.status) # "none"
    /\ WaitingSince(thread) # 0
    /\ SameStage(row, thread) =>
          /\ row.nudge.count < MaxNudges
          /\ ~(row.nudge.day # 0 /\ NudgeDue(row.nudge.day) > clock)

----------------------------------------------------------------------------
(* Bounces and complaints, as the whole row they write.                      *)

BounceAction(row) ==
    IF row.status \in IntroStage
    THEN IF Cardinality(row.bounced \cup {row.address}) <= MaxBounceRetries
         THEN "retry" ELSE "give_up"
    ELSE IF row.status \in AfterReplyStage THEN "record_only" ELSE "ignore"

HardBounceActs(row, address) ==
    row.address = address /\ BounceAction(row) # "ignore"

BounceOutcome(row, walkthrough) ==
    CASE BounceAction(row) = "record_only" -> "contact_lost"
      [] BounceAction(row) = "give_up" -> "no_other_address"
      [] walkthrough -> "walkthrough_held"
      [] IntroAlreadySent(row) -> "intro_undelivered"
      [] OTHER -> "address_not_working"

PlanHardBounce(row, walkthrough) ==
    [row EXCEPT !.bounced = @ \cup {row.address},
                !.claim   = IF @ = "none" THEN @ ELSE "stale",
                !.address = NoAddress,
                !.nudge   = NoNudge,
                !.contact = BounceOutcome(row, walkthrough),
                !.status  = IF BounceAction(row) = "record_only"
                            THEN @ ELSE "bookmarked"]

BounceStartsSearch(row, walkthrough) ==
    BounceAction(row) = "retry" /\ ~walkthrough

ComplaintActs(row, address) ==
    row.address = address /\ (IsOutreachLive(row.status) \/ ~row.complained)

PlanComplaint(row) ==
    IF IsOutreachLive(row.status)
    THEN [row EXCEPT !.status = "rejected_after_outreach", !.complained = TRUE,
                     !.contact = "contact_stopped", !.nudge = NoNudge]
    ELSE [row EXCEPT !.complained = TRUE, !.nudge = NoNudge]
=============================================================================
