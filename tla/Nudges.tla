------------------------------- MODULE Nudges --------------------------------
(* The one-line nudges to an expert who owes us an answer: the planner that   *)
(* runs every morning (jobs/schedule-nudges) and the job it publishes for     *)
(* eight o'clock (jobs/send-nudge). The planner decides on a project and a    *)
(* thread read before it publishes; the job decides everything again.         *)
EXTENDS OutreachState

----------------------------------------------------------------------------
(* The clock: day d is 2*d before eight in the morning, 2*d + 1 after it.     *)

PlannerReads(p) ==
    w' = [w EXCEPT ![p] = [Idle EXCEPT !.kind = "planner", !.row = row, !.pc = "n_plan"]]

\* A new day; nothing of the day before is still in flight or undelivered. The
\* planner runs; a walkthrough project is left alone.
Morning(p) ==
    /\ clock % 2 = 1 /\ clock < MaxClock /\ clock' = clock + 1
    /\ \A q \in Workers : w[q] = Idle
    /\ \A n \in nudgeJobs : NudgeDue(n[2].day) > clock
    /\ IF mode = "walkthrough" THEN UNCHANGED w ELSE PlannerReads(p)
    /\ UNCHANGED <<Record, Vendors, starts, faults>> /\ Unlisted

\* Eight o'clock. Handlers take seconds, not hours: none spans a tick.
Eight ==
    /\ clock % 2 = 0 /\ clock < MaxClock /\ clock' = clock + 1
    /\ \A q \in Workers : w[q] = Idle
    /\ UNCHANGED <<Record, Vendors, w, starts, faults>> /\ Unlisted

\* The cron provider calls the planner once more, whenever it likes.
CronTwice(p) ==
    /\ Fault("cron_twice") /\ w[p] = Idle /\ mode # "walkthrough"
    /\ PlannerReads(p)
    /\ UNCHANGED <<Record, Vendors, clock, starts>> /\ Unlisted

----------------------------------------------------------------------------
(* The planner.                                                              *)

Plausible(p) ==
    /\ w[p].row.address # NoAddress /\ w[p].row.token
    /\ ShouldSchedule(w[p].row, thread, clock)

\* The thread is read, the decision made on it and on the row read before;
\* then the job is published with the day, the stage and what is waited on.
\* Jobs carry no identity: a second one for the same morning is another copy.
Plan(p) ==
    /\ At(p, "n_plan") /\ Plausible(p)
    /\ LET nudge == [stage |-> NudgeStage(w[p].row.status),
                     since |-> WaitingSince(thread),
                     count |-> NudgesCounted(w[p].row, thread),
                     day   |-> NextNudgeDay(clock)]
           copy == CHOOSE k \in 0 .. Cardinality(nudgeJobs) : <<k, nudge>> \notin nudgeJobs
       IN /\ nudgeJobs' = nudgeJobs \cup {<<copy, nudge>>}
          /\ w' = [w EXCEPT ![p].job = nudge, ![p].pc = "n_state"]
    /\ UNCHANGED <<Record, mail, locks, jobs, events>> /\ Unlisted /\ Uncounted

PlanNothing(p) ==
    /\ At(p, "n_plan") /\ ~Plausible(p)
    /\ Finish(p)
    /\ UNCHANGED <<Record, Vendors>> /\ Unlisted /\ Uncounted

\* The state is written last; a job whose state was lost refuses to send.
PlanState(p) ==
    /\ At(p, "n_state")
    /\ row' = [row EXCEPT !.nudge = w[p].job]
    /\ Finish(p)
    /\ UNCHANGED <<thread, Vendors>> /\ Unlisted /\ Uncounted

PlanFails(p) ==
    /\ w[p].pc \in {"n_plan", "n_state"} /\ Fault("write_lost")
    /\ Finish(p)
    /\ UNCHANGED <<Record, Vendors, clock, starts>> /\ Unlisted

----------------------------------------------------------------------------
(* The job.                                                                  *)

TakesNudge(p, n) ==
    /\ NudgeDue(n[2].day) <= clock /\ w[p] = Idle
    /\ w' = [w EXCEPT ![p] = [Idle EXCEPT !.kind = "nudge", !.row = row, !.mode = mode,
                                          !.job = n[2], !.addr = row.address, !.pc = "n_check"]]
    /\ UNCHANGED <<Record, mail, locks, jobs, events>> /\ Unlisted

NudgeJob(p, n) ==
    /\ TakesNudge(p, n)
    /\ nudgeJobs' = nudgeJobs \ {n}
    /\ Uncounted

\* Retries are off, but QStash promises at least one delivery, not one.
NudgeAgain(p, n) ==
    /\ "redelivered" \in Ops /\ starts < MaxStarts /\ starts' = starts + 1
    /\ TakesNudge(p, n)
    /\ UNCHANGED <<nudgeJobs, clock, faults>>

\* Mutant: the state is not compared with the job.
MutStillWanted(p) ==
    LET before == w[p].row
        n == w[p].job
    IN /\ w[p].mode # "walkthrough"
       /\ NudgeStage(before.status) = n.stage
       /\ WaitingSince(thread) = n.since
       /\ before.nudge.count < MaxNudges
       /\ before.address # NoAddress /\ before.token

\* Everything the plan was made on is looked at again: the stage and the state
\* on the row just read, what is waited on in a thread read now.
StillWanted(p) ==
    LET before == w[p].row
        n == w[p].job
    IN /\ w[p].mode # "walkthrough"
       /\ NudgeStage(before.status) = n.stage
       /\ WaitingSince(thread) = n.since
       /\ before.nudge.day = n.day /\ before.nudge.stage = n.stage
       /\ before.nudge.since = n.since /\ before.nudge.count < MaxNudges
       /\ before.address # NoAddress /\ before.token

NudgeCheck(p) ==
    /\ At(p, "n_check")
    /\ IF StillWanted(p) THEN Goto(p, "n_list") ELSE Finish(p)
    /\ UNCHANGED <<Record, Vendors>> /\ Unlisted /\ Uncounted

\* writeNudgeState, over the state as read; a failed write is only logged.
WritesNudge(p, state) ==
    /\ \/ row' = [row EXCEPT !.nudge = state] /\ UNCHANGED faults
       \/ Fault("write_lost") /\ UNCHANGED row
    /\ Finish(p)
    /\ UNCHANGED <<thread, Vendors, clock, starts>> /\ Unlisted

\* Opted out since: the whole budget of the stage is retired.
NudgeRetire(p) ==
    /\ At(p, "n_list") /\ Suppressed(w[p].addr)
    /\ WritesNudge(p, [w[p].row.nudge EXCEPT !.count = MaxNudges, !.day = 0])

NudgeGate(p) ==
    /\ At(p, "n_list") /\ ~Suppressed(w[p].addr)
    /\ \/ GateOpens(w[p].addr) /\ Goto(p, "n_send")
       \/ (~GateOpens(w[p].addr) \/ "held" \in Ops) /\ Goto(p, "n_clear")
    /\ UNCHANGED <<Record, Vendors>> /\ Unlisted /\ Uncounted

Nudged(p) == mail' = [mail EXCEPT !.nudge[w[p].job.day] = @ + 1,
                                  !.later[w[p].addr] = @ + 1]

NudgeSent(p) ==
    /\ At(p, "n_send")
    /\ Nudged(p)
    /\ Goto(p, "n_append")
    /\ UNCHANGED <<Record, locks, jobs, nudgeJobs, events>> /\ Unlisted /\ Uncounted

\* A refusal, or an answer that was lost: nothing is counted either way.
NudgeRefused(p) ==
    /\ At(p, "n_send")
    /\ \/ Fault("resend_down") /\ UNCHANGED mail
       \/ Fault("answer_lost") /\ Nudged(p)
    /\ Goto(p, "n_clear")
    /\ UNCHANGED <<Record, locks, jobs, nudgeJobs, events, clock, starts>> /\ Unlisted

\* clearQueueSlot: the state as read, without its slot.
NudgeClear(p) ==
    At(p, "n_clear") /\ WritesNudge(p, [w[p].row.nudge EXCEPT !.day = 0])

NudgeAppend(p) ==
    /\ At(p, "n_append")
    /\ Stores("matchy", "nudge", "sent")
    /\ Goto(p, "n_count")
    /\ UNCHANGED <<row, Vendors, clock, starts>> /\ Unlisted

NudgeCount(p) ==
    /\ At(p, "n_count")
    /\ WritesNudge(p, [w[p].row.nudge EXCEPT !.count = @ + 1, !.day = 0])

NudgeStep(p) ==
    \/ Plan(p) \/ PlanNothing(p) \/ PlanState(p) \/ PlanFails(p)
    \/ \E n \in nudgeJobs : NudgeJob(p, n)
    \/ NudgeCheck(p) \/ NudgeRetire(p) \/ NudgeGate(p) \/ NudgeSent(p)
    \/ NudgeRefused(p) \/ NudgeClear(p) \/ NudgeAppend(p) \/ NudgeCount(p)
=============================================================================
