---------------------------- MODULE OutreachState ----------------------------
(* What the outreach handlers share: one expert's row on one project, the     *)
(* thread with that expert, the project's sending mode, the do-not-contact    *)
(* list, the intro lock in Redis, the jobs QStash and the events Resend still *)
(* have to deliver, and the handlers in flight. Every handler is a short      *)
(* program: one action per database write, per read it decides on, and per    *)
(* call to Resend.                                                            *)
EXTENDS OutreachGuards

CONSTANTS Workers,      \* handlers that may be in flight at once
          Ops,          \* the requests, jobs, events and faults of a run
          MaxStarts,    \* requests, replies, cron runs and complaints in all
          MaxFaults,    \* kills, lost answers and outages in all
          MaxClock,     \* half-days that may pass
          FirstRecords, \* the rows, each with its thread, before anything happens
          FirstModes    \* the sending modes the project may start in

ASSUME BoundsAssumption == MaxStarts \in Nat /\ MaxFaults \in Nat /\ MaxClock \in Nat

VARIABLES row, thread, mode, suppressed, mail, locks, jobs, nudgeJobs, events,
          w, clock, starts, faults

Record == <<row, thread>>
Vendors == <<mail, locks, jobs, nudgeJobs, events>>
outreachVars == <<row, thread, mode, suppressed, mail, locks, jobs, nudgeJobs,
                  events, w, clock, starts, faults>>

Modes == {"walkthrough", "review", "live"}

\* A handler at rest. "row" is the row as it last read it, "mode" the mode its
\* project read showed, "addr" the address it works with, "draft" whether the
\* step may only draft, "held" a hold the chokepoint answered, "at" the draft
\* it releases or the number of its event, and "job" the nudge job it was given.
Idle == [pc |-> "idle", kind |-> "none", mode |-> "live",
         row |-> (CHOOSE r \in FirstRecords : TRUE).row,
         addr |-> NoAddress, draft |-> FALSE, held |-> FALSE, at |-> 0,
         job |-> NoNudge]

OutreachInit ==
    /\ \E first \in FirstRecords : row = first.row /\ thread = first.thread
    /\ mode \in FirstModes
    /\ suppressed = {}
    /\ mail = [intro |-> [a \in Addresses |->
                             IF row.claim = "fresh" /\ row.address = a THEN 1 ELSE 0],
               later |-> [a \in Addresses |-> 0], followup |-> 0, terms |-> 0,
               nudge |-> [d \in 1 .. MaxClock |-> 0], bounced |-> {}]
    /\ locks = {}
    /\ jobs = 0
    /\ nudgeJobs = {}
    /\ events = {}
    /\ w = [p \in Workers |-> Idle]
    /\ clock = 1
    /\ starts = 0
    /\ faults = <<>>

NudgeType ==
    [stage : Stages \cup {"none"}, since : Nat, count : 0 .. MaxNudges, day : Nat]

RowType ==
    [status : Statuses, contact : ContactStatuses, claim : Claims,
     address : Addresses \cup {NoAddress}, bounced : SUBSET Addresses,
     line : {"none", "needed", "set"}, token : BOOLEAN, complained : BOOLEAN,
     followed : BOOLEAN, counter : Nat, agreed : BOOLEAN, nudge : NudgeType]

MessageType ==
    [from : {"matchy", "expert"},
     what : {"note", "reply", "auto", "followup", "rate", "times", "nudge"},
     went : {"sent", "pending", "held"}]

ASSUME WorkersAssumption == IsFiniteSet(Workers)
ASSUME FirstModesAssumption == FirstModes \subseteq Modes
ASSUME FirstRecordsAssumption ==
    /\ FirstRecords # {}
    /\ \A first \in FirstRecords :
          first.row \in RowType /\ first.thread \in Seq(MessageType)

\* What the shared variables may hold.
TypeOK ==
    /\ row \in RowType
    /\ \A i \in DOMAIN thread : thread[i] \in MessageType
    /\ mode \in Modes /\ suppressed \subseteq Addresses
    /\ mail \in [intro : [Addresses -> Nat], later : [Addresses -> Nat],
                  followup : Nat, terms : Nat, nudge : [1 .. MaxClock -> Nat],
                  bounced : SUBSET Addresses]
    /\ \A key \in locks : key \in 0 .. Cardinality(Addresses)
    /\ \A n \in nudgeJobs : n[2] \in NudgeType
    /\ \A p \in Workers : w[p].row \in RowType /\ w[p].job \in NudgeType
    /\ clock \in 1 .. MaxClock + 1 /\ starts \in 0 .. MaxStarts
    /\ Len(faults) <= MaxFaults

----------------------------------------------------------------------------
(* Steps of a handler.                                                       *)

At(p, pc) == w[p].pc = pc
Goto(p, pc) == w' = [w EXCEPT ![p].pc = pc]
Finish(p) == w' = [w EXCEPT ![p] = Idle]

\* A request somebody makes.
Request(p, op) ==
    /\ op \in Ops
    /\ w[p] = Idle
    /\ starts < MaxStarts
    /\ starts' = starts + 1

\* A fault of one operation, counted against MaxFaults.
Fault(op) == op \in Ops /\ Len(faults) < MaxFaults /\ faults' = Append(faults, op)

\* How many faults of these operations there have been.
Faults(ops) == Cardinality({i \in DOMAIN faults : faults[i] \in ops})

Append1(from, what, went) ==
    thread' = Append(thread, [from |-> from, what |-> what, went |-> went])

\* appendMessage answers null when the insert is refused, and its callers do not
\* look at the answer.
Stores(from, what, went) ==
    \/ Append1(from, what, went) /\ UNCHANGED faults
    \/ Fault("append_lost") /\ UNCHANGED thread

\* isSuppressed, read fresh. An outage reads as "cannot tell", and every
\* caller refuses on it; that is a refusal the model may always choose.
Suppressed(address) == address \in suppressed

\* Mutant: the list is left to the callers.
MutGateOpens(address) == mode # "walkthrough"

\* resolveSendGate on facts read fresh at the chokepoint; the switch for the
\* whole environment, the card on file and the firm's own list are the refusal
\* that "held" in Ops allows at any time.
GateOpens(address) == mode # "walkthrough" /\ ~Suppressed(address)

\* The process dies. What it wrote stays; a job is not delivered again (its
\* retries are off), an event is.
Kill(p) ==
    /\ w[p] # Idle /\ Fault("kill")
    /\ Finish(p)
    /\ UNCHANGED <<Record, Vendors, clock, starts, suppressed, mode>>

\* PUT .../projects/[id]: the owner flips the mode; going live without
\* saying more lands on review-first.
SetMode(m) ==
    /\ "mode" \in Ops /\ starts < MaxStarts /\ starts' = starts + 1
    /\ m # mode /\ mode' = m
    /\ UNCHANGED <<Record, Vendors, suppressed, w, clock, faults>>

Unlisted == UNCHANGED <<suppressed, mode>>
Uncounted == UNCHANGED <<clock, starts, faults>>
=============================================================================
