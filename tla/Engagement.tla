----------------------------- MODULE Engagement -----------------------------
(***************************************************************************)
(* The state the money handlers share, and what a handler is: a request, a *)
(* webhook delivery or a sweep that runs in steps between which any other  *)
(* handler may move.  A step is one round trip: a read of the row, a write *)
(* of some of its fields, or a call of Stripe.  A write goes through       *)
(* mutateExpert, so it changes the row of that moment in one step (theorem *)
(* NoLostWrite of RowAndEventProofs); what a handler READ may be stale.    *)
(***************************************************************************)
EXTENDS StripeLedger

CONSTANTS
    Procs,        \* handlers that can overlap
    Ops,          \* operations a run of TLC lets happen
    Bookings,     \* whether the engagement starts with a booked call
    MaxStarts,    \* bound: requests people and Zoom make
    MaxFaults     \* bound: crashes, lost answers, outages, redeliveries

ASSUME BookingsAssumption == Bookings \subseteq BOOLEAN
ASSUME BoundsAssumption == MaxStarts \in Nat /\ MaxFaults \in Nat

VARIABLES
    pe,           \* the project_experts row; its fields are in MoneyGuards
    proc,         \* proc[p]: where handler p is and what it remembers
    alerts,       \* system_events raised, by what they are about
    acct,         \* the expert's Connect account: "none", "open", "done"
    window,       \* the guarantee's window: "before", "open", "closed"
    starts,
    faults

envVars == <<acct, window>>
vars == <<pe, proc, moneyVars, inbox, alerts, envVars, starts, faults>>

Step == {"idle",
         "void", "voidOnly", "completeFlagged", "completeWrite",
         "readInvoice", "reset", "charge", "recordCharge",
         "createLink", "recordLink", "stampFee",
         "both", "clientNoShow", "expertNoShow", "remove", "neither", "unknown",
         "settle", "settleEnded", "settlePaid", "refund", "offLink", "waive",
         "readPayout", "hold", "park", "parkAccount", "transfer",
         "recordTransfer", "bookkeep", "recordFail",
         "markPaid", "markFailed", "markRefunded", "recordRefund"}

Endings == {"no", "inside", "late"}

\* id, min  the charge and minutes in hand;  ref  an intent or a link;
\* by  the request;  ev  the event being processed;  fresh  id was just
\* minted;  flagged, fee, ended, paidIds, attempts  what the handler read.
Frame ==
    [pc : Step, id : Charge, min : AllMinutes, ref : Nat,
     by : {"none", "complete", "attendance", "fee"}, ev : Event \cup {NoEvent},
     fresh : BOOLEAN, flagged : BOOLEAN, fee : BOOLEAN, ended : Endings,
     paidIds : SUBSET ChargeId, attempts : 0 .. MaxAttempts]

Idle == [pc |-> "idle", id |-> None, min |-> 0, ref |-> 0, by |-> "none",
         ev |-> NoEvent, fresh |-> FALSE, flagged |-> FALSE, fee |-> FALSE,
         ended |-> "no", paidIds |-> {}, attempts |-> 0]

Row ==
    [status : Statuses, booked : BOOLEAN, cancelled : BOOLEAN, ended : Endings,
     callMin : AllMinutes, actualMin : AllMinutes,
     minted : Manuals \cup {None}, flagged : BOOLEAN, pay : PayStatuses,
     billed : Charge, intent : 0 .. MaxIntents, link : 0 .. MaxLinks,
     feeFor : BOOLEAN, onb : OnbStatuses, attempts : 0 .. MaxAttempts,
     account : BOOLEAN, transfer : BOOLEAN, paid : SUBSET ChargeId]

TypeOK ==
    /\ pe \in Row
    /\ proc \in [Procs -> Frame]
    /\ LedgerTypeOK
    /\ alerts \subseteq {"payout", "mismatch", "payment", "stale"}
    /\ acct \in {"none", "open", "done"}
    /\ window \in {"before", "open", "closed"}
    /\ starts \in 0 .. MaxStarts
    /\ faults \in 0 .. MaxFaults

Init ==
    /\ \E b \in Bookings :
          pe = [status |-> IF b THEN "scheduled" ELSE "open",
                booked |-> b, cancelled |-> FALSE, ended |-> "no",
                callMin |-> 0, actualMin |-> 0, minted |-> None,
                flagged |-> FALSE, pay |-> "none", billed |-> None,
                intent |-> 0, link |-> 0, feeFor |-> FALSE, onb |-> "none",
                attempts |-> 0, account |-> FALSE, transfer |-> FALSE,
                paid |-> {}]
    /\ proc = [p \in Procs |-> Idle]
    /\ LedgerInit
    /\ alerts = {}
    /\ acct \in {"none", "done"}
    /\ window = "before"
    /\ starts = 0
    /\ faults = 0

-----------------------------------------------------------------------------
At(p, l) == proc[p].pc = l

\* A handler's frame with only its place changed.
To(p, l) == [proc[p] EXCEPT !.pc = l]

Move(p, frame) == proc' = [proc EXCEPT ![p] = frame] /\ UNCHANGED inbox

\* The handler is over; an event it was processing is acknowledged.
Done(p) ==
    /\ proc' = [proc EXCEPT ![p] = Idle]
    /\ inbox' = inbox \ {proc[p].ev}

\* A request of kind `op` arrives.
Start(p, op) ==
    /\ op \in Ops
    /\ At(p, "idle")
    /\ starts < MaxStarts
    /\ starts' = starts + 1
    /\ UNCHANGED faults

Fault == faults < MaxFaults /\ faults' = faults + 1 /\ UNCHANGED starts

\* A step that is neither.
Running == UNCHANGED <<starts, faults>>

Alert(what) == alerts' = alerts \cup {what}

\* What a step leaves alone.
OnlyRow == UNCHANGED <<moneyVars, alerts, envVars>>
OnlyRead == UNCHANGED <<pe, moneyVars, alerts, envVars>>
=============================================================================
