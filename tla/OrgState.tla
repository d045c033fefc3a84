------------------------------ MODULE OrgState ------------------------------
(* What the handlers of an organisation share: its membership rows, the      *)
(* claims every guard reads instead of them (app_metadata), the billing row, *)
(* the seat subscriptions and remembered idempotency keys at Stripe, and the *)
(* handlers in flight. A handler runs a list of edits - upsertUser, once per *)
(* edit - and the seat syncs that follow them, one action per database write *)
(* and per call to Stripe.                                                   *)
EXTENDS Integers, Sequences, FiniteSets

CONSTANTS Members, Staff,   \* people of the organisation; somebody of ExpertMatch
          Workers,          \* handlers that may be in flight at once
          Ops,              \* the requests and faults of a run
          MaxStarts,        \* requests in all
          MaxFaults,        \* kills, lost writes and refusals in all
          MaxSubs,          \* subscriptions that may ever exist
          Firsts            \* the rows and the billing it may start from

ASSUME MembersAssumption == IsFiniteSet(Members)
ASSUME BoundsAssumption ==
    MaxStarts \in Nat /\ MaxFaults \in Nat /\ MaxSubs \in Nat \ {0}

VARIABLES rows, claims, bill, subs, keys, open, excused, w, starts, faults

vars == <<rows, claims, bill, subs, keys, open, excused, w, starts, faults>>
Membership == <<rows, claims, excused>>
AtStripe == <<subs, keys>>

MemberStatuses == {"none", "pending", "active", "disabled"}
Person == [status : MemberStatuses, role : {"org_admin", "org_member"}]
Nobody == [status |-> "none", role |-> "org_member"]
Sub == [live : BOOLEAN, qty : Nat, winding : BOOLEAN]
NoSub == [live |-> FALSE, qty |-> 0, winding |-> FALSE]
NoKey == [sub |-> 0, qty |-> 0]

\* A handler at rest. "edits" are the upsertUser calls still to make, "changed"
\* whether the current one moved a status, "last" whether the route syncs the
\* seats itself at the end; "who" and "copy" belong to the claims, "n", "old",
\* "sub" and "view" to the sync: the seats counted, the id the billing row
\* named, and the subscription it works on, as it read it. "night" is the nightly
\* job, of which there is one at a time.
Idle == [pc |-> "idle", edits |-> <<>>, changed |-> FALSE, last |-> FALSE,
         who |-> Staff, copy |-> Nobody, n |-> 0, old |-> 0, sub |-> 0, view |-> NoSub,
         night |-> FALSE]

Active == {m \in Members : rows[m].status = "active"}

\* countOrgAdmins: a pending champion counts.
Champion(row) == row.role = "org_admin" /\ row.status \in {"pending", "active"}
Champions == {m \in Members : Champion(rows[m])}

\* An organisation begins with a champion; a membership that does not exist has
\* no role, and the billing row names the one subscription there may be.
ASSUME FirstsAssumption ==
    \A first \in Firsts :
        /\ first.rows \in [Members -> Person]
        /\ \A m \in Members : first.rows[m].status = "none" => first.rows[m] = Nobody
        /\ \E m \in Members : Champion(first.rows[m])
        /\ first.bill \in [done : BOOLEAN, sub : 0 .. 1, qty : 0 .. Cardinality(Members)]

OrgInit ==
    /\ \E first \in Firsts : rows = first.rows /\ bill = first.bill
    /\ claims = rows
    /\ subs = IF bill.sub = 0 THEN <<>>
              ELSE <<[live |-> TRUE, qty |-> Cardinality(Active), winding |-> FALSE]>>
    /\ keys = [k \in 0 .. MaxSubs |-> NoKey]
    /\ open = TRUE /\ excused = FALSE
    /\ w = [p \in Workers |-> Idle]
    /\ starts = 0 /\ faults = 0

----------------------------------------------------------------------------
At(p, pc) == w[p].pc = pc
Goto(p, pc) == w' = [w EXCEPT ![p].pc = pc]

\* Where a handler goes when a write or a sync is done: the sync upsertUser
\* makes for a changed status, its next edit, the route's own sync, the end.
\* The sync leaves nothing behind.
Onward(h) ==
    LET r == [h EXCEPT !.who = Staff, !.copy = Nobody, !.n = 0, !.old = 0,
                       !.sub = 0, !.view = NoSub]
    IN IF r.changed THEN [r EXCEPT !.pc = "count", !.changed = FALSE]
       ELSE IF r.edits # <<>> THEN [r EXCEPT !.pc = "row"]
       ELSE IF r.last THEN [r EXCEPT !.pc = "count", !.last = FALSE]
       ELSE Idle

Proceed(p) == w' = [w EXCEPT ![p] = Onward(w[p])]

\* A worker at rest; which of them takes a request makes no difference.
Free(p) == w[p] = Idle /\ p = CHOOSE q \in Workers : w[q] = Idle

\* A request somebody makes of an organisation that exists.
Request(p, op) ==
    /\ op \in Ops /\ open
    /\ Free(p)
    /\ starts < MaxStarts
    /\ starts' = starts + 1

Fault(op) == op \in Ops /\ faults < MaxFaults /\ faults' = faults + 1

\* The nightly job starts one of its sweeps.
Tonight(p, h) ==
    /\ open /\ \A q \in Workers : ~w[q].night
    /\ Free(p) /\ w' = [w EXCEPT ![p] = [h EXCEPT !.night = TRUE]]
    /\ UNCHANGED <<Membership, bill, AtStripe, open, starts, faults>>

\* The process dies between two steps.
Kill(p) ==
    /\ w[p] # Idle /\ Fault("kill")
    /\ w' = [w EXCEPT ![p] = Idle]
    /\ UNCHANGED <<Membership, bill, AtStripe, open, starts>>
=============================================================================
