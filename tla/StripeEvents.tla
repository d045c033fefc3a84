---------------------------- MODULE StripeEvents ----------------------------
(***************************************************************************)
(* How the deliveries of ONE Stripe event are kept from doing its work     *)
(* twice.  handleStripeEvent claims the event in Redis (a done marker and  *)
(* a processing lease), does the work, writes the marker and releases the  *)
(* lease.  Stripe redelivers until it reads a 200, and may deliver twice   *)
(* at once.  The work itself is one step here; CallMoney opens it up.      *)
(*                                                                         *)
(* A worker is one run of the route with its own random owner id.  A       *)
(* worker that has answered, or was killed, while Redis still holds its    *)
(* lease is "gone"; its slot serves a new delivery once the lease is out.  *)
(* RowAndEventProofs extends this module beside ExpertRow, hence EventInit, *)
(* EventNext and so on.                                                    *)
(***************************************************************************)
EXTENDS Naturals, FiniteSets

CONSTANTS
    Workers,     \* runs of the route that can overlap
    None,        \* no worker: the lease key is absent
    MaxFaults    \* bound: Redis outages, failed reads and writes of the work,
                 \* killed workers and leases that outlive their 300 seconds

ASSUME WorkersAssumption == IsFiniteSet(Workers) /\ None \notin Workers
ASSUME FaultsAssumption == MaxFaults \in Nat

VARIABLES
    done,        \* stripe-done:v2:<id> is set
    lease,       \* owner stored under stripe-processing:v2:<id>, or None
    pc,          \* pc[w]: where worker w is
    runs,        \* how often the event's work has been carried out
    gone,        \* the engagement, or the Stripe object, no longer exists
    misread,     \* a read of it failed and was taken for its absence
    acked,       \* Stripe has read a 200
    faults       \* faults so far

eventVars == <<done, lease, pc, runs, gone, misread, acked, faults>>

Steps == {"idle", "lookup", "lock", "recheck", "work", "mark", "release",
          "answer", "drop", "gone"}

EventTypeOK ==
    /\ done \in BOOLEAN
    /\ lease \in Workers \cup {None}
    /\ pc \in [Workers -> Steps]
    /\ runs \in Nat
    /\ gone \in BOOLEAN
    /\ misread \in BOOLEAN
    /\ acked \in BOOLEAN
    /\ faults \in 0 .. MaxFaults

EventInit ==
    /\ done = FALSE
    /\ lease = None
    /\ pc = [w \in Workers |-> "idle"]
    /\ runs = 0
    /\ gone = FALSE
    /\ misread = FALSE
    /\ acked = FALSE
    /\ faults = 0

-----------------------------------------------------------------------------
At(w, from, to) == pc[w] = from /\ pc' = [pc EXCEPT ![w] = to]

Fault == faults < MaxFaults /\ faults' = faults + 1

\* Where a worker ends up that answers, or dies, without releasing anything.
Left(w) == IF lease = w THEN "gone" ELSE "idle"

\* Stripe delivers the event, for the first time or again.
Deliver(w) ==
    /\ At(w, "idle", "lookup")
    /\ UNCHANGED <<done, lease, runs, gone, misread, acked, faults>>

\* get(done) finds the marker: answer `duplicate`, a 200.
AnswerDuplicate(w) ==
    /\ done
    /\ At(w, "lookup", Left(w))
    /\ acked' = TRUE
    /\ UNCHANGED <<done, lease, runs, gone, misread, faults>>

Lookup(w) ==
    /\ ~done
    /\ At(w, "lookup", "lock")
    /\ UNCHANGED <<done, lease, runs, gone, misread, acked, faults>>

\* Mutant: the marker is not read again under the lease.
MutLock(w) ==
    /\ lease = None
    /\ At(w, "lock", "work")
    /\ lease' = w
    /\ UNCHANGED <<done, runs, gone, misread, acked, faults>>

\* SET NX EX 300 takes the lease.
Lock(w) ==
    /\ lease = None
    /\ At(w, "lock", "recheck")
    /\ lease' = w
    /\ UNCHANGED <<done, runs, gone, misread, acked, faults>>

\* Mutant: a busy delivery is acknowledged.
MutAnswerBusy(w) ==
    /\ lease # None
    /\ At(w, "lock", Left(w))
    /\ acked' = TRUE
    /\ UNCHANGED <<done, lease, runs, gone, misread, faults>>

\* SET NX loses: answer 500, so that Stripe delivers again.
AnswerBusy(w) ==
    /\ lease # None
    /\ At(w, "lock", Left(w))
    /\ UNCHANGED <<done, lease, runs, gone, misread, acked, faults>>

\* The marker appeared since the first look: give the lease back and answer
\* `duplicate`.
RecheckDone(w) ==
    /\ done
    /\ At(w, "recheck", "drop")
    /\ UNCHANGED <<done, lease, runs, gone, misread, acked, faults>>

Recheck(w) ==
    /\ ~done
    /\ At(w, "recheck", "work")
    /\ UNCHANGED <<done, lease, runs, gone, misread, acked, faults>>

\* Any Redis call of the claim throws: process the event without a lease, or
\* with the one a lost answer did set.
ClaimFailsOpen(w) ==
    /\ Fault
    /\ \E from \in {"lookup", "lock", "recheck", "drop"} : At(w, from, "work")
    /\ lease' \in IF pc[w] = "lock" /\ lease = None THEN {None, w} ELSE {lease}
    /\ UNCHANGED <<done, runs, gone, misread, acked>>

\* The branches of handleStripeEvent run to their end.
Work(w) ==
    /\ ~gone
    /\ At(w, "work", "mark")
    /\ runs' = runs + 1
    /\ UNCHANGED <<done, lease, gone, misread, acked, faults>>

\* The engagement or the Stripe object no longer exists: a failure row is
\* recorded and the event is acknowledged like one whose work is done.
FindUnprocessable(w) ==
    /\ gone
    /\ At(w, "work", "mark")
    /\ UNCHANGED <<done, lease, runs, gone, misread, acked, faults>>

\* A read of the engagement fails.  The store answers it like a missing row, so
\* it ends in `Project not found` or `Expert not found`, or in a branch that
\* returns without a row, and the event is acknowledged all the same.
Misread(w) ==
    /\ Fault
    /\ At(w, "work", "mark")
    /\ misread' = TRUE
    /\ UNCHANGED <<done, lease, runs, gone, acked>>

\* Any other failure makes the work throw: record it, release the lease and
\* answer 500.
WorkFails(w) ==
    /\ Fault
    /\ At(w, "work", "release")
    /\ UNCHANGED <<done, lease, runs, gone, misread, acked>>

\* The engagement is deleted, or the object at Stripe.
Vanish ==
    /\ ~gone
    /\ gone' = TRUE
    /\ UNCHANGED <<done, lease, pc, runs, misread, acked, faults>>

\* completeEvent writes the marker; a failure to write it is swallowed.
Mark(w) ==
    /\ At(w, "mark", "answer")
    /\ \/ done' = TRUE /\ UNCHANGED faults
       \/ Fault /\ UNCHANGED done
    /\ UNCHANGED <<lease, runs, gone, misread, acked>>

\* Mutant: a plain DEL of the lease key.
MutFree(w) == None

\* releaseLockIfOwner compares and deletes in one script.
Free(w) == IF lease = w THEN None ELSE lease

\* The `finally` of handleStripeEvent, then the answer: a 200 if the work was
\* done, a 500 if it threw.  A failure to release is swallowed.
Release(w) ==
    /\ \E from \in {"release", "answer"} :
          /\ \/ At(w, from, "idle") /\ lease' = Free(w) /\ UNCHANGED faults
             \/ At(w, from, Left(w)) /\ Fault /\ UNCHANGED lease
          /\ acked' = (acked \/ from = "answer")
    /\ UNCHANGED <<done, runs, gone, misread>>

\* The release inside the claim, before the answer `duplicate`.
Drop(w) ==
    /\ At(w, "drop", "idle")
    /\ lease' = Free(w)
    /\ acked' = TRUE
    /\ UNCHANGED <<done, runs, gone, misread, faults>>

\* The function is killed at any point; Stripe reads no answer.
Kill(w) ==
    /\ Fault
    /\ pc[w] \notin {"idle", "gone"}
    /\ pc' = [pc EXCEPT ![w] = Left(w)]
    /\ UNCHANGED <<done, lease, runs, gone, misread, acked>>

\* Mutant: the lease is taken without EX.
MutExpire ==
    /\ lease # None
    /\ pc[lease] # "gone"
    /\ lease' = None
    /\ Fault
    /\ UNCHANGED <<done, pc, runs, gone, misread, acked>>

\* The lease's 300 seconds are over: for a worker that left without releasing
\* it, or, as a fault, for one that is still at work.
Expire ==
    /\ lease # None
    /\ lease' = None
    /\ \/ pc[lease] = "gone" /\ pc' = [pc EXCEPT ![lease] = "idle"]
                             /\ UNCHANGED faults
       \/ pc[lease] # "gone" /\ Fault /\ UNCHANGED pc
    /\ UNCHANGED <<done, runs, gone, misread, acked>>

Handle(w) ==
    \/ AnswerDuplicate(w) \/ Lookup(w) \/ Lock(w) \/ AnswerBusy(w)
    \/ RecheckDone(w) \/ Recheck(w) \/ Work(w) \/ FindUnprocessable(w)
    \/ Mark(w) \/ Release(w) \/ Drop(w)

EventNext ==
    \/ Expire \/ Vanish
    \/ \E w \in Workers :
          \/ Deliver(w) \/ Handle(w)
          \/ ClaimFailsOpen(w) \/ Misread(w) \/ WorkFails(w) \/ Kill(w)

EventSpec == EventInit /\ [][EventNext]_eventVars

\* A running function makes progress, Redis honours the lease's EX, and Stripe
\* redelivers until it has read a 200.
FairSpec ==
    /\ EventSpec
    /\ WF_eventVars(Expire)
    /\ \A w \in Workers : WF_eventVars(Handle(w)) /\ WF_eventVars(~acked /\ Deliver(w))

-----------------------------------------------------------------------------
\* Stripe stops redelivering, and the marker turns redeliveries away, only
\* when the event's work has been carried out, or what it is about is gone or
\* was taken to be gone on a failed read: a busy delivery, a failed write, a
\* provider's outage, a kill and a half-done run never silence the event.
NothingLost == acked \/ done => runs > 0 \/ gone \/ misread

\* It does not hold: isUnprocessableWebhookError tells a missing engagement "as
\* distinct from a transient store" outage by a message which a failed read of
\* the store raises as well.
OnlyTheGoneSilenced == acked \/ done => runs > 0 \/ gone

Working == {w \in Workers : pc[w] \in {"recheck", "work", "mark"}}

\* While nothing has gone wrong, overlapping and repeated deliveries do the
\* work at most once, and no two workers are ever at it together.
OnceWhenHealthy ==
    faults = 0 => runs <= 1 /\ \A v, w \in Working : v = w

\* Nobody but its owner takes a lease away before it expires, so a worker that
\* outlived its own lease cannot uncover the event another is working on.
LeaseIsOwners ==
    [][\A w \in Workers :
          lease = w /\ lease' # w
             => \/ pc[w] \in {"release", "answer", "drop", "gone"}
                \/ faults' > faults]_eventVars

\* Stripe is eventually answered, whatever the order of overlapping
\* deliveries, outages and kills: nobody is kept off the event for ever.
EventuallyAcked == <>acked

\* The claimed section: from taking the lease to giving it back.
Claimed == {"recheck", "work", "mark", "answer", "drop"}

\* Why NothingLost and OnceWhenHealthy hold: a worker writes the marker or a
\* 200 only past the work; and until the first fault the lease is held exactly
\* by the one worker in the claimed section, which is past the work or about
\* to read the marker again if the work was carried out before it came.
EventIInv ==
    /\ EventTypeOK
    /\ NothingLost
    /\ \A w \in Workers :
          /\ pc[w] \in {"mark", "answer"} => runs > 0 \/ gone \/ misread
          /\ pc[w] = "drop" => done
    /\ faults = 0 =>
          /\ \A w \in Workers : pc[w] \in Claimed <=> lease = w
          /\ \A w \in Workers : pc[w] \notin {"release", "gone"}
          /\ \A w \in Workers : pc[w] = "work" => ~done /\ runs = 0
          /\ runs <= 1
          /\ runs = 1 /\ ~done => \E w \in Workers : pc[w] = "mark"
=============================================================================
