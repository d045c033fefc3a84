---------------------------- MODULE Organisation ----------------------------
(* An organisation: its members and the seats it pays for, together.         *)
EXTENDS SeatBilling, Membership

Requests(p) ==
    \/ Patch(p) \/ StaffPatch(p) \/ Transfer(p) \/ Invite(p)
    \/ Accept(p) \/ Remove(p)
    \/ AdminSync(p) \/ CompleteBilling(p) \/ CloseCancel(p)

\* A handler in flight goes on.
Going(p) == Upsert(p) \/ Delete(p) \/ Sync(p) \/ CloseDelete(p)

Next ==
    \/ Forget \/ PeriodEnds
    \/ \E p \in Workers : \/ Requests(p) \/ Going(p) \/ Kill(p)
                          \/ SweepMembership(p) \/ SweepSeats(p)

Spec == OrgInit /\ [][Next]_vars

\* Handlers go on, Stripe forgets keys in the end, and each sweep of the
\* nightly job gets its turn on a worker that is free some time.
FairSpec ==
    /\ Spec
    /\ WF_vars(Forget)
    /\ \A p \in Workers : WF_vars(Going(p))
    /\ SF_vars(\E p \in Workers : SweepMembership(p))
    /\ SF_vars(\E p \in Workers : SweepSeats(p))

----------------------------------------------------------------------------
\* What the variables may hold; an account that does not exist has no claims.
TypeOK ==
    /\ rows \in [Members -> Person] /\ claims \in [Members -> Person]
    /\ open => \A m \in Members : rows[m] = Nobody => claims[m] = Nobody
    /\ bill \in [done : BOOLEAN, sub : 0 .. Len(subs), qty : 0 .. Cardinality(Members)]
    /\ Len(subs) <= MaxSubs
    /\ \A s \in DOMAIN subs : subs[s] \in Sub
    /\ \A k \in DOMAIN keys : keys[k].sub \in 0 .. Len(subs)
    /\ open \in BOOLEAN /\ excused \in BOOLEAN
    /\ starts \in 0 .. MaxStarts /\ faults \in 0 .. MaxFaults

\* A customer never has two seat subscriptions that bill, however syncs overlap
\* and, of two handlers, whatever one write is lost on the way from Stripe to the
\* billing row: what the customer has is adopted, and a create is keyed by the
\* id it follows (orgBilling.ts, "ONE SUBSCRIPTION PER CUSTOMER", H-23). With a
\* third handler that removes the organisation meanwhile, one lost write is
\* enough for two.
OneSubscription == Cardinality(Live) <= 1

\* In the end the organisation pays for its active seats and no others: the
\* subscription's quantity is their number, and with none left the recorded one
\* winds down or is gone (syncOrgSeatQuantity, "the next call, or a reconcile,
\* catches up"). One that was never recorded is not looked for when no seat is
\* left, and goes on.
SeatsAgree ==
    IF Active = {} THEN bill.sub \in Live => subs[bill.sub].winding
    ELSE \E s \in Live : subs[s].qty = Cardinality(Active) /\ ~subs[s].winding

SeatsBilled == <>[](open /\ bill.done => SeatsAgree)

\* A seat that is disabled has no claims in the end, whatever was lost or
\* overlapped (H-16, sweepMembershipStatus).
RevocationLands ==
    <>[](\A m \in Members : rows[m].status = "disabled" => claims[m].status = "disabled")

\* An organisation keeps a champion, one who is not disabled: through a
\* transfer that dies between its two writes, through claims that went stale,
\* through any sequence of handlers. What may still lose the last one: two
\* handlers editing members at once, a membership write lost without a word,
\* staff disabling or anybody removing a champion, which nothing counts, and
\* the organisation's own end (org/members, "never with none").
ChampionKept == open => Champions # {} \/ excused

\* A removed organisation is never billed for another month
\* (cancelOrgSubscription).
RemovedNotBilled == ~open => Live = {}
=============================================================================
