----------------------------- MODULE Membership -----------------------------
(* Members: invited, activated, changed, handed the championship, removed,   *)
(* and the claims mirrored onto their accounts.                              *)
EXTENDS OrgState

\* orgAdminGuard and statusMayUseProduct: the claims, never the rows. Staff of
\* ExpertMatch may use the same routes.
Callers ==
    {m \in Members : claims[m].status = "active" /\ claims[m].role = "org_admin"}
        \cup {Staff}

\* One upsertUser. What it names is set, the rest kept; "firm" says that it
\* names the organisation, and so makes the membership if there is none.
Edit(who, status, role, firm) ==
    [who |-> who, status |-> status, role |-> role, firm |-> firm]

\* Two handlers that edit members at once may leave no champion.
Overlapping(p) == \E q \in Workers \ {p} : w[q].edits # <<>> \/ w[q].pc = "delete"

\* A request that will make these edits, and sync the seats itself.
Submit(p, edits, pc) ==
    /\ w' = [w EXCEPT ![p] = [Idle EXCEPT !.edits = edits, !.pc = pc, !.last = TRUE]]
    /\ UNCHANGED <<rows, claims, bill, AtStripe, open, faults>>

Excuse(condition) == excused' = (excused \/ condition)

----------------------------------------------------------------------------
(* upsertUser, once per edit.                                                *)

Edited(row, e) ==
    IF row = Nobody /\ ~e.firm THEN row
    ELSE [status |-> IF e.status = "keep" THEN row.status ELSE e.status,
          role |-> IF e.role = "keep" THEN row.role ELSE e.role]

\* The membership write. The error of an update is not looked at.
WriteRow(p) ==
    /\ At(p, "row")
    /\ LET e == Head(w[p].edits)
           moved == Edited(rows[e.who], e).status # rows[e.who].status
       IN /\ w' = [w EXCEPT ![p].edits = Tail(@), ![p].who = e.who,
                            ![p].pc = "claims_read", ![p].changed = open /\ moved]
          /\ \/ /\ rows' = IF open THEN [rows EXCEPT ![e.who] = Edited(@, e)] ELSE rows
                /\ UNCHANGED <<excused, faults>>
             \/ /\ rows[e.who] # Nobody /\ Fault("row_write")
                /\ excused' = TRUE /\ UNCHANGED rows
    /\ UNCHANGED <<claims, bill, AtStripe, open, starts>>

\* syncUserMetadata reads the row again; an account that is gone has no claims.
\* One whose organisation is gone keeps its role and reads as active.
ClaimsRead(p) ==
    /\ At(p, "claims_read")
    /\ LET m == w[p].who
       IN w' = [w EXCEPT ![p] =
             IF ~open THEN [@ EXCEPT !.pc = "claims_write", !.copy = [claims[m] EXCEPT !.status = "active"]]
             ELSE IF rows[m] = Nobody THEN Onward(@)
             ELSE [@ EXCEPT !.pc = "claims_write", !.copy = rows[m]]]
    /\ UNCHANGED <<Membership, bill, AtStripe, open, starts, faults>>

\* The claims are written to the account. A failure is answered as a warning;
\* an account removed meanwhile takes no claims.
ClaimsWrite(p) ==
    /\ At(p, "claims_write")
    /\ \/ /\ claims' = IF open /\ rows[w[p].who] = Nobody THEN claims
                       ELSE [claims EXCEPT ![w[p].who] = w[p].copy]
          /\ UNCHANGED faults
       \/ Fault("claims") /\ UNCHANGED claims
    /\ Proceed(p)
    /\ UNCHANGED <<rows, excused, bill, AtStripe, open, starts>>

Upsert(p) == WriteRow(p) \/ ClaimsRead(p) \/ ClaimsWrite(p)

----------------------------------------------------------------------------
(* The routes.                                                               *)

\* countOrgAdmins at most one.
LastChampion == Cardinality(Champions) <= 1

\* PATCH /api/org/members: a role, a status, or both, of a member; never one's
\* own seat off, a pending seat on, or the last champion gone.
Patch(p) ==
    \E caller \in Callers, m \in Members,
       status \in {"keep", "active", "disabled"}, role \in {"keep", "org_admin", "org_member"} :
       LET roleEdit == IF role \in {"keep", rows[m].role} THEN <<>>
                       ELSE <<Edit(m, "keep", role, FALSE)>>
           statusEdit == IF status \in {"keep", rows[m].status} THEN <<>>
                         ELSE <<Edit(m, status, "keep", FALSE)>>
           losesAdmin == rows[m].role = "org_admin"
                         /\ (role = "org_member" \/ status = "disabled")
       IN /\ Request(p, "patch")
          /\ rows[m] # Nobody
          /\ ~(caller = m /\ status = "disabled")
          /\ ~(rows[m].status = "pending" /\ status = "active")
          /\ ~(losesAdmin /\ LastChampion)
          /\ roleEdit \o statusEdit # <<>>
          /\ Submit(p, roleEdit \o statusEdit, "row")
          /\ Excuse(Overlapping(p))

\* PATCH /api/admin/users: staff set a status. No champion is counted.
StaffPatch(p) ==
    \E m \in Members, status \in {"active", "disabled"} :
       /\ Request(p, "staff_patch")
       /\ rows[m] # Nobody
       /\ Submit(p, <<Edit(m, status, "keep", FALSE)>>, "row")
       /\ Excuse((status = "disabled" /\ Champion(rows[m])) \/ Overlapping(p))

\* Mutant: the outgoing champions go first.
MutTransferEdits(m, outgoing) == outgoing \o <<Edit(m, "keep", "org_admin", FALSE)>>

\* decideChampionTransfer's plan: promote first, then demote every champion the
\* list showed.
TransferEdits(m, outgoing) == <<Edit(m, "keep", "org_admin", FALSE)>> \o outgoing

\* PATCH { action: "transfer_champion" } to an active member.
Transfer(p) ==
    \E caller \in Callers, m \in Members :
       /\ Request(p, "transfer")
       /\ rows[m].status = "active"
       /\ \E order \in [1 .. Cardinality(Champions \ {m}) -> Champions \ {m}] :
             /\ \A c \in Champions \ {m} : \E i \in DOMAIN order : order[i] = c
             /\ Submit(p, TransferEdits(m, [i \in DOMAIN order |->
                             Edit(order[i], "keep", "org_member", FALSE)]), "row")
       /\ Excuse(Overlapping(p))

\* provisionAccountInvite: somebody new, or disabled. The seat cap is optional
\* and left out.
Invite(p) ==
    \E caller \in Callers, m \in Members :
       /\ Request(p, "invite")
       /\ rows[m].status \in {"none", "disabled"}
       /\ Submit(p, <<Edit(m, "pending", "org_member", TRUE)>>, "row")
       /\ Excuse(Overlapping(p))

\* POST /api/auth/set-password: the invited sets a password and is active.
Accept(p) ==
    \E m \in Members :
       /\ Request(p, "accept")
       /\ rows[m].status = "pending"
       /\ Submit(p, <<Edit(m, "active", "keep", TRUE)>>, "row")
       /\ Excuse(Overlapping(p))

\* DELETE /api/org/members: not oneself, not an active seat. Staff's DELETE
\* /api/admin/users asks neither; a project owned refuses it.
Remove(p) ==
    \E caller \in Callers, m \in Members :
       /\ Request(p, "remove")
       /\ rows[m] # Nobody /\ caller # m
       /\ rows[m].status = "active" => caller = Staff
       /\ Submit(p, <<Edit(m, "none", "keep", FALSE)>>, "delete")
       /\ Excuse(Champion(rows[m]) \/ Overlapping(p))

\* Mutant: only the membership row goes.
MutGone(m) == claims

\* The account's claims, once the account is deleted.
Gone(m) == [claims EXCEPT ![m] = Nobody]

\* deleteUser: the account, its profile, row and claims go; a refusal is
\* answered as a warning. An active row frees a seat.
Delete(p) ==
    /\ At(p, "delete")
    /\ LET m == Head(w[p].edits).who
       IN \/ /\ rows' = [rows EXCEPT ![m] = Nobody]
             /\ claims' = Gone(m)
             /\ w' = [w EXCEPT ![p] = Onward([@ EXCEPT !.edits = <<>>,
                                                       !.changed = rows[m].status = "active"])]
             /\ UNCHANGED faults
          \/ /\ Fault("refused")
             /\ w' = [w EXCEPT ![p] = Onward([@ EXCEPT !.edits = <<>>])]
             /\ UNCHANGED <<rows, claims>>
    /\ UNCHANGED <<excused, bill, AtStripe, open, starts>>

\* Mutant: only missing claims count as stale, as at GET /api/org/membership.
MutClaimsAreStale(status) == status = "none"

\* membershipClaimsAreStale, of a disabled row's account.
ClaimsAreStale(status) == status # "disabled"

\* The nightly sweep re-reads the row before it writes; it never widens.
SweepMembership(p) ==
    \E m \in Members :
        /\ rows[m].status = "disabled" /\ ClaimsAreStale(claims[m].status)
        /\ Tonight(p, [Idle EXCEPT !.pc = "claims_read", !.who = m])
=============================================================================
