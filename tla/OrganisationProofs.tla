-------------------------- MODULE OrganisationProofs --------------------------
(* Proofs about Organisation: the types of what its handlers share, that it   *)
(* keeps a champion, and that it has one seat subscription - for any members, *)
(* handlers and requests; of the subscription, until the first fault.         *)
EXTENDS Organisation, FiniteSetTheorems, TLAPS

Points == {"idle", "row", "claims_read", "claims_write", "delete", "count", "bill",
           "list", "create", "record", "adopt", "adjust", "mirror", "close"}

Edits == [who : Members, status : MemberStatuses \cup {"keep"},
          role : {"keep", "org_admin", "org_member"}, firm : BOOLEAN]

Handlers == [pc : Points, edits : Seq(Edits), changed : BOOLEAN, last : BOOLEAN,
             who : Members \cup {Staff}, copy : Person, n : 0 .. Cardinality(Members),
             old : Nat, sub : Nat, view : Sub, night : BOOLEAN]

\* upsertUser leaves a membership whose status it cannot take away.
Upserts(e) == e.status # "none" /\ (e.firm => e.status # "keep")

HandlerOK(h) ==
    /\ h \in Handlers
    /\ h.pc \in {"row", "delete"} => h.edits # <<>>
    /\ h.pc = "delete" => h.edits[1].status = "none"
    /\ h.pc # "delete" => \A i \in DOMAIN h.edits : Upserts(h.edits[i])
    /\ h.pc \in {"claims_read", "claims_write"} => h.who \in Members

\* The ids a handler has are of subscriptions that exist.
IdsOK(h, last) ==
    /\ h.old <= last /\ h.sub <= last
    /\ h.pc \in {"record", "adopt", "adjust"} => h.sub # 0

HandlersOK ==
    /\ w \in [Workers -> Handlers]
    /\ \A p \in Workers : HandlerOK(w[p]) /\ IdsOK(w[p], Len(subs))

MembersOK ==
    /\ rows \in [Members -> Person] /\ claims \in [Members -> Person]
    /\ \A m \in Members : rows[m].status = "none" => rows[m] = Nobody
    /\ open => \A m \in Members : rows[m] = Nobody => claims[m] = Nobody

BillingOK ==
    /\ bill \in [done : BOOLEAN, sub : Nat, qty : 0 .. Cardinality(Members)]
    /\ bill.sub <= Len(subs)
    /\ subs \in Seq(Sub) /\ Len(subs) <= MaxSubs
    /\ keys \in [0 .. MaxSubs -> [sub : Nat, qty : Nat]]
    /\ \A k \in 0 .. MaxSubs : keys[k].sub <= Len(subs) /\ (keys[k] # NoKey => keys[k].sub # 0)

RestOK ==
    /\ open \in BOOLEAN /\ excused \in BOOLEAN
    /\ starts \in 0 .. MaxStarts /\ faults \in 0 .. MaxFaults

Types == HandlersOK /\ MembersOK /\ BillingOK /\ RestOK

----------------------------------------------------------------------------
(* A champion is kept.                                                       *)

Editing(h) == h.edits # <<>> \/ h.pc = "delete"

Harms(e) == e.status \in {"disabled", "none"} \/ e.role = "org_member"
Spared(m, edits) == \A i \in DOMAIN edits : edits[i].who = m => ~Harms(edits[i])

\* Whoever is to be a champion next: one now, or the one promoted first.
Promotes(h, m) ==
    /\ h.edits # <<>> /\ h.edits[1].who = m /\ h.edits[1].role = "org_admin"
    /\ rows[m].status = "active"
Outlasted(p) ==
    \E m \in Members : Spared(m, w[p].edits) /\ (Champion(rows[m]) \/ Promotes(w[p], m))

\* Nobody edits beside another, and the edits under way leave somebody.
Championed ==
    open /\ ~excused =>
        /\ Champions # {}
        /\ \A p \in Workers : Editing(w[p]) => Outlasted(p)
        /\ \A p, q \in Workers : Editing(w[p]) /\ Editing(w[q]) => p = q

----------------------------------------------------------------------------
(* One subscription.                                                         *)

\* Where a handler waits to create the subscription after "old".
Before(h) == h.pc \in {"list", "create"}

\* The subscription a handler works on, or will write down.
Names(h, id) ==
    \/ h.pc \in {"record", "adopt", "adjust"} /\ id = h.sub
    \/ h.pc = "mirror" /\ id = h.old /\ id # 0

\* The ids a create may still follow: those the billing row, a handler, a key
\* or Stripe has.
Held(id) ==
    \/ open /\ id = bill.sub
    \/ \E p \in Workers : Names(w[p], id) \/ (Before(w[p]) /\ id = w[p].old)
    \/ \E k \in 0 .. MaxSubs : keys[k] # NoKey /\ id = keys[k].sub
    \/ id \in Live

\* Of these one at most has had no create.
OneEnd ==
    \A i, j \in 0 .. Len(subs) :
        Held(i) /\ Held(j) /\ keys[i] = NoKey /\ keys[j] = NoKey => i = j

\* A create follows a subscription that is over.
FollowsDead ==
    /\ \A p \in Workers : Before(w[p]) => w[p].old \notin Live
    /\ \A k \in 0 .. MaxSubs : keys[k] # NoKey => k <= Len(subs) /\ k \notin Live

\* While the organisation stands and nobody is closing it, no subscription
\* dies under a handler: who has one, has the live one; who is to create one,
\* follows the one the row names, or finds the key taken; and a live one the
\* row does not name was created after the one it does name, by a handler
\* about to write it down.
Standing == open /\ \A p \in Workers : w[p].pc # "close"
Tidy ==
    /\ \A k \in 0 .. MaxSubs : keys[k] # NoKey => keys[k].sub \in Live
    /\ \A p \in Workers, id \in 0 .. Len(subs) : Names(w[p], id) => id \in Live
    /\ \A p \in Workers :
          Before(w[p]) => w[p].old = bill.sub \/ keys[w[p].old] # NoKey
    /\ \A s \in Live : bill.sub # s =>
          keys[bill.sub] # NoKey /\ \E p \in Workers : w[p].pc = "record"

Busy == open \/ \E p \in Workers : w[p] # Idle
OneLive == \A s, t \in Live : s = t

Sole == /\ OneLive
        /\ FollowsDead
        /\ Busy => OneEnd
        /\ Standing => Tidy

\* The inductive invariant.
IInv == Types /\ Championed /\ (faults = 0 => Sole)

----------------------------------------------------------------------------
(* Handlers.                                                                 *)

LEMMA Seats == Cardinality(Members) \in Nat /\ Cardinality(Active) \in 0 .. Cardinality(Members)
<1>1. IsFiniteSet(Members) /\ Active \subseteq Members
  BY MembersAssumption DEF Active
<1>2. QED
  BY <1>1, FS_CardinalityType, FS_Subset

LEMMA NobodyOK == Nobody \in Person /\ NoSub \in Sub
  BY DEF Nobody, Person, MemberStatuses, NoSub, Sub

LEMMA IdleOK == HandlerOK(Idle) /\ Idle.edits = <<>> /\ Idle.pc = "idle"
                /\ Idle.old = 0 /\ Idle.sub = 0
<1>1. Idle \in Handlers
  BY NobodyOK, Seats DEF Idle, Handlers, Points
<1>2. /\ Idle.edits = <<>> /\ Idle.pc = "idle" /\ Idle.old = 0 /\ Idle.sub = 0
      /\ DOMAIN <<>> = {}
  BY DEF Idle
<1>3. QED
  BY <1>1, <1>2 DEF HandlerOK

\* Where a handler goes after a write or a sync: its edits are those it had.
LEMMA OnwardOK ==
    ASSUME NEW h \in Handlers, \A i \in DOMAIN h.edits : Upserts(h.edits[i])
    PROVE  /\ HandlerOK(Onward(h)) /\ Onward(h).edits = h.edits
           /\ Onward(h).old = 0 /\ Onward(h).sub = 0
           /\ Onward(h).pc \in {"idle", "row", "count"}
<1> DEFINE r == [h EXCEPT !.who = Staff, !.copy = Nobody, !.n = 0, !.old = 0,
                          !.sub = 0, !.view = NoSub]
           g == [r EXCEPT !.pc = "count", !.changed = FALSE]
           e == [r EXCEPT !.pc = "row"]
           l == [r EXCEPT !.pc = "count", !.last = FALSE]
<1>1. r \in Handlers /\ r.edits = h.edits /\ r.old = 0 /\ r.sub = 0
  <2>1. /\ Staff \in Members \cup {Staff} /\ Nobody \in Person /\ NoSub \in Sub
        /\ 0 \in 0 .. Cardinality(Members) /\ 0 \in Nat
    BY NobodyOK, Seats
  <2>2. [h EXCEPT !.who = Staff, !.copy = Nobody, !.n = 0] \in Handlers
    BY <2>1 DEF Handlers
  <2>3. QED
    BY <2>1, <2>2 DEF Handlers
<1>2. Onward(h) = IF r.changed THEN g ELSE IF r.edits # <<>> THEN e
                  ELSE IF r.last THEN l ELSE Idle
  BY DEF Onward
<1> HIDE DEF r
<1>3. /\ g \in Handlers /\ g.edits = h.edits /\ g.pc = "count" /\ g.old = 0 /\ g.sub = 0
      /\ e \in Handlers /\ e.edits = h.edits /\ e.pc = "row" /\ e.old = 0 /\ e.sub = 0
      /\ l \in Handlers /\ l.edits = h.edits /\ l.pc = "count" /\ l.old = 0 /\ l.sub = 0
  BY <1>1 DEF Handlers, Points
<1> HIDE DEF g, e, l
<1>4. HandlerOK(g) /\ HandlerOK(l) /\ (r.edits # <<>> => HandlerOK(e))
  BY <1>1, <1>3 DEF HandlerOK
<1>5. QED
  BY <1>1, <1>2, <1>3, <1>4, IdleOK

\* The other handlers stay where they are.
Others(p) == \A q \in Workers \ {p} : w'[q] = w[q]

LEMMA Moved ==
    ASSUME HandlersOK, NEW p \in Workers, NEW h, HandlerOK(h), IdsOK(h, Len(subs')),
           Len(subs) \in Nat, Len(subs') \in Nat, Len(subs) <= Len(subs'),
           w' = [w EXCEPT ![p] = h]
    PROVE  HandlersOK' /\ w'[p] = h /\ Others(p)
<1>1. h \in Handlers
  BY DEF HandlerOK
<1>2. w' \in [Workers -> Handlers] /\ w'[p] = h /\ \A q \in Workers \ {p} : w'[q] = w[q]
  BY <1>1 DEF HandlersOK
<1>3. ASSUME NEW q \in Workers PROVE HandlerOK(w'[q]) /\ IdsOK(w'[q], Len(subs'))
  <2>1. CASE q = p
    BY <1>2, <2>1
  <2>2. CASE q # p
    <3>1. w'[q] = w[q] /\ HandlerOK(w[q]) /\ IdsOK(w[q], Len(subs)) /\ w[q].old \in Nat /\ w[q].sub \in Nat
      BY <1>2, <2>2 DEF HandlersOK, Handlers
    <3>2. QED
      BY <3>1 DEF IdsOK
  <2>3. QED
    BY <2>1, <2>2
<1>4. QED
  BY <1>2, <1>3 DEF HandlersOK, Others

\* The step of a handler while Stripe's subscriptions stay as they are.
LEMMA MovedOn ==
    ASSUME Types, NEW p \in Workers, NEW h, HandlerOK(h), IdsOK(h, Len(subs)),
           subs' = subs, w' = [w EXCEPT ![p] = h]
    PROVE  HandlersOK' /\ w'[p] = h /\ Others(p)
<1>1. /\ Len(subs) \in Nat /\ Len(subs') \in Nat /\ Len(subs) <= Len(subs')
      /\ IdsOK(h, Len(subs')) /\ HandlersOK
  BY DEF Types, BillingOK
<1>2. QED
  BY <1>1, Moved

----------------------------------------------------------------------------
(* Kinds of steps.                                                           *)

\* Nobody's row changes, and who edits goes on with its edits or drops them.
Mild(p) ==
    /\ rows' = rows /\ open' = open /\ excused' = excused /\ Others(p)
    /\ w'[p].pc # "delete" /\ w'[p].edits \in {<<>>, w[p].edits}

LEMMA MildOK == ASSUME Championed, NEW p \in Workers, Mild(p) PROVE Championed'
<1> SUFFICES ASSUME open, ~excused
             PROVE  /\ Champions' # {}
                    /\ \A q \in Workers : Editing(w'[q]) => Outlasted(q)'
                    /\ \A q, r \in Workers : Editing(w'[q]) /\ Editing(w'[r]) => q = r
  BY DEF Championed, Mild
<1>1. \A q \in Workers : Editing(w'[q]) => Editing(w[q]) /\ w'[q].edits = w[q].edits
  BY DEF Mild, Others, Editing
<1>2. Champions' = Champions
  BY DEF Champions, Champion, Mild
<1>3. ASSUME NEW q \in Workers, Editing(w'[q]) PROVE Outlasted(q)'
  <2>1. Outlasted(q) /\ w'[q].edits = w[q].edits
    BY <1>1, <1>3 DEF Championed, Mild
  <2>2. QED
    BY <2>1 DEF Outlasted, Promotes, Mild
<1>4. QED
  BY <1>1, <1>2, <1>3 DEF Championed

\* Stripe and the billing row stay as they are, and the handler has, if it
\* has anything, an id that was held.
Took(p) ==
    /\ Live' = Live /\ Len(subs') = Len(subs) /\ keys' = keys
    /\ bill'.sub = bill.sub /\ open' = open /\ Others(p)
    /\ open \/ w[p] # Idle
    /\ w[p].pc # "close" /\ w'[p].pc # "close"
    /\ w[p].pc = "record" => ~open
    /\ Before(w'[p]) => /\ w'[p].old \notin Live
                        /\ \/ Before(w[p]) /\ w'[p].old = w[p].old
                           \/ open /\ w'[p].old = bill.sub
    /\ \A id \in 0 .. Len(subs) :
          Names(w'[p], id) => Held(id) /\ (Standing => id \in Live)

LEMMA TookOK == ASSUME Types, Sole, NEW p \in Workers, Took(p) PROVE Sole'
<1>1. OneLive'
  BY DEF Sole, OneLive, Took
<1>2. FollowsDead'
  BY DEF Sole, FollowsDead, Took, Others
<1>3. ASSUME Busy' PROVE OneEnd'
  <2>1. Busy
    BY <1>3 DEF Busy, Took, Others
  <2>2. ASSUME NEW id \in 0 .. Len(subs), Held(id)' PROVE Held(id)
    <3>1. ASSUME NEW q \in Workers, Names(w'[q], id) \/ (Before(w'[q]) /\ id = w'[q].old)
          PROVE  Held(id)
      BY <3>1 DEF Took, Others, Held
    <3>2. QED
      BY <2>2, <3>1 DEF Took, Held
  <2>3. QED
    BY <2>1, <2>2 DEF Sole, OneEnd, Took
<1>4. ASSUME Standing' PROVE Tidy'
  <2>1. Standing /\ Tidy
    BY <1>4 DEF Standing, Took, Others, Sole
  <2>2. \A q \in Workers, id \in 0 .. Len(subs) : Names(w'[q], id) => id \in Live
    BY <2>1 DEF Tidy, Took, Others
  <2>3. \A q \in Workers : Before(w'[q]) => w'[q].old = bill.sub \/ keys[w'[q].old] # NoKey
    BY <2>1 DEF Tidy, Took, Others
  <2>4. \A q \in Workers : w[q].pc = "record" => w'[q].pc = "record"
    BY <2>1 DEF Standing, Took, Others
  <2>5. QED
    BY <2>1, <2>2, <2>3, <2>4 DEF Tidy, Took
<1>5. QED
  BY <1>1, <1>2, <1>3, <1>4 DEF Sole

\* What a step leaves behind for the seat subscription, unless it failed.
Failed == faults' # 0
Safe(p) == Failed \/ (faults' = faults /\ Took(p))

LEMMA FaultOK == ASSUME RestOK, NEW op, Fault(op) PROVE faults' \in 0 .. MaxFaults /\ Failed
  BY BoundsAssumption DEF RestOK, Fault, Failed

\* A handler that has no id of a subscription in hand.
Clear(h) == h.pc \in {"idle", "row", "claims_read", "claims_write", "delete", "count", "bill"}

\* A handler that has none goes to where it needs none.
LEMMA ClearTook ==
    ASSUME NEW p \in Workers, Others(p), w[p].pc \notin {"record", "close"}, Clear(w'[p]),
           open \/ w[p] # Idle, UNCHANGED <<subs, keys, open>>, bill'.sub = bill.sub
    PROVE  Took(p)
<1>1. w'[p].pc # "close" /\ ~Before(w'[p]) /\ \A id \in 0 .. Len(subs) : ~Names(w'[p], id)
  BY DEF Clear, Before, Names
<1>2. QED
  BY <1>1 DEF Took, Live

----------------------------------------------------------------------------
(* upsertUser and deleteUser.                                                *)

LEMMA EditedOK ==
    ASSUME NEW row \in Person, NEW e \in Edits, Upserts(e), row.status = "none" => row = Nobody
    PROVE  /\ Edited(row, e) \in Person
           /\ Edited(row, e).status = "none" => Edited(row, e) = Nobody /\ row = Nobody
           /\ Edited(row, e) = Nobody => row = Nobody
<1>1. CASE row = Nobody /\ ~e.firm
  BY <1>1 DEF Edited
<1>2. CASE ~(row = Nobody /\ ~e.firm)
  <2>1. Edited(row, e) = [status |-> IF e.status = "keep" THEN row.status ELSE e.status,
                          role |-> IF e.role = "keep" THEN row.role ELSE e.role]
    BY <1>2 DEF Edited
  <2>2. Edited(row, e) \in Person
    BY <2>1 DEF Person, Edits
  <2>3. Edited(row, e).status # "none"
    BY <1>2, <2>1 DEF Upserts
  <2>4. Nobody.status = "none"
    BY DEF Nobody
  <2>5. QED
    BY <2>2, <2>3, <2>4
<1>3. QED
  BY <1>1, <1>2

\* The next of a handler's edits.
LEMMA NextEdit ==
    ASSUME NEW h \in Handlers, h.edits # <<>>
    PROVE  /\ h.edits \in Seq(Edits) /\ 1 \in DOMAIN h.edits
           /\ Head(h.edits) = h.edits[1] /\ h.edits[1] \in Edits
           /\ Tail(h.edits) \in Seq(Edits)
           /\ \A i \in DOMAIN Tail(h.edits) :
                 i + 1 \in DOMAIN h.edits /\ Tail(h.edits)[i] = h.edits[i + 1]
<1>1. h.edits \in Seq(Edits)
  BY DEF Handlers
<1>2. QED
  BY <1>1

LEMMA WriteRowMoves ==
    ASSUME Types, NEW p \in Workers, WriteRow(p)
    PROVE  /\ HandlersOK' /\ Others(p)
           /\ w'[p].edits = Tail(w[p].edits) /\ w'[p].pc = "claims_read"
<1> DEFINE e == w[p].edits[1]
           moved == Edited(rows[e.who], e).status # rows[e.who].status
           h == [w[p] EXCEPT !.edits = Tail(@), !.who = e.who,
                             !.pc = "claims_read", !.changed = open /\ moved]
<1>1. w[p] \in Handlers /\ HandlerOK(w[p]) /\ IdsOK(w[p], Len(subs)) /\ w[p].edits # <<>>
  BY DEF Types, HandlersOK, WriteRow, At, HandlerOK
<1>2. /\ e \in Edits /\ Head(w[p].edits) = e /\ Tail(w[p].edits) \in Seq(Edits)
      /\ \A i \in DOMAIN Tail(w[p].edits) : Upserts(Tail(w[p].edits)[i])
  BY <1>1, NextEdit DEF HandlerOK, WriteRow, At
<1>3. e.who \in Members
  BY <1>2 DEF Edits
<1>4. w' = [w EXCEPT ![p] = h]
  BY <1>2 DEF WriteRow
<1>5. (open /\ moved) \in BOOLEAN
  BY DEF Types, RestOK
<1> HIDE DEF moved
<1>6. /\ h \in Handlers /\ h.edits = Tail(w[p].edits) /\ h.pc = "claims_read"
      /\ h.who = e.who /\ h.old = w[p].old /\ h.sub = w[p].sub
  BY <1>1, <1>2, <1>3, <1>5 DEF Handlers, Points
<1> HIDE DEF h, e
<1>7. HandlerOK(h) /\ IdsOK(h, Len(subs))
  BY <1>1, <1>2, <1>3, <1>6 DEF HandlerOK, IdsOK
<1>8. QED
  BY <1>1, <1>4, <1>6, <1>7, MovedOn DEF WriteRow, AtStripe

LEMMA WriteRowTypes == ASSUME Types, NEW p \in Workers, WriteRow(p) PROVE Types'
<1> DEFINE e == w[p].edits[1]
<1>1. /\ w[p] \in Handlers /\ w[p].edits # <<>> /\ Head(w[p].edits) = e
      /\ e \in Edits /\ Upserts(e) /\ e.who \in Members
  <2>1. w[p] \in Handlers /\ HandlerOK(w[p]) /\ w[p].edits # <<>>
    BY DEF Types, HandlersOK, WriteRow, At, HandlerOK
  <2>2. QED
    BY <2>1, NextEdit DEF HandlerOK, WriteRow, At, Edits
<1> HIDE DEF e
<1>2. rows' = rows \/ rows' = [rows EXCEPT ![e.who] = Edited(@, e)]
  BY <1>1 DEF WriteRow
<1>3. UNCHANGED <<claims, bill, subs, keys, open, starts>>
  BY DEF WriteRow, AtStripe
<1>4. MembersOK'
  <2>1. MembersOK /\ rows[e.who] \in Person
    BY <1>1 DEF Types, MembersOK
  <2>2. CASE rows' = rows
    BY <1>3, <2>1, <2>2 DEF MembersOK
  <2>3. CASE rows' = [rows EXCEPT ![e.who] = Edited(@, e)]
    <3>1. /\ Edited(rows[e.who], e) \in Person
          /\ Edited(rows[e.who], e).status = "none" =>
                Edited(rows[e.who], e) = Nobody /\ rows[e.who] = Nobody
          /\ Edited(rows[e.who], e) = Nobody => rows[e.who] = Nobody
      BY <1>1, <2>1, EditedOK DEF MembersOK
    <3>2. QED
      BY <1>1, <1>3, <2>1, <2>3, <3>1 DEF MembersOK
  <2>4. QED
    BY <1>2, <2>2, <2>3
<1>5. RestOK'
  <2>1. faults' \in 0 .. MaxFaults /\ excused' \in BOOLEAN
    BY FaultOK DEF WriteRow, Types, RestOK
  <2>2. QED
    BY <1>3, <2>1 DEF Types, RestOK
<1>6. QED
  BY <1>3, <1>4, <1>5, WriteRowMoves DEF Types, BillingOK

\* The next champion is there after the edit, and no later one takes it away.
LEMMA WriteRowChampion ==
    ASSUME Types, Championed, NEW p \in Workers, WriteRow(p)
    PROVE  Championed'
<1> DEFINE e == w[p].edits[1]
<1> SUFFICES ASSUME open', ~excused'
             PROVE  /\ Champions' # {}
                    /\ \A q \in Workers : Editing(w'[q]) => Outlasted(q)'
                    /\ \A q, r \in Workers : Editing(w'[q]) /\ Editing(w'[r]) => q = r
  BY DEF Championed
<1>1. /\ w[p] \in Handlers /\ w[p].edits # <<>> /\ Head(w[p].edits) = e
      /\ e \in Edits /\ e.who \in Members /\ 1 \in DOMAIN w[p].edits
      /\ \A i \in DOMAIN Tail(w[p].edits) :
            i + 1 \in DOMAIN w[p].edits /\ Tail(w[p].edits)[i] = w[p].edits[i + 1]
  <2>1. w[p] \in Handlers /\ HandlerOK(w[p]) /\ w[p].edits # <<>>
    BY DEF Types, HandlersOK, WriteRow, At, HandlerOK
  <2>2. QED
    BY <2>1, NextEdit DEF Edits
<1>2. /\ rows' = [rows EXCEPT ![e.who] = Edited(@, e)] /\ rows \in [Members -> Person]
      /\ open /\ ~excused
  BY <1>1 DEF WriteRow, Types, MembersOK
<1>3. /\ Others(p) /\ w'[p].edits = Tail(w[p].edits)
  BY WriteRowMoves
<1>4. /\ Outlasted(p)
      /\ \A q \in Workers : Editing(w[q]) => q = p
  BY <1>1, <1>2 DEF Championed, Editing
<1>5. PICK m \in Members : Spared(m, w[p].edits) /\ (Champion(rows[m]) \/ Promotes(w[p], m))
  BY <1>4 DEF Outlasted
<1>6. Spared(m, w'[p].edits)
  BY <1>1, <1>3, <1>5 DEF Spared
<1>7. Champion(rows'[m])
  <2>1. CASE e.who = m
    <3>1. ~Harms(e)
      BY <1>1, <1>5, <2>1 DEF Spared
    <3>2. rows[m] \in Person /\ rows[m] # Nobody
      BY <1>2, <1>5 DEF Champion, Promotes, Nobody
    <3>3. rows'[m] = Edited(rows[m], e)
      BY <1>2, <2>1
    <3>4. /\ rows'[m].status = IF e.status = "keep" THEN rows[m].status ELSE e.status
          /\ rows'[m].role = IF e.role = "keep" THEN rows[m].role ELSE e.role
      BY <3>2, <3>3 DEF Edited
    <3>5. e.status \in MemberStatuses \cup {"keep"} /\ e.role \in {"keep", "org_admin", "org_member"}
      BY <1>1 DEF Edits
    <3>6. CASE Champion(rows[m])
      BY <3>1, <3>4, <3>5, <3>6 DEF Champion, Harms, MemberStatuses
    <3>7. CASE Promotes(w[p], m)
      BY <3>1, <3>4, <3>5, <3>7 DEF Champion, Harms, MemberStatuses, Promotes
    <3>8. QED
      BY <1>5, <3>6, <3>7
  <2>2. CASE e.who # m
    <3>1. Champion(rows[m])
      BY <1>5, <2>2 DEF Promotes
    <3>2. QED
      BY <1>2, <2>2, <3>1
  <2>3. QED
    BY <2>1, <2>2
<1>8. Champions' # {} /\ Outlasted(p)'
  BY <1>6, <1>7 DEF Champions, Outlasted
<1>9. \A q \in Workers : Editing(w'[q]) => q = p
  BY <1>3, <1>4 DEF Others
<1>10. QED
  BY <1>8, <1>9

LEMMA WriteRowSafe == ASSUME Types, NEW p \in Workers, WriteRow(p) PROVE Safe(p)
<1>1. faults' = faults \/ Failed
  BY FaultOK DEF WriteRow, Types
<1>2. /\ w[p].pc = "row" /\ w[p] # Idle /\ UNCHANGED <<subs, keys, open, bill>>
  BY IdleOK DEF WriteRow, At, AtStripe
<1>3. Clear(w'[p]) /\ Others(p)
  BY WriteRowMoves DEF Clear
<1>4. QED
  BY <1>1, <1>2, <1>3, ClearTook DEF Safe

\* A handler is done with a write or a sync.
LEMMA ProceedOK ==
    ASSUME Types, NEW p \in Workers, Proceed(p), w[p].pc # "delete",
           Len(subs') \in Nat, Len(subs) <= Len(subs')
    PROVE  /\ HandlersOK' /\ Others(p) /\ Clear(w'[p])
           /\ w'[p].pc # "delete" /\ w'[p].edits = w[p].edits
<1> DEFINE h == Onward(w[p])
<1>1. HandlersOK /\ w[p] \in Handlers /\ \A i \in DOMAIN w[p].edits : Upserts(w[p].edits[i])
  BY DEF Types, HandlersOK, HandlerOK
<1>2. /\ HandlerOK(h) /\ h.edits = w[p].edits /\ h.old = 0 /\ h.sub = 0
      /\ h.pc \in {"idle", "row", "count"}
  BY <1>1, OnwardOK
<1>3. w' = [w EXCEPT ![p] = h] /\ Len(subs) \in Nat
  BY DEF Proceed, Types, BillingOK
<1> HIDE DEF h
<1>4. IdsOK(h, Len(subs')) /\ Clear(h)
  BY <1>2 DEF IdsOK, Clear
<1>5. QED
  BY <1>1, <1>2, <1>3, <1>4, Moved

LEMMA ClaimsReadOK ==
    ASSUME Types, NEW p \in Workers, ClaimsRead(p)
    PROVE  Types' /\ Mild(p) /\ Safe(p)
<1> DEFINE m == w[p].who
           gone == [w[p] EXCEPT !.pc = "claims_write", !.copy = [claims[m] EXCEPT !.status = "active"]]
           there == [w[p] EXCEPT !.pc = "claims_write", !.copy = rows[m]]
<1>1. /\ w[p] \in Handlers /\ HandlerOK(w[p]) /\ IdsOK(w[p], Len(subs)) /\ w[p].pc = "claims_read"
      /\ m \in Members /\ rows[m] \in Person /\ [claims[m] EXCEPT !.status = "active"] \in Person
  <2>1. w[p] \in Handlers /\ HandlerOK(w[p]) /\ IdsOK(w[p], Len(subs)) /\ w[p].pc = "claims_read"
    BY DEF Types, HandlersOK, ClaimsRead, At
  <2>2. m \in Members
    BY <2>1 DEF HandlerOK
  <2>3. rows[m] \in Person /\ claims[m] \in Person
    BY <2>2 DEF Types, MembersOK
  <2>4. QED
    BY <2>1, <2>2, <2>3 DEF Person, MemberStatuses
<1>2. UNCHANGED <<rows, claims, excused, bill, subs, keys, open, starts, faults>>
  BY DEF ClaimsRead, Membership, AtStripe
<1>3. /\ HandlersOK' /\ Others(p) /\ Clear(w'[p])
      /\ w'[p].pc # "delete" /\ w'[p].edits = w[p].edits
  <2>1. Len(subs') \in Nat /\ Len(subs) <= Len(subs')
    BY <1>2 DEF Types, BillingOK
  <2>2. CASE w' = [w EXCEPT ![p] = Onward(w[p])]
    BY <1>1, <2>1, <2>2, ProceedOK DEF Proceed
  <2>3. CASE w' = [w EXCEPT ![p] = gone] \/ w' = [w EXCEPT ![p] = there]
    <3>1. \A h \in {gone, there} :
             /\ h \in Handlers /\ h.pc = "claims_write" /\ h.edits = w[p].edits
             /\ h.old = w[p].old /\ h.sub = w[p].sub /\ h.who = m
      BY <1>1 DEF Handlers, Points
    <3> HIDE DEF gone, there, m
    <3>2. \A h \in {gone, there} : HandlerOK(h) /\ IdsOK(h, Len(subs)) /\ Clear(h)
      BY <1>1, <3>1 DEF HandlerOK, IdsOK, Clear
    <3>3. QED
      BY <1>2, <2>3, <3>1, <3>2, MovedOn
  <2>4. QED
    BY <2>2, <2>3 DEF ClaimsRead
<1>4. Types'
  BY <1>2, <1>3 DEF Types, MembersOK, BillingOK, RestOK
<1>5. QED
  BY <1>1, <1>2, <1>3, <1>4, IdleOK, ClearTook DEF Mild, Safe

LEMMA ClaimsWriteOK ==
    ASSUME Types, NEW p \in Workers, ClaimsWrite(p)
    PROVE  Types' /\ Mild(p) /\ Safe(p)
<1> DEFINE m == w[p].who
<1>1. w[p] \in Handlers /\ w[p].pc = "claims_write" /\ m \in Members /\ w[p].copy \in Person
  <2>1. w[p] \in Handlers /\ HandlerOK(w[p]) /\ w[p].pc = "claims_write"
    BY DEF Types, HandlersOK, ClaimsWrite, At
  <2>2. QED
    BY <2>1 DEF HandlerOK, Handlers
<1>2. UNCHANGED <<rows, excused, bill, subs, keys, open, starts>>
  BY DEF ClaimsWrite, AtStripe
<1>3. /\ HandlersOK' /\ Others(p) /\ Clear(w'[p])
      /\ w'[p].pc # "delete" /\ w'[p].edits = w[p].edits
  BY <1>1, <1>2, ProceedOK DEF ClaimsWrite, Types, BillingOK
<1>4. (faults' = faults \/ Failed) /\ RestOK'
  BY <1>2, FaultOK DEF ClaimsWrite, Types, RestOK
<1>5. MembersOK'
  BY <1>1, <1>2 DEF ClaimsWrite, Types, MembersOK
<1>6. Types'
  BY <1>2, <1>3, <1>4, <1>5 DEF Types, BillingOK
<1>7. QED
  BY <1>1, <1>2, <1>3, <1>4, <1>6, IdleOK, ClearTook DEF Mild, Safe

LEMMA KillOK ==
    ASSUME Types, NEW p \in Workers, Kill(p)
    PROVE  Types' /\ Mild(p) /\ Safe(p)
<1>1. UNCHANGED <<rows, claims, excused, bill, subs, keys, open, starts>>
  BY DEF Kill, Membership, AtStripe
<1>2. HandlersOK' /\ w'[p] = Idle /\ Others(p)
  <2>1. IdsOK(Idle, Len(subs)) /\ HandlerOK(Idle) /\ w' = [w EXCEPT ![p] = Idle]
    BY IdleOK DEF IdsOK, Kill, Types, BillingOK
  <2>2. QED
    BY <1>1, <2>1, MovedOn
<1>3. Failed /\ RestOK'
  BY <1>1, FaultOK DEF Kill, Types, RestOK
<1>4. QED
  BY <1>1, <1>2, <1>3, IdleOK DEF Types, MembersOK, BillingOK, Mild, Safe

LEMMA DeleteMoves ==
    ASSUME Types, NEW p \in Workers, Delete(p)
    PROVE  /\ HandlersOK' /\ Others(p) /\ Clear(w'[p])
           /\ w'[p].pc # "delete" /\ w'[p].edits = <<>>
<1> DEFINE m == w[p].edits[1].who
           frees == rows[m].status = "active"
           off == [w[p] EXCEPT !.edits = <<>>, !.changed = frees]
           stays == [w[p] EXCEPT !.edits = <<>>]
<1>1. w[p] \in Handlers /\ w[p].edits # <<>> /\ Head(w[p].edits).who = m
  <2>1. w[p] \in Handlers /\ w[p].edits # <<>>
    BY DEF Types, HandlersOK, HandlerOK, Delete, At
  <2>2. QED
    BY <2>1, NextEdit
<1>2. \A h \in {off, stays} : h \in Handlers /\ h.edits = <<>>
  <2>1. frees \in BOOLEAN /\ <<>> \in Seq(Edits)
    OBVIOUS
  <2> HIDE DEF frees
  <2>2. QED
    BY <1>1, <2>1 DEF Handlers
<1>3. PICK h \in {off, stays} : w' = [w EXCEPT ![p] = Onward(h)]
  BY <1>1 DEF Delete
<1> HIDE DEF off, stays
<1>4. /\ HandlerOK(Onward(h)) /\ Onward(h).edits = <<>> /\ Onward(h).old = 0
      /\ Onward(h).sub = 0 /\ Onward(h).pc \in {"idle", "row", "count"}
  BY <1>2, OnwardOK
<1>5. IdsOK(Onward(h), Len(subs)) /\ subs' = subs
  BY <1>4 DEF IdsOK, Types, BillingOK, Delete, AtStripe
<1>6. QED
  BY <1>3, <1>4, <1>5, MovedOn DEF Clear

LEMMA DeleteOK ==
    ASSUME Types, NEW p \in Workers, Delete(p)
    PROVE  Types' /\ (Championed => Championed') /\ Safe(p)
<1> DEFINE m == w[p].edits[1].who
<1>1. /\ w[p] \in Handlers /\ w[p].edits # <<>> /\ Head(w[p].edits).who = m
      /\ m \in Members /\ 1 \in DOMAIN w[p].edits /\ Harms(w[p].edits[1])
  <2>1. w[p] \in Handlers /\ w[p].edits # <<>> /\ w[p].edits[1].status = "none"
    BY DEF Types, HandlersOK, HandlerOK, Delete, At
  <2>2. QED
    BY <2>1, NextEdit DEF Edits, Harms
<1>2. UNCHANGED <<excused, bill, subs, keys, open, starts>>
  BY DEF Delete, AtStripe
<1>3. /\ HandlersOK' /\ Others(p) /\ Clear(w'[p])
      /\ w'[p].pc # "delete" /\ w'[p].edits = <<>>
  BY DeleteMoves
<1>4. \/ /\ rows' = [rows EXCEPT ![m] = Nobody] /\ claims' = [claims EXCEPT ![m] = Nobody]
         /\ faults' = faults
      \/ UNCHANGED <<rows, claims>> /\ Fault("refused")
  BY <1>1 DEF Delete, Gone
<1>5. (faults' = faults \/ Failed) /\ RestOK'
  BY <1>2, <1>4, FaultOK DEF Types, RestOK
<1>6. MembersOK'
  BY <1>1, <1>2, <1>4, NobodyOK DEF Types, MembersOK
<1>7. Types'
  BY <1>2, <1>3, <1>5, <1>6 DEF Types, BillingOK
<1>8. ASSUME Championed, open, ~excused
      PROVE  Champions' # {} /\ \A q \in Workers : ~Editing(w'[q])
  <2>1. \A q \in Workers : Editing(w[q]) => q = p
    BY <1>1, <1>8 DEF Championed, Editing
  <2>2. Outlasted(p) /\ Champions # {}
    BY <1>1, <1>8 DEF Championed, Editing
  <2>3. PICK c \in Members : /\ Spared(c, w[p].edits)
                             /\ Champion(rows[c]) \/ Promotes(w[p], c)
    BY <2>2 DEF Outlasted
  <2>4. c # m
    BY <1>1, <2>3 DEF Spared
  <2>5. Champion(rows[c])
    BY <2>3, <2>4 DEF Promotes
  <2>6. Champion(rows'[c])
    BY <1>4, <2>4, <2>5 DEF Types, MembersOK
  <2>7. QED
    BY <1>3, <2>1, <2>6 DEF Champions, Others, Editing
<1>9. Championed => Championed'
  BY <1>2, <1>8 DEF Championed
<1>10. w[p] # Idle /\ w[p].pc = "delete"
  BY IdleOK DEF Delete, At
<1>11. QED
  BY <1>2, <1>3, <1>5, <1>7, <1>9, <1>10, ClearTook DEF Safe

----------------------------------------------------------------------------
(* The routes of the members.                                                *)

\* A worker at rest is handed a request, or one of the nightly sweeps.
LEMMA Handed ==
    ASSUME Types, NEW p \in Workers, w[p] = Idle, NEW h, HandlerOK(h), h.old = 0, h.sub = 0,
           h.pc \in {"row", "delete", "claims_read", "count"}, open,
           w' = [w EXCEPT ![p] = h], UNCHANGED <<subs, keys, open>>, bill'.sub = bill.sub
    PROVE  HandlersOK' /\ Others(p) /\ w'[p] = h /\ Took(p)
<1>1. IdsOK(h, Len(subs)) /\ Clear(h)
  BY DEF IdsOK, Clear, Types, BillingOK
<1>2. HandlersOK' /\ Others(p) /\ w'[p] = h
  BY <1>1, MovedOn
<1>3. QED
  BY <1>1, <1>2, IdleOK, ClearTook

\* A list of edits to make. Who submits it while nobody edits leaves somebody
\* the edits spare, or the excuse is on record.
LEMMA Submitted ==
    ASSUME Types, NEW p \in Workers, NEW op, Request(p, op),
           NEW edits \in Seq(Edits), NEW pc \in {"row", "delete"}, edits # <<>>,
           pc = "delete" => edits[1].status = "none",
           pc = "row" => \A i \in DOMAIN edits : Upserts(edits[i]),
           Submit(p, edits, pc), NEW excuse \in BOOLEAN,
           Excuse(excuse \/ Overlapping(p)),
           Champions # {} /\ ~excuse =>
              \E m \in Members : /\ Spared(m, edits)
                                 /\ \/ Champion(rows[m])
                                    \/ /\ edits[1].who = m /\ edits[1].role = "org_admin"
                                       /\ rows[m].status = "active"
    PROVE  Types' /\ (Championed => Championed') /\ Safe(p)
<1> DEFINE h == [Idle EXCEPT !.edits = edits, !.pc = pc, !.last = TRUE]
<1>1. /\ w[p] = Idle /\ open /\ w' = [w EXCEPT ![p] = h]
      /\ UNCHANGED <<rows, claims, bill, subs, keys, open, faults>>
      /\ starts' \in 0 .. MaxStarts
  BY BoundsAssumption DEF Request, Free, Submit, AtStripe, Types, RestOK
<1>2. /\ h \in Handlers /\ h.edits = edits /\ h.pc = pc /\ h.old = 0 /\ h.sub = 0
  BY IdleOK DEF HandlerOK, Handlers, Points
<1> HIDE DEF h
<1>3. HandlerOK(h)
  BY <1>2 DEF HandlerOK
<1>4. HandlersOK' /\ Others(p) /\ w'[p] = h /\ Took(p)
  BY <1>1, <1>2, <1>3, Handed
<1>5. excused' \in BOOLEAN
  BY DEF Excuse, Types, RestOK, Overlapping
<1>6. Types'
  BY <1>1, <1>4, <1>5 DEF Types, MembersOK, BillingOK, RestOK
<1>7. ASSUME Championed, ~excused'
      PROVE  /\ Champions' # {} /\ Outlasted(p)'
             /\ \A q \in Workers : Editing(w'[q]) => q = p
  <2>1. ~excused /\ ~excuse /\ ~Overlapping(p)
    BY <1>7 DEF Excuse
  <2>2. Champions # {} /\ Champions' = Champions
    BY <1>1, <1>7, <2>1 DEF Championed, Champions, Champion
  <2>3. \A q \in Workers \ {p} : ~Editing(w[q])
    BY <2>1 DEF Overlapping, Editing
  <2>4. Outlasted(p)'
    BY <1>1, <1>2, <1>4, <2>1, <2>2 DEF Outlasted, Promotes
  <2>5. QED
    BY <1>4, <2>2, <2>3, <2>4 DEF Others
<1>8. QED
  BY <1>1, <1>4, <1>6, <1>7 DEF Championed, Safe

LEMMA AnotherChampion ==
    ASSUME NEW m, ~LastChampion
    PROVE  \E c \in Champions : c # m
<1> SUFFICES ASSUME Champions \subseteq {m} PROVE Cardinality(Champions) <= 1
  BY DEF LastChampion
<1>1. IsFiniteSet({m}) /\ Cardinality({m}) = 1
  BY FS_Singleton
<1>2. QED
  BY <1>1, FS_Subset

LEMMA OneEdit ==
    ASSUME NEW e \in Edits
    PROVE  /\ <<e>> \in Seq(Edits) /\ <<e>> # <<>> /\ <<e>>[1] = e
           /\ \A i \in DOMAIN <<e>> : <<e>>[i] = e
           /\ \A m : (e.who = m => ~Harms(e)) => Spared(m, <<e>>)
  BY DEF Spared

LEMMA PatchOK ==
    ASSUME Types, NEW p \in Workers, Patch(p)
    PROVE  Types' /\ (Championed => Championed') /\ Safe(p)
<1>1. PICK caller \in Callers, m \in Members, status \in {"keep", "active", "disabled"},
           role \in {"keep", "org_admin", "org_member"} :
        LET roleEdit == IF role \in {"keep", rows[m].role} THEN <<>>
                        ELSE <<Edit(m, "keep", role, FALSE)>>
            statusEdit == IF status \in {"keep", rows[m].status} THEN <<>>
                          ELSE <<Edit(m, status, "keep", FALSE)>>
            losesAdmin == rows[m].role = "org_admin"
                          /\ (role = "org_member" \/ status = "disabled")
        IN /\ Request(p, "patch")
           /\ rows[m] # Nobody
           /\ ~(caller = m /\ status = "disabled")
           /\ ~(rows[m].status = "pending" /\ status = "active")
           /\ ~(losesAdmin /\ LastChampion)
           /\ roleEdit \o statusEdit # <<>>
           /\ Submit(p, roleEdit \o statusEdit, "row")
           /\ Excuse(Overlapping(p))
  BY DEF Patch
<1> DEFINE r == Edit(m, "keep", role, FALSE)
           s == Edit(m, status, "keep", FALSE)
           roleEdit == IF role \in {"keep", rows[m].role} THEN <<>> ELSE <<r>>
           statusEdit == IF status \in {"keep", rows[m].status} THEN <<>> ELSE <<s>>
           edits == roleEdit \o statusEdit
           losesAdmin == rows[m].role = "org_admin" /\ (role = "org_member" \/ status = "disabled")
<1>2. /\ r \in Edits /\ r.who = m /\ r.status = "keep" /\ r.role = role /\ Upserts(r)
      /\ s \in Edits /\ s.who = m /\ s.status = status /\ s.role = "keep" /\ Upserts(s)
  BY DEF Edit, Edits, MemberStatuses, Upserts
<1>3. /\ Request(p, "patch") /\ ~(losesAdmin /\ LastChampion) /\ edits # <<>>
      /\ Submit(p, edits, "row") /\ Excuse(FALSE \/ Overlapping(p))
  BY <1>1 DEF Excuse
<1> HIDE DEF r, s
<1>4. /\ edits \in Seq(Edits)
      /\ \A i \in DOMAIN edits : edits[i] = r \/ edits[i] = s
  <2>1. roleEdit \in Seq(Edits) /\ statusEdit \in Seq(Edits)
    BY <1>2
  <2>2. /\ \A i \in DOMAIN roleEdit : roleEdit[i] = r
        /\ \A i \in DOMAIN statusEdit : statusEdit[i] = s
    <3>1. roleEdit \in {<<>>, <<r>>} /\ statusEdit \in {<<>>, <<s>>} /\ DOMAIN <<>> = {}
      OBVIOUS
    <3> HIDE DEF roleEdit, statusEdit
    <3>2. QED
      BY <1>2, <3>1, OneEdit
  <2> HIDE DEF roleEdit, statusEdit
  <2>3. QED
    BY <2>1, <2>2
<1> HIDE DEF edits
<1>5. \A i \in DOMAIN edits : Upserts(edits[i])
  BY <1>2, <1>4
<1>6. ASSUME Champions # {} PROVE \E c \in Members : Spared(c, edits) /\ Champion(rows[c])
  <2>1. \A c : c # m => Spared(c, edits)
    BY <1>2, <1>4 DEF Spared
  <2>2. CASE losesAdmin
    <3>1. PICK c \in Champions : c # m
      BY <1>3, <2>2, AnotherChampion
    <3>2. QED
      BY <2>1, <3>1 DEF Champions
  <2>3. CASE ~losesAdmin
    <3>1. PICK c \in Champions : TRUE
      BY <1>6
    <3>2. CASE c = m
      <4>1. role # "org_member" /\ status # "disabled"
        BY <2>3, <3>1, <3>2 DEF Champions, Champion
      <4>2. ~Harms(r) /\ ~Harms(s)
        BY <1>2, <4>1 DEF Harms
      <4>3. Spared(m, edits)
        BY <1>4, <4>2 DEF Spared
      <4>4. QED
        BY <3>1, <3>2, <4>3 DEF Champions
    <3>3. QED
      BY <2>1, <3>1, <3>2 DEF Champions
  <2>4. QED
    BY <2>2, <2>3
<1>7. QED
  BY <1>3, <1>4, <1>5, <1>6, Submitted

\* A request of one edit.
LEMMA OneEditOK ==
    ASSUME Types, NEW p \in Workers, NEW op, Request(p, op),
           NEW m \in Members, NEW status \in {"keep", "pending", "active", "disabled"},
           NEW role \in {"keep", "org_admin", "org_member"}, NEW firm \in BOOLEAN,
           firm => status # "keep",
           Submit(p, <<Edit(m, status, role, firm)>>, "row"), NEW excuse \in BOOLEAN,
           Excuse(excuse \/ Overlapping(p)),
           Champion(rows[m]) /\ (status = "disabled" \/ role = "org_member") => excuse
    PROVE  Types' /\ (Championed => Championed') /\ Safe(p)
<1> DEFINE e == Edit(m, status, role, firm)
           edits == <<e>>
<1>1. /\ e \in Edits /\ Upserts(e) /\ e.who = m /\ e.status = status /\ e.role = role
  BY DEF Edit, Edits, MemberStatuses, Upserts
<1> HIDE DEF e
<1>2. /\ edits \in Seq(Edits) /\ edits # <<>>
      /\ \A i \in DOMAIN edits : edits[i] = e
      /\ \A c : (e.who = c => ~Harms(e)) => Spared(c, edits)
  BY <1>1, OneEdit
<1>3. Submit(p, edits, "row")
  BY DEF e
<1> HIDE DEF edits
<1>4. ASSUME Champions # {}, ~excuse
      PROVE  \E c \in Members : Spared(c, edits) /\ Champion(rows[c])
  <2>1. PICK c \in Champions : TRUE
    BY <1>4
  <2>2. e.who = c => ~Harms(e)
    BY <1>1, <1>4, <2>1 DEF Champions, Harms
  <2>3. QED
    BY <1>2, <2>1, <2>2 DEF Champions
<1>5. QED
  BY <1>1, <1>2, <1>3, <1>4, Submitted

LEMMA StaffPatchOK ==
    ASSUME Types, NEW p \in Workers, StaffPatch(p)
    PROVE  Types' /\ (Championed => Championed') /\ Safe(p)
<1>1. PICK m \in Members, status \in {"active", "disabled"} :
        /\ Request(p, "staff_patch")
        /\ Submit(p, <<Edit(m, status, "keep", FALSE)>>, "row")
        /\ Excuse((status = "disabled" /\ Champion(rows[m])) \/ Overlapping(p))
  BY DEF StaffPatch
<1>2. (status = "disabled" /\ Champion(rows[m])) \in BOOLEAN
  BY DEF Champion
<1>3. QED
  BY <1>1, <1>2, OneEditOK

LEMMA InviteOK ==
    ASSUME Types, NEW p \in Workers, Invite(p)
    PROVE  Types' /\ (Championed => Championed') /\ Safe(p)
<1>1. PICK m \in Members :
        /\ Request(p, "invite") /\ rows[m].status \in {"none", "disabled"}
        /\ Submit(p, <<Edit(m, "pending", "org_member", TRUE)>>, "row")
        /\ Excuse(FALSE \/ Overlapping(p))
  BY DEF Invite, Excuse
<1>2. ~Champion(rows[m])
  BY <1>1 DEF Champion
<1>3. QED
  BY <1>1, <1>2, OneEditOK

LEMMA AcceptOK ==
    ASSUME Types, NEW p \in Workers, Accept(p)
    PROVE  Types' /\ (Championed => Championed') /\ Safe(p)
<1>1. PICK m \in Members :
        /\ Request(p, "accept")
        /\ Submit(p, <<Edit(m, "active", "keep", TRUE)>>, "row")
        /\ Excuse(FALSE \/ Overlapping(p))
  BY DEF Accept, Excuse
<1>2. QED
  BY <1>1, OneEditOK

LEMMA RemoveOK ==
    ASSUME Types, NEW p \in Workers, Remove(p)
    PROVE  Types' /\ (Championed => Championed') /\ Safe(p)
<1>1. PICK m \in Members :
        /\ Request(p, "remove")
        /\ Submit(p, <<Edit(m, "none", "keep", FALSE)>>, "delete")
        /\ Excuse(Champion(rows[m]) \/ Overlapping(p))
  BY DEF Remove
<1> DEFINE e == Edit(m, "none", "keep", FALSE)
           edits == <<e>>
           excuse == Champion(rows[m])
<1>2. e \in Edits /\ e.who = m /\ e.status = "none"
  BY DEF Edit, Edits, MemberStatuses
<1>3. Submit(p, edits, "delete") /\ Request(p, "remove")
      /\ excuse \in BOOLEAN /\ Excuse(excuse \/ Overlapping(p))
  BY <1>1 DEF Champion
<1> HIDE DEF e
<1>4. /\ edits \in Seq(Edits) /\ edits # <<>> /\ edits[1].status = "none"
      /\ \A c : c # m => Spared(c, edits)
  BY <1>2, OneEdit
<1> HIDE DEF edits
<1>5. ASSUME Champions # {}, ~excuse
      PROVE  \E c \in Members : Spared(c, edits) /\ Champion(rows[c])
  BY <1>4, <1>5 DEF Champions
<1> HIDE DEF excuse
<1>6. QED
  BY <1>3, <1>4, <1>5, Submitted

LEMMA TransferOK ==
    ASSUME Types, NEW p \in Workers, Transfer(p)
    PROVE  Types' /\ (Championed => Championed') /\ Safe(p)
<1> DEFINE Outgoing(order) == [i \in DOMAIN order |-> Edit(order[i], "keep", "org_member", FALSE)]
<1>1. PICK m \in Members :
        \E order \in [1 .. Cardinality(Champions \ {m}) -> Champions \ {m}] :
           /\ Request(p, "transfer") /\ rows[m].status = "active"
           /\ Submit(p, TransferEdits(m, Outgoing(order)), "row")
           /\ Excuse(FALSE \/ Overlapping(p))
  BY DEF Transfer, Excuse
<1>2. PICK order \in [1 .. Cardinality(Champions \ {m}) -> Champions \ {m}] :
        /\ Request(p, "transfer") /\ rows[m].status = "active"
        /\ Submit(p, TransferEdits(m, Outgoing(order)), "row")
        /\ Excuse(FALSE \/ Overlapping(p))
  BY <1>1
<1> DEFINE n == Cardinality(Champions \ {m})
           e == Edit(m, "keep", "org_admin", FALSE)
           out == Outgoing(order)
           edits == <<e>> \o out
<1>3. n \in Nat
  <2>1. Champions \ {m} \subseteq Members
    BY DEF Champions
  <2>2. QED
    BY <2>1, MembersAssumption, FS_Subset, FS_CardinalityType
<1>4. /\ e \in Edits /\ Upserts(e) /\ e.who = m /\ e.role = "org_admin" /\ ~Harms(e)
  BY DEF Edit, Edits, Upserts, Harms
<1>5. \A i \in 1 .. n : /\ out[i] \in Edits /\ Upserts(out[i]) /\ out[i].who # m
  BY DEF Edit, Edits, Upserts, Champions
<1>6. DOMAIN order = 1 .. n /\ DOMAIN out = 1 .. n
  OBVIOUS
<1>7. Submit(p, edits, "row")
  BY <1>2 DEF TransferEdits
<1> HIDE DEF n, e, out
<1>8. out \in Seq(Edits)
  <2>1. out = [i \in 1 .. n |-> out[i]]
    BY <1>6 DEF out
  <2>2. QED
    BY <1>3, <1>5, <2>1
<1>9. /\ edits \in Seq(Edits) /\ edits # <<>> /\ edits[1] = e
      /\ \A i \in DOMAIN edits : edits[i] = e \/ \E j \in 1 .. n : edits[i] = out[j]
  <2>1. Len(out) = n /\ <<e>> \in Seq(Edits) /\ Len(<<e>>) = 1 /\ <<e>>[1] = e
    BY <1>3, <1>4, <1>6, <1>8
  <2>2. /\ edits \in Seq(Edits) /\ DOMAIN edits = 1 .. n + 1 /\ edits[1] = e
        /\ \A i \in 1 .. n + 1 : i # 1 => edits[i] = out[i - 1] /\ i - 1 \in 1 .. n
    BY <1>3, <1>8, <2>1
  <2> HIDE DEF edits
  <2>3. edits # <<>>
    BY <1>3, <2>2
  <2>4. QED
    BY <2>2, <2>3
<1> HIDE DEF edits
<1>10. Spared(m, edits) /\ \A i \in DOMAIN edits : Upserts(edits[i])
  BY <1>4, <1>5, <1>9 DEF Spared
<1>11. QED
  BY <1>2, <1>4, <1>7, <1>9, <1>10, Submitted

----------------------------------------------------------------------------
(* What starts a sync, and the sweep of the claims.                          *)

\* A sync, or a sweep of one account's claims, begins on a worker at rest.
LEMMA BeginsOK ==
    ASSUME Types, NEW p \in Workers, w[p] = Idle, open, NEW h \in Handlers,
           h.pc \in {"count", "claims_read"}, h.pc = "claims_read" => h.who \in Members,
           h.edits = <<>>, h.old = 0, h.sub = 0, w' = [w EXCEPT ![p] = h],
           UNCHANGED <<rows, claims, excused, subs, keys, open, faults>>,
           bill' = [bill EXCEPT !.done = bill'.done], bill'.done \in BOOLEAN,
           starts' \in 0 .. MaxStarts
    PROVE  Types' /\ Mild(p) /\ Safe(p)
<1>1. HandlerOK(h)
  BY DEF HandlerOK
<1>2. bill' \in [done : BOOLEAN, sub : Nat, qty : 0 .. Cardinality(Members)] /\ bill'.sub = bill.sub
  BY DEF Types, BillingOK
<1>3. HandlersOK' /\ Others(p) /\ w'[p] = h /\ Took(p)
  BY <1>1, <1>2, Handed
<1>4. Types'
  BY <1>2, <1>3 DEF Types, MembersOK, BillingOK, RestOK
<1>5. QED
  BY <1>3, <1>4 DEF Mild, Safe

LEMMA Begun ==
    ASSUME NEW pc \in {"count", "claims_read"}, NEW m \in Members \cup {Staff}, NEW night \in BOOLEAN,
           NEW h \in {[Idle EXCEPT !.pc = pc], [Idle EXCEPT !.pc = pc, !.night = night],
                      [Idle EXCEPT !.pc = pc, !.who = m, !.night = night]}
    PROVE  h \in Handlers /\ h.pc = pc /\ h.edits = <<>> /\ h.old = 0 /\ h.sub = 0
<1>1. Idle \in Handlers /\ Idle.edits = <<>> /\ Idle.old = 0 /\ Idle.sub = 0 /\ pc \in Points
  BY IdleOK DEF HandlerOK, Points
<1>2. CASE h = [Idle EXCEPT !.pc = pc]
  BY <1>1, <1>2 DEF Handlers
<1>3. CASE h = [Idle EXCEPT !.pc = pc, !.night = night]
  BY <1>1, <1>3 DEF Handlers
<1>4. CASE h = [Idle EXCEPT !.pc = pc, !.who = m, !.night = night]
  BY <1>1, <1>4 DEF Handlers
<1>5. QED
  BY <1>2, <1>3, <1>4

LEMMA StartsOK ==
    ASSUME Types, NEW p \in Workers,
           AdminSync(p) \/ CompleteBilling(p) \/ SweepMembership(p) \/ SweepSeats(p)
    PROVE  Types' /\ Mild(p) /\ Safe(p)
<1>1. bill \in [done : BOOLEAN, sub : Nat, qty : 0 .. Cardinality(Members)]
  BY DEF Types, BillingOK
<1>2. CASE AdminSync(p) \/ CompleteBilling(p)
  <2>1. /\ w[p] = Idle /\ open /\ starts' \in 0 .. MaxStarts
        /\ w' = [w EXCEPT ![p] = [Idle EXCEPT !.pc = "count"]]
        /\ UNCHANGED <<rows, claims, excused, subs, keys, open, faults>>
    BY <1>2, BoundsAssumption
    DEF AdminSync, CompleteBilling, Request, Free, StartSync, Membership, AtStripe, Types, RestOK
  <2>2. bill' = [bill EXCEPT !.done = bill'.done] /\ bill'.done \in BOOLEAN
    BY <1>1, <1>2 DEF AdminSync, CompleteBilling
  <2> DEFINE h == [Idle EXCEPT !.pc = "count"]
  <2>3. h \in Handlers /\ h.pc = "count" /\ h.edits = <<>> /\ h.old = 0 /\ h.sub = 0
    BY Begun
  <2> HIDE DEF h
  <2>4. w' = [w EXCEPT ![p] = h]
    BY <2>1 DEF h
  <2>5. QED
    BY <2>1, <2>2, <2>3, <2>4, BeginsOK
<1>3. CASE SweepMembership(p) \/ SweepSeats(p)
  <2>1. /\ w[p] = Idle /\ open /\ starts' \in 0 .. MaxStarts
        /\ UNCHANGED <<rows, claims, excused, bill, subs, keys, open, faults>>
    BY <1>3 DEF SweepMembership, SweepSeats, Tonight, Free, Membership, AtStripe, Types, RestOK
  <2>2. bill' = [bill EXCEPT !.done = bill'.done] /\ bill'.done \in BOOLEAN
    BY <1>1, <2>1
  <2>3. CASE SweepSeats(p)
    <3> DEFINE h == [Idle EXCEPT !.pc = "count", !.night = TRUE]
    <3>1. h \in Handlers /\ h.pc = "count" /\ h.edits = <<>> /\ h.old = 0 /\ h.sub = 0
      BY Begun
    <3>2. w' = [w EXCEPT ![p] = h]
      BY <2>3 DEF SweepSeats, Tonight
    <3> HIDE DEF h
    <3>3. QED
      BY <2>1, <2>2, <3>1, <3>2, BeginsOK
  <2>4. CASE SweepMembership(p)
    <3>1. PICK m \in Members : Tonight(p, [Idle EXCEPT !.pc = "claims_read", !.who = m])
      BY <2>4 DEF SweepMembership
    <3> DEFINE h == [Idle EXCEPT !.pc = "claims_read", !.who = m, !.night = TRUE]
    <3>2. h \in Handlers /\ h.pc = "claims_read" /\ h.edits = <<>> /\ h.old = 0 /\ h.sub = 0
      BY Begun
    <3>3. h.who = m
      BY DEF Idle
    <3>4. w' = [w EXCEPT ![p] = h]
      BY <3>1 DEF Tonight
    <3> HIDE DEF h
    <3>5. QED
      BY <2>1, <2>2, <3>2, <3>3, <3>4, BeginsOK
  <2>5. QED
    BY <1>3, <2>3, <2>4
<1>4. QED
  BY <1>2, <1>3

----------------------------------------------------------------------------
(* The sync of the seats.                                                    *)

LEMMA WentOn ==
    ASSUME Types, NEW p \in Workers, w[p].pc # "delete",
           NEW h \in Handlers, h.edits = w[p].edits,
           h.pc \in {"bill", "list", "create", "record", "adopt", "adjust", "mirror"},
           Len(subs') \in Nat, Len(subs) <= Len(subs'), IdsOK(h, Len(subs')),
           w' = [w EXCEPT ![p] = h]
    PROVE  HandlersOK' /\ w'[p] = h /\ Others(p)
<1>1. HandlerOK(w[p]) /\ HandlersOK /\ Len(subs) \in Nat
  BY DEF Types, HandlersOK, BillingOK
<1>2. HandlerOK(h)
  BY <1>1 DEF HandlerOK
<1>3. QED
  BY <1>1, <1>2, Moved

\* A step that changes at most the handler and the faults.
LEMMA LookedOK ==
    ASSUME Types, NEW p \in Workers, HandlersOK', Others(p), faults' \in 0 .. MaxFaults,
           w'[p].pc # "delete", w'[p].edits = w[p].edits,
           UNCHANGED <<rows, claims, excused, bill, subs, keys, open, starts>>
    PROVE  Types' /\ Mild(p)
  BY DEF Types, MembersOK, BillingOK, RestOK, Mild

LEMMA CountOK == ASSUME Types, NEW p \in Workers, Count(p) PROVE Types' /\ Mild(p) /\ Safe(p)
<1>1. UNCHANGED <<rows, claims, excused, bill, subs, keys, open, starts>>
  BY DEF Count, Membership, AtStripe
<1>2. /\ w[p] \in Handlers /\ w[p].pc = "count" /\ IdsOK(w[p], Len(subs)) /\ Len(subs) \in Nat
  BY DEF Types, HandlersOK, Count, At, BillingOK
<1>3. PICK n \in 0 .. Cardinality(Members) :
        w' = [w EXCEPT ![p].n = n, ![p].pc = "bill"]
  <2>1. CASE w' = [w EXCEPT ![p].n = Cardinality(Active), ![p].pc = "bill"]
    BY <2>1, Seats
  <2>2. CASE Goto(p, "bill")
    <3>1. w[p].n \in 0 .. Cardinality(Members) /\ w \in [Workers -> Handlers]
      BY <1>2 DEF Handlers, Types, HandlersOK
    <3>2. w' = [w EXCEPT ![p].n = w[p].n, ![p].pc = "bill"]
      BY <2>2, <3>1 DEF Goto, Handlers
    <3>3. QED
      BY <3>1, <3>2
  <2>3. QED
    BY <2>1, <2>2 DEF Count
<1> DEFINE h == [w[p] EXCEPT !.n = n, !.pc = "bill"]
<1>4. /\ h \in Handlers /\ h.pc = "bill" /\ h.edits = w[p].edits
      /\ h.old = w[p].old /\ h.sub = w[p].sub /\ w' = [w EXCEPT ![p] = h]
  BY <1>2, <1>3 DEF Handlers, Points
<1> HIDE DEF h
<1>5. HandlersOK' /\ w'[p] = h /\ Others(p)
  <2>1. IdsOK(h, Len(subs')) /\ Len(subs') \in Nat /\ Len(subs) <= Len(subs')
    BY <1>1, <1>2, <1>4 DEF IdsOK
  <2>2. QED
    BY <1>2, <1>4, <2>1, WentOn
<1>6. (faults' = faults \/ Failed) /\ faults' \in 0 .. MaxFaults
  BY FaultOK DEF Count, Types, RestOK
<1>7. QED
  BY <1>1, <1>2, <1>4, <1>5, <1>6, LookedOK, IdleOK, ClearTook DEF Safe, Clear

\* The handler of a step of a sync, as it was.
LEMMA Syncing ==
    ASSUME Types, NEW p \in Workers,
           w[p].pc \in {"count", "bill", "list", "create", "record", "adopt", "adjust", "mirror"}
    PROVE  /\ w[p] \in Handlers /\ HandlerOK(w[p]) /\ IdsOK(w[p], Len(subs)) /\ w[p] # Idle
           /\ Len(subs) \in Nat /\ w[p].old \in Nat /\ w[p].sub \in Nat
           /\ bill.sub \in Nat /\ bill.sub <= Len(subs) /\ Live \subseteq 1 .. Len(subs)
  BY IdleOK DEF Types, HandlersOK, BillingOK, Handlers, Live

\* The sync ends without a change.
LEMMA EndedOK ==
    ASSUME Types, NEW p \in Workers,
           w[p].pc \in {"bill", "list", "create", "adjust", "mirror"}, Proceed(p),
           UNCHANGED <<rows, claims, excused, bill, subs, keys, open, starts>>,
           faults' = faults \/ (faults' \in 0 .. MaxFaults /\ Failed)
    PROVE  Types' /\ Mild(p) /\ Safe(p)
<1>1. w[p] # Idle /\ Len(subs) \in Nat
  BY Syncing
<1>2. HandlersOK' /\ Others(p) /\ Clear(w'[p]) /\ w'[p].pc # "delete" /\ w'[p].edits = w[p].edits
  BY <1>1, ProceedOK
<1>3. faults' \in 0 .. MaxFaults
  BY DEF Types, RestOK
<1>4. QED
  BY <1>1, <1>2, <1>3, LookedOK, ClearTook DEF Safe

LEMMA ReadBillOK == ASSUME Types, NEW p \in Workers, ReadBill(p) PROVE Types' /\ Mild(p) /\ Safe(p)
<1> DEFINE named == [w[p] EXCEPT !.old = bill.sub, !.sub = bill.sub,
                                 !.view = subs[bill.sub], !.pc = "adjust"]
           none == [w[p] EXCEPT !.old = bill.sub, !.pc = "list"]
<1>1. UNCHANGED <<rows, claims, excused, bill, subs, keys, open, starts>> /\ w[p].pc = "bill"
  BY DEF ReadBill, Membership, AtStripe, At
<1>2. /\ w[p] \in Handlers /\ IdsOK(w[p], Len(subs)) /\ w[p] # Idle /\ Len(subs) \in Nat
      /\ bill.sub \in Nat /\ bill.sub <= Len(subs) /\ Live \subseteq 1 .. Len(subs)
  BY <1>1, Syncing
<1>3. faults' \in 0 .. MaxFaults
  BY FaultOK DEF ReadBill, Types, RestOK
<1>4. CASE Proceed(p)
  BY <1>1, <1>4, FaultOK, EndedOK DEF ReadBill, Types
<1>5. CASE open /\ bill.sub \in Live /\ w' = [w EXCEPT ![p] = named] /\ faults' = faults
  <2>1. subs[bill.sub] \in Sub
    BY <1>5 DEF Types, BillingOK, Live
  <2>2. /\ named \in Handlers /\ named.pc = "adjust" /\ named.edits = w[p].edits
        /\ named.old = bill.sub /\ named.sub = bill.sub
    BY <1>2, <2>1 DEF Handlers, Points
  <2> HIDE DEF named
  <2>3. IdsOK(named, Len(subs')) /\ Len(subs') \in Nat /\ Len(subs) <= Len(subs')
    BY <1>1, <1>2, <1>5, <2>2 DEF IdsOK
  <2>4. HandlersOK' /\ w'[p] = named /\ Others(p)
    BY <1>1, <1>2, <1>5, <2>2, <2>3, WentOn
  <2>5. Took(p)
    <3>1. ~Before(named) /\ \A id \in 0 .. Len(subs) : Names(named, id) => id = bill.sub
      BY <2>2 DEF Before, Names
    <3>2. QED
      BY <1>1, <1>2, <1>5, <2>2, <2>4, <3>1 DEF Took, Held, Live
  <2>6. QED
    BY <1>1, <1>3, <1>5, <2>2, <2>4, <2>5, LookedOK DEF Safe
<1>6. CASE open /\ bill.sub \notin Live /\ w' = [w EXCEPT ![p] = none] /\ faults' = faults
  <2>1. /\ none \in Handlers /\ none.pc = "list" /\ none.edits = w[p].edits
        /\ none.old = bill.sub /\ none.sub = w[p].sub
    BY <1>2 DEF Handlers, Points
  <2> HIDE DEF none
  <2>2. IdsOK(none, Len(subs')) /\ Len(subs') \in Nat /\ Len(subs) <= Len(subs')
    BY <1>1, <1>2, <2>1 DEF IdsOK
  <2>3. HandlersOK' /\ w'[p] = none /\ Others(p)
    BY <1>1, <1>2, <1>6, <2>1, <2>2, WentOn
  <2>4. Took(p)
    <3>1. \A id : ~Names(none, id)
      BY <2>1 DEF Names
    <3>2. QED
      BY <1>1, <1>2, <1>6, <2>1, <2>3, <3>1 DEF Took, Live
  <2>5. QED
    BY <1>1, <1>3, <1>6, <2>1, <2>3, <2>4, LookedOK DEF Safe
<1>7. Proceed(p) \/ (open /\ faults' = faults /\
                     \/ bill.sub \in Live /\ w' = [w EXCEPT ![p] = named]
                     \/ bill.sub \notin Live /\ w' = [w EXCEPT ![p] = none])
  <2>1. open \in BOOLEAN
    BY DEF Types, RestOK
  <2>2. QED
    BY <2>1 DEF ReadBill
<1>8. QED
  BY <1>4, <1>5, <1>6, <1>7

LEMMA ListOK == ASSUME Types, NEW p \in Workers, List(p) PROVE Types' /\ Mild(p) /\ Safe(p)
<1> DEFINE none == [w[p] EXCEPT !.pc = "create"]
           found(s) == [w[p] EXCEPT !.sub = s, !.view = subs[s], !.pc = "adopt"]
<1>1. UNCHANGED <<rows, claims, excused, bill, subs, keys, open, starts>> /\ w[p].pc = "list"
  BY DEF List, Membership, AtStripe, At
<1>2. /\ w[p] \in Handlers /\ IdsOK(w[p], Len(subs)) /\ w[p] # Idle /\ Len(subs) \in Nat
      /\ w[p].old \in Nat /\ w[p].sub \in Nat /\ Live \subseteq 1 .. Len(subs)
  BY <1>1, Syncing
<1>3. faults' \in 0 .. MaxFaults
  BY FaultOK DEF List, Types, RestOK
<1>4. CASE Proceed(p)
  BY <1>1, <1>4, FaultOK, EndedOK DEF List, Types
<1>5. CASE Live = {} /\ w' = [w EXCEPT ![p] = none] /\ faults' = faults
  <2>1. /\ none \in Handlers /\ none.pc = "create" /\ none.edits = w[p].edits
        /\ none.old = w[p].old /\ none.sub = w[p].sub
    BY <1>2 DEF Handlers, Points
  <2> HIDE DEF none
  <2>2. IdsOK(none, Len(subs')) /\ Len(subs') \in Nat /\ Len(subs) <= Len(subs')
    BY <1>1, <1>2, <2>1 DEF IdsOK
  <2>3. HandlersOK' /\ w'[p] = none /\ Others(p)
    BY <1>1, <1>2, <1>5, <2>1, <2>2, WentOn
  <2>4. Took(p)
    <3>1. (\A id : ~Names(none, id)) /\ Before(w[p])
      BY <1>1, <2>1 DEF Names, Before
    <3>2. QED
      BY <1>1, <1>2, <1>5, <2>1, <2>3, <3>1 DEF Took, Live
  <2>5. QED
    BY <1>1, <1>3, <1>5, <2>1, <2>3, <2>4, LookedOK DEF Safe
<1>6. ASSUME NEW s \in Live, w' = [w EXCEPT ![p] = found(s)], faults' = faults
      PROVE  Types' /\ Mild(p) /\ Safe(p)
  <2>1. subs[s] \in Sub /\ s \in 1 .. Len(subs) /\ s \in Nat
    BY <1>2, <1>6 DEF Types, BillingOK, Live
  <2> DEFINE h == found(s)
  <2>2. /\ h \in Handlers /\ h.pc = "adopt" /\ h.edits = w[p].edits
        /\ h.old = w[p].old /\ h.sub = s
    BY <1>2, <2>1 DEF Handlers, Points
  <2>3. w' = [w EXCEPT ![p] = h]
    BY <1>6
  <2> HIDE DEF found, h
  <2>4. IdsOK(h, Len(subs')) /\ Len(subs') \in Nat /\ Len(subs) <= Len(subs')
    BY <1>1, <1>2, <2>1, <2>2 DEF IdsOK
  <2>5. HandlersOK' /\ w'[p] = h /\ Others(p)
    BY <1>1, <1>2, <2>2, <2>3, <2>4, WentOn
  <2>6. Took(p)
    <3>1. ~Before(h) /\ \A id : Names(h, id) => id = s
      BY <2>2 DEF Before, Names
    <3>2. QED
      BY <1>1, <1>2, <1>6, <2>2, <2>5, <3>1 DEF Took, Held, Live
  <2>7. QED
    BY <1>1, <1>3, <1>6, <2>2, <2>5, <2>6, LookedOK DEF Safe
<1>7. QED
  BY <1>4, <1>5, <1>6 DEF List, PickAdoptable, Goto

\* A subscription is created after one that is over, and takes its key. None
\* was live: a live one would be a second that had no create after it.
LEMMA CreatedOK ==
    ASSUME Types, Sole, NEW p \in Workers, w[p].pc = "create", keys[w[p].old] = NoKey,
           NEW n, n = Len(subs) + 1, n <= MaxSubs,
           Live' = Live \cup {n}, Len(subs') = n, NEW made, made.sub = n,
           keys' = [keys EXCEPT ![w[p].old] = made],
           UNCHANGED <<bill, open>>, Others(p), w'[p].pc = "record", w'[p].sub = n
    PROVE  Sole'
<1> DEFINE k == w[p].old
<1>1. /\ Len(subs) \in Nat /\ Live \subseteq 1 .. Len(subs) /\ w[p] # Idle /\ Before(w[p])
      /\ k \in 0 .. Len(subs) /\ k \in 0 .. MaxSubs /\ n \in Nat /\ n \notin 0 .. Len(subs)
      /\ 0 .. Len(subs) \subseteq 0 .. MaxSubs /\ 0 .. Len(subs') = 0 .. Len(subs) \cup {n}
  <2>1. /\ w[p] \in Handlers /\ IdsOK(w[p], Len(subs)) /\ w[p] # Idle /\ Len(subs) \in Nat
        /\ w[p].old \in Nat /\ Live \subseteq 1 .. Len(subs)
    BY Syncing
  <2>2. Before(w[p]) /\ MaxSubs \in Nat
    BY BoundsAssumption DEF Before
  <2>3. QED
    BY <2>1, <2>2 DEF IdsOK
<1>2. /\ OneEnd /\ FollowsDead /\ Held(k) /\ k \notin Live
  BY <1>1 DEF Sole, Busy, FollowsDead, Held
<1>3. Live = {}
  <2> SUFFICES ASSUME NEW s \in Live PROVE FALSE
    OBVIOUS
  <2>1. s \in 0 .. Len(subs) /\ Held(s) /\ keys[s] = NoKey
    BY <1>1, <1>2 DEF Held, FollowsDead
  <2>2. QED
    BY <1>1, <1>2, <2>1 DEF OneEnd
<1>4. Live' = {n} /\ made # NoKey
  BY <1>1, <1>3 DEF NoKey
<1>5. /\ keys \in [0 .. MaxSubs -> [sub : Nat, qty : Nat]]
      /\ \A j \in 0 .. MaxSubs : keys[j].sub <= Len(subs)
      /\ keys'[k] = made /\ \A j \in 0 .. MaxSubs : j # k => keys'[j] = keys[j]
  BY <1>1 DEF Types, BillingOK
<1>6. /\ ~Before(w'[p]) /\ \A id : Names(w'[p], id) <=> id = n
      /\ \A q \in Workers \ {p} : w'[q] = w[q]
  BY DEF Before, Names, Others
<1>7. \A q \in Workers : w[q].old <= Len(subs) /\ w[q].sub <= Len(subs) /\ w[q].old \in Nat
  BY DEF Types, HandlersOK, IdsOK, Handlers
<1>8. FollowsDead'
  <2>1. \A q \in Workers : Before(w'[q]) => w'[q].old # n
    BY <1>1, <1>6, <1>7
  <2>2. \A j \in 0 .. MaxSubs : keys'[j] # NoKey => j <= Len(subs') /\ j # n
    BY <1>1, <1>2, <1>5 DEF FollowsDead
  <2>3. QED
    BY <1>4, <2>1, <2>2 DEF FollowsDead
<1>9. OneEnd'
  <2>1. ASSUME NEW i \in 0 .. Len(subs'), Held(i)', keys'[i] = NoKey, i # n PROVE FALSE
    <3>1. i \in 0 .. Len(subs) /\ i # k /\ keys[i] = NoKey
      BY <1>1, <1>4, <1>5, <2>1
    <3>2. ASSUME NEW q \in Workers, Names(w'[q], i) \/ (Before(w'[q]) /\ i = w'[q].old)
          PROVE  Held(i)
      BY <1>6, <2>1, <3>2 DEF Held
    <3>3. ASSUME NEW j \in 0 .. MaxSubs, keys'[j] # NoKey, i = keys'[j].sub PROVE Held(i)
      BY <1>5, <2>1, <3>3 DEF Held
    <3>4. Held(i)
      BY <1>4, <2>1, <3>2, <3>3 DEF Held
    <3>5. QED
      BY <1>1, <1>2, <3>1, <3>4 DEF OneEnd
  <2>2. QED
    BY <2>1 DEF OneEnd
<1>10. ASSUME Standing' PROVE Tidy'
  <2>1. Standing /\ Tidy
    BY <1>10, <1>6 DEF Standing, Sole
  <2>2. \A j \in 0 .. MaxSubs : keys'[j] # NoKey => keys'[j].sub = n
    BY <1>3, <1>5, <2>1 DEF Tidy
  <2>3. \A q \in Workers, id \in 0 .. Len(subs') : Names(w'[q], id) => id = n
    BY <1>1, <1>3, <1>6, <2>1 DEF Tidy
  <2>4. \A q \in Workers : Before(w'[q]) => w'[q].old = bill.sub \/ keys'[w'[q].old] # NoKey
    <3>1. ASSUME NEW q \in Workers, Before(w'[q])
          PROVE  w'[q].old = bill.sub \/ keys'[w'[q].old] # NoKey
      <4>1. q # p /\ w'[q] = w[q] /\ w[q].old \in 0 .. MaxSubs
        BY <1>1, <1>6, <1>7, <3>1
      <4>2. QED
        BY <1>4, <1>5, <2>1, <3>1, <4>1 DEF Tidy
    <3>2. QED
      BY <3>1
  <2>5. k = bill.sub
    BY <1>1, <2>1 DEF Tidy
  <2>6. QED
    BY <1>4, <1>5, <2>2, <2>3, <2>4, <2>5 DEF Tidy
<1>11. QED
  BY <1>4, <1>8, <1>9, <1>10 DEF Sole, OneLive

LEMMA CreateOK ==
    ASSUME Types, NEW p \in Workers, Create(p)
    PROVE  Types' /\ Mild(p) /\ (Sole => Failed \/ (faults' = faults /\ Sole'))
<1> DEFINE k == w[p].old
           n == Len(subs) + 1
           sub == [live |-> TRUE, qty |-> w[p].n, winding |-> FALSE]
           key == [sub |-> n, qty |-> w[p].n]
           made(s) == [w[p] EXCEPT !.pc = "record", !.sub = s]
<1>1. UNCHANGED <<rows, claims, excused, bill, open, starts>> /\ w[p].pc = "create"
  BY DEF Create, Membership, At
<1>2. /\ w[p] \in Handlers /\ IdsOK(w[p], Len(subs)) /\ w[p] # Idle /\ Len(subs) \in Nat
      /\ w[p].old \in Nat /\ w[p].sub \in Nat /\ k \in 0 .. MaxSubs /\ w[p].n \in Nat
  <2>1. /\ w[p] \in Handlers /\ IdsOK(w[p], Len(subs)) /\ w[p] # Idle /\ Len(subs) \in Nat
        /\ w[p].old \in Nat /\ w[p].sub \in Nat
    BY <1>1, Syncing
  <2>2. Len(subs) <= MaxSubs /\ MaxSubs \in Nat
    BY BoundsAssumption DEF Types, BillingOK
  <2>3. QED
    BY <2>1, <2>2, Seats DEF IdsOK, Handlers
<1>3. faults' \in 0 .. MaxFaults /\ (faults' = faults \/ Failed)
  BY FaultOK DEF Create, Types, RestOK
<1>4. ASSUME NEW s \in 1 .. n
      PROVE  /\ made(s) \in Handlers /\ made(s).pc = "record" /\ made(s).edits = w[p].edits
             /\ made(s).old = k /\ made(s).sub = s
             /\ \A last \in Nat : Len(subs) <= last /\ s <= last => IdsOK(made(s), last)
  <2>1. s \in Nat /\ s # 0
    BY <1>2
  <2>2. /\ made(s) \in Handlers /\ made(s).pc = "record" /\ made(s).edits = w[p].edits
        /\ made(s).old = k /\ made(s).sub = s
    BY <1>2, <2>1 DEF Handlers, Points
  <2> HIDE DEF made
  <2>3. QED
    BY <1>2, <2>1, <2>2 DEF IdsOK
<1>5. CASE /\ keys[k] = NoKey /\ Len(subs) < MaxSubs
           /\ subs' = Append(subs, sub) /\ keys' = [keys EXCEPT ![k] = key]
           /\ \/ w' = [w EXCEPT ![p] = made(n)] /\ faults' = faults
              \/ Fault("stripe") /\ Proceed(p)
  <2>1. sub \in Sub /\ sub.live /\ key \in [sub : Nat, qty : Nat] /\ key.sub = n /\ n # 0
    BY <1>2 DEF Sub
  <2> HIDE DEF sub, key
  <2>2. /\ subs' \in Seq(Sub) /\ Len(subs') = n /\ subs'[n] = sub /\ DOMAIN subs' = DOMAIN subs \cup {n}
        /\ \A s \in DOMAIN subs : subs'[s] = subs[s]
    <3>1. subs \in Seq(Sub)
      BY DEF Types, BillingOK
    <3>2. QED
      BY <1>5, <2>1, <3>1
  <2>3. Live' = Live \cup {n}
    <3>1. DOMAIN subs = 1 .. Len(subs)
      BY DEF Types, BillingOK
    <3>2. QED
      BY <1>2, <2>1, <2>2, <3>1 DEF Live
  <2>4. n \in Nat /\ n <= MaxSubs /\ Len(subs) <= n
    BY <1>2, <1>5, BoundsAssumption
  <2>5. /\ keys' \in [0 .. MaxSubs -> [sub : Nat, qty : Nat]]
        /\ \A j \in 0 .. MaxSubs : keys'[j].sub <= n /\ (keys'[j] # NoKey => keys'[j].sub # 0)
    BY <1>2, <1>5, <2>1, <2>4 DEF Types, BillingOK
  <2>6. ASSUME HandlersOK', Others(p), w'[p].pc # "delete", w'[p].edits = w[p].edits
        PROVE  Types' /\ Mild(p)
    <3>1. BillingOK'
      BY <1>1, <1>2, <2>2, <2>4, <2>5 DEF Types, BillingOK
    <3>2. QED
      BY <1>1, <1>3, <2>6, <3>1 DEF Types, MembersOK, RestOK, Mild
  <2>7. CASE Fault("stripe") /\ Proceed(p)
    <3>1. /\ HandlersOK' /\ Others(p) /\ w'[p].pc # "delete" /\ w'[p].edits = w[p].edits
      BY <1>1, <2>2, <2>4, <2>7, ProceedOK
    <3>2. QED
      BY <2>6, <2>7, <3>1, FaultOK DEF Types
  <2>8. CASE w' = [w EXCEPT ![p] = made(n)] /\ faults' = faults
    <3> DEFINE h == made(n)
    <3>1. /\ h \in Handlers /\ h.pc = "record" /\ h.edits = w[p].edits /\ h.sub = n
          /\ IdsOK(h, Len(subs')) /\ w' = [w EXCEPT ![p] = h]
      <4>1. n \in 1 .. n /\ Len(subs') \in Nat /\ Len(subs) <= Len(subs') /\ n <= Len(subs')
        BY <1>2, <2>2, <2>4
      <4> HIDE DEF made, n
      <4>2. QED
        BY <1>4, <2>8, <4>1
    <3> HIDE DEF h, made
    <3>2. HandlersOK' /\ w'[p] = h /\ Others(p)
      BY <1>1, <2>2, <2>4, <3>1, WentOn
    <3>3. Types' /\ Mild(p)
      BY <2>6, <3>1, <3>2
    <3>4. Sole => Sole'
      BY <1>1, <1>5, <2>1, <2>2, <2>3, <2>4, <3>1, <3>2, CreatedOK
    <3>5. QED
      BY <2>8, <3>3, <3>4
  <2>9. QED
    BY <1>5, <2>7, <2>8
<1>6. CASE /\ keys[k] # NoKey /\ UNCHANGED <<subs, keys, faults>>
           /\ w' = [w EXCEPT ![p] = Onward(w[p])]
  BY <1>1, <1>6, EndedOK, TookOK DEF Proceed, Safe
<1>7. CASE /\ keys[k] # NoKey /\ UNCHANGED <<subs, keys, faults>>
           /\ w' = [w EXCEPT ![p] = made(keys[k].sub)]
  <2> DEFINE s == keys[k].sub
             h == made(s)
  <2>1. s \in 1 .. n /\ s <= Len(subs)
    BY <1>2, <1>7 DEF Types, BillingOK
  <2>2. /\ h \in Handlers /\ h.pc = "record" /\ h.edits = w[p].edits /\ h.sub = s
        /\ IdsOK(h, Len(subs')) /\ w' = [w EXCEPT ![p] = h]
        /\ Len(subs') \in Nat /\ Len(subs) <= Len(subs')
    <3>1. Len(subs') \in Nat /\ Len(subs) <= Len(subs') /\ s <= Len(subs')
      BY <1>2, <1>7, <2>1
    <3> HIDE DEF made, n
    <3>2. QED
      BY <1>4, <1>7, <2>1, <3>1
  <2> HIDE DEF h, made
  <2>3. HandlersOK' /\ w'[p] = h /\ Others(p)
    BY <1>1, <2>2, WentOn
  <2>4. Types' /\ Mild(p)
    BY <1>1, <1>3, <1>7, <2>2, <2>3, LookedOK
  <2>5. ASSUME Sole PROVE Took(p)
    <3>1. ~Before(h) /\ \A id : Names(h, id) => id = s
      BY <2>2 DEF Before, Names
    <3>2. Held(s) /\ (Standing => s \in Live)
      BY <1>2, <1>7, <2>5 DEF Held, Sole, Tidy
    <3>3. QED
      BY <1>1, <1>2, <1>7, <2>2, <2>3, <3>1, <3>2 DEF Took, Live
  <2>6. QED
    BY <1>7, <2>4, <2>5, TookOK
<1>8. QED
  BY <1>5, <1>6, <1>7 DEF Create

\* The id of a subscription is written down, or put back.
LEMMA WroteOK ==
    ASSUME Types, Sole, NEW p \in Workers, open, NEW id \in 0 .. Len(subs), Names(w[p], id),
           bill'.sub = id, UNCHANGED <<keys, open>>, Live' = Live, Len(subs') = Len(subs),
           Others(p), ~Before(w'[p]), w'[p].pc # "close", \A i : Names(w'[p], i) => i = id
    PROVE  Sole'
<1>1. w[p].pc # "close" /\ ~Before(w[p])
  BY DEF Names, Before
<1>2. OneLive' /\ FollowsDead'
  BY DEF Sole, OneLive, FollowsDead, Others
<1>3. OneEnd'
  <2>1. Held(id)
    BY DEF Held
  <2>2. ASSUME NEW i, Held(i)' PROVE Held(i)
    <3>1. ASSUME NEW q \in Workers, Names(w'[q], i) \/ (Before(w'[q]) /\ i = w'[q].old)
          PROVE  Held(i)
      BY <2>1, <3>1 DEF Others, Held
    <3>2. QED
      BY <2>1, <2>2, <3>1 DEF Held
  <2>3. OneEnd
    BY DEF Sole, Busy
  <2>4. QED
    BY <2>2, <2>3 DEF OneEnd
<1>4. ASSUME Standing' PROVE Tidy'
  <2>1. Standing /\ Tidy
    BY <1>1, <1>4 DEF Standing, Others, Sole
  <2>2. id \in Live
    BY <2>1 DEF Tidy
  <2>3. \A q \in Workers, i \in 0 .. Len(subs) : Names(w'[q], i) => i \in Live
    BY <2>1, <2>2 DEF Tidy, Others
  <2>4. ASSUME NEW q \in Workers, Before(w'[q]) PROVE keys[w'[q].old] # NoKey
    <3>1. w'[q] = w[q] /\ Before(w[q])
      BY <2>4 DEF Others
    <3>2. w[q].old \notin Live
      BY <3>1 DEF Sole, FollowsDead
    <3>3. QED
      BY <2>1, <2>2, <3>1, <3>2 DEF Tidy
  <2>5. \A s \in Live : s = id
    BY <2>2 DEF Sole, OneLive
  <2>6. QED
    BY <2>1, <2>3, <2>4, <2>5 DEF Tidy
<1>5. QED
  BY <1>2, <1>3, <1>4 DEF Sole

LEMMA RecordOK ==
    ASSUME Types, NEW p \in Workers, Record(p)
    PROVE  Types' /\ Mild(p) /\ (Sole => Failed \/ (faults' = faults /\ Sole'))
<1> DEFINE id == w[p].sub
           go == [w[p] EXCEPT !.pc = "adjust"]
<1>1. UNCHANGED <<rows, claims, excused, subs, keys, open, starts>> /\ w[p].pc \in {"record", "adopt"}
  BY DEF Record, Membership, AtStripe
<1>2. /\ w[p] \in Handlers /\ IdsOK(w[p], Len(subs)) /\ w[p] # Idle /\ Len(subs) \in Nat
      /\ id \in 0 .. Len(subs) /\ w[p].n \in 0 .. Cardinality(Members)
  <2>1. /\ w[p] \in Handlers /\ IdsOK(w[p], Len(subs)) /\ w[p] # Idle /\ Len(subs) \in Nat
        /\ w[p].sub \in Nat
    BY <1>1, Syncing
  <2>2. QED
    BY <2>1 DEF IdsOK, Handlers
<1>3. faults' \in 0 .. MaxFaults /\ (faults' = faults \/ Failed)
  BY FaultOK DEF Record, Types, RestOK
<1>4. /\ bill' \in [done : BOOLEAN, sub : Nat, qty : 0 .. Cardinality(Members)]
      /\ bill'.sub \in {bill.sub, id}
      /\ ~open => bill'.sub = bill.sub
      /\ faults' # faults \/ ~open \/ bill'.sub = id
  <2>1. bill \in [done : BOOLEAN, sub : Nat, qty : 0 .. Cardinality(Members)] /\ id \in Nat
    BY <1>2 DEF Types, BillingOK
  <2>2. CASE UNCHANGED bill /\ Fault("record")
    BY <2>1, <2>2, BoundsAssumption DEF Fault, Types, RestOK
  <2>3. CASE bill' = IF ~open THEN bill
                     ELSE IF At(p, "adopt") THEN [bill EXCEPT !.sub = w[p].sub]
                     ELSE [bill EXCEPT !.sub = w[p].sub, !.qty = w[p].n]
    <3>1. CASE ~open
      BY <2>1, <2>3, <3>1
    <3>2. CASE open /\ At(p, "adopt")
      BY <2>1, <2>3, <3>2
    <3>3. CASE open /\ ~At(p, "adopt")
      BY <1>2, <2>1, <2>3, <3>3
    <3>4. open \in BOOLEAN
      BY DEF Types, RestOK
    <3>5. QED
      BY <3>1, <3>2, <3>3, <3>4
  <2>4. QED
    BY <2>2, <2>3 DEF Record
<1>5. /\ HandlersOK' /\ Others(p) /\ w'[p].pc # "delete" /\ w'[p].edits = w[p].edits
      /\ ~Before(w'[p]) /\ w'[p].pc # "close" /\ \A i : Names(w'[p], i) => i = id
  <2>1. Len(subs') \in Nat /\ Len(subs) <= Len(subs')
    BY <1>1, <1>2
  <2>2. CASE Proceed(p)
    <3>1. HandlersOK' /\ Others(p) /\ Clear(w'[p]) /\ w'[p].pc # "delete" /\ w'[p].edits = w[p].edits
      BY <1>1, <2>1, <2>2, ProceedOK
    <3>2. QED
      BY <3>1 DEF Clear, Before, Names
  <2>3. CASE Goto(p, "adjust")
    <3>1. /\ go \in Handlers /\ go.pc = "adjust" /\ go.edits = w[p].edits
          /\ go.old = w[p].old /\ go.sub = id /\ w' = [w EXCEPT ![p] = go]
      BY <1>2, <2>3 DEF Handlers, Points, Goto
    <3> HIDE DEF go
    <3>2. IdsOK(go, Len(subs'))
      BY <1>1, <1>2, <3>1 DEF IdsOK
    <3>3. HandlersOK' /\ w'[p] = go /\ Others(p)
      BY <1>1, <1>2, <2>1, <3>1, <3>2, WentOn
    <3>4. QED
      BY <3>1, <3>3 DEF Before, Names
  <2>4. QED
    BY <2>2, <2>3 DEF Record
<1>6. Types' /\ Mild(p)
  <2>1. BillingOK'
    BY <1>1, <1>2, <1>4 DEF Types, BillingOK
  <2>2. QED
    BY <1>1, <1>3, <1>5, <2>1 DEF Types, MembersOK, RestOK, Mild
<1>7. ASSUME Sole, faults' = faults PROVE Sole'
  <2>1. Names(w[p], id) /\ (w[p].pc = "adopt" => Names(w[p], w[p].sub))
    BY <1>1 DEF Names
  <2>2. CASE open
    BY <1>1, <1>2, <1>4, <1>5, <1>7, <2>1, <2>2, WroteOK DEF Live
  <2>3. CASE ~open
    <3>1. Held(id) /\ ~Standing
      BY <2>1, <2>3 DEF Held, Standing
    <3>2. Took(p)
      BY <1>1, <1>2, <1>4, <1>5, <2>3, <3>1 DEF Took, Live
    <3>3. QED
      BY <1>7, <3>2, TookOK
  <2>4. open \in BOOLEAN
    BY DEF Types, RestOK
  <2>5. QED
    BY <2>2, <2>3, <2>4
<1>8. QED
  BY <1>3, <1>6, <1>7

LEMMA MirrorOK ==
    ASSUME Types, NEW p \in Workers, Mirror(p)
    PROVE  Types' /\ Mild(p) /\ (Sole => Failed \/ (faults' = faults /\ Sole'))
<1> DEFINE id == w[p].old
<1>1. UNCHANGED <<rows, claims, excused, subs, keys, open, starts>> /\ w[p].pc = "mirror" /\ Proceed(p)
  BY DEF Mirror, Membership, AtStripe, At
<1>2. /\ w[p] \in Handlers /\ w[p] # Idle /\ Len(subs) \in Nat
      /\ id \in 0 .. Len(subs) /\ w[p].n \in 0 .. Cardinality(Members)
  <2>1. /\ w[p] \in Handlers /\ IdsOK(w[p], Len(subs)) /\ w[p] # Idle /\ Len(subs) \in Nat
        /\ w[p].old \in Nat
    BY <1>1, Syncing
  <2>2. QED
    BY <2>1 DEF IdsOK, Handlers
<1>3. faults' \in 0 .. MaxFaults /\ (faults' = faults \/ Failed)
  BY FaultOK DEF Mirror, Types, RestOK
<1>4. /\ bill' \in [done : BOOLEAN, sub : Nat, qty : 0 .. Cardinality(Members)]
      /\ bill'.sub = bill.sub \/ (open /\ id # 0 /\ bill'.sub = id)
  <2>1. bill \in [done : BOOLEAN, sub : Nat, qty : 0 .. Cardinality(Members)] /\ id \in Nat
    BY <1>2 DEF Types, BillingOK
  <2>2. open \in BOOLEAN
    BY DEF Types, RestOK
  <2>3. bill' = bill \/ (open /\ bill' = [bill EXCEPT !.qty = w[p].n, !.sub = IF id # 0 THEN id ELSE @])
    BY <2>2 DEF Mirror
  <2>4. QED
    BY <1>2, <2>1, <2>3
<1>5. HandlersOK' /\ Others(p) /\ Clear(w'[p]) /\ w'[p].pc # "delete" /\ w'[p].edits = w[p].edits
  BY <1>1, <1>2, ProceedOK
<1>6. Types' /\ Mild(p)
  <2>1. BillingOK'
    BY <1>1, <1>2, <1>4 DEF Types, BillingOK
  <2>2. QED
    BY <1>1, <1>3, <1>5, <2>1 DEF Types, MembersOK, RestOK, Mild
<1>7. ASSUME Sole PROVE Sole'
  <2>1. CASE bill'.sub = bill.sub
    BY <1>1, <1>2, <1>5, <1>7, <2>1, ClearTook, TookOK
  <2>2. CASE open /\ id # 0 /\ bill'.sub = id
    <3>1. Names(w[p], id) /\ ~Before(w'[p]) /\ w'[p].pc # "close" /\ \A i : ~Names(w'[p], i)
      BY <1>1, <1>5, <2>2 DEF Names, Before, Clear
    <3>2. QED
      BY <1>1, <1>2, <1>5, <1>7, <2>2, <3>1, WroteOK DEF Live
  <2>3. QED
    BY <1>4, <2>1, <2>2
<1>8. QED
  BY <1>3, <1>6, <1>7

LEMMA AdjustOK == ASSUME Types, NEW p \in Workers, Adjust(p) PROVE Types' /\ Mild(p) /\ Safe(p)
<1> DEFINE s == w[p].sub
           same == [w[p] EXCEPT !.pc = "mirror", !.old = 0]
           sent == [w[p] EXCEPT !.pc = "mirror", !.view = Wanted(p),
                                !.old = IF w[p].n # 0 THEN s ELSE 0]
           changed == [subs EXCEPT ![s].winding = Wanted(p).winding,
                                   ![s].qty = IF w[p].n # 0 THEN w[p].n ELSE @]
<1>1. UNCHANGED <<rows, claims, excused, bill, keys, open, starts>> /\ w[p].pc = "adjust"
  BY DEF Adjust, Membership, At
<1>2. /\ w[p] \in Handlers /\ IdsOK(w[p], Len(subs)) /\ w[p] # Idle /\ Len(subs) \in Nat
      /\ s \in 1 .. Len(subs) /\ w[p].n \in Nat /\ w[p].view \in Sub
  <2>1. /\ w[p] \in Handlers /\ IdsOK(w[p], Len(subs)) /\ w[p] # Idle /\ Len(subs) \in Nat
        /\ w[p].sub \in Nat
    BY <1>1, Syncing
  <2>2. w[p].n \in Nat /\ w[p].view \in Sub
    BY <2>1, Seats DEF Handlers
  <2>3. QED
    BY <1>1, <2>1, <2>2 DEF IdsOK
<1>3. faults' \in 0 .. MaxFaults /\ (faults' = faults \/ Failed)
  BY FaultOK DEF Adjust, Types, RestOK
<1>4. Wanted(p) \in Sub
  BY <1>2 DEF Wanted, Sub
<1>5. CASE w' = [w EXCEPT ![p].pc = "mirror", ![p].old = 0] /\ UNCHANGED <<subs, faults>>
  <2>1. /\ same \in Handlers /\ same.pc = "mirror" /\ same.edits = w[p].edits
        /\ same.old = 0 /\ same.sub = s /\ w' = [w EXCEPT ![p] = same]
    BY <1>2, <1>5 DEF Handlers, Points
  <2> HIDE DEF same
  <2>2. IdsOK(same, Len(subs')) /\ Len(subs') \in Nat /\ Len(subs) <= Len(subs')
    BY <1>2, <1>5, <2>1 DEF IdsOK
  <2>3. HandlersOK' /\ w'[p] = same /\ Others(p)
    BY <1>1, <1>2, <2>1, <2>2, WentOn
  <2>4. Took(p)
    <3>1. ~Before(same) /\ \A id : ~Names(same, id)
      BY <2>1 DEF Before, Names
    <3>2. QED
      BY <1>1, <1>2, <1>5, <2>1, <2>3, <3>1 DEF Took, Live
  <2>5. QED
    BY <1>1, <1>3, <1>5, <2>1, <2>3, <2>4, LookedOK DEF Safe
<1>6. CASE /\ subs[s].live /\ subs' = changed
           /\ \/ w' = [w EXCEPT ![p] = sent] /\ UNCHANGED faults
              \/ Fault("stripe") /\ Proceed(p)
  <2>1. /\ subs' \in Seq(Sub) /\ Len(subs') = Len(subs) /\ DOMAIN subs' = DOMAIN subs
        /\ \A i \in DOMAIN subs : subs'[i].live = subs[i].live
    <3> DEFINE seat == [subs[s] EXCEPT !.winding = Wanted(p).winding,
                                       !.qty = IF w[p].n # 0 THEN w[p].n ELSE @]
    <3>1. subs \in [1 .. Len(subs) -> Sub] /\ DOMAIN subs = 1 .. Len(subs)
      BY DEF Types, BillingOK
    <3>2. Wanted(p).winding \in BOOLEAN /\ subs[s] \in Sub
      BY <1>2, <1>4, <3>1 DEF Sub
    <3>3. seat \in Sub /\ seat.live = subs[s].live
      BY <1>2, <3>2 DEF Sub
    <3>4. subs' = [subs EXCEPT ![s] = seat]
      BY <1>2, <1>6, <3>1, <3>2 DEF Sub
    <3> HIDE DEF seat
    <3>5. QED
      BY <1>2, <3>1, <3>3, <3>4
  <2>2. Live' = Live /\ s \in Live
    BY <1>2, <1>6, <2>1 DEF Live, Types, BillingOK
  <2>3. BillingOK'
    BY <1>1, <2>1 DEF Types, BillingOK
  <2>4. ASSUME HandlersOK', Others(p), w'[p].pc # "delete", w'[p].edits = w[p].edits
        PROVE  Types' /\ Mild(p)
    BY <1>1, <1>3, <2>3, <2>4 DEF Types, MembersOK, RestOK, Mild
  <2>5. CASE Fault("stripe") /\ Proceed(p)
    <3>1. /\ HandlersOK' /\ Others(p) /\ w'[p].pc # "delete" /\ w'[p].edits = w[p].edits
      BY <1>1, <1>2, <2>1, <2>5, ProceedOK
    <3>2. QED
      BY <2>4, <2>5, <3>1, FaultOK DEF Types, Safe
  <2>6. CASE w' = [w EXCEPT ![p] = sent] /\ UNCHANGED faults
    <3>1. /\ sent \in Handlers /\ sent.pc = "mirror" /\ sent.edits = w[p].edits
          /\ sent.old \in {0, s} /\ sent.sub = s
      BY <1>2, <1>4 DEF Handlers, Points
    <3> HIDE DEF sent
    <3>2. IdsOK(sent, Len(subs')) /\ Len(subs') \in Nat /\ Len(subs) <= Len(subs')
      BY <1>2, <2>1, <3>1 DEF IdsOK
    <3>3. HandlersOK' /\ w'[p] = sent /\ Others(p)
      BY <1>1, <1>2, <2>6, <3>1, <3>2, WentOn
    <3>4. Took(p)
      <4>1. ~Before(sent) /\ \A id : Names(sent, id) => id = s
        BY <3>1 DEF Before, Names
      <4>2. QED
        BY <1>1, <1>2, <2>1, <2>2, <3>1, <3>3, <4>1 DEF Took, Held
    <3>5. QED
      BY <2>4, <2>6, <3>1, <3>3, <3>4 DEF Safe
  <2>7. QED
    BY <1>6, <2>5, <2>6
<1>7. CASE Proceed(p) /\ UNCHANGED <<subs, faults>>
  BY <1>1, <1>7, EndedOK
<1>8. QED
  BY <1>5, <1>6, <1>7 DEF Adjust

----------------------------------------------------------------------------
(* The organisation is removed, and what Stripe does by itself.              *)

LEMMA CloseCancelOK ==
    ASSUME Types, NEW p \in Workers, CloseCancel(p)
    PROVE  Types' /\ Mild(p) /\ (Sole => Failed \/ (faults' = faults /\ Sole'))
<1> DEFINE closing == [Idle EXCEPT !.pc = "close"]
<1>1. /\ UNCHANGED <<rows, claims, excused, bill, keys, open>> /\ w[p] = Idle /\ open
      /\ starts' \in 0 .. MaxStarts
  BY BoundsAssumption DEF CloseCancel, Request, Free, Membership, Types, RestOK
<1>2. /\ closing \in Handlers /\ closing.pc = "close" /\ closing.edits = <<>>
      /\ closing.old = 0 /\ closing.sub = 0
  BY IdleOK DEF HandlerOK, Handlers, Points
<1> HIDE DEF closing
<1> DEFINE cancelled == IF bill.sub \in Live THEN [subs EXCEPT ![bill.sub].live = FALSE] ELSE subs
<1>a. /\ cancelled \in Seq(Sub) /\ Len(cancelled) = Len(subs) /\ Len(subs) \in Nat
      /\ {s \in DOMAIN cancelled : cancelled[s].live} \subseteq Live
    <3>1. subs \in [1 .. Len(subs) -> Sub] /\ DOMAIN subs = 1 .. Len(subs) /\ Len(subs) \in Nat
      BY DEF Types, BillingOK
    <3>2. CASE bill.sub \in Live
      <4> DEFINE over == [subs[bill.sub] EXCEPT !.live = FALSE]
      <4>1. bill.sub \in 1 .. Len(subs) /\ subs[bill.sub] \in Sub
        BY <3>1, <3>2 DEF Live
      <4>2. over \in Sub /\ ~over.live
        BY <4>1 DEF Sub
      <4>3. cancelled = [subs EXCEPT ![bill.sub] = over]
        BY <3>1, <3>2, <4>1
      <4> HIDE DEF over, cancelled
      <4>4. cancelled \in [1 .. Len(subs) -> Sub]
        BY <3>1, <4>1, <4>2, <4>3
      <4>5. cancelled \in Seq(Sub) /\ Len(cancelled) = Len(subs)
        BY <3>1, <4>4
      <4>6. QED
        BY <3>1, <4>1, <4>2, <4>3, <4>5 DEF Live
    <3>3. CASE bill.sub \notin Live
      BY <3>1, <3>3 DEF Live, Types, BillingOK
    <3>4. QED
      BY <3>2, <3>3
<1> HIDE DEF cancelled
<1>3. CASE Fault("stripe") /\ subs' \in {subs, cancelled} /\ UNCHANGED w
  <2>1. Failed /\ RestOK'
    BY <1>1, <1>3, FaultOK DEF Types, RestOK
  <2>2. HandlersOK' /\ BillingOK'
    BY <1>1, <1>3, <1>a DEF Types, HandlersOK, BillingOK
  <2>3. QED
    BY <1>1, <1>3, <2>1, <2>2, IdleOK DEF Types, MembersOK, Mild, Others
<1>4. CASE /\ subs' \in {subs, cancelled} /\ w' = [w EXCEPT ![p] = closing]
           /\ UNCHANGED faults \/ Fault("bill_read")
  <2>0. RestOK' /\ (UNCHANGED faults \/ Failed)
    BY <1>1, <1>4, FaultOK DEF Types, RestOK
  <2>1. /\ subs' \in Seq(Sub) /\ Len(subs') = Len(subs)
        /\ Len(subs) \in Nat /\ Live' \subseteq Live
    BY <1>4, <1>a DEF Live, Types, BillingOK
  <2>2. HandlersOK' /\ w'[p] = closing /\ Others(p)
    <3>1. IdsOK(closing, Len(subs')) /\ HandlerOK(closing) /\ HandlersOK
      BY <1>2, <2>1 DEF IdsOK, HandlerOK, Types
    <3>2. Len(subs') \in Nat /\ Len(subs) <= Len(subs')
      BY <2>1
    <3>3. w' = [w EXCEPT ![p] = closing]
      BY <1>4
    <3>4. QED
      BY <2>1, <3>1, <3>2, <3>3, Moved
  <2>3. Types' /\ Mild(p)
    BY <1>1, <1>2, <2>0, <2>1, <2>2 DEF Types, BillingOK, MembersOK, Mild
  <2>4. ASSUME Sole PROVE Sole'
    <3>1. OneLive /\ FollowsDead /\ OneEnd
      BY <1>1, <2>4 DEF Sole, Busy
    <3>2. ~Before(closing) /\ \A id : ~Names(closing, id)
      BY <1>2 DEF Before, Names
    <3>3. OneLive' /\ FollowsDead'
      BY <1>1, <2>1, <2>2, <3>1, <3>2 DEF OneLive, FollowsDead, Others
    <3>4. OneEnd'
      <4>1. ASSUME NEW i, Held(i)' PROVE Held(i)
        <5>1. \A q \in Workers :
                 Names(w'[q], i) \/ (Before(w'[q]) /\ i = w'[q].old) =>
                 Names(w[q], i) \/ (Before(w[q]) /\ i = w[q].old)
          BY <2>2, <3>2 DEF Others
        <5>2. QED
          BY <1>1, <2>1, <4>1, <5>1 DEF Held
      <4>2. QED
        BY <1>1, <2>1, <3>1, <4>1 DEF OneEnd
    <3>5. ~Standing'
      BY <1>2, <2>2 DEF Standing
    <3>6. QED
      BY <3>3, <3>4, <3>5 DEF Sole
  <2>5. QED
    BY <2>0, <2>3, <2>4
<1>5. QED
  BY <1>3, <1>4 DEF CloseCancel, closing, cancelled

\* With its rows gone nobody of the organisation holds an id of a subscription
\* but the handlers still under way.
LEMMA CloseDeleteOK ==
    ASSUME Types, NEW p \in Workers, CloseDelete(p)
    PROVE  Types' /\ Championed' /\ faults' = faults /\ (Sole => Sole')
<1>1. /\ UNCHANGED <<claims, excused, subs, keys, starts, faults>> /\ w[p].pc = "close" /\ w[p] # Idle
      /\ rows' = [m \in Members |-> Nobody] /\ open' = FALSE /\ Proceed(p)
      /\ bill' = [done |-> FALSE, sub |-> 0, qty |-> 0]
  BY IdleOK DEF CloseDelete, AtStripe, At
<1>2. HandlersOK' /\ Others(p) /\ Clear(w'[p])
  <2>1. Len(subs') \in Nat /\ Len(subs) <= Len(subs')
    BY <1>1 DEF Types, BillingOK
  <2>2. QED
    BY <1>1, <2>1, ProceedOK
<1>3. MembersOK' /\ RestOK'
  BY <1>1, NobodyOK DEF Types, MembersOK, RestOK
<1>4. BillingOK'
  BY <1>1, Seats DEF Types, BillingOK
<1>5. ASSUME Sole PROVE Sole'
  <2>1. OneLive /\ FollowsDead /\ OneEnd
    BY <1>1, <1>5 DEF Sole, Busy
  <2>2. ~Before(w'[p]) /\ \A id : ~Names(w'[p], id)
    BY <1>2 DEF Clear, Before, Names
  <2>3. Live' = Live
    BY <1>1 DEF Live
  <2>4. OneLive' /\ FollowsDead'
    BY <1>1, <1>2, <2>1, <2>2, <2>3 DEF OneLive, FollowsDead, Others
  <2>5. OneEnd'
    <3>1. ASSUME NEW i, Held(i)' PROVE Held(i)
      <4>1. \A q \in Workers :
               Names(w'[q], i) \/ (Before(w'[q]) /\ i = w'[q].old) =>
               Names(w[q], i) \/ (Before(w[q]) /\ i = w[q].old)
        BY <1>2, <2>2 DEF Others
      <4>2. QED
        BY <1>1, <2>3, <3>1, <4>1 DEF Held
    <3>2. QED
      BY <1>1, <2>1, <3>1 DEF OneEnd
  <2>6. QED
    BY <1>1, <2>4, <2>5 DEF Sole, Standing
<1>6. QED
  BY <1>1, <1>2, <1>3, <1>4, <1>5 DEF Types, Championed

\* With every handler at rest, an organisation that stands has at most the
\* subscription its row names.
LEMMA AtRest ==
    ASSUME Types, Sole, open, \A p \in Workers : w[p] = Idle
    PROVE  /\ Live \subseteq {bill.sub}
           /\ \A k \in 0 .. MaxSubs : keys[k] # NoKey => keys[k].sub \in Live
           /\ \A p \in Workers, id \in Nat : ~Names(w[p], id) /\ ~Before(w[p])
<1>1. ~Before(Idle) /\ (\A id : ~Names(Idle, id)) /\ Idle.pc # "close" /\ Idle.pc # "record"
  BY IdleOK DEF Before, Names
<1>2. Tidy
  BY <1>1 DEF Standing, Sole
<1>3. QED
  BY <1>1, <1>2 DEF Tidy

LEMMA ForgetOK ==
    ASSUME Types, Forget
    PROVE  /\ Types' /\ faults' = faults /\ (Sole => Sole')
           /\ UNCHANGED <<rows, excused, open, w>>
<1>1. /\ UNCHANGED <<rows, claims, excused, bill, subs, open, w, starts, faults>>
      /\ \A p \in Workers : w[p] = Idle
  BY DEF Forget, Membership
<1>2. keys \in [0 .. MaxSubs -> [sub : Nat, qty : Nat]] /\ DOMAIN keys = 0 .. MaxSubs
  BY DEF Types, BillingOK
<1>3. PICK k \in 0 .. MaxSubs : keys' = [keys EXCEPT ![k] = NoKey]
  BY <1>2 DEF Forget
<1>4. /\ keys' \in [0 .. MaxSubs -> [sub : Nat, qty : Nat]] /\ NoKey \in [sub : Nat, qty : Nat]
      /\ \A j \in 0 .. MaxSubs : keys'[j] = keys[j] \/ keys'[j] = NoKey
      /\ NoKey.sub = 0
  BY <1>2, <1>3 DEF NoKey
<1>5. Types'
  <2>1. BillingOK'
    BY <1>1, <1>4 DEF Types, BillingOK
  <2>2. QED
    BY <1>1, <2>1 DEF Types, HandlersOK, MembersOK, RestOK
<1>6. ASSUME Sole PROVE Sole'
  <2>1. Live' = Live
    BY <1>1 DEF Live
  <2>2. OneLive' /\ FollowsDead'
    BY <1>1, <1>4, <1>6, <2>1 DEF Sole, OneLive, FollowsDead
  <2>3. CASE ~open
    <3>1. ~Busy' /\ ~Standing'
      BY <1>1, <2>3 DEF Busy, Standing
    <3>2. QED
      BY <2>2, <3>1 DEF Sole
  <2>4. CASE open
    <3>1. /\ Live \subseteq {bill.sub}
          /\ \A j \in 0 .. MaxSubs : keys[j] # NoKey => keys[j].sub \in Live
          /\ \A p \in Workers, id \in Nat : ~Names(w[p], id) /\ ~Before(w[p])
      BY <1>1, <1>6, <2>4, AtRest
    <3>2. OneEnd'
      <4>1. ASSUME NEW i \in Nat, Held(i)' PROVE i = bill.sub
        BY <1>1, <1>4, <2>1, <3>1, <4>1 DEF Held
      <4>2. Len(subs') \in Nat
        BY <1>5 DEF Types, BillingOK
      <4>3. QED
        BY <4>1, <4>2 DEF OneEnd
    <3>3. Tidy'
      <4>1. Len(subs') \in Nat
        BY <1>5 DEF Types, BillingOK
      <4>2. QED
        BY <1>1, <1>4, <2>1, <3>1, <4>1 DEF Tidy
    <3>4. QED
      BY <2>2, <3>2, <3>3 DEF Sole
  <2>5. open \in BOOLEAN
    BY DEF Types, RestOK
  <2>6. QED
    BY <2>3, <2>4, <2>5
<1>7. QED
  BY <1>1, <1>5, <1>6

LEMMA PeriodEndsOK ==
    ASSUME Types, PeriodEnds
    PROVE  /\ Types' /\ faults' = faults /\ (Sole => Sole')
           /\ UNCHANGED <<rows, excused, open, w>>
<1>1. /\ UNCHANGED <<rows, claims, excused, bill, keys, open, w, starts, faults>>
      /\ \A p \in Workers : w[p] = Idle
  BY DEF PeriodEnds, Membership
<1>2. /\ subs \in [1 .. Len(subs) -> Sub] /\ DOMAIN subs = 1 .. Len(subs) /\ Len(subs) \in Nat
      /\ DOMAIN keys = 0 .. MaxSubs
  BY DEF Types, BillingOK
<1>3. PICK s \in Live : /\ \A k \in 0 .. MaxSubs : keys[k].sub # s
                        /\ subs' = [subs EXCEPT ![s].live = FALSE]
  BY <1>2 DEF PeriodEnds
<1> DEFINE over == [subs[s] EXCEPT !.live = FALSE]
<1>4. s \in 1 .. Len(subs) /\ subs[s] \in Sub /\ over \in Sub /\ ~over.live
  <2>1. s \in 1 .. Len(subs) /\ subs[s] \in Sub
    BY <1>2, <1>3 DEF Live
  <2>2. QED
    BY <2>1 DEF Sub
<1>5. subs' = [subs EXCEPT ![s] = over]
  BY <1>2, <1>3, <1>4
<1> HIDE DEF over
<1>6. subs' \in [1 .. Len(subs) -> Sub]
  BY <1>2, <1>4, <1>5
<1>7. subs' \in Seq(Sub) /\ Len(subs') = Len(subs)
  BY <1>2, <1>6
<1>8. Live' = Live \ {s}
  BY <1>2, <1>4, <1>5, <1>7 DEF Live
<1>9. Types'
  <2>1. BillingOK' /\ HandlersOK'
    BY <1>1, <1>7 DEF Types, BillingOK, HandlersOK
  <2>2. QED
    BY <1>1, <2>1 DEF Types, MembersOK, RestOK
<1>10. ASSUME Sole PROVE Sole'
  <2>1. OneLive' /\ FollowsDead'
    BY <1>1, <1>7, <1>8, <1>10 DEF Sole, OneLive, FollowsDead
  <2>2. CASE ~open
    <3>1. ~Busy' /\ ~Standing'
      BY <1>1, <2>2 DEF Busy, Standing
    <3>2. QED
      BY <2>1, <3>1 DEF Sole
  <2>3. CASE open
    <3>1. /\ Live \subseteq {bill.sub}
          /\ \A j \in 0 .. MaxSubs : keys[j] # NoKey => keys[j].sub \in Live
          /\ \A p \in Workers, id \in Nat : ~Names(w[p], id) /\ ~Before(w[p])
      BY <1>1, <1>10, <2>3, AtRest
    <3>2. Live' = {} /\ \A j \in 0 .. MaxSubs : keys[j] = NoKey
      BY <1>3, <1>8, <3>1
    <3>3. OneEnd'
      <4>1. ASSUME NEW i \in Nat, Held(i)' PROVE i = bill.sub
        BY <1>1, <3>1, <3>2, <4>1 DEF Held
      <4>2. QED
        BY <1>2, <1>7, <4>1 DEF OneEnd
    <3>4. Tidy'
      BY <1>1, <1>2, <1>7, <3>1, <3>2 DEF Tidy
    <3>5. QED
      BY <2>1, <3>3, <3>4 DEF Sole
  <2>4. open \in BOOLEAN
    BY DEF Types, RestOK
  <2>5. QED
    BY <2>2, <2>3, <2>4
<1>11. QED
  BY <1>1, <1>9, <1>10

----------------------------------------------------------------------------
(* The invariant, and what it gives.                                         *)

\* An organisation begins with a champion, with nobody editing, and with the
\* subscription its billing row names, if any.
LEMMA InitOK == OrgInit => IInv
<1> SUFFICES ASSUME OrgInit PROVE IInv
  OBVIOUS
<1> DEFINE one == [live |-> TRUE, qty |-> Cardinality(Active), winding |-> FALSE]
<1>1. /\ claims = rows /\ keys = [k \in 0 .. MaxSubs |-> NoKey] /\ open = TRUE /\ excused = FALSE
      /\ w = [p \in Workers |-> Idle] /\ starts = 0 /\ faults = 0
      /\ subs = IF bill.sub = 0 THEN <<>> ELSE <<one>>
  BY DEF OrgInit
<1>2. /\ rows \in [Members -> Person]
      /\ \A m \in Members : rows[m].status = "none" => rows[m] = Nobody
      /\ \E m \in Members : Champion(rows[m])
      /\ bill \in [done : BOOLEAN, sub : 0 .. 1, qty : 0 .. Cardinality(Members)]
  <2>1. PICK first \in Firsts : rows = first.rows /\ bill = first.bill
    BY DEF OrgInit
  <2>2. QED
    BY <2>1, FirstsAssumption
<1>3. one \in Sub /\ NoKey \in [sub : Nat, qty : Nat] /\ NoKey.sub = 0 /\ MaxSubs >= 1 /\ MaxSubs \in Nat
  BY Seats, BoundsAssumption DEF Sub, NoKey
<1> HIDE DEF one
<1>4. subs \in Seq(Sub) /\ Len(subs) = bill.sub /\ DOMAIN subs = 1 .. bill.sub
  <2>1. CASE bill.sub = 0
    BY <1>1, <2>1
  <2>2. CASE bill.sub = 1
    <3>1. subs = <<one>>
      BY <1>1, <2>2
    <3>2. QED
      BY <1>3, <2>2, <3>1
  <2>3. QED
    BY <1>2, <2>1, <2>2
<1>5. BillingOK
  BY <1>1, <1>2, <1>3, <1>4 DEF BillingOK
<1>6. HandlersOK
  <2>1. HandlerOK(Idle) /\ IdsOK(Idle, Len(subs))
    BY <1>2, <1>4, IdleOK DEF IdsOK
  <2>2. QED
    BY <1>1, <2>1 DEF HandlersOK, HandlerOK
<1>7. Types
  <2>1. MembersOK
    BY <1>1, <1>2 DEF MembersOK
  <2>2. open = TRUE /\ excused = FALSE /\ starts = 0 /\ faults = 0
    BY <1>1
  <2>3. starts \in 0 .. MaxStarts /\ faults \in 0 .. MaxFaults
    BY <2>2, BoundsAssumption
  <2>4. RestOK
    BY <2>2, <2>3 DEF RestOK
  <2>5. QED
    BY <1>5, <1>6, <2>1, <2>4 DEF Types
<1>8. Championed
  BY <1>1, <1>2, IdleOK DEF Championed, Champions, Editing
<1>9. \A p \in Workers : w[p].pc = "idle" /\ ~Before(w[p]) /\ \A id : ~Names(w[p], id)
  BY <1>1, IdleOK DEF Before, Names
<1>10. Live \subseteq {bill.sub}
  BY <1>2, <1>4 DEF Live
<1>11. \A k \in 0 .. MaxSubs : keys[k] = NoKey
  BY <1>1
<1>12. Sole
  <2>1. OneLive /\ FollowsDead
    BY <1>9, <1>10, <1>11 DEF OneLive, FollowsDead
  <2>2. OneEnd
    <3>1. \A i : Held(i) => i = bill.sub
      BY <1>9, <1>10, <1>11 DEF Held
    <3>2. QED
      BY <3>1 DEF OneEnd
  <2>3. Tidy
    BY <1>9, <1>10, <1>11 DEF Tidy
  <2>4. QED
    BY <2>1, <2>2, <2>3 DEF Sole
<1>13. QED
  BY <1>7, <1>8, <1>12 DEF IInv

\* What every step of a handler does, and what may be said of the subscription
\* before the first fault.
Kept == /\ Types' /\ (Championed => Championed')
        /\ faults' = faults \/ Failed
        /\ Sole => Sole' \/ Failed

LEMMA FaultsOnly ==
    ASSUME RestOK, NEW p \in Workers,
           Create(p) \/ Record(p) \/ Mirror(p) \/ CloseCancel(p) \/ CloseDelete(p)
    PROVE  faults' = faults \/ Failed
  BY FaultOK DEF Create, Record, Mirror, CloseCancel, CloseDelete

LEMMA KeptOK ==
    ASSUME Types, NEW p \in Workers, Types', Mild(p) \/ (Championed => Championed'),
           Safe(p) \/ (/\ faults' = faults \/ Failed
                       /\ Sole => Failed \/ (faults' = faults /\ Sole'))
    PROVE  Kept
<1>1. Championed => Championed'
  BY MildOK
<1>2. (faults' = faults \/ Failed) /\ (Sole => Sole' \/ Failed)
  BY TookOK DEF Safe
<1>3. QED
  BY <1>1, <1>2 DEF Kept

LEMMA RequestsOK == ASSUME Types, NEW p \in Workers, Requests(p) PROVE Kept
<1>1. CASE Patch(p)
  BY <1>1, PatchOK, KeptOK
<1>2. CASE StaffPatch(p)
  BY <1>2, StaffPatchOK, KeptOK
<1>3. CASE Transfer(p)
  BY <1>3, TransferOK, KeptOK
<1>4. CASE Invite(p)
  BY <1>4, InviteOK, KeptOK
<1>5. CASE Accept(p)
  BY <1>5, AcceptOK, KeptOK
<1>6. CASE Remove(p)
  BY <1>6, RemoveOK, KeptOK
<1>7. CASE AdminSync(p) \/ CompleteBilling(p)
  BY <1>7, StartsOK, KeptOK
<1>8. CASE CloseCancel(p)
  BY <1>8, CloseCancelOK, FaultsOnly, KeptOK DEF Types
<1>9. QED
  BY <1>1, <1>2, <1>3, <1>4, <1>5, <1>6, <1>7, <1>8 DEF Requests

LEMMA GoingOK == ASSUME Types, NEW p \in Workers, Going(p) PROVE Kept
<1>1. CASE WriteRow(p)
  BY <1>1, WriteRowTypes, WriteRowChampion, WriteRowSafe, KeptOK
<1>2. CASE ClaimsRead(p)
  BY <1>2, ClaimsReadOK, KeptOK
<1>3. CASE ClaimsWrite(p)
  BY <1>3, ClaimsWriteOK, KeptOK
<1>4. CASE Delete(p)
  BY <1>4, DeleteOK, KeptOK
<1>5. CASE Count(p)
  BY <1>5, CountOK, KeptOK
<1>6. CASE ReadBill(p)
  BY <1>6, ReadBillOK, KeptOK
<1>7. CASE List(p)
  BY <1>7, ListOK, KeptOK
<1>8. CASE Create(p)
  BY <1>8, CreateOK, FaultsOnly, KeptOK DEF Types
<1>9. CASE Record(p)
  BY <1>9, RecordOK, FaultsOnly, KeptOK DEF Types
<1>10. CASE Adjust(p)
  BY <1>10, AdjustOK, KeptOK
<1>11. CASE Mirror(p)
  BY <1>11, MirrorOK, FaultsOnly, KeptOK DEF Types
<1>12. CASE CloseDelete(p)
  BY <1>12, CloseDeleteOK, FaultsOnly, KeptOK DEF Types
<1>13. QED
  BY <1>1, <1>2, <1>3, <1>4, <1>5, <1>6, <1>7, <1>8, <1>9, <1>10, <1>11, <1>12
  DEF Going, Upsert, Sync

\* Only people's edits move a row, and nobody's row moves at Stripe.
LEMMA StripeOK == ASSUME Types, Forget \/ PeriodEnds PROVE Kept
<1>1. /\ Types' /\ faults' = faults /\ (Sole => Sole')
      /\ UNCHANGED <<rows, excused, open, w>>
  BY ForgetOK, PeriodEndsOK
<1>2. ASSUME Championed PROVE Championed'
  BY <1>1, <1>2 DEF Championed, Champions, Champion, Editing, Outlasted, Promotes
<1>3. QED
  BY <1>1, <1>2 DEF Kept

LEMMA NextOK == IInv /\ [Next]_vars => IInv'
<1> SUFFICES ASSUME IInv, [Next]_vars PROVE IInv'
  OBVIOUS
<1>1. Types /\ Championed /\ (faults = 0 => Sole)
  BY DEF IInv
<1>2. CASE Kept
  BY <1>1, <1>2 DEF IInv, Kept, Failed
<1>3. CASE Forget \/ PeriodEnds
  BY <1>1, <1>2, <1>3, StripeOK
<1>4. ASSUME NEW p \in Workers,
             Requests(p) \/ Going(p) \/ Kill(p) \/ SweepMembership(p) \/ SweepSeats(p)
      PROVE  IInv'
  <2>1. CASE Kill(p)
    BY <1>1, <1>2, <2>1, KillOK, KeptOK
  <2>2. CASE SweepMembership(p) \/ SweepSeats(p)
    BY <1>1, <1>2, <2>2, StartsOK, KeptOK
  <2>3. QED
    BY <1>1, <1>2, <1>4, <2>1, <2>2, RequestsOK, GoingOK
<1>5. CASE UNCHANGED vars
  BY <1>1, <1>5
  DEF vars, IInv, Types, HandlersOK, MembersOK, BillingOK, RestOK, Championed, Champions, Champion,
      Editing, Outlasted, Promotes, Sole, OneLive, FollowsDead, Busy, OneEnd, Held, Standing, Tidy,
      Live
<1>6. QED
  BY <1>3, <1>4, <1>5 DEF Next

LEMMA Invariance == Spec => []IInv
  BY InitOK, NextOK, PTL DEF Spec

\* Every variable keeps to its type, and a person without an account has no
\* claims: removal takes them with the account, and no write puts them back.
THEOREM TypesHold == Spec => []TypeOK
<1>1. IInv => TypeOK
  <2> SUFFICES ASSUME IInv PROVE TypeOK
    OBVIOUS
  <2>1. /\ HandlersOK /\ MembersOK /\ BillingOK /\ RestOK
    BY DEF IInv, Types
  <2>2. bill \in [done : BOOLEAN, sub : 0 .. Len(subs), qty : 0 .. Cardinality(Members)]
    BY <2>1 DEF BillingOK
  <2>3. (\A s \in DOMAIN subs : subs[s] \in Sub) /\ \A k \in DOMAIN keys : keys[k].sub \in 0 .. Len(subs)
    BY <2>1 DEF BillingOK
  <2>4. QED
    BY <2>1, <2>2, <2>3 DEF TypeOK, MembersOK, BillingOK, RestOK
<1>2. QED
  BY <1>1, Invariance, PTL

\* An organisation keeps a champion who is not disabled through any sequence of
\* handlers and any faults, for any members: what may lose the last one is on
\* record in "excused" (org/members, "never with none").
THEOREM ChampionStays == Spec => []ChampionKept
<1>1. IInv => ChampionKept
  BY DEF IInv, Types, RestOK, Championed, ChampionKept
<1>2. QED
  BY <1>1, Invariance, PTL

\* Until something fails, any number of syncs, sweeps, cancellations and
\* deletions that overlap leave a customer with at most one seat subscription
\* that bills, whenever Stripe forgets a key (orgBilling.ts, "ONE SUBSCRIPTION
\* PER CUSTOMER", H-23).
THEOREM OnlyOne == Spec => [](faults = 0 => OneSubscription)
<1>1. OneLive => OneSubscription
  <2> SUFFICES ASSUME OneLive PROVE Cardinality(Live) <= 1
    BY DEF OneSubscription
  <2>1. CASE Live = {}
    BY <2>1, FS_EmptySet
  <2>2. CASE Live # {}
    <3>1. PICK s : Live = {s}
      BY <2>2 DEF OneLive
    <3>2. Cardinality({s}) = 1
      BY FS_Singleton
    <3>3. QED
      BY <3>1, <3>2
  <2>3. QED
    BY <2>1, <2>2
<1>2. IInv => (faults = 0 => OneSubscription)
  BY <1>1 DEF IInv, Sole
<1>3. QED
  BY <1>2, Invariance, PTL

=============================================================================
