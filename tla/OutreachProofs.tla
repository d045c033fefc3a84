---------------------------- MODULE OutreachProofs ----------------------------
(* Proofs about Outreach: who was written to is never seen as one still to    *)
(* write to, a row that says 'contacted' was sent, an address gets one intro, *)
(* and none after it was listed - for any number of handlers, addresses,      *)
(* requests and events. Where a fault leaves a doubt about a send, the        *)
(* theorem says which.                                                        *)
EXTENDS Outreach, FiniteSetTheorems, TLAPS

Points == {"idle", "b_write", "b_search", "b_list", "a_line", "s_write", "j_find",
           "j_list", "i_read", "i_line", "i_gate", "i_send", "i_release", "i_draft",
           "i_already", "i_done", "i_fail", "d_list", "d_row", "d_search", "d_failed"}
Chosen == Statuses \ {"contacted"}
Kinds == {"none", "bookmark", "approve", "job", "bounce", "complaint"} \cup Chosen

Handlers == [pc : Points, kind : Kinds, mode : Modes, row : RowType,
             addr : Addresses \cup {NoAddress}, draft : BOOLEAN, held : BOOLEAN,
             at : Nat, job : NudgeType]

EventType == [kind : {"bounce", "complaint"}, address : Addresses, no : Nat]

\* Where a step has its copy of the row; where it has claimed and not ended;
\* where a handler works on an event, and has recorded the bounce; where it
\* works with an address.
Flight == {"i_gate", "i_send", "i_release"}
Stepping == {"i_line"} \cup Flight
Searching == {"d_search", "d_failed"}
Answering == {"d_list", "d_row"} \cup Searching
Addressed == {"j_list"} \cup Stepping \cup Answering

\* What is true of each handler h by itself: a step goes on only with a copy
\* that lets it, and such a copy does not say "contacted".
HandlerOK(h) ==
    /\ h \in Handlers
    /\ h.pc \in Addressed => h.addr \in Addresses
    /\ h.pc \in Stepping => /\ h.addr = h.row.address
                            /\ ~IntroAlreadySent(h.row)
                            /\ h.row.status # "contacted"
    /\ h.pc = "s_write" => h.kind \in Chosen
    /\ h.pc \in Answering => h.kind \in {"bounce", "complaint"}
    /\ h.pc \in Searching => h.kind = "bounce"

\* No two handlers have the same event, and nobody has one that was answered.
HandlersOK ==
    /\ w \in [Workers -> Handlers]
    /\ \A p \in Workers : HandlerOK(w[p])
EventsHeld ==
    /\ \A p \in Workers : w[p].pc \in Answering => EventOf(p) \in events
    /\ \A p, q \in Workers :
          /\ p # q /\ w[p].pc \in Answering /\ w[q].pc \in Answering
          => EventOf(p) # EventOf(q)

RowOK == row \in RowType /\ (row.status = "contacted" => row.claim = "fresh")
MailType(counts, days, sets) ==
    [intro : counts, later : counts, followup : Nat, terms : Nat, nudge : days, bounced : sets]
MailOK == mail \in MailType([Addresses -> Nat], [1 .. MaxClock -> Nat], SUBSET Addresses)
RestOK ==
    /\ thread \in Seq(MessageType)
    /\ mode \in Modes /\ suppressed \subseteq Addresses
    /\ locks \subseteq 0 .. Cardinality(Addresses)
    /\ jobs \in Nat /\ nudgeJobs = {}
    /\ clock \in 1 .. MaxClock + 1 /\ starts \in 0 .. MaxStarts
    /\ faults \in Seq(Ops) /\ Len(faults) <= MaxFaults

\* A bounce that waits, or that a handler works on, is of an address that was
\* written to; so is every bounce the row has recorded.
EventsOK ==
    /\ events \subseteq EventType
    /\ \A e \in events : e.kind = "bounce" => e.no = 0 /\ e.address \in mail.bounced
    /\ row.bounced \subseteq mail.bounced
    /\ mail.bounced \subseteq {a \in Addresses : mail.intro[a] > 0}

Types == RowOK /\ HandlersOK /\ EventsHeld /\ MailOK /\ RestOK /\ EventsOK

----------------------------------------------------------------------------
(* The send-once invariant, of a run without a doubt so far.                 *)

Flying == {p \in Workers : w[p].pc \in Flight}
Mailed == {a \in Addresses : mail.intro[a] > 0}

\* Nobody is between claim and outcome, and whoever was written to bounced.
Free == Flying = {} /\ Mailed \subseteq row.bounced

\* A row whose claim does not stand is free to be claimed.
FreeUnlessClaimed ==
    /\ row.claim # "fresh" => Free
    /\ row.claim = "none" => row.bounced = {}

\* A claimed step is alone, has the lock, and decided on what the row says
\* still; everybody who was written to before has bounced.
FlightAlone ==
    \A p \in Flying :
        /\ LockKey(w[p].row) \in locks
        /\ row.claim = "fresh"
        /\ Mailed \subseteq row.bounced
        /\ w[p].row.bounced = row.bounced
        /\ \A q \in Flying : q = p

\* A copy is of the row as it was: a step that has one and has not claimed
\* finds the lock taken, or nothing has changed that matters.
CopiesOld ==
    \A p \in Workers : w[p].pc \in Stepping =>
        /\ w[p].row.bounced \subseteq row.bounced
        /\ w[p].row.claim = "none" => w[p].row.bounced = {}
        /\ w[p].pc = "i_line" =>
              \/ LockKey(w[p].row) \in locks
              \/ Free /\ w[p].row.bounced = row.bounced

MailedOnce ==
    /\ \A a \in Addresses : mail.intro[a] <= 1
    /\ \A a, b \in Mailed \ row.bounced : a = b

\* A bounce the row knows is answered by the handler that recorded it.
BouncesFresh ==
    \A e \in events : e.kind = "bounce" /\ e.address \in row.bounced
        => \E p \in Workers : w[p].pc \in Searching /\ EventOf(p) = e

ContactedStands ==
    row.status = "contacted" => \/ Flying # {} \/ Mailed \ row.bounced # {}
                                \/ Faults({"kill", "write_lost"}) > 0

Once == /\ FreeUnlessClaimed /\ FlightAlone /\ CopiesOld /\ MailedOnce
        /\ BouncesFresh /\ ContactedStands

\* The inductive invariant.
IInv == Types /\ (Faults(Doubtful) = 0 => Once)

----------------------------------------------------------------------------
(* Faults.                                                                   *)

Bit(b) == IF b THEN 1 ELSE 0

LEMMA FaultsFinite ==
    ASSUME NEW f \in Seq(Ops), NEW kinds
    PROVE  /\ IsFiniteSet({i \in DOMAIN f : f[i] \in kinds})
           /\ Cardinality({i \in DOMAIN f : f[i] \in kinds}) \in Nat
<1>1. DOMAIN f = 1 .. Len(f) /\ Len(f) \in Nat
  OBVIOUS
<1>2. IsFiniteSet(1 .. Len(f))
  BY <1>1, FS_Interval
<1>3. QED
  BY <1>1, <1>2, FS_Subset, FS_CardinalityType

LEMMA FaultCounted ==
    ASSUME RestOK, NEW kinds, NEW op, Fault(op)
    PROVE  /\ Faults(kinds) \in Nat
           /\ Faults(kinds)' = Faults(kinds) + Bit(op \in kinds)
           /\ faults' \in Seq(Ops) /\ Len(faults') <= MaxFaults
<1> DEFINE S == {i \in DOMAIN faults : faults[i] \in kinds}
           T == {i \in DOMAIN faults' : faults'[i] \in kinds}
           n == Len(faults) + 1
<1>1. DOMAIN faults = 1 .. Len(faults) /\ Len(faults) \in Nat /\ faults \in Seq(Ops)
  BY DEF RestOK
<1>2. faults' = Append(faults, op) /\ op \in Ops /\ Len(faults) < MaxFaults
  BY DEF Fault
<1>3. /\ faults' \in Seq(Ops) /\ DOMAIN faults' = 1 .. n /\ Len(faults') = n
      /\ \A i \in 1 .. Len(faults) : faults'[i] = faults[i]
      /\ faults'[n] = op
  BY <1>1, <1>2
<1>4. n \notin S
  BY <1>1
<1>5. IsFiniteSet(S) /\ Cardinality(S) \in Nat
  BY <1>1, FaultsFinite
<1>6. Faults(kinds) = Cardinality(S) /\ Faults(kinds)' = Cardinality(T)
  BY DEF Faults
<1>7. Len(faults') <= MaxFaults
  BY <1>1, <1>2, <1>3, BoundsAssumption
<1>8. CASE op \in kinds
  <2>1. T = S \cup {n}
    BY <1>1, <1>3, <1>8
  <2> HIDE DEF S, T, n
  <2>2. Cardinality(S \cup {n}) = Cardinality(S) + 1
    BY <1>4, <1>5, FS_AddElement
  <2>3. QED
    BY <1>3, <1>5, <1>6, <1>7, <1>8, <2>1, <2>2 DEF Bit
<1>9. CASE op \notin kinds
  <2>1. T = S
    BY <1>1, <1>3, <1>9
  <2> HIDE DEF S, T, n
  <2>2. QED
    BY <1>3, <1>5, <1>6, <1>7, <1>9, <2>1 DEF Bit
<1>10. QED
  BY <1>8, <1>9

\* At most one fault, of any kind, in a step.
SomeFault == UNCHANGED faults \/ \E op \in Ops : Fault(op)

LEMMA FaultsGrow ==
    ASSUME RestOK, SomeFault, NEW kinds
    PROVE  /\ Faults(kinds) \in Nat /\ Faults(kinds)' \in Nat
           /\ Faults(kinds) <= Faults(kinds)'
           /\ faults' \in Seq(Ops) /\ Len(faults') <= MaxFaults
<1>1. CASE UNCHANGED faults
  <2>1. Faults(kinds) \in Nat
    BY FaultsFinite DEF RestOK, Faults
  <2>2. Faults(kinds)' = Faults(kinds)
    BY <1>1 DEF Faults
  <2>3. QED
    BY <1>1, <2>1, <2>2 DEF RestOK
<1>2. ASSUME NEW op \in Ops, Fault(op)
      PROVE  /\ Faults(kinds) \in Nat /\ Faults(kinds)' \in Nat
             /\ Faults(kinds) <= Faults(kinds)'
             /\ faults' \in Seq(Ops) /\ Len(faults') <= MaxFaults
  <2>1. /\ Faults(kinds) \in Nat
        /\ Faults(kinds)' = Faults(kinds) + Bit(op \in kinds)
        /\ faults' \in Seq(Ops) /\ Len(faults') <= MaxFaults
    BY <1>2, FaultCounted
  <2>2. Bit(op \in kinds) \in Nat
    BY DEF Bit
  <2>3. QED
    BY <2>1, <2>2
<1>3. QED
  BY <1>1, <1>2 DEF SomeFault

----------------------------------------------------------------------------
(* One handler moves.                                                        *)

LEMMA IdleOK == HandlerOK(Idle) /\ Idle.pc = "idle" /\ Idle \in Handlers
<1>1. (CHOOSE r \in FirstRecords : TRUE).row \in RowType
  BY FirstRecordsAssumption
<1>2. NoNudge \in NudgeType
  BY MaxNudgesAssumption DEF NoNudge, NudgeType
<1>3. Idle \in Handlers
  BY <1>1, <1>2 DEF Idle, Handlers, Points, Kinds, Modes
<1>4. Idle.pc = "idle"
  BY DEF Idle
<1>5. QED
  BY <1>3, <1>4 DEF HandlerOK, Addressed, Stepping, Flight, Answering, Searching

\* The other handlers stay where they are.
Others(p) == \A q \in Workers \ {p} : w'[q] = w[q]

LEMMA Moved ==
    ASSUME HandlersOK, NEW p \in Workers, NEW h, HandlerOK(h), w' = [w EXCEPT ![p] = h]
    PROVE  HandlersOK' /\ w'[p] = h /\ Others(p)
<1>1. h \in Handlers
  BY DEF HandlerOK
<1>2. w' \in [Workers -> Handlers] /\ w'[p] = h /\ \A q \in Workers \ {p} : w'[q] = w[q]
  BY <1>1 DEF HandlersOK
<1>3. ASSUME NEW q \in Workers PROVE HandlerOK(w'[q])
  BY <1>2 DEF HandlersOK
<1>4. QED
  BY <1>2, <1>3 DEF HandlersOK, Others

LEMMA Finished ==
    ASSUME HandlersOK, NEW p \in Workers, Finish(p)
    PROVE  HandlersOK' /\ w'[p] = Idle /\ w'[p].pc = "idle" /\ Others(p)
  BY IdleOK, Moved DEF Finish

\* A handler goes on with what it has, to a point that asks no more of it.
LEMMA Went ==
    ASSUME HandlersOK, NEW p \in Workers, NEW pc \in Points, Goto(p, pc), pc # "s_write",
           pc \in Addressed => w[p].pc \in Addressed,
           pc \in Stepping => w[p].pc \in Stepping,
           pc \in Answering => w[p].pc \in Answering,
           pc \in Searching => w[p].kind = "bounce"
    PROVE  /\ HandlersOK' /\ Others(p) /\ w'[p].pc = pc
           /\ w'[p].row = w[p].row /\ w'[p].addr = w[p].addr /\ w'[p].kind = w[p].kind
           /\ w'[p].at = w[p].at /\ w'[p].held = w[p].held
<1> DEFINE h == [w[p] EXCEPT !.pc = pc]
<1>1. w[p] \in Handlers /\ HandlerOK(w[p]) /\ w' = [w EXCEPT ![p] = h]
  BY DEF HandlersOK, Goto
<1>2. /\ h \in Handlers /\ h.pc = pc /\ h.row = w[p].row /\ h.addr = w[p].addr
      /\ h.kind = w[p].kind /\ h.at = w[p].at /\ h.held = w[p].held
  BY <1>1 DEF Handlers
<1> HIDE DEF h
<1>3. HandlerOK(h)
  BY <1>1, <1>2 DEF HandlerOK
<1>4. QED
  BY <1>1, <1>2, <1>3, Moved

\* A route hands over to the step.
LEMMA Entered ==
    ASSUME HandlersOK, NEW p \in Workers, NEW h \in Handlers, EnterStep(p, h)
    PROVE  HandlersOK' /\ Others(p) /\ w'[p].pc = "i_read"
<1> DEFINE g == [h EXCEPT !.pc = "i_read"]
<1>1. g \in Handlers /\ g.pc = "i_read" /\ w' = [w EXCEPT ![p] = g]
  BY DEF Handlers, Points, EnterStep
<1> HIDE DEF g
<1>2. HandlerOK(g)
  BY <1>1 DEF HandlerOK, Addressed, Stepping, Flight, Answering, Searching
<1>3. QED
  BY <1>1, <1>2, Moved

----------------------------------------------------------------------------
(* Steps that touch neither a claim, nor a send, nor an event.               *)

\* What such a step leaves as it is.
Calm ==
    /\ RowOK' /\ row'.claim = row.claim /\ row'.bounced = row.bounced
    /\ row'.status = "contacted" => row.status = "contacted"
    /\ RestOK' /\ SomeFault /\ Faults(Doubtful)' = Faults(Doubtful)
    /\ mail' = mail /\ locks' = locks /\ suppressed' = suppressed

\* A handler outside the send goes on, with a fresh copy when it is to step.
Ordinary(p) ==
    /\ Calm /\ events' = events
    /\ HandlersOK' /\ Others(p)
    /\ w[p].pc \notin Flight \cup Answering /\ w'[p].pc \notin Flight \cup Answering
    /\ w'[p].pc = "i_line" => w'[p].row = row

LEMMA OrdinaryTypes == ASSUME Types, NEW p \in Workers, Ordinary(p) PROVE Types'
<1>1. MailOK' /\ EventsOK'
  BY DEF Types, Ordinary, Calm, MailOK, EventsOK
<1>2. ASSUME NEW q \in Workers, w'[q].pc \in Answering PROVE q # p /\ w'[q] = w[q]
  BY <1>2 DEF Ordinary, Others
<1>3. EventsHeld'
  BY <1>2 DEF Types, EventsHeld, EventOf, Ordinary
<1>4. QED
  BY <1>1, <1>3 DEF Types, Ordinary, Calm

\* No handler enters or leaves the send; who gets a copy, gets a fresh one.
FlightKept ==
    \A q \in Workers :
        /\ w'[q].pc \in Flight <=> w[q].pc \in Flight
        /\ w'[q].pc \in Flight => w'[q].row = w[q].row
        /\ w'[q].pc = "i_line" => \/ w[q].pc = "i_line" /\ w'[q].row = w[q].row
                                  \/ w'[q].row = row

LEMMA ContactStands ==
    ASSUME RestOK, SomeFault, Flying' = Flying, mail'.intro = mail.intro,
           row'.bounced = row.bounced, row'.status = "contacted" => row.status = "contacted",
           ContactedStands
    PROVE  ContactedStands'
<1>1. /\ Faults({"kill", "write_lost"}) <= Faults({"kill", "write_lost"})'
      /\ Faults({"kill", "write_lost"}) \in Nat /\ Faults({"kill", "write_lost"})' \in Nat
  BY FaultsGrow
<1>2. Mailed' = Mailed
  BY DEF Mailed
<1>3. CASE Faults({"kill", "write_lost"}) > 0
  BY <1>1, <1>3 DEF ContactedStands
<1>4. CASE ~(Faults({"kill", "write_lost"}) > 0)
  <2> HIDE <1>1
  <2>1. row'.status = "contacted" => Flying # {} \/ Mailed \ row.bounced # {}
    BY <1>4 DEF ContactedStands
  <2>2. QED
    BY <1>2, <2>1 DEF ContactedStands
<1>5. QED
  BY <1>3, <1>4

LEMMA OnceKept ==
    ASSUME Types, Once, HandlersOK', RowOK', SomeFault, FlightKept, BouncesFresh',
           mail'.intro = mail.intro, locks' = locks,
           row'.claim = row.claim, row'.bounced = row.bounced,
           row'.status = "contacted" => row.status = "contacted"
    PROVE  Once'
<1>1. Flying' = Flying
  BY DEF Flying, FlightKept
<1>2. Mailed' = Mailed
  BY DEF Mailed
<1>3. Free' <=> Free
  BY <1>1, <1>2 DEF Free
<1>4. FreeUnlessClaimed'
  BY <1>3 DEF FreeUnlessClaimed, Once
<1>5. \A q \in Flying : w'[q].row = w[q].row
  BY <1>1 DEF Flying, FlightKept
<1>6. FlightAlone'
  BY <1>1, <1>2, <1>5 DEF FlightAlone, Once, LockKey
<1>7. ASSUME NEW q \in Workers, w'[q].pc \in Stepping
      PROVE  /\ w'[q].row.bounced \subseteq row'.bounced
             /\ w'[q].row.claim = "none" => w'[q].row.bounced = {}
             /\ w'[q].pc = "i_line" =>
                   \/ LockKey(w'[q].row) \in locks'
                   \/ Free' /\ w'[q].row.bounced = row'.bounced
  <2>1. CASE w'[q].pc \in Flight
    <3>1. w[q].pc \in Stepping /\ w'[q].row = w[q].row /\ w'[q].pc # "i_line"
      BY <2>1 DEF FlightKept, Stepping, Flight
    <3>2. QED
      BY <3>1 DEF Once, CopiesOld
  <2>2. CASE w'[q].pc = "i_line" /\ w[q].pc = "i_line" /\ w'[q].row = w[q].row
    BY <1>3, <2>2 DEF Once, CopiesOld, Stepping, LockKey
  <2>3. CASE w'[q].pc = "i_line" /\ w'[q].row = row
    <3>1. ~IntroAlreadySent(row)
      BY <1>7, <2>3 DEF HandlersOK, HandlerOK, IntroAlreadySent, ClaimPredatesBounce
    <3>2. row.claim # "fresh"
      BY <3>1 DEF IntroAlreadySent, ClaimPredatesBounce
    <3>3. QED
      BY <1>3, <2>3, <3>2 DEF Once, FreeUnlessClaimed
  <2>4. QED
    BY <1>7, <2>1, <2>2, <2>3 DEF FlightKept, Stepping
<1>8. CopiesOld'
  BY <1>7 DEF CopiesOld
<1>9. MailedOnce'
  BY <1>2 DEF MailedOnce, Once
<1>10. ContactedStands'
  BY <1>1, ContactStands DEF Types, Once
<1>11. QED
  BY <1>4, <1>6, <1>8, <1>9, <1>10 DEF Once

\* The handlers that record bounces stay at it until their event is answered.
LEMMA FreshKept ==
    ASSUME BouncesFresh, events' \subseteq events, row'.bounced = row.bounced,
           \A q \in Workers : w[q].pc \in Searching =>
              \/ w'[q].pc \in Searching /\ EventOf(q)' = EventOf(q)
              \/ EventOf(q) \notin events'
    PROVE  BouncesFresh'
<1> SUFFICES ASSUME NEW e \in events', e.kind = "bounce", e.address \in row.bounced
             PROVE  \E q \in Workers : w'[q].pc \in Searching /\ EventOf(q)' = e
  BY DEF BouncesFresh
<1>1. PICK q \in Workers : w[q].pc \in Searching /\ EventOf(q) = e
  BY DEF BouncesFresh
<1>2. QED
  BY <1>1

LEMMA OrdinaryOnce == ASSUME Types, Once, NEW p \in Workers, Ordinary(p) PROVE Once'
<1>1. FlightKept
  BY DEF Ordinary, Others, FlightKept, Flight
<1>2. BouncesFresh'
  BY FreshKept DEF Ordinary, Calm, Others, Once, Answering, EventOf
<1>3. QED
  BY <1>1, <1>2, OnceKept DEF Ordinary, Calm

----------------------------------------------------------------------------
(* ColdMail, step by step.                                                   *)

Sending == {a \in Addresses : \E p \in Workers : At(p, "i_send") /\ w[p].addr = a}

\* A step of ColdMail, and nothing written or cleared without need.
ColdStep == [Cold!Next]_(Cold!vars)
OneEach == Cold!WithinBudget(1) \/ Faults(Doubtful) > 0

\* Nothing happens to the mail.
LEMMA ColdIdle ==
    ASSUME mail'.intro = mail.intro, suppressed' = suppressed,
           Faults(Doubtful)' = Faults(Doubtful), Sending' = Sending
    PROVE  ColdStep /\ OneEach
<1>1. UNCHANGED Cold!vars
  BY DEF Cold!vars, Sending
<1>2. Cold!WithinBudget(1)
  BY DEF Cold!WithinBudget, Sending
<1>3. QED
  BY <1>1, <1>2 DEF ColdStep, OneEach

LEMMA SendingBy ==
    ASSUME NEW p \in Workers, Others(p)
    PROVE  /\ w[p].pc # "i_send" /\ w'[p].pc # "i_send" => Sending' = Sending
           /\ w'[p].pc # "i_send" => Sending' \subseteq Sending
           /\ w[p].pc = "i_send" /\ w'[p].pc # "i_send"
                 => Sending' = Sending \/ Sending' = Sending \ {w[p].addr}
           /\ w[p].pc # "i_send" /\ w'[p].pc = "i_send" /\ w'[p].addr \in Addresses
                 => Sending' = Sending \cup {w'[p].addr}
<1>1. \A q \in Workers \ {p} : w'[q] = w[q]
  BY DEF Others
<1> DEFINE Rest == {a \in Addresses : \E q \in Workers \ {p} : w[q].pc = "i_send" /\ w[q].addr = a}
           Mine(h) == {a \in Addresses : h.pc = "i_send" /\ h.addr = a}
<1>2. Sending = Rest \cup Mine(w[p])
  BY DEF Sending, At
<1>3. Sending' = Rest \cup Mine(w'[p])
  BY <1>1 DEF Sending, At
<1>4. /\ w[p].pc # "i_send" => Mine(w[p]) = {}
      /\ w'[p].pc # "i_send" => Mine(w'[p]) = {}
      /\ Mine(w[p]) \subseteq {w[p].addr}
      /\ w'[p].pc = "i_send" /\ w'[p].addr \in Addresses => Mine(w'[p]) = {w'[p].addr}
  OBVIOUS
<1> HIDE DEF Rest, Mine
<1>5. QED
  BY <1>2, <1>3, <1>4

LEMMA OrdinaryCold == ASSUME NEW p \in Workers, Ordinary(p) PROVE ColdStep /\ OneEach
  BY SendingBy, ColdIdle DEF Ordinary, Calm, Flight

\* Everything there is to show of a step.
StepOK == /\ Types'
          /\ Faults(Doubtful)' = 0 /\ Once => Once'
          /\ ColdStep /\ OneEach

LEMMA OrdinaryOK == ASSUME Types, NEW p \in Workers, Ordinary(p) PROVE StepOK
  BY OrdinaryTypes, OrdinaryOnce, OrdinaryCold DEF StepOK

----------------------------------------------------------------------------
(* What the routes write, and what they leave.                               *)

RowCalm == /\ RowOK' /\ row'.claim = row.claim /\ row'.bounced = row.bounced
           /\ row'.status = "contacted" => row.status = "contacted"

LEMMA RowStatus ==
    ASSUME RowOK, NEW s \in Statuses \ {"contacted"}, row' = [row EXCEPT !.status = s]
    PROVE  RowCalm
  BY DEF RowOK, RowType, RowCalm

LEMMA RowContact ==
    ASSUME RowOK, NEW c \in ContactStatuses, row' = [row EXCEPT !.contact = c]
    PROVE  RowCalm
  BY DEF RowOK, RowType, RowCalm

LEMMA RowLine == ASSUME RowOK, row' = [row EXCEPT !.line = "set"] PROVE RowCalm
  BY DEF RowOK, RowType, RowCalm

LEMMA RowAddress ==
    ASSUME RowOK, NEW a \in Addresses,
           \/ row' = [row EXCEPT !.address = a]
           \/ row' = [row EXCEPT !.address = a, !.contact = "contact_found"]
    PROVE  RowCalm
  BY DEF RowOK, RowType, RowCalm, ContactStatuses

LEMMA RowDrafted == ASSUME RowOK, row' = Drafted(row) \/ row' = Held(row) PROVE RowCalm
  BY DEF RowOK, RowType, RowCalm, Drafted, Held, Introed, Statuses, IntroStage

LEMMA RowSame == ASSUME RowOK, row' = row PROVE RowCalm
  BY DEF RowOK, RowCalm

Note == [from |-> "matchy", what |-> "note", went |-> "sent"]
Adds == thread' = thread \/ thread' = Append(thread, Note)

\* What everything but the row, the handlers, the mail and the events may do.
RestMoves ==
    /\ Adds /\ mode' \in Modes /\ jobs' \in Nat
    /\ clock' = clock /\ nudgeJobs' = nudgeJobs
    /\ starts' = starts \/ (starts < MaxStarts /\ starts' = starts + 1)

\* No fault that leaves a doubt about a send.
Sure == UNCHANGED faults \/ \E op \in Ops \ Doubtful : Fault(op)

LEMMA SureOK == ASSUME RestOK, Sure
                PROVE SomeFault /\ Faults(Doubtful)' = Faults(Doubtful)
<1>1. CASE UNCHANGED faults
  BY <1>1 DEF SomeFault, Faults
<1>2. ASSUME NEW op \in Ops \ Doubtful, Fault(op)
      PROVE  SomeFault /\ Faults(Doubtful)' = Faults(Doubtful)
  <2>1. Faults(Doubtful) \in Nat /\ Faults(Doubtful)' = Faults(Doubtful) + Bit(op \in Doubtful)
    BY <1>2, FaultCounted
  <2>2. QED
    BY <1>2, <2>1 DEF Bit, SomeFault
<1>3. QED
  BY <1>1, <1>2 DEF Sure

LEMMA RestMoved ==
    ASSUME RestOK, RestMoves, SomeFault, suppressed' \subseteq Addresses,
           locks' \subseteq 0 .. Cardinality(Addresses)
    PROVE  RestOK'
<1>1. faults' \in Seq(Ops) /\ Len(faults') <= MaxFaults
  BY FaultsGrow
<1>2. thread' \in Seq(MessageType)
  <2>1. Note \in MessageType
    BY DEF Note, MessageType
  <2>2. QED
    BY <2>1 DEF RestOK, RestMoves, Adds
<1>3. starts' \in 0 .. MaxStarts
  BY BoundsAssumption DEF RestOK, RestMoves
<1>4. QED
  BY <1>1, <1>2, <1>3 DEF RestOK, RestMoves

LEMMA CalmBy ==
    ASSUME Types, RowCalm, RestMoves, Sure, mail' = mail, locks' = locks,
           suppressed' = suppressed
    PROVE  Calm
<1>1. SomeFault /\ Faults(Doubtful)' = Faults(Doubtful)
  BY SureOK DEF Types
<1>2. RestOK'
  BY <1>1, RestMoved DEF Types, RestOK
<1>3. QED
  BY <1>1, <1>2 DEF Calm, RowCalm

\* The usual way to show a step of a route.
LEMMA RouteOK ==
    ASSUME Types, NEW p \in Workers, RowCalm, RestMoves, Sure, mail' = mail, locks' = locks,
           suppressed' = suppressed, events' = events, HandlersOK', Others(p),
           w[p].pc \notin Flight \cup Answering,
           w'[p].pc \notin Flight \cup Answering \cup {"i_line"}
    PROVE  StepOK
  BY CalmBy, OrdinaryOK DEF Ordinary

LEMMA Plainly == ASSUME NEW h \in Handlers, h.pc \notin Addressed \cup {"s_write"}
                 PROVE HandlerOK(h)
  BY DEF HandlerOK, Addressed, Stepping, Flight, Answering, Searching

LEMMA StillRest ==
    ASSUME Types, UNCHANGED <<mode, clock, nudgeJobs>>, jobs' \in Nat, Adds,
           starts' = starts \/ (starts < MaxStarts /\ starts' = starts + 1)
    PROVE  RestMoves
  BY DEF Types, RestOK, RestMoves

Still == UNCHANGED <<thread, mode, jobs, nudgeJobs, clock, starts>>

LEMMA RestStill == ASSUME Types, Still PROVE RestMoves
  BY StillRest DEF Still, Types, RestOK, Adds

----------------------------------------------------------------------------
(* The routes.                                                               *)

LEMMA BookmarkOK == ASSUME Types, NEW p \in Workers, Bookmark(p) PROVE StepOK
<1> DEFINE h == [Idle EXCEPT !.pc = "b_write", !.kind = "bookmark", !.row = row, !.mode = mode]
<1>1. /\ w[p].pc = "idle" /\ w' = [w EXCEPT ![p] = h] /\ row' = row
      /\ UNCHANGED <<mail, locks, events, suppressed>> /\ Sure
  BY IdleOK DEF Bookmark, Request, Record, Vendors, Unlisted, Sure
<1>2. RestMoves
  BY StillRest DEF Bookmark, Request, Record, Vendors, Unlisted, Adds, Types, RestOK
<1>3. h \in Handlers /\ h.pc = "b_write"
  BY IdleOK DEF Handlers, Points, Kinds, Types, RowOK, RestOK
<1> HIDE DEF h
<1>4. HandlersOK' /\ Others(p) /\ w'[p].pc = "b_write"
  BY <1>1, <1>3, Plainly, Moved DEF Types, Addressed, Stepping, Flight, Answering, Searching
<1>5. QED
  BY <1>1, <1>2, <1>4, RowSame, RouteOK DEF Types, Flight, Answering, Searching

LEMMA ApplyBookmarkOK == ASSUME Types, NEW p \in Workers, ApplyBookmark(p) PROVE StepOK
<1> DEFINE pc == IF row.address = NoAddress THEN "b_search" ELSE "b_list"
           h == [w[p] EXCEPT !.row = row', !.addr = row.address, !.pc = pc]
<1>1. /\ w[p].pc = "b_write" /\ w' = [w EXCEPT ![p] = h]
      /\ row' = [row EXCEPT !.status = "bookmarked"]
      /\ UNCHANGED <<mail, locks, events, suppressed>> /\ Sure
  BY DEF ApplyBookmark, At, Vendors, Unlisted, Uncounted, Sure
<1>2. RestMoves
  <2>1. Still
    BY DEF ApplyBookmark, Vendors, Unlisted, Uncounted, Still
  <2>2. QED
    BY <2>1, RestStill
<1>3. RowCalm
  BY <1>1, RowStatus DEF Types, Statuses, IntroStage
<1>4. h \in Handlers /\ h.pc \in {"b_search", "b_list"}
  <2>1. row' \in RowType /\ row.address \in Addresses \cup {NoAddress} /\ w[p] \in Handlers
    BY <1>3 DEF RowCalm, RowOK, Types, RowType, HandlersOK
  <2>2. QED
    BY <2>1 DEF Handlers, Points
<1> HIDE DEF h
<1>5. HandlersOK' /\ Others(p) /\ w'[p].pc \in {"b_search", "b_list"}
  BY <1>1, <1>4, Plainly, Moved DEF Types, Addressed, Stepping, Flight, Answering, Searching
<1>6. QED
  BY <1>1, <1>2, <1>3, <1>5, RouteOK DEF Flight, Answering, Searching

\* A route that ends: it may have asked for a search, or said how it ended.
LEMMA RouteEndsOK ==
    ASSUME Types, NEW p \in Workers, Finish(p), RowCalm, RestMoves, Sure,
           w[p].pc \notin Flight \cup Answering,
           UNCHANGED <<mail, locks, events, suppressed>>
    PROVE  StepOK
  BY Finished, RouteOK DEF Types, Flight, Answering, Searching

LEMMA BookmarkEndsOK ==
    ASSUME Types, NEW p \in Workers,
           \/ BookmarkSearch(p) \/ BookmarkQueueFailed(p) \/ BookmarkHeld(p) \/ RouteEnds(p)
           \/ WriteStatus(p)
    PROVE  StepOK
<1>1. /\ Finish(p) /\ w[p].pc \notin Flight \cup Answering
      /\ UNCHANGED <<mail, locks, events, suppressed>>
  BY DEF BookmarkSearch, BookmarkQueueFailed, BookmarkHeld, RouteEnds, WriteStatus, At,
         Vendors, Unlisted, Flight, Answering, Searching
<1>2. RestMoves
  <2>1. CASE BookmarkSearch(p)
    <3>1. UNCHANGED <<thread, mode, clock, nudgeJobs, starts>> /\ jobs' = jobs + 1
      BY <2>1 DEF BookmarkSearch, Record, Unlisted, Uncounted
    <3>2. QED
      BY <3>1, StillRest DEF Types, RestOK, Adds
  <2>2. CASE BookmarkQueueFailed(p) \/ BookmarkHeld(p) \/ RouteEnds(p) \/ WriteStatus(p)
    <3>1. Still
      BY <2>2 DEF BookmarkQueueFailed, BookmarkHeld, RouteEnds, WriteStatus, Record,
         Vendors, Unlisted, Uncounted, Still
    <3>2. QED
      BY <3>1, RestStill
  <2>3. QED
    BY <2>1, <2>2
<1>3. Sure
  BY DEF BookmarkSearch, BookmarkQueueFailed, BookmarkHeld, RouteEnds, WriteStatus,
     Uncounted, Sure, Doubtful, Fault
<1>4. RowCalm
  <2>1. CASE BookmarkHeld(p)
    BY <2>1, RowContact DEF BookmarkHeld, ContactStatuses, Types
  <2>2. CASE WriteStatus(p)
    <3>1. w[p].kind \in Chosen
      BY <2>2 DEF WriteStatus, At, Types, HandlersOK, HandlerOK
    <3>2. QED
      BY <2>2, <3>1, RowStatus DEF WriteStatus, Chosen, Statuses, Withdrawn, Types
  <2>3. CASE BookmarkSearch(p) \/ BookmarkQueueFailed(p) \/ RouteEnds(p)
    BY <2>3, RowSame DEF BookmarkSearch, BookmarkQueueFailed, RouteEnds, Record, Types
  <2>4. QED
    BY <2>1, <2>2, <2>3
<1>5. QED
  BY <1>1, <1>2, <1>3, <1>4, RouteEndsOK

LEMMA BookmarkAsksOK == ASSUME Types, NEW p \in Workers, BookmarkAsks(p) PROVE StepOK
<1>1. /\ w[p].pc = "b_list" /\ row' = row /\ Sure
      /\ UNCHANGED <<mail, locks, events, suppressed>>
  BY DEF BookmarkAsks, At, Record, Vendors, Unlisted, Uncounted, Sure
<1>2. RestMoves
  <2>1. Still
    BY DEF BookmarkAsks, Record, Vendors, Unlisted, Uncounted, Still
  <2>2. QED
    BY <2>1, RestStill
<1>3. [w[p] EXCEPT !.draft = DraftOnly(w[p].mode)] \in Handlers
  BY DEF Types, HandlersOK, Handlers, DraftOnly
<1>4. HandlersOK' /\ Others(p) /\ w'[p].pc \in {"idle", "i_read"}
  BY <1>3, Finished, Entered DEF BookmarkAsks, Types
<1>5. QED
  BY <1>1, <1>2, <1>4, RowSame, RouteOK DEF Types, Flight, Answering, Searching

LEMMA ApproveOK == ASSUME Types, NEW p \in Workers, Approve(p) PROVE StepOK
<1> DEFINE rec == [Idle EXCEPT !.kind = "approve"]
           h == [rec EXCEPT !.pc = "a_line"]
<1>1. /\ w[p].pc = "idle" /\ row' = row /\ Sure
      /\ UNCHANGED <<mail, locks, events, suppressed>>
      /\ EnterStep(p, rec) \/ w' = [w EXCEPT ![p] = h]
  BY IdleOK DEF Approve, Request, Record, Vendors, Unlisted, Sure
<1>2. RestMoves
  BY StillRest DEF Approve, Request, Record, Vendors, Unlisted, Adds, Types, RestOK
<1>3. rec \in Handlers
  BY IdleOK DEF Handlers, Kinds
<1> HIDE DEF rec
<1>4. h \in Handlers /\ h.pc = "a_line"
  BY <1>3 DEF Handlers, Points
<1> HIDE DEF h
<1>5. HandlersOK' /\ Others(p) /\ w'[p].pc \in {"i_read", "a_line"}
  BY <1>1, <1>3, <1>4, Entered, Plainly, Moved
     DEF Types, Addressed, Stepping, Flight, Answering, Searching
<1>6. QED
  BY <1>1, <1>2, <1>5, RowSame, RouteOK DEF Types, Flight, Answering, Searching

LEMMA ApproveLineOK == ASSUME Types, NEW p \in Workers, ApproveLine(p) PROVE StepOK
<1>1. /\ w[p].pc = "a_line" /\ row' = [row EXCEPT !.line = "set"] /\ EnterStep(p, w[p])
      /\ UNCHANGED <<mail, locks, events, suppressed>> /\ Sure
  BY DEF ApproveLine, At, Vendors, Unlisted, Uncounted, Sure
<1>2. RestMoves
  <2>1. Still
    BY DEF ApproveLine, Vendors, Unlisted, Uncounted, Still
  <2>2. QED
    BY <2>1, RestStill
<1>3. HandlersOK' /\ Others(p) /\ w'[p].pc = "i_read"
  BY <1>1, Entered DEF Types, HandlersOK
<1>4. QED
  BY <1>1, <1>2, <1>3, RowLine, RouteOK DEF Types, Flight, Answering, Searching

LEMMA StatusRequestOK ==
    ASSUME Types, NEW p \in Workers,
           \/ Unbookmark(p) \/ Pass(p)
           \/ \E status \in Chosen : StaffStatus(p, status)
    PROVE  StepOK
<1>1. PICK op \in Ops, status \in Chosen : StatusRequest(p, op, status)
  <2>1. CASE Unbookmark(p)
    BY <2>1 DEF Unbookmark, StatusRequest, Request, Chosen, Statuses, Withdrawn
  <2>2. CASE Pass(p)
    <3>1. (IF row.token THEN "rejected_after_outreach" ELSE "rejected") \in Chosen
      BY DEF Chosen, Statuses, Withdrawn
    <3>2. QED
      BY <2>2, <3>1 DEF Pass, StatusRequest, Request
  <2>3. CASE \E status \in Chosen : StaffStatus(p, status)
    BY <2>3 DEF StaffStatus, StatusRequest, Request
  <2>4. QED
    BY <2>1, <2>2, <2>3
<1> DEFINE h == [Idle EXCEPT !.pc = "s_write", !.kind = status]
<1>2. /\ w[p].pc = "idle" /\ w' = [w EXCEPT ![p] = h] /\ row' = row /\ Sure
      /\ UNCHANGED <<mail, locks, events, suppressed>>
  BY <1>1, IdleOK DEF StatusRequest, Request, Record, Vendors, Unlisted, Sure
<1>3. RestMoves
  BY <1>1, StillRest DEF StatusRequest, Request, Record, Vendors, Unlisted, Adds, Types, RestOK
<1>4. h \in Handlers /\ h.pc = "s_write" /\ h.kind \in Chosen
  BY IdleOK DEF Handlers, Points, Kinds
<1> HIDE DEF h
<1>5. HandlerOK(h)
  BY <1>4 DEF HandlerOK, Addressed, Stepping, Flight, Answering, Searching
<1>6. HandlersOK' /\ Others(p) /\ w'[p].pc = "s_write"
  BY <1>2, <1>4, <1>5, Moved DEF Types
<1>7. QED
  BY <1>2, <1>3, <1>6, RowSame, RouteOK DEF Types, Flight, Answering, Searching

LEMMA StaffAddressOK ==
    ASSUME Types, NEW p \in Workers, NEW a \in Addresses, StaffAddress(p, a) PROVE StepOK
<1>1. /\ w[p].pc = "idle" /\ w' = w /\ row' = [row EXCEPT !.address = a] /\ Sure
      /\ UNCHANGED <<mail, locks, events, suppressed>>
  BY IdleOK DEF StaffAddress, Request, Vendors, Unlisted, Sure
<1>2. RestMoves
  BY StillRest DEF StaffAddress, Request, Vendors, Unlisted, Adds, Types, RestOK
<1>3. HandlersOK' /\ Others(p)
  BY <1>1 DEF Types, HandlersOK, Others
<1>4. QED
  BY <1>1, <1>2, <1>3, RowAddress, RouteOK DEF Types, Flight, Answering, Searching

----------------------------------------------------------------------------
(* The discovery job.                                                        *)

LEMMA DiscoveryJobOK == ASSUME Types, NEW p \in Workers, DiscoveryJob(p) PROVE StepOK
<1> DEFINE addr == IF Usable(row) THEN row.address ELSE NoAddress
           pc == IF Usable(row) THEN "j_list" ELSE "j_find"
           h == [Idle EXCEPT !.kind = "job", !.row = row, !.mode = mode, !.addr = addr, !.pc = pc]
<1>1. /\ w[p].pc = "idle" /\ w' = [w EXCEPT ![p] = h] /\ row' = row /\ Sure
      /\ UNCHANGED <<mail, locks, events, suppressed>>
  BY IdleOK DEF DiscoveryJob, Record, Unlisted, Uncounted, Sure
<1>2. RestMoves
  <2>1. UNCHANGED <<thread, mode, clock, nudgeJobs, starts>> /\ jobs > 0 /\ jobs' = jobs - 1
    BY DEF DiscoveryJob, Record, Unlisted, Uncounted
  <2>2. jobs \in Nat
    BY DEF Types, RestOK
  <2>3. QED
    BY <2>1, <2>2, StillRest DEF Adds
<1>3. row \in RowType /\ row.address \in Addresses \cup {NoAddress} /\ mode \in Modes
  BY DEF Types, RowOK, RowType, RestOK
<1>4. /\ addr \in Addresses \cup {NoAddress} /\ pc \in {"j_list", "j_find"}
      /\ pc = "j_list" => addr \in Addresses
  BY <1>3 DEF Usable
<1> HIDE DEF addr, pc
<1>5. h \in Handlers /\ h.pc = pc /\ h.addr = addr
  BY <1>3, <1>4, IdleOK DEF Handlers, Points, Kinds
<1> HIDE DEF h
<1>6. HandlerOK(h)
  BY <1>4, <1>5 DEF HandlerOK, Addressed, Stepping, Flight, Answering, Searching
<1>7. HandlersOK' /\ Others(p) /\ w'[p].pc \in {"j_list", "j_find"}
  BY <1>1, <1>4, <1>5, <1>6, Moved DEF Types
<1>8. QED
  BY <1>1, <1>2, <1>7, RowSame, RouteOK DEF Types, Flight, Answering, Searching

LEMMA JobFindsOK ==
    ASSUME Types, NEW p \in Workers, NEW a \in Addresses, JobFinds(p, a) PROVE StepOK
<1> DEFINE h == [w[p] EXCEPT !.addr = a, !.pc = "j_list"]
<1>1. /\ w[p].pc = "j_find" /\ w' = [w EXCEPT ![p] = h] /\ Sure
      /\ row' = [row EXCEPT !.address = a, !.contact = "contact_found"]
      /\ UNCHANGED <<mail, locks, events, suppressed>>
  BY DEF JobFinds, At, Vendors, Unlisted, Uncounted, Sure
<1>2. RestMoves
  <2>1. Still
    BY DEF JobFinds, Vendors, Unlisted, Uncounted, Still
  <2>2. QED
    BY <2>1, RestStill
<1>3. h \in Handlers /\ h.pc = "j_list" /\ h.addr = a
  BY DEF Types, HandlersOK, Handlers, Points
<1> HIDE DEF h
<1>4. HandlerOK(h)
  BY <1>3 DEF HandlerOK, Addressed, Stepping, Flight, Answering, Searching
<1>5. HandlersOK' /\ Others(p) /\ w'[p].pc = "j_list"
  BY <1>1, <1>3, <1>4, Moved DEF Types
<1>6. QED
  BY <1>1, <1>2, <1>5, RowAddress, RouteOK DEF Types, Flight, Answering, Searching

\* The job says how it ended, or its line is lost.
LEMMA OutcomeOK ==
    ASSUME Types, NEW p \in Workers, NEW c \in ContactStatuses, Outcome(p, c),
           w[p].pc \notin Flight \cup Answering,
           UNCHANGED <<mail, locks, jobs, nudgeJobs, events, suppressed, mode, clock, starts>>
    PROVE  StepOK
<1>1. Finish(p) /\ (row' = [row EXCEPT !.contact = c] \/ row' = row) /\ Adds
  BY DEF Outcome, AfterBounceNote, Append1, Adds, Note
<1>2. RowCalm
  BY <1>1, RowContact, RowSame DEF Types
<1>3. Sure
  BY DEF Outcome, Fault, Sure, Doubtful
<1>4. RestMoves
  BY <1>1, StillRest DEF Types, RestOK
<1>5. QED
  BY <1>1, <1>2, <1>3, <1>4, RouteEndsOK

LEMMA JobFindsNobodyOK == ASSUME Types, NEW p \in Workers, JobFindsNobody(p) PROVE StepOK
<1>1. PICK c \in {"contact_discovery_unavailable",
                  IF w[p].row.bounced # {} THEN "no_other_address" ELSE "contact_not_found"} :
         Outcome(p, c)
  BY DEF JobFindsNobody
<1>2. c \in ContactStatuses
  BY DEF ContactStatuses
<1>3. /\ w[p].pc = "j_find"
      /\ UNCHANGED <<mail, locks, jobs, nudgeJobs, events, suppressed, mode, clock, starts>>
  BY DEF JobFindsNobody, At, Vendors, Unlisted, Uncounted
<1>4. QED
  BY <1>1, <1>2, <1>3, OutcomeOK DEF Flight, Answering, Searching

LEMMA JobAsksOK == ASSUME Types, NEW p \in Workers, JobAsks(p) PROVE StepOK
<1>1. /\ w[p].pc = "j_list"
      /\ UNCHANGED <<mail, locks, jobs, nudgeJobs, events, suppressed, mode, clock, starts>>
  BY DEF JobAsks, At, Vendors, Unlisted, Uncounted
<1>2. ASSUME NEW d \in BOOLEAN, EnterStep(p, [w[p] EXCEPT !.draft = d]), UNCHANGED <<Record, faults>>
      PROVE  StepOK
  <2>1. [w[p] EXCEPT !.draft = d] \in Handlers
    BY DEF Types, HandlersOK, Handlers
  <2>2. HandlersOK' /\ Others(p) /\ w'[p].pc = "i_read"
    BY <1>2, <2>1, Entered DEF Types
  <2>3. Still /\ Sure /\ row' = row
    BY <1>1, <1>2 DEF Still, Sure, Record
  <2>4. QED
    BY <1>1, <2>2, <2>3, RestStill, RowSame, RouteOK DEF Types, Flight, Answering, Searching
<1>3. \A d \in {DraftOnly(w[p].mode), "held" \in Ops \/ DraftOnly(w[p].mode)} : d \in BOOLEAN
  BY DEF DraftOnly
<1>4. \/ Outcome(p, "contact_suppressed") \/ Outcome(p, "contact_check_unavailable")
      \/ \E d \in BOOLEAN : EnterStep(p, [w[p] EXCEPT !.draft = d]) /\ UNCHANGED <<Record, faults>>
  BY <1>3 DEF JobAsks
<1>5. "contact_suppressed" \in ContactStatuses /\ "contact_check_unavailable" \in ContactStatuses
  BY DEF ContactStatuses
<1>6. QED
  BY <1>1, <1>2, <1>4, <1>5, OutcomeOK DEF Flight, Answering, Searching

LEMMA JobThrowsOK == ASSUME Types, NEW p \in Workers, JobThrows(p) PROVE StepOK
<1>1. /\ w[p].pc \notin Flight \cup Answering /\ Finish(p)
      /\ row' \in {row, [row EXCEPT !.contact = "contact_not_found"]}
      /\ UNCHANGED <<mail, locks, events, suppressed>> /\ Still
  BY DEF JobThrows, Vendors, Unlisted, Flight, Answering, Searching, Still
<1>2. Sure
  BY DEF JobThrows, Fault, Sure, Doubtful
<1>3. RowCalm
  BY <1>1, RowContact, RowSame DEF Types, ContactStatuses
<1>4. QED
  BY <1>1, <1>2, <1>3, RestStill, RouteEndsOK

LEMMA JobUnreadOK == ASSUME Types, NEW p \in Workers, JobUnread(p) PROVE StepOK
<1>1. /\ w[p].pc = "idle" /\ w' = w /\ row' = row /\ Sure
      /\ UNCHANGED <<mail, locks, events, suppressed>>
  BY IdleOK DEF JobUnread, Record, Unlisted, Fault, Sure, Doubtful
<1>2. RestMoves
  <2>1. UNCHANGED <<thread, mode, clock, nudgeJobs, starts>> /\ jobs > 0 /\ jobs' = jobs - 1
    BY DEF JobUnread, Record, Unlisted
  <2>2. jobs \in Nat
    BY DEF Types, RestOK
  <2>3. QED
    BY <2>1, <2>2, StillRest DEF Adds
<1>3. HandlersOK' /\ Others(p)
  BY <1>1 DEF Types, HandlersOK, Others
<1>4. QED
  BY <1>1, <1>2, <1>3, RowSame, RouteOK DEF Types, Flight, Answering, Searching

LEMMA JobEndsOK == ASSUME Types, NEW p \in Workers, JobEnds(p) PROVE StepOK
<1>1. UNCHANGED <<mail, locks, jobs, nudgeJobs, events, suppressed, mode, clock, starts>>
  BY DEF JobEnds, Vendors, Unlisted, Uncounted
<1>2. CASE At(p, "i_fail") /\ Outcome(p, "intro_failed")
  BY <1>1, <1>2, OutcomeOK DEF ContactStatuses, At, Flight, Answering, Searching
<1>3. CASE At(p, "i_done") /\ Outcome(p, IF w[p].draft THEN "intro_drafted" ELSE "intro_sent")
  <2>1. (IF w[p].draft THEN "intro_drafted" ELSE "intro_sent") \in ContactStatuses
    BY DEF ContactStatuses
  <2>2. QED
    BY <1>1, <1>3, <2>1, OutcomeOK DEF At, Flight, Answering, Searching
<1>4. CASE At(p, "i_already") /\ Finish(p) /\ UNCHANGED <<Record, faults>>
  <2>1. Still /\ Sure /\ row' = row
    BY <1>1, <1>4 DEF Still, Sure, Record
  <2>2. QED
    BY <1>1, <1>4, <2>1, RestStill, RowSame, RouteEndsOK DEF Types, At, Flight, Answering, Searching
<1>5. QED
  BY <1>2, <1>3, <1>4 DEF JobEnds

LEMMA RouteStepOK == ASSUME Types, NEW p \in Workers, RouteStep(p) PROVE StepOK
  BY ApplyBookmarkOK, BookmarkEndsOK, BookmarkAsksOK, ApproveLineOK, DiscoveryJobOK,
     JobFindsOK, JobFindsNobodyOK, JobAsksOK, JobThrowsOK, JobUnreadOK, JobEndsOK DEF RouteStep

LEMMA RouteRequestOK == ASSUME Types, NEW p \in Workers, RouteRequest(p) PROVE StepOK
  BY BookmarkOK, ApproveOK, StatusRequestOK, StaffAddressOK DEF RouteRequest, Chosen

----------------------------------------------------------------------------
(* The step, up to the claim.                                                *)

LEMMA IntroReadOK == ASSUME Types, NEW p \in Workers, IntroRead(p) PROVE StepOK
<1> DEFINE pc == IF row.address = NoAddress THEN "i_fail"
                 ELSE IF IntroAlreadySent(row) THEN "i_already" ELSE "i_line"
           h == [w[p] EXCEPT !.row = row, !.addr = row.address, !.pc = pc]
<1>1. /\ w[p].pc = "i_read" /\ w' = [w EXCEPT ![p] = h] /\ row' = row /\ Sure
      /\ UNCHANGED <<mail, locks, events, suppressed>> /\ Still
  BY DEF IntroRead, At, Record, Vendors, Unlisted, Uncounted, Sure, Still
<1>2. row \in RowType /\ row.address \in Addresses \cup {NoAddress}
  BY DEF Types, RowOK, RowType
<1>3. /\ pc \in {"i_fail", "i_already", "i_line"}
      /\ pc = "i_line" => row.address \in Addresses /\ ~IntroAlreadySent(row)
  BY <1>2
<1> HIDE DEF pc
<1>4. h \in Handlers /\ h.pc = pc /\ h.row = row /\ h.addr = row.address
  BY <1>2, <1>3 DEF Types, HandlersOK, Handlers, Points
<1> HIDE DEF h
<1>5. ~IntroAlreadySent(row) => row.claim # "fresh"
  BY DEF IntroAlreadySent, ClaimPredatesBounce
<1>6. HandlerOK(h)
  BY <1>3, <1>4, <1>5 DEF HandlerOK, Addressed, Stepping, Flight, Answering, Searching, Types, RowOK
<1>7. HandlersOK' /\ Others(p) /\ w'[p] = h
  BY <1>1, <1>6, Moved DEF Types
<1>8. Calm
  BY <1>1, RestStill, RowSame, CalmBy DEF Types
<1>9. QED
  BY <1>1, <1>3, <1>4, <1>7, <1>8, OrdinaryOK DEF Ordinary, Flight, Answering, Searching

\* Where a step ends without having claimed.
LEMMA Passed ==
    ASSUME Types, NEW p \in Workers, NEW pc \in {"i_done", "i_already"},
           Goto(p, pc) \/ (DoneDrafted(p) /\ pc = "i_done")
    PROVE  HandlersOK' /\ Others(p) /\ w'[p].pc = pc
<1>1. CASE Goto(p, pc)
  BY <1>1, Went DEF Types, Points, Addressed, Stepping, Flight, Answering, Searching
<1>2. CASE DoneDrafted(p) /\ pc = "i_done"
  <2> DEFINE h == [w[p] EXCEPT !.draft = TRUE, !.pc = "i_done"]
  <2>1. w' = [w EXCEPT ![p] = h]
    BY <1>2 DEF DoneDrafted
  <2>2. h \in Handlers /\ h.pc = "i_done"
    BY DEF Types, HandlersOK, Handlers, Points
  <2> HIDE DEF h
  <2>3. QED
    BY <1>2, <2>1, <2>2, Plainly, Moved DEF Types, Addressed, Stepping, Flight, Answering, Searching
<1>3. QED
  BY <1>1, <1>2

LEMMA IntroPassesOK ==
    ASSUME Types, NEW p \in Workers,
           IntroHold(p) \/ IntroDraft(p) \/ IntroLocked(p) \/ IntroHeldDraft(p)
    PROVE  StepOK
<1>1. /\ w[p].pc \in {"i_line", "i_draft"} /\ Sure
      /\ UNCHANGED <<mail, locks, events, suppressed>> /\ Still
      /\ row' = row \/ row' = Held(row) \/ row' = Drafted(row)
  BY DEF IntroHold, IntroDraft, IntroLocked, IntroHeldDraft, At, Record, Vendors,
     Unlisted, Uncounted, Sure, Still
<1>2. HandlersOK' /\ Others(p) /\ w'[p].pc \in {"i_done", "i_already"}
  BY Passed DEF IntroHold, IntroDraft, IntroLocked, IntroHeldDraft
<1>3. RowCalm
  BY <1>1, RowSame, RowDrafted DEF Types
<1>4. QED
  BY <1>1, <1>2, <1>3, RestStill, RouteOK DEF Flight, Answering, Searching

----------------------------------------------------------------------------
(* From the claim to its outcome.                                            *)

LEMMA StepTypes ==
    ASSUME Types, NEW p \in Workers, HandlersOK', Others(p), RowOK', RestOK', MailOK',
           mail'.bounced = mail.bounced, Mailed \subseteq Mailed',
           row'.bounced = row.bounced, events' = events,
           w[p].pc \notin Answering, w'[p].pc \notin Answering
    PROVE  Types'
<1>1. EventsOK'
  BY DEF Types, EventsOK, Mailed
<1>2. ASSUME NEW q \in Workers, w'[q].pc \in Answering PROVE q # p /\ w'[q] = w[q]
  BY <1>2 DEF Others
<1>3. EventsHeld'
  BY <1>2 DEF Types, EventsHeld, EventOf
<1>4. QED
  BY <1>1, <1>3 DEF Types

LEMMA MailSame == ASSUME MailOK, mail' = mail PROVE MailOK' /\ Mailed' = Mailed
  BY DEF MailOK, Mailed

LEMMA Accepts ==
    ASSUME MailOK, NEW a \in Addresses, Accepted(a)
    PROVE  /\ MailOK' /\ mail'.bounced = mail.bounced
           /\ mail'.intro = [mail.intro EXCEPT ![a] = @ + 1]
           /\ Mailed' = Mailed \cup {a}
<1> DEFINE intro == [mail.intro EXCEPT ![a] = @ + 1]
<1>1. mail.intro \in [Addresses -> Nat] /\ mail' = [mail EXCEPT !.intro = intro]
  BY DEF MailOK, MailType, Accepted
<1>2. intro \in [Addresses -> Nat] /\ intro[a] = mail.intro[a] + 1
      /\ \A b \in Addresses \ {a} : intro[b] = mail.intro[b]
  BY <1>1
<1>3. intro = [mail.intro EXCEPT ![a] = @ + 1]
  OBVIOUS
<1> HIDE DEF intro
<1>4. mail' \in MailType([Addresses -> Nat], [1 .. MaxClock -> Nat], SUBSET Addresses)
      /\ mail'.bounced = mail.bounced /\ mail'.intro = intro
  <2> DEFINE counts == [Addresses -> Nat]
             days == [1 .. MaxClock -> Nat]
             sets == SUBSET Addresses
  <2>1. intro \in counts /\ mail \in MailType(counts, days, sets)
    BY <1>2 DEF MailOK
  <2> HIDE DEF counts, days, sets
  <2>2. /\ mail' \in MailType(counts, days, sets)
        /\ mail'.bounced = mail.bounced /\ mail'.intro = intro
    BY <1>1, <2>1 DEF MailType
  <2>3. QED
    BY <2>2 DEF counts, days, sets
<1>5. Mailed' = Mailed \cup {a}
  BY <1>1, <1>2, <1>4 DEF Mailed
<1>6. QED
  BY <1>3, <1>4, <1>5 DEF MailOK

\* Nobody a step is about to write to has been written to.
LEMMA NotYet ==
    ASSUME Types, Once, NEW p \in Flying
    PROVE  /\ w[p].addr \in Addresses /\ mail.intro[w[p].addr] = 0
           /\ w[p].addr \notin row.bounced /\ w[p].addr \notin Mailed
<1> DEFINE c == w[p].row
<1>1. p \in Workers /\ w[p].pc \in Flight /\ w[p].pc \in Stepping /\ w[p].pc \in Addressed
  BY DEF Flying, Stepping, Addressed
<1>2. w[p].addr \in Addresses /\ w[p].addr = c.address /\ ~IntroAlreadySent(c)
  BY <1>1 DEF Types, HandlersOK, HandlerOK
<1>3. c.bounced = row.bounced /\ Mailed \subseteq row.bounced
  BY DEF Once, FlightAlone
<1>4. c.claim = "none" => c.bounced = {}
  BY <1>1 DEF Once, CopiesOld
<1>5. c.address \notin c.bounced
  BY <1>2, <1>4 DEF IntroAlreadySent, ClaimPredatesBounce
<1>6. w[p].addr \notin Mailed /\ w[p].addr \notin row.bounced
  BY <1>2, <1>3, <1>5
<1>7. mail.intro[w[p].addr] \in Nat
  BY <1>2 DEF Types, MailOK, MailType
<1>8. QED
  BY <1>2, <1>6, <1>7 DEF Mailed

LEMMA Address == ASSUME Types, NEW p \in Workers, w[p].pc \in Addressed
                 PROVE w[p].addr \in Addresses /\ w[p] \in Handlers
  BY DEF Types, HandlersOK, HandlerOK

LEMMA DoubtsTyped == ASSUME RestOK PROVE Faults(Doubtful) \in Nat
  BY FaultsFinite DEF RestOK, Faults

\* One cleared, or written to, that was not written to before.
LEMMA FirstTime ==
    ASSUME IInv, NEW a \in Addresses, Faults(Doubtful) = 0 => mail.intro[a] = 0,
           Sending' \subseteq Sending \cup {a},
           \A b \in Addresses \ {a} : mail'.intro[b] = mail.intro[b]
    PROVE  OneEach
<1>1. Faults(Doubtful) \in Nat
  BY DoubtsTyped DEF IInv, Types
<1>2. ASSUME Faults(Doubtful) = 0 PROVE Cold!WithinBudget(1)
  <2>1. mail.intro[a] < 1 + Faults(Doubtful)
    BY <1>2
  <2>2. ASSUME NEW b \in Addresses, mail'.intro[b] # mail.intro[b] \/ b \in Sending' \ Sending
        PROVE  b = a
    BY <2>2
  <2>3. QED
    BY <2>1, <2>2 DEF Cold!WithinBudget, Sending
<1>3. QED
  BY <1>1, <1>2 DEF OneEach

LEMMA IntroGateOK == ASSUME IInv, NEW p \in Workers, IntroGate(p) PROVE StepOK
<1>1. /\ w[p].pc = "i_gate" /\ row' = row /\ mail' = mail /\ locks' = locks /\ events' = events
      /\ suppressed' = suppressed /\ Still /\ UNCHANGED faults
  BY DEF IntroGate, At, Record, Vendors, Unlisted, Uncounted, Still
<1>2. Types /\ w[p].addr \in Addresses /\ w[p] \in Handlers
  BY <1>1, Address DEF IInv, Addressed, Stepping, Flight
<1>3. Calm
  BY <1>1, <1>2, RestStill, RowSame, CalmBy DEF Types, Sure
<1>4. /\ HandlersOK' /\ Others(p) /\ w'[p].pc \in {"i_send", "i_release"}
      /\ w'[p].row = w[p].row /\ w'[p].addr = w[p].addr
      /\ w'[p].pc = "i_send" => w[p].addr \notin suppressed
  <2>1. CASE GateOpens(w[p].addr) /\ Goto(p, "i_send")
    BY <1>1, <1>2, <2>1, Went DEF Types, Points, Addressed, Stepping, Flight, Answering, Searching,
       GateOpens, Suppressed
  <2>2. CASE w' = [w EXCEPT ![p].held = TRUE, ![p].pc = "i_release"]
    <3> DEFINE h == [w[p] EXCEPT !.held = TRUE, !.pc = "i_release"]
    <3>1. w' = [w EXCEPT ![p] = h]
      BY <2>2
    <3>2. /\ h \in Handlers /\ h.pc = "i_release" /\ h.row = w[p].row /\ h.addr = w[p].addr
      BY <1>2 DEF Handlers, Points
    <3> HIDE DEF h
    <3>3. HandlerOK(h)
      BY <1>1, <1>2, <3>2 DEF HandlerOK, Addressed, Stepping, Flight, Answering, Searching,
                              Types, HandlersOK
    <3>4. QED
      BY <1>2, <3>1, <3>2, <3>3, Moved DEF Types
  <2>3. QED
    BY <2>1, <2>2 DEF IntroGate
<1>5. Types'
  BY <1>1, <1>2, <1>3, <1>4, MailSame, StepTypes DEF Calm, Types, Answering, Searching
<1>6. ASSUME Once PROVE Once'
  <2>1. FlightKept
    BY <1>1, <1>4 DEF Others, FlightKept, Flight
  <2>2. BouncesFresh'
    BY <1>1, <1>4, <1>6, FreshKept DEF Others, Once, EventOf, Searching
  <2>3. QED
    BY <1>1, <1>2, <1>3, <1>4, <1>6, <2>1, <2>2, OnceKept DEF Calm
<1>7. CASE w'[p].pc = "i_send"
  <2>1. Sending' = Sending \cup {w[p].addr}
    BY <1>1, <1>2, <1>4, <1>7, SendingBy
  <2>2. ColdStep
    BY <1>1, <1>2, <1>3, <1>4, <1>7, <2>1 DEF ColdStep, Cold!Next, Cold!Clear, Sending, Calm
  <2>3. Faults(Doubtful) = 0 => mail.intro[w[p].addr] = 0
    BY <1>1, NotYet DEF IInv, Flying, Flight
  <2>4. OneEach
    BY <1>1, <1>2, <2>1, <2>3, FirstTime
  <2>5. QED
    BY <1>5, <1>6, <2>2, <2>4 DEF StepOK
<1>8. CASE w'[p].pc = "i_release"
  <2>1. ColdStep /\ OneEach
    BY <1>1, <1>3, <1>4, <1>8, SendingBy, ColdIdle DEF Calm
  <2>2. QED
    BY <1>5, <1>6, <2>1 DEF StepOK
<1>9. QED
  BY <1>4, <1>7, <1>8

\* A cleared message is given up, or the doubt about it is counted.
LEMMA ColdDrops ==
    ASSUME NEW p \in Workers, Others(p), w'[p].pc # "i_send",
           w[p].pc = "i_send" => w[p].addr \in Addresses,
           mail'.intro = mail.intro, suppressed' = suppressed,
           \/ Faults(Doubtful)' = Faults(Doubtful)
           \/ Faults(Doubtful)' = Faults(Doubtful) + 1
    PROVE  ColdStep /\ OneEach
<1>1. Sending' \subseteq Sending
  BY SendingBy
<1>2. OneEach
  BY <1>1 DEF OneEach, Cold!WithinBudget, Sending
<1>3. CASE Sending' = Sending
  <2>1. Cold!Doubt \/ UNCHANGED Cold!vars
    BY <1>3 DEF Cold!Doubt, Cold!vars, Sending
  <2>2. QED
    BY <1>2, <2>1 DEF ColdStep, Cold!Next
<1>4. CASE Sending' # Sending
  <2>1. w[p].pc = "i_send" /\ Sending' = Sending \ {w[p].addr} /\ w[p].addr \in Addresses
    BY <1>4, SendingBy
  <2>2. w[p].addr \in Sending
    BY <2>1 DEF Sending, At
  <2>3. PICK a \in Addresses : a = w[p].addr
    BY <2>1
  <2>4. Cold!Drop(a)
    BY <2>1, <2>2, <2>3 DEF Cold!Drop, Sending
  <2>5. QED
    BY <1>2, <2>4 DEF ColdStep, Cold!Next
<1>5. QED
  BY <1>3, <1>4

LEMMA IntroRefusedOK == ASSUME Types, NEW p \in Workers, IntroRefused(p) PROVE StepOK
<1>1. /\ w[p].pc = "i_send" /\ row' = row /\ mail' = mail /\ locks' = locks /\ events' = events
      /\ suppressed' = suppressed /\ Still /\ Goto(p, "i_release")
  BY DEF IntroRefused, At, Record, Vendors, Unlisted, Still
<1>2. w[p].addr \in Addresses
  BY <1>1, Address DEF Addressed, Stepping, Flight
<1>3. Sure
  BY DEF IntroRefused, Fault, Sure, Doubtful
<1>4. Calm
  BY <1>1, <1>3, RestStill, RowSame, CalmBy DEF Types
<1>5. HandlersOK' /\ Others(p) /\ w'[p].pc = "i_release" /\ w'[p].row = w[p].row
  BY <1>1, Went DEF Types, Points, Addressed, Stepping, Flight, Answering, Searching
<1>6. Types'
  BY <1>1, <1>4, <1>5, MailSame, StepTypes DEF Calm, Types, Answering, Searching
<1>7. ASSUME Once PROVE Once'
  <2>1. FlightKept
    BY <1>1, <1>5 DEF Others, FlightKept, Flight
  <2>2. BouncesFresh'
    BY <1>1, <1>5, <1>7, FreshKept DEF Others, Once, EventOf, Searching
  <2>3. QED
    BY <1>1, <1>4, <1>5, <1>7, <2>1, <2>2, OnceKept DEF Calm
<1>8. ColdStep /\ OneEach
  BY <1>1, <1>2, <1>4, <1>5, ColdDrops DEF Calm
<1>9. QED
  BY <1>6, <1>7, <1>8 DEF StepOK

\* A message goes, with a doubt about it or without.
LEMMA ColdWrites ==
    ASSUME IInv, NEW p \in Workers, Others(p), w[p].pc = "i_send", w'[p].pc # "i_send",
           Accepted(w[p].addr), suppressed' = suppressed,
           \/ Faults(Doubtful)' = Faults(Doubtful)
           \/ Faults(Doubtful)' = Faults(Doubtful) + 1
    PROVE  ColdStep /\ OneEach
<1>1. PICK a \in Addresses : a = w[p].addr
  BY Address DEF IInv, Addressed, Stepping, Flight
<1>2. mail'.intro = [mail.intro EXCEPT ![a] = @ + 1] /\ mail.intro \in [Addresses -> Nat]
  BY <1>1, Accepts DEF IInv, Types, MailOK, MailType
<1>3. a \in Sending /\ Sending' \in {Sending, Sending \ {a}}
  BY <1>1, SendingBy DEF Sending, At
<1>4. Cold!Write(a)
  BY <1>2, <1>3 DEF Cold!Write, Sending
<1>5. ColdStep
  BY <1>4 DEF ColdStep, Cold!Next
<1>6. Faults(Doubtful) = 0 => mail.intro[a] = 0
  BY <1>1, NotYet DEF IInv, Flying, Flight
<1>7. OneEach
  BY <1>2, <1>3, <1>6, FirstTime
<1>8. QED
  BY <1>5, <1>7

LEMMA LockTyped == ASSUME NEW r \in RowType PROVE LockKey(r) \in 0 .. Cardinality(Addresses)
<1>1. r.bounced \in SUBSET Addresses
  BY DEF RowType
<1>2. /\ IsFiniteSet(r.bounced) /\ Cardinality(r.bounced) <= Cardinality(Addresses)
      /\ Cardinality(r.bounced) \in Nat /\ Cardinality(Addresses) \in Nat
  BY <1>1, AddressesAssumption, FS_Subset, FS_CardinalityType
<1>3. QED
  BY <1>2 DEF LockKey

LEMMA RowClaimed ==
    ASSUME RowOK, row' = Claimed(row)
    PROVE  RowOK' /\ row'.bounced = row.bounced /\ row'.claim = "fresh"
  BY DEF RowOK, RowType, Claimed, Introed, Statuses, IntroStage, Claims

LEMMA CopyTyped == ASSUME Types, NEW p \in Workers
                   PROVE w[p] \in Handlers /\ w[p].row \in RowType
  BY DEF Types, HandlersOK, Handlers

LEMMA IntroClaimOnce ==
    ASSUME Types, Once, NEW p \in Workers, Others(p), w[p].pc = "i_line",
           w'[p].pc = "i_gate", w'[p].row = w[p].row,
           LockKey(w[p].row) \notin locks, locks' = locks \cup {LockKey(w[p].row)},
           row'.claim = "fresh", row'.bounced = row.bounced,
           mail' = mail, events' = events
    PROVE  Once'
<1>1. /\ Free /\ w[p].row.bounced = row.bounced
      /\ w[p].row.claim = "none" => w[p].row.bounced = {}
  BY DEF Once, CopiesOld, Stepping
<1>2. \A q \in Workers \ {p} : w'[q] = w[q]
  BY DEF Others
<1>3. Flying = {} /\ Mailed \subseteq row.bounced
  BY <1>1 DEF Free
<1>4. Flying' = {p}
  BY <1>2, <1>3 DEF Flying, Flight
<1>5. Mailed' = Mailed
  BY DEF Mailed
<1>6. FreeUnlessClaimed' /\ ContactedStands'
  BY <1>4 DEF FreeUnlessClaimed, ContactedStands
<1>7. LockKey(w'[p].row) \in locks'
  BY DEF LockKey
<1>8. FlightAlone'
  BY <1>1, <1>3, <1>4, <1>5, <1>7 DEF FlightAlone
<1>9. ASSUME NEW q \in Workers, w'[q].pc \in Stepping
      PROVE  /\ w'[q].row.bounced \subseteq row'.bounced
             /\ w'[q].row.claim = "none" => w'[q].row.bounced = {}
             /\ w'[q].pc = "i_line" => LockKey(w'[q].row) \in locks'
  <2>1. CASE q = p
    BY <1>1, <2>1
  <2>2. CASE q # p
    <3>1. w'[q] = w[q]
      BY <1>2, <2>2
    <3>2. /\ w[q].row.bounced \subseteq row.bounced
          /\ w[q].row.claim = "none" => w[q].row.bounced = {}
          /\ w[q].pc = "i_line" => LockKey(w[q].row) \in locks \/ w[q].row.bounced = row.bounced
      BY <1>9, <3>1 DEF Once, CopiesOld
    <3>3. w[q].row.bounced = row.bounced => LockKey(w[q].row) = LockKey(w[p].row)
      BY <1>1 DEF LockKey
    <3>4. QED
      BY <3>1, <3>2, <3>3
  <2>3. QED
    BY <2>1, <2>2
<1>10. CopiesOld'
  BY <1>9 DEF CopiesOld
<1>11. MailedOnce'
  BY <1>5 DEF MailedOnce, Once
<1>12. BouncesFresh'
  BY <1>2, FreshKept DEF Once, EventOf, Searching
<1>13. QED
  BY <1>6, <1>8, <1>10, <1>11, <1>12 DEF Once

LEMMA IntroClaimOK == ASSUME Types, NEW p \in Workers, IntroClaim(p) PROVE StepOK
<1>1. /\ w[p].pc = "i_line" /\ row' = Claimed(row) /\ mail' = mail /\ events' = events
      /\ LockKey(w[p].row) \notin locks /\ locks' = locks \cup {LockKey(w[p].row)}
      /\ suppressed' = suppressed /\ Still /\ Sure /\ Goto(p, "i_gate")
  BY DEF IntroClaim, At, Unlisted, Uncounted, Still, Sure
<1>2. HandlersOK' /\ Others(p) /\ w'[p].pc = "i_gate" /\ w'[p].row = w[p].row
  BY <1>1, Went DEF Types, Points, Addressed, Stepping, Flight, Answering, Searching
<1>3. SomeFault /\ Faults(Doubtful)' = Faults(Doubtful)
  BY <1>1, SureOK DEF Types
<1>4. RestOK'
  BY <1>1, <1>3, RestStill, RestMoved, CopyTyped, LockTyped DEF Types, RestOK
<1>5. RowOK' /\ row'.bounced = row.bounced /\ row'.claim = "fresh"
  BY <1>1, RowClaimed DEF Types
<1>6. Types'
  BY <1>1, <1>2, <1>4, <1>5, MailSame, StepTypes DEF Types, Answering, Searching
<1>7. Once => Once'
  BY <1>1, <1>2, <1>5, IntroClaimOnce
<1>8. ColdStep /\ OneEach
  BY <1>1, <1>2, <1>3, SendingBy, ColdIdle
<1>9. QED
  BY <1>6, <1>7, <1>8 DEF StepOK

\* After a fault that leaves a doubt only the types and ColdMail are at stake.
LEMMA Doubted ==
    ASSUME RestOK, NEW op \in Doubtful, Fault(op)
    PROVE  /\ SomeFault /\ Faults(Doubtful)' = Faults(Doubtful) + 1
           /\ Faults(Doubtful) \in Nat /\ Faults(Doubtful)' # 0
  BY FaultCounted DEF Bit, SomeFault, Fault

LEMMA IntroClaimUnlockedOK ==
    ASSUME Types, NEW p \in Workers, IntroClaimUnlocked(p) PROVE StepOK
<1>1. /\ w[p].pc = "i_line" /\ row' = Claimed(row) /\ mail' = mail /\ events' = events
      /\ locks' = locks /\ Fault("redis_out")
      /\ suppressed' = suppressed /\ Still /\ Goto(p, "i_gate")
  BY DEF IntroClaimUnlocked, At, Vendors, Unlisted, Still
<1>2. HandlersOK' /\ Others(p) /\ w'[p].pc = "i_gate"
  BY <1>1, Went DEF Types, Points, Addressed, Stepping, Flight, Answering, Searching
<1>3. SomeFault /\ Faults(Doubtful)' = Faults(Doubtful) + 1 /\ Faults(Doubtful)' # 0
  BY <1>1, Doubted DEF Types, Doubtful
<1>4. RestOK'
  BY <1>1, <1>3, RestStill, RestMoved DEF Types, RestOK
<1>5. RowOK' /\ row'.bounced = row.bounced
  BY <1>1, RowClaimed DEF Types
<1>6. Types'
  BY <1>1, <1>2, <1>4, <1>5, MailSame, StepTypes DEF Types, Answering, Searching
<1>7. ColdStep /\ OneEach
  BY <1>1, <1>2, <1>3, ColdDrops
<1>8. QED
  BY <1>3, <1>6, <1>7 DEF StepOK

\* A claim that was not taken, or was written and is not acted on, leaves
\* nobody between claim and outcome.
LEMMA IntroClaimFailsOnce ==
    ASSUME Types, Once, NEW p \in Workers, Others(p), w[p].pc = "i_line",
           w'[p].pc = "i_fail", LockKey(w[p].row) \notin locks, locks' = locks,
           row' = row \/ row'.claim = "fresh", row'.bounced = row.bounced,
           mail' = mail, events' = events, Faults({"kill", "write_lost"})' > 0
    PROVE  Once'
<1>1. Free
  BY DEF Once, CopiesOld, Stepping
<1>2. \A q \in Workers \ {p} : w'[q] = w[q]
  BY DEF Others
<1>3. Flying' = {} /\ Mailed' = Mailed
  BY <1>1, <1>2 DEF Free, Flying, Flight, Mailed
<1>4. Free'
  BY <1>1, <1>3 DEF Free
<1>5. FreeUnlessClaimed' /\ FlightAlone' /\ ContactedStands'
  BY <1>3, <1>4 DEF FreeUnlessClaimed, FlightAlone, ContactedStands, Once
<1>6. ASSUME NEW q \in Workers, w'[q].pc \in Stepping
      PROVE  /\ w'[q].row.bounced \subseteq row'.bounced
             /\ w'[q].row.claim = "none" => w'[q].row.bounced = {}
             /\ w'[q].pc = "i_line" =>
                   \/ LockKey(w'[q].row) \in locks'
                   \/ Free' /\ w'[q].row.bounced = row'.bounced
  <2>1. w'[q] = w[q]
    BY <1>2, <1>6 DEF Stepping, Flight
  <2>2. QED
    BY <1>4, <1>6, <2>1 DEF Once, CopiesOld, LockKey
<1>7. CopiesOld'
  BY <1>6 DEF CopiesOld
<1>8. MailedOnce'
  BY <1>3 DEF MailedOnce, Once
<1>9. BouncesFresh'
  BY <1>2, FreshKept DEF Once, EventOf, Searching
<1>10. QED
  BY <1>5, <1>7, <1>8, <1>9 DEF Once

LEMMA IntroClaimFailsOK ==
    ASSUME Types, NEW p \in Workers, IntroClaimFails(p) PROVE StepOK
<1>1. /\ w[p].pc = "i_line" /\ (row' = row \/ row' = Claimed(row)) /\ mail' = mail
      /\ events' = events /\ LockKey(w[p].row) \notin locks /\ locks' = locks
      /\ Fault("write_lost") /\ suppressed' = suppressed /\ Still /\ Goto(p, "i_fail")
  BY DEF IntroClaimFails, At, Vendors, Unlisted, Still
<1>2. HandlersOK' /\ Others(p) /\ w'[p].pc = "i_fail"
  BY <1>1, Went DEF Types, Points, Addressed, Stepping, Flight, Answering, Searching
<1>3. SomeFault /\ Faults(Doubtful)' = Faults(Doubtful)
  <2>1. Sure
    BY <1>1 DEF Sure, Fault, Doubtful
  <2>2. QED
    BY <2>1, SureOK DEF Types
<1>4. RestOK'
  BY <1>1, <1>3, RestStill, RestMoved DEF Types, RestOK
<1>5. RowOK' /\ row'.bounced = row.bounced /\ (row' = row \/ row'.claim = "fresh")
  BY <1>1, RowClaimed, RowSame DEF Types, RowCalm
<1>6. Faults({"kill", "write_lost"})' > 0
  <2>1. /\ Faults({"kill", "write_lost"}) \in Nat
        /\ Faults({"kill", "write_lost"})' = Faults({"kill", "write_lost"}) + 1
    BY <1>1, FaultCounted DEF Bit, Types
  <2>2. QED
    BY <2>1
<1>7. Types'
  BY <1>1, <1>2, <1>4, <1>5, MailSame, StepTypes DEF Types, Answering, Searching
<1>8. Once => Once'
  BY <1>1, <1>2, <1>5, <1>6, IntroClaimFailsOnce
<1>9. ColdStep /\ OneEach
  BY <1>1, <1>2, <1>3, SendingBy, ColdIdle
<1>10. QED
  BY <1>7, <1>8, <1>9 DEF StepOK

LEMMA IntroSentOnce ==
    ASSUME Types, Once, NEW p \in Workers, Others(p), w[p].pc = "i_send",
           w'[p].pc = "i_done", Accepted(w[p].addr), row' = row, locks' = locks,
           events' = events
    PROVE  Once'
<1>1. p \in Flying
  BY DEF Flying, Flight
<1>2. PICK a \in Addresses : a = w[p].addr
  BY <1>1, NotYet
<1>3. mail.intro[a] = 0 /\ a \notin row.bounced
  BY <1>1, <1>2, NotYet
<1>4. /\ mail.intro \in [Addresses -> Nat] /\ Mailed' = Mailed \cup {a}
      /\ mail'.intro = [mail.intro EXCEPT ![a] = @ + 1]
  BY <1>2, Accepts DEF Types, MailOK, MailType
<1>5. row.claim = "fresh" /\ Mailed \subseteq row.bounced /\ \A q \in Flying : q = p
  BY <1>1 DEF Once, FlightAlone
<1>6. \A q \in Workers \ {p} : w'[q] = w[q]
  BY DEF Others
<1>7. Flying' = {}
  BY <1>5, <1>6 DEF Flying, Flight
<1>8. FreeUnlessClaimed' /\ FlightAlone'
  BY <1>5, <1>7 DEF FreeUnlessClaimed, FlightAlone
<1>9. ASSUME NEW q \in Workers, w'[q].pc \in Stepping
      PROVE  /\ w'[q].row.bounced \subseteq row'.bounced
             /\ w'[q].row.claim = "none" => w'[q].row.bounced = {}
             /\ w'[q].pc = "i_line" => LockKey(w'[q].row) \in locks'
  <2>1. w'[q] = w[q]
    BY <1>6, <1>9 DEF Stepping, Flight
  <2>2. ~Free
    BY <1>1 DEF Free
  <2>3. QED
    BY <1>9, <2>1, <2>2 DEF Once, CopiesOld
<1>10. CopiesOld'
  BY <1>9 DEF CopiesOld
<1>11. MailedOnce'
  BY <1>3, <1>4, <1>5 DEF MailedOnce, Once
<1>12. BouncesFresh'
  BY <1>6, FreshKept DEF Once, EventOf, Searching
<1>13. ContactedStands'
  BY <1>3, <1>4 DEF ContactedStands
<1>14. QED
  BY <1>8, <1>10, <1>11, <1>12, <1>13 DEF Once

LEMMA IntroSentOK == ASSUME IInv, NEW p \in Workers, IntroSent(p) PROVE StepOK
<1>1. /\ w[p].pc = "i_send" /\ row' = row /\ Accepted(w[p].addr) /\ events' = events
      /\ locks' = locks /\ suppressed' = suppressed /\ Still /\ Sure /\ Goto(p, "i_done")
  BY DEF IntroSent, At, Record, Unlisted, Uncounted, Still, Sure
<1>2. Types /\ w[p].addr \in Addresses
  BY <1>1, Address DEF IInv, Addressed, Stepping, Flight
<1>3. HandlersOK' /\ Others(p) /\ w'[p].pc = "i_done"
  BY <1>1, <1>2, Went DEF Types, Points, Addressed, Stepping, Flight, Answering, Searching
<1>4. SomeFault /\ Faults(Doubtful)' = Faults(Doubtful)
  BY <1>1, <1>2, SureOK DEF Types
<1>5. RestOK'
  BY <1>1, <1>2, <1>4, RestStill, RestMoved DEF Types, RestOK
<1>6. MailOK' /\ mail'.bounced = mail.bounced /\ Mailed' = Mailed \cup {w[p].addr}
  BY <1>1, <1>2, Accepts DEF Types
<1>7. RowOK'
  BY <1>1, <1>2 DEF Types, RowOK
<1>8. Types'
  BY <1>1, <1>2, <1>3, <1>5, <1>6, <1>7, StepTypes DEF Answering, Searching
<1>9. Once => Once'
  BY <1>1, <1>2, <1>3, IntroSentOnce
<1>10. ColdStep /\ OneEach
  BY <1>1, <1>3, <1>4, ColdWrites
<1>11. QED
  BY <1>8, <1>9, <1>10 DEF StepOK

LEMMA IntroAnswerLostOK == ASSUME IInv, NEW p \in Workers, IntroAnswerLost(p) PROVE StepOK
<1>1. /\ w[p].pc = "i_send" /\ row' = row /\ Accepted(w[p].addr) /\ events' = events
      /\ locks' = locks /\ suppressed' = suppressed /\ Still /\ Fault("answer_lost")
      /\ Goto(p, "i_release")
  BY DEF IntroAnswerLost, At, Record, Unlisted, Still
<1>2. Types /\ w[p].addr \in Addresses
  BY <1>1, Address DEF IInv, Addressed, Stepping, Flight
<1>3. HandlersOK' /\ Others(p) /\ w'[p].pc = "i_release"
  BY <1>1, <1>2, Went DEF Types, Points, Addressed, Stepping, Flight, Answering, Searching
<1>4. SomeFault /\ Faults(Doubtful)' = Faults(Doubtful) + 1 /\ Faults(Doubtful)' # 0
  BY <1>1, <1>2, Doubted DEF Types, Doubtful
<1>5. RestOK'
  BY <1>1, <1>2, <1>4, RestStill, RestMoved DEF Types, RestOK
<1>6. MailOK' /\ mail'.bounced = mail.bounced /\ Mailed' = Mailed \cup {w[p].addr}
  BY <1>1, <1>2, Accepts DEF Types
<1>7. RowOK'
  BY <1>1, <1>2 DEF Types, RowOK
<1>8. Types'
  BY <1>1, <1>2, <1>3, <1>5, <1>6, <1>7, StepTypes DEF Answering, Searching
<1>9. ColdStep /\ OneEach
  BY <1>1, <1>3, <1>4, ColdWrites
<1>10. QED
  BY <1>4, <1>8, <1>9 DEF StepOK

\* The step that had claimed is over, its lock is gone.
LEMMA Landed ==
    ASSUME Types, Once, NEW p \in Workers, Others(p), w[p].pc = "i_release",
           w'[p].pc \in {"i_draft", "i_fail"},
           row'.bounced = row.bounced, row'.claim \in {row.claim, w[p].row.claim},
           mail' = mail, events' = events, locks' = locks \ {LockKey(w[p].row)},
           ContactedStands'
    PROVE  Once'
<1>1. p \in Flying
  BY DEF Flying, Flight
<1>2. /\ row.claim = "fresh" /\ Mailed \subseteq row.bounced /\ \A q \in Flying : q = p
      /\ w[p].row.bounced = row.bounced
  BY <1>1 DEF Once, FlightAlone
<1>3. \A q \in Workers \ {p} : w'[q] = w[q]
  BY DEF Others
<1>4. Flying' = {} /\ Mailed' = Mailed
  BY <1>2, <1>3 DEF Flying, Flight, Mailed
<1>5. Free'
  BY <1>2, <1>4 DEF Free
<1>6. w[p].row.claim = "none" => w[p].row.bounced = {}
  BY DEF Once, CopiesOld, Stepping, Flight
<1>7. FreeUnlessClaimed' /\ FlightAlone'
  BY <1>2, <1>4, <1>5, <1>6 DEF FreeUnlessClaimed, FlightAlone
<1>8. ASSUME NEW q \in Workers, w'[q].pc \in Stepping
      PROVE  /\ w'[q].row.bounced \subseteq row'.bounced
             /\ w'[q].row.claim = "none" => w'[q].row.bounced = {}
             /\ w'[q].pc = "i_line" =>
                   \/ LockKey(w'[q].row) \in locks'
                   \/ Free' /\ w'[q].row.bounced = row'.bounced
  <2>1. w'[q] = w[q]
    BY <1>3, <1>8 DEF Stepping, Flight
  <2>2. /\ w[q].row.bounced \subseteq row.bounced
        /\ w[q].row.claim = "none" => w[q].row.bounced = {}
    BY <1>8, <2>1 DEF Once, CopiesOld
  <2>3. ASSUME w[q].pc = "i_line", LockKey(w[q].row) = LockKey(w[p].row)
        PROVE  w[q].row.bounced = row.bounced
    <3>1. w[q].row.bounced \in SUBSET row.bounced /\ row.bounced \in SUBSET Addresses
      BY <2>2 DEF Types, RowOK, RowType
    <3>2. IsFiniteSet(row.bounced)
      BY <3>1, AddressesAssumption, FS_Subset
    <3>3. Cardinality(w[q].row.bounced) = Cardinality(w[p].row.bounced)
      BY <2>3 DEF LockKey
    <3>4. Cardinality(w[p].row.bounced) = Cardinality(row.bounced)
      BY <1>2, Zenon
    <3>5. QED
      BY <3>1, <3>2, <3>3, <3>4, FS_Subset
  <2>4. ASSUME w[q].pc = "i_line", LockKey(w[q].row) # LockKey(w[p].row)
        PROVE  LockKey(w[q].row) \in locks'
    <3>1. ~Free
      BY <1>1 DEF Free
    <3>2. LockKey(w[q].row) \in locks
      BY <2>4, <3>1 DEF Once, CopiesOld, Stepping
    <3>3. QED
      BY <2>4, <3>2
  <2>5. QED
    BY <1>5, <2>1, <2>2, <2>3, <2>4
<1>9. CopiesOld'
  BY <1>8 DEF CopiesOld
<1>10. MailedOnce'
  BY <1>4 DEF MailedOnce, Once
<1>11. BouncesFresh'
  BY <1>3, FreshKept DEF Once, EventOf, Searching
<1>12. QED
  BY <1>7, <1>9, <1>10, <1>11 DEF Once

LEMMA Releases ==
    ASSUME Types, NEW p \in Workers, w[p].pc = "i_release",
           Goto(p, IF w[p].held THEN "i_draft" ELSE "i_fail")
    PROVE  HandlersOK' /\ Others(p) /\ w'[p].pc \in {"i_draft", "i_fail"}
<1> DEFINE pc == IF w[p].held THEN "i_draft" ELSE "i_fail"
<1>1. pc \in {"i_draft", "i_fail"} /\ Goto(p, pc)
  OBVIOUS
<1> HIDE DEF pc
<1>2. QED
  BY <1>1, Went DEF Types, Points, Addressed, Stepping, Flight, Answering, Searching

LEMMA IntroReleaseOK == ASSUME Types, NEW p \in Workers, IntroRelease(p) PROVE StepOK
<1>1. /\ w[p].pc = "i_release" /\ row' = Released(row, w[p].row)
      /\ mail' = mail /\ events' = events /\ locks' = locks \ {LockKey(w[p].row)}
      /\ suppressed' = suppressed /\ Still /\ Sure
      /\ Goto(p, IF w[p].held THEN "i_draft" ELSE "i_fail")
  BY DEF IntroRelease, At, Unlisted, Uncounted, Still, Sure
<1>2. HandlersOK' /\ Others(p) /\ w'[p].pc \in {"i_draft", "i_fail"}
  BY <1>1, Releases
<1>3. SomeFault /\ Faults(Doubtful)' = Faults(Doubtful)
  BY <1>1, SureOK DEF Types
<1>4. RestOK'
  BY <1>1, <1>3, RestStill, RestMoved DEF Types, RestOK
<1>5. w[p].row \in RowType /\ w[p].row.status # "contacted"
  BY <1>1, CopyTyped DEF Types, HandlersOK, HandlerOK, Stepping, Flight
<1>6. /\ row' \in RowType /\ row'.status = w[p].row.status /\ row'.claim = w[p].row.claim
      /\ row'.bounced = row.bounced
  BY <1>1, <1>5 DEF Types, RowOK, RowType, Released
<1>7. RowOK' /\ ContactedStands'
  BY <1>5, <1>6 DEF RowOK, ContactedStands
<1>8. Types'
  BY <1>1, <1>2, <1>4, <1>6, <1>7, MailSame, StepTypes DEF Types, Answering, Searching
<1>9. Once => Once'
  BY <1>1, <1>2, <1>6, <1>7, Landed
<1>10. ColdStep /\ OneEach
  BY <1>1, <1>2, <1>3, SendingBy, ColdIdle
<1>11. QED
  BY <1>8, <1>9, <1>10 DEF StepOK

LEMMA IntroReleaseLostOK == ASSUME Types, NEW p \in Workers, IntroReleaseLost(p) PROVE StepOK
<1>1. /\ w[p].pc = "i_release" /\ row' = row
      /\ mail' = mail /\ events' = events /\ locks' = locks \ {LockKey(w[p].row)}
      /\ suppressed' = suppressed /\ Still /\ Fault("write_lost")
      /\ Goto(p, IF w[p].held THEN "i_draft" ELSE "i_fail")
  BY DEF IntroReleaseLost, At, Record, Unlisted, Still
<1>2. HandlersOK' /\ Others(p) /\ w'[p].pc \in {"i_draft", "i_fail"}
  BY <1>1, Releases
<1>3. SomeFault /\ Faults(Doubtful)' = Faults(Doubtful)
  <2>1. Sure
    BY <1>1 DEF Sure, Fault, Doubtful
  <2>2. QED
    BY <2>1, SureOK DEF Types
<1>4. RestOK'
  BY <1>1, <1>3, RestStill, RestMoved DEF Types, RestOK
<1>5. RowOK'
  BY <1>1 DEF Types, RowOK
<1>6. ContactedStands'
  <2>1. /\ Faults({"kill", "write_lost"}) \in Nat
        /\ Faults({"kill", "write_lost"})' = Faults({"kill", "write_lost"}) + 1
    BY <1>1, FaultCounted DEF Bit, Types
  <2>2. Faults({"kill", "write_lost"})' > 0
    BY <2>1
  <2>3. QED
    BY <2>2 DEF ContactedStands
<1>7. Types'
  BY <1>1, <1>2, <1>4, <1>5, MailSame, StepTypes DEF Types, Answering, Searching
<1>8. Once => Once'
  BY <1>1, <1>2, <1>6, Landed
<1>9. ColdStep /\ OneEach
  BY <1>1, <1>2, <1>3, SendingBy, ColdIdle
<1>10. QED
  BY <1>7, <1>8, <1>9 DEF StepOK

\* The lock runs out only when no handler that could want it is left.
LEMMA LockExpiresOK == ASSUME Types, NEW key \in locks, LockExpires(key) PROVE StepOK
<1>1. /\ UNCHANGED <<row, thread, mail, events, w, faults, suppressed>> /\ Still
      /\ locks' = locks \ {key}
      /\ \A p \in Workers : w[p].pc \in Stepping => LockKey(w[p].row) # key
  BY DEF LockExpires, Record, Unlisted, Uncounted, Still, Stepping, Flight
<1>2. RestOK'
  BY <1>1 DEF Types, RestOK, Still
<1>3. Types'
  BY <1>1, <1>2 DEF Types, RowOK, HandlersOK, EventsHeld, EventOf, MailOK, EventsOK
<1>4. Flying' = Flying /\ Mailed' = Mailed /\ (Free' <=> Free)
      /\ \A q \in Flying : q \in Workers /\ w[q].pc \in Stepping
  BY <1>1 DEF Flying, Mailed, Free, Stepping
<1>5. ASSUME Once PROVE Once'
  <2>1. FreeUnlessClaimed' /\ MailedOnce'
    BY <1>1, <1>4, <1>5 DEF Once, FreeUnlessClaimed, MailedOnce
  <2>2. FlightAlone'
    BY <1>1, <1>4, <1>5 DEF Once, FlightAlone, LockKey
  <2>3. CopiesOld'
    BY <1>1, <1>4, <1>5 DEF Once, CopiesOld, LockKey
  <2>4. BouncesFresh'
    BY <1>1, <1>5 DEF Once, BouncesFresh, EventOf
  <2>5. ContactedStands'
    BY <1>1, <1>4, <1>5 DEF Once, ContactedStands, Faults
  <2>6. QED
    BY <2>1, <2>2, <2>3, <2>4, <2>5 DEF Once
<1>6. Sending' = Sending /\ Faults(Doubtful)' = Faults(Doubtful)
  BY <1>1 DEF Sending, At, Faults
<1>7. QED
  BY <1>1, <1>3, <1>5, <1>6, ColdIdle DEF StepOK

LEMMA KillOK == ASSUME Types, NEW p \in Workers, Kill(p) PROVE StepOK
<1>1. /\ row' = row /\ mail' = mail /\ events' = events /\ locks' = locks
      /\ suppressed' = suppressed /\ Still /\ Fault("kill") /\ Finish(p)
  BY DEF Kill, Record, Vendors, Still
<1>2. HandlersOK' /\ Others(p) /\ w'[p].pc = "idle"
  BY <1>1, Finished DEF Types
<1>3. SomeFault /\ Faults(Doubtful)' = Faults(Doubtful) + 1 /\ Faults(Doubtful)' # 0
  BY <1>1, Doubted DEF Types, Doubtful
<1>4. RestOK'
  BY <1>1, <1>3, RestStill, RestMoved DEF Types, RestOK
<1>5. ASSUME NEW q \in Workers, w'[q].pc \in Answering PROVE q # p /\ w'[q] = w[q]
  BY <1>2, <1>5 DEF Others, Answering, Searching
<1>6. EventsHeld'
  BY <1>1, <1>5 DEF Types, EventsHeld, EventOf
<1>7. RowOK' /\ MailOK' /\ EventsOK'
  BY <1>1 DEF Types, RowOK, MailOK, EventsOK
<1>8. Types'
  BY <1>2, <1>4, <1>6, <1>7 DEF Types
<1>9. w[p].pc = "i_send" => w[p].addr \in Addresses
  BY Address DEF Addressed, Stepping, Flight
<1>10. ColdStep /\ OneEach
  BY <1>1, <1>2, <1>3, <1>9, ColdDrops
<1>11. QED
  BY <1>3, <1>8, <1>10 DEF StepOK

LEMMA IntroStepOK == ASSUME IInv, NEW p \in Workers, IntroStep(p) PROVE StepOK
<1>1. Types
  BY DEF IInv
<1>2. QED
  BY <1>1, IntroReadOK, IntroPassesOK, IntroClaimOK, IntroClaimFailsOK,
     IntroClaimUnlockedOK, IntroGateOK, IntroSentOK, IntroRefusedOK, IntroAnswerLostOK,
     IntroReleaseOK, IntroReleaseLostOK
     DEF IntroStep

----------------------------------------------------------------------------
(* What comes back about a message.                                          *)

LEMMA EventTyped ==
    ASSUME Types, NEW e \in events
    PROVE  /\ e = Event(e.kind, e.address, e.no) /\ e.kind \in {"bounce", "complaint"}
           /\ e.address \in Addresses /\ e.no \in Nat
           /\ e.kind = "bounce" => e.no = 0 /\ e.address \in mail.bounced
  BY DEF Types, EventsOK, EventType, Event

\* A step that leaves the claim, the send and the recorded bounces alone.
LEMMA AnswerOnce ==
    ASSUME Types, Once, NEW p \in Workers, HandlersOK', Others(p), RowCalm, SomeFault,
           w[p].pc \notin Flight \cup {"i_line"}, w'[p].pc \notin Flight \cup {"i_line"},
           mail' = mail, locks' = locks, events' \subseteq events,
           w[p].pc \in Searching => EventOf(p) \notin events'
    PROVE  Once'
<1>1. FlightKept
  BY DEF Others, FlightKept, Flight
<1>2. BouncesFresh'
  BY FreshKept DEF Others, Once, RowCalm, EventOf
<1>3. QED
  BY <1>1, <1>2, OnceKept DEF RowCalm

LEMMA DeliveryEventOK ==
    ASSUME Types, NEW p \in Workers, NEW e \in events, DeliveryEvent(p, e) PROVE StepOK
<1> DEFINE h == [Idle EXCEPT !.pc = "d_list", !.kind = e.kind, !.at = e.no,
                             !.addr = e.address, !.row = row, !.mode = mode]
<1>1. /\ w[p].pc = "idle" /\ w' = [w EXCEPT ![p] = h] /\ row' = row /\ mail' = mail
      /\ events' = events /\ locks' = locks /\ suppressed' = suppressed /\ Still
      /\ UNCHANGED faults /\ \A q \in Workers : EventOf(q) # e
  BY IdleOK DEF DeliveryEvent, TakesEvent, Record, Vendors, Unlisted, Uncounted, Still
<1>2. /\ e = Event(e.kind, e.address, e.no) /\ e.kind \in {"bounce", "complaint"}
      /\ e.address \in Addresses /\ e.no \in Nat
  BY EventTyped
<1>3. row \in RowType /\ mode \in Modes
  BY DEF Types, RowOK, RestOK
<1>4. /\ h \in Handlers /\ h.pc = "d_list" /\ h.kind = e.kind /\ h.addr = e.address
      /\ h.at = e.no
  BY <1>2, <1>3, IdleOK DEF Handlers, Points, Kinds
<1> HIDE DEF h
<1>5. HandlerOK(h)
  BY <1>2, <1>4 DEF HandlerOK, Addressed, Stepping, Flight, Answering, Searching
<1>6. HandlersOK' /\ Others(p) /\ w'[p] = h
  BY <1>1, <1>5, Moved DEF Types
<1>7. Calm
  BY <1>1, RestStill, RowSame, CalmBy DEF Types, Sure
<1>8. EventOf(p)' = e /\ \A q \in Workers \ {p} : EventOf(q)' = EventOf(q) /\ w'[q] = w[q]
  BY <1>2, <1>4, <1>6 DEF EventOf, Others
<1>9. EventsHeld'
  <2>1. ASSUME NEW q \in Workers, w'[q].pc \in Answering PROVE EventOf(q)' \in events'
    BY <1>1, <1>8, <2>1 DEF Types, EventsHeld
  <2>2. ASSUME NEW q \in Workers, NEW r \in Workers, q # r,
               w'[q].pc \in Answering, w'[r].pc \in Answering
        PROVE  EventOf(q)' # EventOf(r)'
    <3>1. CASE q = p
      BY <1>1, <1>8, <2>2, <3>1
    <3>2. CASE r = p
      BY <1>1, <1>8, <2>2, <3>2
    <3>3. CASE q # p /\ r # p
      BY <1>8, <2>2, <3>3 DEF Types, EventsHeld
    <3>4. QED
      BY <3>1, <3>2, <3>3
  <2>3. QED
    BY <2>1, <2>2 DEF EventsHeld
<1>10. Types'
  BY <1>1, <1>6, <1>7, <1>9 DEF Types, Calm, MailOK, EventsOK
<1>11. Once => Once'
  BY <1>1, <1>4, <1>6, <1>7, AnswerOnce DEF Calm, RowCalm, Flight, Searching
<1>12. ColdStep /\ OneEach
  BY <1>1, <1>4, <1>6, <1>7, SendingBy, ColdIdle DEF Calm
<1>13. QED
  BY <1>10, <1>11, <1>12 DEF StepOK

LEMMA UnmatchedOK == ASSUME Types, NEW e, Unmatched(e) PROVE StepOK
<1>1. /\ UNCHANGED <<row, mail, locks, w, faults, suppressed>> /\ Still
      /\ events' = events \ {e} /\ \A q \in Workers : EventOf(q) # e
  BY DEF Unmatched, Record, Unlisted, Uncounted, Still
<1>2. Calm
  BY <1>1, RestStill, RowSame, CalmBy DEF Types, Sure
<1>3. Types'
  BY <1>1, <1>2 DEF Types, Calm, HandlersOK, EventsHeld, EventOf, MailOK, EventsOK
<1>4. ASSUME Once PROVE Once'
  <2>1. FlightKept
    BY <1>1 DEF FlightKept
  <2>2. BouncesFresh'
    BY <1>1, <1>4, FreshKept DEF Once, EventOf
  <2>3. QED
    BY <1>1, <1>2, <1>3, <1>4, <2>1, <2>2, OnceKept DEF Calm, Types
<1>5. Sending' = Sending
  BY <1>1 DEF Sending, At
<1>6. QED
  BY <1>1, <1>2, <1>3, <1>4, <1>5, ColdIdle DEF StepOK, Calm

\* Somebody is put on the list.
LEMMA ColdLists ==
    ASSUME NEW a \in Addresses, suppressed' = suppressed \cup {a}, mail' = mail,
           Sending' = Sending, Faults(Doubtful)' = Faults(Doubtful)
    PROVE  ColdStep /\ OneEach
<1>1. Cold!List(a)
  BY DEF Cold!List, Sending
<1>2. Cold!WithinBudget(1)
  BY DEF Cold!WithinBudget, Sending
<1>3. QED
  BY <1>1, <1>2 DEF ColdStep, Cold!Next, OneEach

LEMMA DeliveryListsOK == ASSUME Types, NEW p \in Workers, DeliveryLists(p) PROVE StepOK
<1> DEFINE h == [w[p] EXCEPT !.mode = mode, !.pc = "d_row"]
<1>1. /\ w[p].pc = "d_list" /\ w' = [w EXCEPT ![p] = h] /\ row' = row /\ mail' = mail
      /\ events' = events /\ locks' = locks /\ Still /\ UNCHANGED faults
      /\ suppressed' = suppressed \cup {w[p].addr}
  BY DEF DeliveryLists, At, Record, Vendors, Uncounted, Still
<1>2. w[p].addr \in Addresses /\ w[p] \in Handlers /\ mode \in Modes
  BY <1>1, Address DEF Addressed, Answering, Searching, Types, RestOK
<1>3. w[p].kind \in {"bounce", "complaint"}
  BY <1>1 DEF Types, HandlersOK, HandlerOK, Answering, Searching
<1>4. /\ h \in Handlers /\ h.pc = "d_row" /\ h.addr = w[p].addr /\ h.kind = w[p].kind
      /\ h.at = w[p].at
  BY <1>2 DEF Handlers, Points
<1> HIDE DEF h
<1>5. HandlerOK(h)
  BY <1>2, <1>3, <1>4 DEF HandlerOK, Addressed, Stepping, Flight, Answering, Searching
<1>6. HandlersOK' /\ Others(p) /\ w'[p] = h
  BY <1>1, <1>5, Moved DEF Types
<1>7. SomeFault /\ Faults(Doubtful)' = Faults(Doubtful)
  BY <1>1, SureOK DEF Types, Sure
<1>8. RestOK'
  BY <1>1, <1>2, <1>7, RestStill, RestMoved DEF Types, RestOK
<1>9. RowCalm
  BY <1>1, RowSame DEF Types
<1>10. \A q \in Workers : EventOf(q)' = EventOf(q) /\ (w'[q].pc \in Answering => w[q].pc \in Answering)
  BY <1>1, <1>4, <1>6 DEF EventOf, Others, Answering, Searching
<1>11. EventsHeld'
  BY <1>1, <1>10 DEF Types, EventsHeld
<1>12. Types'
  BY <1>1, <1>6, <1>8, <1>9, <1>11 DEF Types, RowCalm, MailOK, EventsOK
<1>13. Once => Once'
  BY <1>1, <1>4, <1>6, <1>7, <1>9, AnswerOnce DEF Flight, Searching
<1>14. Sending' = Sending
  BY <1>1, <1>4, <1>6, SendingBy
<1>15. PICK a \in Addresses : a = w[p].addr
  BY <1>2
<1>16. ColdStep /\ OneEach
  BY <1>1, <1>7, <1>14, <1>15, ColdLists
<1>17. QED
  BY <1>12, <1>13, <1>16 DEF StepOK

\* An answered event is gone; nobody else had it.
LEMMA AcknowledgedTypes ==
    ASSUME Types, NEW p \in Workers, w[p].pc \in Answering, Acknowledge(p)
    PROVE  /\ HandlersOK' /\ Others(p) /\ w'[p].pc = "idle" /\ EventsHeld'
           /\ events' \subseteq events /\ EventOf(p) \notin events'
<1>1. HandlersOK' /\ Others(p) /\ w'[p].pc = "idle" /\ events' = events \ {EventOf(p)}
  BY Finished DEF Acknowledge, Types
<1>2. ASSUME NEW q \in Workers, w'[q].pc \in Answering
      PROVE  q # p /\ w'[q] = w[q] /\ EventOf(q)' = EventOf(q)
  BY <1>1, <1>2 DEF Others, Answering, Searching, EventOf
<1>3. EventsHeld'
  BY <1>1, <1>2 DEF Types, EventsHeld
<1>4. QED
  BY <1>1, <1>3

LEMMA AcknowledgedOK ==
    ASSUME Types, NEW p \in Workers, w[p].pc \in Answering, Acknowledge(p), RowCalm,
           RestMoves, Sure, mail' = mail, locks' = locks, suppressed' = suppressed
    PROVE  StepOK
<1>1. /\ HandlersOK' /\ Others(p) /\ w'[p].pc = "idle" /\ EventsHeld'
      /\ events' \subseteq events /\ EventOf(p) \notin events'
  BY AcknowledgedTypes
<1>2. Calm
  BY CalmBy
<1>3. Types'
  BY <1>1, <1>2 DEF Types, Calm, MailOK, EventsOK
<1>4. Once => Once'
  BY <1>1, <1>2, AnswerOnce DEF Calm, Flight, Answering, Searching
<1>5. ColdStep /\ OneEach
  BY <1>1, <1>2, SendingBy, ColdIdle DEF Calm, Answering, Searching
<1>6. QED
  BY <1>3, <1>4, <1>5 DEF StepOK

LEMMA BounceSearchOK ==
    ASSUME Types, NEW p \in Workers, BounceSearch(p) \/ BounceSearchNotStarted(p) PROVE StepOK
<1>1. /\ w[p].pc \in Answering /\ Acknowledge(p)
      /\ mail' = mail /\ locks' = locks /\ suppressed' = suppressed
  BY DEF BounceSearch, BounceSearchNotStarted, At, Answering, Searching, Unlisted
<1>2. Sure
  BY DEF BounceSearch, BounceSearchNotStarted, Uncounted, Sure, Doubtful, Fault
<1>3. UNCHANGED <<mode, nudgeJobs, clock, starts>> /\ jobs' \in {jobs, jobs + 1} /\ Adds
  BY DEF BounceSearch, BounceSearchNotStarted, Unlisted, Uncounted, Record, Append1, Adds, Note
<1>4. RestMoves
  BY <1>3, StillRest DEF Types, RestOK
<1>5. RowCalm
  <2>1. row' = row \/ row' = [row EXCEPT !.contact = "intro_failed"]
    BY DEF BounceSearch, BounceSearchNotStarted, Record
  <2>2. QED
    BY <2>1, RowSame, RowContact DEF Types, ContactStatuses
<1>6. QED
  BY <1>1, <1>2, <1>4, <1>5, AcknowledgedOK

\* The event stays with the handler, which still has to say what failed.
LEMMA BounceSearchFailedOK ==
    ASSUME Types, NEW p \in Workers, BounceSearchFailed(p) PROVE StepOK
<1>1. /\ w[p].pc = "d_search" /\ row' = row /\ mail' = mail /\ locks' = locks
      /\ events' = events /\ suppressed' = suppressed /\ Still /\ Goto(p, "d_failed")
  BY DEF BounceSearchFailed, At, Record, Vendors, Unlisted, Still
<1>2. w[p].kind = "bounce"
  BY <1>1 DEF Types, HandlersOK, HandlerOK, Searching
<1>3. /\ HandlersOK' /\ Others(p) /\ w'[p].pc = "d_failed"
      /\ w'[p].addr = w[p].addr /\ w'[p].kind = w[p].kind /\ w'[p].at = w[p].at
  BY <1>1, <1>2, Went DEF Types, Points, Addressed, Stepping, Flight, Answering, Searching
<1>4. Sure
  BY DEF BounceSearchFailed, Fault, Sure, Doubtful
<1>5. Calm
  BY <1>1, <1>4, RestStill, RowSame, CalmBy DEF Types
<1>6. \A q \in Workers : /\ EventOf(q)' = EventOf(q)
                         /\ w'[q].pc \in Answering <=> w[q].pc \in Answering
                         /\ w'[q].pc \in Searching <=> w[q].pc \in Searching
  BY <1>1, <1>3 DEF EventOf, Others, Answering, Searching
<1>7. EventsHeld'
  BY <1>1, <1>6 DEF Types, EventsHeld
<1>8. Types'
  BY <1>1, <1>3, <1>5, <1>7 DEF Types, Calm, MailOK, EventsOK
<1>9. ASSUME Once PROVE Once'
  <2>1. FlightKept
    BY <1>1, <1>3 DEF Others, FlightKept, Flight
  <2>2. BouncesFresh'
    BY <1>1, <1>6, <1>9, FreshKept DEF Once
  <2>3. QED
    BY <1>1, <1>3, <1>5, <1>9, <2>1, <2>2, OnceKept DEF Calm
<1>10. ColdStep /\ OneEach
  BY <1>1, <1>3, <1>5, SendingBy, ColdIdle DEF Calm
<1>11. QED
  BY <1>8, <1>9, <1>10 DEF StepOK

\* A project that could not be read: the event is answered all the same.
LEMMA UnreadOK == ASSUME Types, NEW p \in Workers, Unread(p) PROVE StepOK
<1>1. w[p].pc \in Answering
  BY DEF Unread, Types, HandlersOK, HandlerOK, Handlers, Points, Answering
<1>2. /\ Acknowledge(p) /\ row' = row /\ Sure
      /\ mail' = mail /\ locks' = locks /\ suppressed' = suppressed
      /\ UNCHANGED <<thread, mode, jobs, nudgeJobs, clock, starts>>
  BY DEF Unread, Record, Unlisted, Fault, Sure, Doubtful
<1>3. RestMoves
  BY <1>2, StillRest DEF Types, RestOK, Adds
<1>4. QED
  BY <1>1, <1>2, <1>3, RowSame, AcknowledgedOK DEF Types

LEMMA ComplaintRowOK == ASSUME Types, NEW p \in Workers, ComplaintRow(p) PROVE StepOK
<1>1. /\ w[p].pc \in Answering /\ Acknowledge(p) /\ Sure
      /\ mail' = mail /\ locks' = locks /\ suppressed' = suppressed
  BY DEF ComplaintRow, At, Answering, Searching, Unlisted, Uncounted, Sure
<1>2. UNCHANGED <<mode, jobs, nudgeJobs, clock, starts>> /\ Adds
  BY DEF ComplaintRow, Unlisted, Uncounted, Record, Append1, Adds, Note
<1>3. RestMoves
  BY <1>2, StillRest DEF Types, RestOK
<1>4. row' = row \/ row' = PlanComplaint(row)
  BY DEF ComplaintRow, Record
<1>5. NoNudge \in NudgeType
  BY MaxNudgesAssumption DEF NoNudge, NudgeType
<1>6. ASSUME row' = PlanComplaint(row) PROVE RowCalm
  BY <1>5, <1>6 DEF PlanComplaint, RowCalm, RowOK, Types, RowType, Statuses, Withdrawn,
     ContactStatuses
<1>7. QED
  BY <1>1, <1>3, <1>4, <1>6, RowSame, AcknowledgedOK DEF Types

\* What a bounce of the row's address makes of the row.
LEMMA Bounced ==
    ASSUME RowOK, HardBounceActs(row, row.address), row.address \in Addresses,
           NEW walkthrough \in BOOLEAN, row' = PlanHardBounce(row, walkthrough)
    PROVE  /\ RowOK' /\ row'.bounced = row.bounced \cup {row.address}
           /\ row'.claim = (IF row.claim = "none" THEN "none" ELSE "stale")
           /\ row'.status # "contacted"
<1>1. NoNudge \in NudgeType
  BY MaxNudgesAssumption DEF NoNudge, NudgeType
<1>2. BounceOutcome(row, walkthrough) \in ContactStatuses
  BY DEF BounceOutcome, ContactStatuses
<1>3. BounceAction(row) = "record_only" => row.status \in AfterReplyStage
  BY DEF BounceAction
<1>4. DEFINE outcome == BounceOutcome(row, walkthrough)
             claim == IF row.claim = "none" THEN "none" ELSE "stale"
             status == IF BounceAction(row) = "record_only" THEN row.status ELSE "bookmarked"
             bounced == row.bounced \cup {row.address}
<1>5. /\ status \in Statuses /\ status # "contacted" /\ claim \in Claims
      /\ bounced \in SUBSET Addresses /\ outcome \in ContactStatuses
  BY <1>2, <1>3 DEF RowOK, RowType, AfterReplyStage, Statuses, IntroStage, Claims
<1>6. row' = [row EXCEPT !.bounced = bounced, !.claim = claim, !.address = NoAddress,
                         !.nudge = NoNudge, !.contact = outcome, !.status = status]
  BY DEF PlanHardBounce
<1> HIDE DEF outcome, claim, status, bounced
<1>7. /\ row' \in RowType /\ row'.bounced = bounced /\ row'.claim = claim /\ row'.status = status
  BY <1>1, <1>5, <1>6 DEF RowOK, RowType
<1>8. QED
  BY <1>5, <1>7 DEF RowOK, bounced, claim

LEMMA BounceOnce ==
    ASSUME Types, Once, NEW p \in Workers, Others(p), w[p].pc = "d_row", w[p].kind = "bounce",
           w[p].addr = row.address, row'.bounced = row.bounced \cup {row.address},
           row'.claim = (IF row.claim = "none" THEN "none" ELSE "stale"),
           row'.status # "contacted", mail' = mail, locks' = locks, events' \subseteq events,
           w'[p].pc \in {"idle", "d_search"},
           \/ w'[p].pc = "d_search" /\ EventOf(p)' = EventOf(p)
           \/ EventOf(p) \notin events'
    PROVE  Once'
<1> DEFINE a == row.address
<1>1. EventOf(p) \in events
  BY DEF Types, EventsHeld, Answering, Searching
<1>2. EventOf(p).kind = "bounce" /\ EventOf(p).address = a
  BY DEF EventOf, Event
<1>3. a \in mail.bounced /\ a \in Mailed
  BY <1>1, <1>2 DEF Types, EventsOK, Mailed
<1>4. a \notin row.bounced
  <2>1. SUFFICES ASSUME a \in row.bounced PROVE FALSE
    OBVIOUS
  <2>2. PICK q \in Workers : w[q].pc \in Searching /\ EventOf(q) = EventOf(p)
    BY <1>1, <1>2, <2>1 DEF Once, BouncesFresh
  <2>3. QED
    BY <2>2 DEF Types, EventsHeld, Answering, Searching
<1>5. Mailed \subseteq row.bounced \cup {a} /\ ~(Mailed \subseteq row.bounced)
  BY <1>3, <1>4 DEF Once, MailedOnce
<1>6. Flying = {} /\ ~Free
  BY <1>5 DEF Free, Once, FlightAlone
<1>7. row.claim = "fresh"
  BY <1>6 DEF Once, FreeUnlessClaimed
<1>8. \A q \in Workers \ {p} : w'[q] = w[q]
  BY DEF Others
<1>9. Flying' = {} /\ Mailed' = Mailed
  BY <1>6, <1>8 DEF Flying, Flight, Mailed
<1>10. FreeUnlessClaimed' /\ FlightAlone' /\ ContactedStands'
  BY <1>5, <1>7, <1>9 DEF FreeUnlessClaimed, FlightAlone, ContactedStands, Free
<1>11. ASSUME NEW q \in Workers, w'[q].pc \in Stepping
       PROVE  /\ w'[q].row.bounced \subseteq row'.bounced
              /\ w'[q].row.claim = "none" => w'[q].row.bounced = {}
              /\ w'[q].pc = "i_line" => LockKey(w'[q].row) \in locks'
  <2>1. w'[q] = w[q]
    BY <1>8, <1>11 DEF Stepping, Flight
  <2>2. QED
    BY <1>6, <1>11, <2>1 DEF Once, CopiesOld
<1>12. CopiesOld'
  BY <1>11 DEF CopiesOld
<1>13. MailedOnce'
  BY <1>5, <1>9 DEF MailedOnce, Once
<1>14. ASSUME NEW e \in events', e.kind = "bounce", e.address \in row'.bounced
       PROVE  \E q \in Workers : w'[q].pc \in Searching /\ EventOf(q)' = e
  <2>1. CASE e.address \in row.bounced
    <3>1. PICK q \in Workers : w[q].pc \in Searching /\ EventOf(q) = e
      BY <1>14, <2>1 DEF Once, BouncesFresh
    <3>2. w'[q].pc \in Searching /\ EventOf(q)' = EventOf(q)
      BY <1>8, <3>1 DEF EventOf, Searching
    <3>3. QED
      BY <3>1, <3>2
  <2>2. CASE e.address = a
    <3>1. e = Event(e.kind, e.address, e.no) /\ e.no = 0
      BY <1>14, EventTyped
    <3>2. EventOf(p) = Event("bounce", a, 0)
      <4>1. EventOf(p).no = 0
        BY <1>1, <1>2 DEF Types, EventsOK
      <4>2. QED
        BY <4>1 DEF EventOf, Event
    <3>3. EventOf(p) = e
      BY <1>14, <2>2, <3>1, <3>2
    <3>4. QED
      BY <1>14, <3>3 DEF Searching
  <2>3. QED
    BY <1>14, <2>1, <2>2
<1>15. BouncesFresh'
  BY <1>14 DEF BouncesFresh
<1>16. QED
  BY <1>10, <1>12, <1>13, <1>15 DEF Once

LEMMA BounceRowOK == ASSUME Types, NEW p \in Workers, BounceRow(p) PROVE StepOK
<1> DEFINE walkthrough == w[p].mode = "walkthrough"
<1>1. /\ w[p].pc = "d_row" /\ w[p].kind = "bounce" /\ Sure
      /\ mail' = mail /\ locks' = locks /\ suppressed' = suppressed
      /\ UNCHANGED <<mode, jobs, nudgeJobs, clock, starts>> /\ Adds
  BY DEF BounceRow, At, Unlisted, Uncounted, Sure, Record, Append1, Adds, Note
<1>2. RestMoves
  BY <1>1, StillRest DEF Types, RestOK
<1>3. CASE ~HardBounceActs(row, w[p].addr)
  <2>1. Acknowledge(p) /\ row' = row
    BY <1>3 DEF BounceRow, Record
  <2>2. QED
    BY <1>1, <1>2, <2>1, RowSame, AcknowledgedOK DEF Types, Answering, Searching
<1>4. CASE HardBounceActs(row, w[p].addr)
  <2>1. /\ row' = PlanHardBounce(row, walkthrough)
        /\ (Goto(p, "d_search") /\ events' = events) \/ Acknowledge(p)
    BY <1>4 DEF BounceRow
  <2>2. w[p].addr = row.address /\ row.address \in Addresses /\ HardBounceActs(row, row.address)
    BY <1>1, <1>4, Address DEF HardBounceActs, Addressed, Answering, Searching
  <2>3. walkthrough \in BOOLEAN
    OBVIOUS
  <2> HIDE DEF walkthrough
  <2>4. /\ RowOK' /\ row'.bounced = row.bounced \cup {row.address}
        /\ row'.claim = (IF row.claim = "none" THEN "none" ELSE "stale")
        /\ row'.status # "contacted"
    BY <2>1, <2>2, <2>3, Bounced DEF Types
  <2>5. /\ HandlersOK' /\ Others(p) /\ EventsHeld' /\ events' \subseteq events
        /\ w'[p].pc \in {"idle", "d_search"}
        /\ \/ w'[p].pc = "d_search" /\ EventOf(p)' = EventOf(p)
           \/ EventOf(p) \notin events'
    <3>1. CASE Goto(p, "d_search") /\ events' = events
      <4>1. /\ HandlersOK' /\ Others(p) /\ w'[p].pc = "d_search"
            /\ w'[p].addr = w[p].addr /\ w'[p].kind = w[p].kind /\ w'[p].at = w[p].at
        BY <1>1, <3>1, Went DEF Types, Points, Addressed, Stepping, Flight, Answering, Searching
      <4>2. \A q \in Workers :
               EventOf(q)' = EventOf(q) /\ (w'[q].pc \in Answering => w[q].pc \in Answering)
        BY <1>1, <4>1 DEF EventOf, Others, Answering, Searching
      <4>3. EventsHeld'
        BY <3>1, <4>2 DEF Types, EventsHeld
      <4>4. QED
        BY <3>1, <4>1, <4>2, <4>3
    <3>2. CASE Acknowledge(p)
      BY <1>1, <3>2, AcknowledgedTypes DEF Answering, Searching
    <3>3. QED
      BY <2>1, <3>1, <3>2
  <2>6. row.address \in mail.bounced
    <3>1. EventOf(p) \in events /\ EventOf(p).kind = "bounce" /\ EventOf(p).address = row.address
      BY <1>1, <2>2 DEF Types, EventsHeld, Answering, Searching, EventOf, Event
    <3>2. QED
      BY <3>1, EventTyped
  <2>7. SomeFault /\ Faults(Doubtful)' = Faults(Doubtful)
    BY <1>1, SureOK DEF Types
  <2>8. RestOK'
    BY <1>1, <1>2, <2>7, RestMoved DEF Types, RestOK
  <2>9. Types'
    BY <1>1, <2>4, <2>5, <2>6, <2>8 DEF Types, MailOK, EventsOK
  <2>10. Once => Once'
    BY <1>1, <2>2, <2>4, <2>5, BounceOnce
  <2>11. ColdStep /\ OneEach
    BY <1>1, <2>5, <2>7, SendingBy, ColdIdle
  <2>12. QED
    BY <2>9, <2>10, <2>11 DEF StepOK
<1>5. QED
  BY <1>3, <1>4

LEMMA DeliveryStepOK == ASSUME Types, NEW p \in Workers, DeliveryStep(p) PROVE StepOK
  BY DeliveryEventOK, UnmatchedOK, DeliveryListsOK, BounceRowOK, BounceSearchOK,
     BounceSearchFailedOK, UnreadOK, ComplaintRowOK DEF DeliveryStep

----------------------------------------------------------------------------
(* The people and the world around.                                          *)

\* No handler moves, and no event goes.
LEMMA WorldOK ==
    ASSUME Types, w' = w, UNCHANGED <<row, locks, faults>>, RestMoves, MailOK', EventsOK',
           mail'.intro = mail.intro, events \subseteq events', suppressed' \subseteq Addresses,
           \A e \in events' \ events : e.kind = "bounce" => e.address \notin row.bounced
    PROVE  /\ Types' /\ (Once => Once')
           /\ Sending' = Sending /\ Faults(Doubtful)' = Faults(Doubtful)
<1>1. SomeFault /\ Faults(Doubtful)' = Faults(Doubtful)
  BY SureOK DEF Types, Sure
<1>2. RestOK' /\ RowOK' /\ HandlersOK'
  BY <1>1, RestMoved DEF Types, RestOK, RowOK, HandlersOK
<1>3. EventsHeld'
  BY DEF Types, EventsHeld, EventOf
<1>4. Types'
  BY <1>2, <1>3 DEF Types
<1>5. ASSUME Once PROVE Once'
  <2>1. FlightKept
    BY DEF FlightKept
  <2>2. BouncesFresh'
    BY <1>5 DEF Once, BouncesFresh, EventOf
  <2>3. QED
    BY <1>1, <1>2, <1>5, <2>1, <2>2, OnceKept
<1>6. Sending' = Sending
  BY DEF Sending, At
<1>7. QED
  BY <1>1, <1>4, <1>5, <1>6

LEMMA SetModeOK == ASSUME Types, NEW m \in Modes, SetMode(m) PROVE StepOK
<1>1. /\ UNCHANGED <<row, thread, w, locks, mail, events, jobs, nudgeJobs, suppressed, clock, faults>>
      /\ mode' = m /\ starts < MaxStarts /\ starts' = starts + 1
  BY DEF SetMode, Record, Vendors
<1>2. RestMoves
  BY <1>1 DEF RestMoves, Adds, Types, RestOK
<1>3. MailOK' /\ EventsOK' /\ suppressed' \subseteq Addresses
  BY <1>1 DEF Types, MailOK, EventsOK, RestOK
<1>4. /\ Types' /\ (Once => Once')
      /\ Sending' = Sending /\ Faults(Doubtful)' = Faults(Doubtful)
  BY <1>1, <1>2, <1>3, WorldOK
<1>5. QED
  BY <1>1, <1>4, ColdIdle DEF StepOK

LEMMA BouncesOK == ASSUME Types, NEW a \in Addresses, Bounces(a) PROVE StepOK
<1> DEFINE bounced == mail.bounced \cup {a}
<1>1. /\ UNCHANGED <<row, w, locks, suppressed, faults>> /\ Still
      /\ mail' = [mail EXCEPT !.bounced = bounced]
      /\ events' = events \cup {Event("bounce", a, 0)}
      /\ a \notin mail.bounced /\ mail.intro[a] > 0
  BY DEF Bounces, Record, Unlisted, Uncounted, Still
<1>2. RestMoves
  BY <1>1, RestStill
<1>3. MailOK' /\ mail'.intro = mail.intro /\ mail'.bounced = bounced
  <2> DEFINE counts == [Addresses -> Nat]
             days == [1 .. MaxClock -> Nat]
             sets == SUBSET Addresses
  <2>1. bounced \in sets /\ mail \in MailType(counts, days, sets)
    BY DEF Types, MailOK, MailType
  <2> HIDE DEF counts, days, sets, bounced
  <2>2. /\ mail' \in MailType(counts, days, sets)
        /\ mail'.intro = mail.intro /\ mail'.bounced = bounced
    BY <1>1, <2>1 DEF MailType
  <2>3. QED
    BY <2>2 DEF MailOK, counts, days, sets
<1>4. /\ Event("bounce", a, 0) \in EventType /\ Event("bounce", a, 0).address = a
      /\ Event("bounce", a, 0).kind = "bounce" /\ Event("bounce", a, 0).no = 0
  BY DEF Event, EventType
<1>5. EventsOK'
  BY <1>1, <1>3, <1>4 DEF Types, EventsOK
<1>6. a \notin row.bounced /\ suppressed' \subseteq Addresses
  BY <1>1 DEF Types, EventsOK, RestOK
<1>7. \A e \in events' \ events : e.address = a
  BY <1>1, <1>4
<1>8. /\ Types' /\ (Once => Once')
      /\ Sending' = Sending /\ Faults(Doubtful)' = Faults(Doubtful)
  BY <1>1, <1>2, <1>3, <1>5, <1>6, <1>7, WorldOK
<1>9. QED
  BY <1>1, <1>3, <1>8, ColdIdle DEF StepOK

LEMMA ComplainsOK == ASSUME Types, NEW a \in Addresses, Complains(a) PROVE StepOK
<1> DEFINE e == Event("complaint", a, starts')
<1>1. /\ UNCHANGED <<row, thread, w, locks, mail, jobs, nudgeJobs, clock, faults, mode, suppressed>>
      /\ starts < MaxStarts /\ starts' = starts + 1 /\ events' = events \cup {e}
  BY DEF Complains, Record
<1>2. RestMoves
  BY <1>1 DEF RestMoves, Adds, Types, RestOK
<1>3. e \in EventType /\ e.kind = "complaint"
  <2>1. starts' \in Nat
    BY <1>1, BoundsAssumption DEF Types, RestOK
  <2>2. QED
    BY <2>1 DEF Event, EventType
<1> HIDE DEF e
<1>4. MailOK' /\ EventsOK' /\ suppressed' \subseteq Addresses
  BY <1>1, <1>3 DEF Types, MailOK, EventsOK, RestOK
<1>5. \A f \in events' \ events : f.kind # "bounce"
  BY <1>1, <1>3
<1>6. /\ Types' /\ (Once => Once')
      /\ Sending' = Sending /\ Faults(Doubtful)' = Faults(Doubtful)
  BY <1>1, <1>2, <1>4, <1>5, WorldOK
<1>7. QED
  BY <1>1, <1>6, ColdIdle DEF StepOK

LEMMA UnsubscribeOK == ASSUME Types, NEW a \in Addresses, Unsubscribe(a) PROVE StepOK
<1>1. /\ UNCHANGED <<row, thread, w, locks, mail, events, jobs, nudgeJobs, clock, faults, mode>>
      /\ starts < MaxStarts /\ starts' = starts + 1 /\ suppressed' = suppressed \cup {a}
  BY DEF Unsubscribe, Record, Vendors
<1>2. RestMoves
  BY <1>1 DEF RestMoves, Adds, Types, RestOK
<1>3. MailOK' /\ EventsOK' /\ suppressed' \subseteq Addresses
  BY <1>1 DEF Types, MailOK, EventsOK, RestOK
<1>4. /\ Types' /\ (Once => Once')
      /\ Sending' = Sending /\ Faults(Doubtful)' = Faults(Doubtful)
  BY <1>1, <1>2, <1>3, WorldOK
<1>5. QED
  BY <1>1, <1>4, ColdLists DEF StepOK

----------------------------------------------------------------------------
(* The invariant holds throughout.                                           *)

LEMMA NextStep == ASSUME IInv, Next PROVE StepOK
<1>1. Types
  BY DEF IInv
<1>2. ASSUME NEW p \in Workers, RouteRequest(p) \/ HandlerStep(p) \/ Kill(p) PROVE StepOK
  BY <1>1, <1>2, RouteRequestOK, RouteStepOK, IntroStepOK, DeliveryStepOK, KillOK DEF HandlerStep
<1>3. ASSUME NEW key \in locks, LockExpires(key) PROVE StepOK
  BY <1>1, <1>3, LockExpiresOK
<1>4. ASSUME NEW m \in Modes, SetMode(m) PROVE StepOK
  BY <1>1, <1>4, SetModeOK
<1>5. ASSUME NEW a \in Addresses, Bounces(a) \/ Complains(a) \/ Unsubscribe(a) PROVE StepOK
  BY <1>1, <1>5, BouncesOK, ComplainsOK, UnsubscribeOK
<1>6. QED
  BY <1>2, <1>3, <1>4, <1>5 DEF Next

LEMMA InitOK == ASSUME OutreachInit PROVE IInv
<1>1. PICK first \in FirstRecords : row = first.row /\ thread = first.thread
  BY DEF OutreachInit
<1>2. /\ row \in RowType /\ thread \in Seq(MessageType)
      /\ row.claim = "none" /\ row.bounced = {} /\ row.status # "contacted"
  BY <1>1, FirstRecordsAssumption, FirstIntroAssumption
<1>3. /\ w = [p \in Workers |-> Idle] /\ events = {} /\ faults = <<>> /\ locks = {}
      /\ mode \in Modes /\ suppressed = {} /\ jobs = 0 /\ nudgeJobs = {}
      /\ clock = 1 /\ starts = 0
  BY FirstModesAssumption DEF OutreachInit
<1>4. HandlersOK /\ EventsHeld /\ \A p \in Workers : w[p].pc = "idle"
  BY <1>3, IdleOK DEF HandlersOK, EventsHeld, Answering, Searching
<1>5. /\ mail.intro = [a \in Addresses |-> 0] /\ mail.bounced = {}
      /\ mail \in MailType([Addresses -> Nat], [1 .. MaxClock -> Nat], SUBSET Addresses)
  <2> DEFINE intro == [a \in Addresses |-> IF row.claim = "fresh" /\ row.address = a THEN 1 ELSE 0]
             later == [a \in Addresses |-> 0]
             nudge == [d \in 1 .. MaxClock |-> 0]
             none  == {}
             counts == [Addresses -> Nat]
             days == [1 .. MaxClock -> Nat]
             sets == SUBSET Addresses
  <2>1. mail = [intro |-> intro, later |-> later, followup |-> 0, terms |-> 0,
                nudge |-> nudge, bounced |-> none]
    BY DEF OutreachInit
  <2>2. intro = later
    BY <1>2
  <2>3. intro \in counts /\ later \in counts /\ nudge \in days /\ none \in sets
    OBVIOUS
  <2> HIDE DEF intro, nudge, none, counts, days, sets
  <2>4. mail.intro = later /\ mail.bounced = none /\ mail \in MailType(counts, days, sets)
    BY <2>1, <2>2, <2>3 DEF MailType
  <2>5. QED
    BY <2>4 DEF counts, days, sets, none
<1>6. RestOK
  BY <1>2, <1>3, BoundsAssumption, FS_EmptySet DEF RestOK
<1>7. Types
  BY <1>2, <1>3, <1>4, <1>5, <1>6 DEF Types, RowOK, MailOK, EventsOK
<1>8. Flying = {} /\ Mailed = {}
  BY <1>4, <1>5 DEF Flying, Flight, Mailed
<1>9. Once
  <2>1. FreeUnlessClaimed /\ FlightAlone /\ ContactedStands
    BY <1>2, <1>8 DEF FreeUnlessClaimed, FlightAlone, ContactedStands, Free
  <2>2. CopiesOld /\ BouncesFresh
    BY <1>3, <1>4 DEF CopiesOld, BouncesFresh, Stepping, Flight
  <2>3. MailedOnce
    BY <1>5, <1>8 DEF MailedOnce
  <2>4. QED
    BY <2>1, <2>2, <2>3 DEF Once
<1>10. QED
  BY <1>7, <1>9 DEF IInv

LEMMA NextOK == ASSUME IInv, [Next]_outreachVars PROVE IInv' /\ ColdStep /\ OneEach
<1>1. CASE UNCHANGED outreachVars
  <2>1. /\ UNCHANGED <<row, thread, mode, suppressed, mail, locks, jobs, nudgeJobs>>
        /\ UNCHANGED <<events, w, clock, starts, faults>>
    BY <1>1 DEF outreachVars
  <2>2. RestMoves /\ MailOK' /\ EventsOK' /\ suppressed' \subseteq Addresses
    BY <2>1 DEF RestMoves, Adds, IInv, Types, RestOK, MailOK, EventsOK
  <2>3. /\ Types' /\ (Once => Once')
        /\ Sending' = Sending /\ Faults(Doubtful)' = Faults(Doubtful)
    BY <2>1, <2>2, WorldOK DEF IInv
  <2>4. ColdStep /\ OneEach
    BY <2>1, <2>3, ColdIdle
  <2>5. QED
    BY <2>3, <2>4 DEF IInv
<1>2. CASE Next
  <2>1. StepOK
    BY <1>2, NextStep
  <2>2. Faults(Doubtful)' \in {Faults(Doubtful), Faults(Doubtful) + 1}
    BY <2>1 DEF StepOK, ColdStep, Cold!Next, Cold!vars, Cold!Doubt, Cold!Clear, Cold!Write,
       Cold!Drop, Cold!List
  <2>3. Faults(Doubtful) \in Nat
    BY DoubtsTyped DEF IInv, Types
  <2>4. Faults(Doubtful)' = 0 => Faults(Doubtful) = 0
    BY <2>2, <2>3
  <2>5. QED
    BY <2>1, <2>4 DEF StepOK, IInv
<1>3. QED
  BY <1>1, <1>2

LEMMA Invariance == Spec => []IInv
<1>1. OutreachInit => IInv
  BY InitOK
<1>2. IInv /\ [Next]_outreachVars => IInv'
  BY NextOK
<1>3. QED
  BY <1>1, <1>2, PTL DEF Spec

----------------------------------------------------------------------------
(* The theorems.                                                             *)

\* What the handlers of the intro share keeps its types, the lock's key among
\* them: however many handlers read and write the row, and whatever is lost.
THEOREM TypesHold == Spec => []TypeOK
<1>1. ASSUME IInv PROVE TypeOK
  <2>1. row \in RowType /\ \A i \in DOMAIN thread : thread[i] \in MessageType
    BY <1>1 DEF IInv, Types, RowOK, RestOK
  <2>2. mail \in [intro : [Addresses -> Nat], later : [Addresses -> Nat],
                  followup : Nat, terms : Nat, nudge : [1 .. MaxClock -> Nat],
                  bounced : SUBSET Addresses]
    BY <1>1, Zenon DEF IInv, Types, MailOK, MailType
  <2>3. /\ mode \in Modes /\ suppressed \subseteq Addresses /\ nudgeJobs = {}
        /\ \A key \in locks : key \in 0 .. Cardinality(Addresses)
        /\ clock \in 1 .. MaxClock + 1 /\ starts \in 0 .. MaxStarts /\ Len(faults) <= MaxFaults
    BY <1>1 DEF IInv, Types, RestOK
  <2>4. \A p \in Workers : w[p].row \in RowType /\ w[p].job \in NudgeType
    BY <1>1 DEF IInv, Types, HandlersOK, Handlers
  <2>5. QED
    BY <2>1, <2>2, <2>3, <2>4 DEF TypeOK
<1>2. QED
  BY <1>1, Invariance, PTL

\* An address that was written to is never seen as one still to write to, for
\* any number of handlers: not after a bookmark, a redraft, a release, a
\* bounce or a search that began before one (runSequenceStep's send-once rule
\* on the row), as long as no fault has left a doubt about a send.
THEOREM NeverForgotten == Spec => []SentStaysClaimed
<1>1. ASSUME IInv PROVE SentStaysClaimed
  <2> SUFFICES ASSUME NEW a \in Addresses, row.address = a, mail.intro[a] > 0,
                      ~(Faults(Doubtful) > 0)
               PROVE  IntroAlreadySent(row)
    BY DEF SentStaysClaimed
  <2>1. Faults(Doubtful) \in Nat
    BY <1>1, DoubtsTyped DEF IInv, Types
  <2>2. Once
    BY <1>1, <2>1 DEF IInv
  <2>3. a \in Mailed
    BY DEF Mailed
  <2>4. CASE row.claim = "fresh"
    BY <2>4 DEF IntroAlreadySent, ClaimPredatesBounce
  <2>5. CASE row.claim # "fresh"
    <3>1. a \in row.bounced
      BY <2>2, <2>3, <2>5 DEF Once, FreeUnlessClaimed, Free
    <3>2. row.claim # "none"
      BY <2>2, <3>1 DEF Once, FreeUnlessClaimed
    <3>3. QED
      BY <3>1, <3>2 DEF IntroAlreadySent, ClaimPredatesBounce
  <2>6. QED
    BY <2>4, <2>5
<1>2. QED
  BY <1>1, Invariance, PTL

LEMMA FaultsApart ==
    ASSUME RestOK, Faults({"kill", "write_lost"}) = 0, Faults({"redis_out", "answer_lost"}) = 0
    PROVE  Faults(Doubtful) = 0
<1> DEFINE S(kinds) == {i \in DOMAIN faults : faults[i] \in kinds}
<1>1. \A kinds : IsFiniteSet(S(kinds)) /\ Faults(kinds) = Cardinality(S(kinds))
  BY FaultsFinite DEF RestOK, Faults
<1>2. S({"kill", "write_lost"}) = {} /\ S({"redis_out", "answer_lost"}) = {}
  BY <1>1, FS_EmptySet
<1>3. S(Doubtful) = {}
  BY <1>2 DEF Doubtful
<1>4. QED
  BY <1>1, <1>3, FS_EmptySet

\* A row that says 'contacted' with no step in flight was sent to an address
\* that is not known to have bounced. The excuses the property has are a kill,
\* a release that could not be written, and a claim that was written and then
\* answered with an error; a lock that could not be taken or an answer that was
\* lost may, with enough handlers, be another.
THEOREM ContactedWasSent ==
    Spec => [](ContactedMeansSent \/ Faults({"redis_out", "answer_lost"}) > 0)
<1>1. ASSUME IInv PROVE ContactedMeansSent \/ Faults({"redis_out", "answer_lost"}) > 0
  <2> SUFFICES ASSUME row.status = "contacted", ~StepInFlight,
                      ~(Faults({"kill", "write_lost"}) > 0),
                      ~(Faults({"redis_out", "answer_lost"}) > 0)
               PROVE  \E a \in Addresses \ row.bounced : mail.intro[a] > 0
    BY DEF ContactedMeansSent
  <2>1. RestOK
    BY <1>1 DEF IInv, Types
  <2>2. Faults({"kill", "write_lost"}) \in Nat /\ Faults({"redis_out", "answer_lost"}) \in Nat
    BY <2>1, FaultsFinite DEF RestOK, Faults
  <2>3. Faults(Doubtful) = 0
    BY <2>1, <2>2, FaultsApart
  <2>4. Flying = {}
    BY DEF Flying, Flight, StepInFlight
  <2>5. Mailed \ row.bounced # {}
    BY <1>1, <2>2, <2>3, <2>4 DEF IInv, Once, ContactedStands
  <2>6. QED
    BY <2>5 DEF Mailed
<1>2. QED
  BY <1>1, Invariance, PTL

\* The step, the routes and the delivery handlers implement ColdMail: nobody
\* is written to whose message was not cleared by a chokepoint that did not
\* find the address on the do-not-contact list, whatever fails.
THEOREM ListKept == Spec => Cold!Spec
<1>1. OutreachInit => Cold!Init
  <2> SUFFICES ASSUME OutreachInit PROVE Cold!Init
    OBVIOUS
  <2>1. IInv /\ \A p \in Workers : w[p].pc = "idle"
    BY InitOK, IdleOK DEF OutreachInit
  <2>2. /\ mail.intro = [a \in Addresses |-> 0] /\ suppressed = {} /\ Sending = {}
    <3>1. row.claim = "none"
      BY FirstIntroAssumption DEF OutreachInit
    <3>2. QED
      BY <2>1, <3>1 DEF OutreachInit, Sending, At
  <2>3. Faults(Doubtful) = 0
    BY FS_EmptySet DEF OutreachInit, Faults
  <2>4. QED
    BY <2>2, <2>3 DEF Cold!Init, Sending
<1>2. IInv /\ [Next]_outreachVars => [Cold!Next]_(Cold!vars)
  BY NextOK DEF ColdStep
<1>3. QED
  BY <1>1, <1>2, Invariance, PTL DEF Spec, Cold!Spec

\* Two bookmarks, a double-clicked approve, discovery jobs and replacement
\* searches end in one intro per address, until a fault leaves a doubt.
THEOREM OneIntroEach ==
    Spec => [][Cold!WithinBudget(1) \/ Faults(Doubtful) > 0]_outreachVars
<1>1. IInv /\ [Next]_outreachVars => Cold!WithinBudget(1) \/ Faults(Doubtful) > 0
  BY NextOK DEF OneEach
<1>2. QED
  BY <1>1, Invariance, PTL DEF Spec

\* Where no such fault can happen, the abstract specification and its budget
\* of one are implemented in full.
THEOREM ColdMailKept == ASSUME Doubtful \cap Ops = {} PROVE Spec => ColdMailHolds
<1>1. ASSUME IInv PROVE ~(Faults(Doubtful) > 0)
  <2>1. faults \in Seq(Ops)
    BY <1>1 DEF IInv, Types, RestOK
  <2>2. {i \in DOMAIN faults : faults[i] \in Doubtful} = {}
    BY <2>1
  <2>3. QED
    BY <2>2, FS_EmptySet DEF Faults
<1>2. IInv /\ [Cold!WithinBudget(1) \/ Faults(Doubtful) > 0]_outreachVars
        => [Cold!WithinBudget(1)]_outreachVars
  BY <1>1
<1>3. QED
  BY <1>2, Invariance, ListKept, OneIntroEach, PTL DEF ColdMailHolds

=============================================================================
