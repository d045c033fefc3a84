-------------------------- MODULE RowAndEventProofs --------------------------
(* Proofs about the two mechanisms everything else stands on: one expert's    *)
(* row, for every set of calls, every mutation, every retry limit and any     *)
(* number of removals; and the deliveries of one Stripe event, for any number *)
(* of workers that overlap, of redeliveries and of faults.                    *)
EXTENDS ExpertRow, StripeEvents, TLAPS

----------------------------------------------------------------------------
(* One expert's row.                                                         *)

USE DEF Finish, Unmatched

\* The initial state satisfies the inductive invariant: no call has read the
\* row or lost a race yet.
LEMMA InitIInv == Init => IInv
  BY FreshAssumption, RetriesAssumption, RemovalsAssumption
  DEF Init, IInv, TypeOK, LossesAreCommits, ReadIsCurrent

\* Every step of mutateExpert, and of adding or removing the expert, keeps the
\* inductive invariant.
LEMMA NextIInv == IInv /\ [Next]_vars => IInv'
<1> SUFFICES ASSUME IInv, [Next]_vars PROVE IInv'
  OBVIOUS
<1> USE FreshAssumption, RetriesAssumption, RemovalsAssumption DEF IInv
<1>1. CASE Remove
  <2>1. TypeOK'
    <3>1. exists' \in BOOLEAN
      BY <1>1 DEF Remove
    <3>2. removals' \in 0 .. MaxRemovals
      BY <1>1 DEF Remove, TypeOK
    <3>3. QED
      BY <1>1, <3>1, <3>2 DEF Remove, TypeOK
  <2>2. LossesAreCommits'
    BY <1>1 DEF Remove, TypeOK, LossesAreCommits
  <2>3. ReadIsCurrent'
    BY <1>1 DEF Remove, TypeOK, LossesAreCommits, ReadIsCurrent
  <2>4. QED
    BY <2>1, <2>2, <2>3
<1>2. CASE Add
  BY <1>2 DEF Add, TypeOK, LossesAreCommits, ReadIsCurrent
<1>3. ASSUME NEW w \in Writers, Read(w) PROVE IInv'
  BY <1>3 DEF Read, TypeOK, LossesAreCommits, ReadIsCurrent
<1>4. ASSUME NEW w \in Writers, ReadMissing(w) PROVE IInv'
  BY <1>4 DEF ReadMissing, TypeOK, LossesAreCommits, ReadIsCurrent
<1>5. ASSUME NEW w \in Writers, Update(w) PROVE IInv'
  <2>1. Mutate[w][seenDoc[w]] \in Docs
    BY MutateAssumption DEF TypeOK
  <2>2. TypeOK'
    BY <1>5, <2>1 DEF Update, TypeOK
  <2>3. LossesAreCommits'
    BY <1>5 DEF Update, TypeOK, LossesAreCommits
  <2>4. ReadIsCurrent'
    BY <1>5 DEF Update, TypeOK, LossesAreCommits, ReadIsCurrent
  <2>5. QED
    BY <2>2, <2>3, <2>4
<1>6. ASSUME NEW w \in Writers, Lose(w) PROVE IInv'
  <2>1. TypeOK'
    BY <1>6 DEF Lose, TypeOK, LossesAreCommits
  <2>2. LossesAreCommits'
    BY <1>6 DEF Lose, TypeOK, LossesAreCommits
  <2>3. ReadIsCurrent'
    BY <1>6 DEF Lose, TypeOK, ReadIsCurrent
  <2>4. QED
    BY <2>1, <2>2, <2>3
<1>7. ASSUME NEW w \in Writers, UpdateError(w) PROVE IInv'
  BY <1>7 DEF UpdateError, TypeOK, LossesAreCommits, ReadIsCurrent
<1>8. CASE UNCHANGED vars
  BY <1>8 DEF vars, TypeOK, LossesAreCommits, ReadIsCurrent
<1>9. QED
  BY <1>1, <1>2, <1>3, <1>4, <1>5, <1>6, <1>7, <1>8 DEF Next

\* The inductive invariant holds in every reachable state, and with it the
\* declared types.
LEMMA Invariant == Spec => []IInv
  BY InitIInv, NextIInv, PTL DEF Spec

\* The variables of ExpertRow keep their types, and no call loses more races
\* than it has retries.
THEOREM TypesHold == Spec => []TypeOK
<1>1. IInv => TypeOK
  BY DEF IInv
<1>2. QED
  BY <1>1, Invariant, PTL

\* A call reports `expert_update_conflict` only after at least Retries other
\* changes of the row since its own first read, whatever the calls do and
\* however they interleave.
THEOREM ConflictNeedsContention == Spec => []RefusedByContention
<1>1. IInv => RefusedByContention
  BY RetriesAssumption
  DEF IInv, TypeOK, LossesAreCommits, RefusedByContention
<1>2. QED
  BY <1>1, Invariant, PTL

\* Calls of mutateExpert implement the atomic row: every step of the loop is
\* one step of AtomicRow or leaves its state alone, so no write is lost.
THEOREM NoLostWrite == Spec => SerialWrites
<1>1. Init => Atomic!Init
  BY DEF Init, Atomic!Init
<1>2. IInv /\ [Next]_vars => [Atomic!Next]_(Atomic!vars)
  <2> SUFFICES ASSUME IInv, [Next]_vars PROVE [Atomic!Next]_(Atomic!vars)
    OBVIOUS
  <2> USE DEF Atomic!Next, Atomic!vars
  <2>1. CASE Remove
    BY <2>1 DEF Remove
  <2>2. CASE Add
    BY <2>2 DEF Add, Atomic!Replace
  <2>3. ASSUME NEW w \in Writers, Read(w) PROVE UNCHANGED Atomic!vars
    BY <2>3 DEF Read
  <2>4. ASSUME NEW w \in Writers, ReadMissing(w) PROVE Atomic!Refuse(w)
    BY <2>4 DEF ReadMissing, Atomic!Refuse, IInv, LossesAreCommits
  <2>5. ASSUME NEW w \in Writers, Update(w) PROVE Atomic!Apply(w)
    <3>1. seenDoc[w] = doc /\ outcome[w] = "pending"
      BY <2>5 DEF Update, IInv, LossesAreCommits, ReadIsCurrent
    <3>2. QED
      BY <2>5, <3>1 DEF Update, Atomic!Apply
  <2>6. ASSUME NEW w \in Writers, Lose(w)
        PROVE Atomic!Refuse(w) \/ UNCHANGED Atomic!vars
    BY <2>6 DEF Lose, Atomic!Refuse, IInv, LossesAreCommits
  <2>7. ASSUME NEW w \in Writers, UpdateError(w) PROVE Atomic!Refuse(w)
    BY <2>7 DEF UpdateError, Atomic!Refuse, IInv, LossesAreCommits
  <2>8. CASE UNCHANGED vars
    BY <2>8 DEF vars
  <2>9. QED
    BY <2>1, <2>2, <2>3, <2>4, <2>5, <2>6, <2>7, <2>8 DEF Next
<1>3. QED
  BY <1>1, <1>2, Invariant, PTL DEF Spec, SerialWrites, Atomic!Spec

----------------------------------------------------------------------------
(* The deliveries of one Stripe event.                                       *)

\* Before the first delivery the inductive invariant holds.
LEMMA EventsBegin == EventInit => EventIInv
<1> SUFFICES ASSUME EventInit PROVE EventIInv
  OBVIOUS
<1> USE WorkersAssumption, FaultsAssumption DEF EventInit
<1>1. EventTypeOK
  <2>1. done \in BOOLEAN /\ gone \in BOOLEAN /\ misread \in BOOLEAN /\ acked \in BOOLEAN
    OBVIOUS
  <2>2. QED
    BY <2>1 DEF EventTypeOK, Steps
<1>2. \A w \in Workers : pc[w] = "idle" /\ lease # w
  OBVIOUS
<1>3. QED
  BY <1>1, <1>2 DEF EventIInv, NothingLost, Claimed

\* Every step of a worker, of Stripe and of the clock keeps it.
LEMMA EventsStep == EventIInv /\ [EventNext]_eventVars => EventIInv'
<1> SUFFICES ASSUME EventIInv, [EventNext]_eventVars PROVE EventIInv'
  OBVIOUS
<1> USE WorkersAssumption, FaultsAssumption
    DEF EventIInv, EventTypeOK, Steps, NothingLost, Claimed, At, Fault, Left, Free
<1>1. CASE Expire
  BY <1>1 DEF Expire
<1>2. ASSUME NEW w \in Workers, Deliver(w) PROVE EventIInv'
  BY <1>2 DEF Deliver
<1>3. ASSUME NEW w \in Workers, AnswerDuplicate(w) PROVE EventIInv'
  BY <1>3 DEF AnswerDuplicate
<1>4. ASSUME NEW w \in Workers, Lookup(w) PROVE EventIInv'
  BY <1>4 DEF Lookup
<1>5. ASSUME NEW w \in Workers, Lock(w) PROVE EventIInv'
  BY <1>5 DEF Lock
<1>6. ASSUME NEW w \in Workers, AnswerBusy(w) PROVE EventIInv'
  BY <1>6 DEF AnswerBusy
<1>7. ASSUME NEW w \in Workers, RecheckDone(w) PROVE EventIInv'
  BY <1>7 DEF RecheckDone
<1>8. ASSUME NEW w \in Workers, Recheck(w) PROVE EventIInv'
  BY <1>8 DEF Recheck
<1>9. ASSUME NEW w \in Workers, ClaimFailsOpen(w) PROVE EventIInv'
  BY <1>9 DEF ClaimFailsOpen
<1>10. ASSUME NEW w \in Workers, Work(w) PROVE EventIInv'
  <2>1. EventTypeOK' /\ runs' > 0
    BY <1>10 DEF Work
  <2>2. faults = 0 => runs' = 1 /\ ~done /\ lease = w /\ pc'[w] = "mark"
    BY <1>10 DEF Work
  <2>3. \A v \in Workers : pc'[v] # pc[v] => v = w
    BY <1>10 DEF Work
  <2>4. QED
    BY <1>10, <2>1, <2>2, <2>3 DEF Work
<1>11. ASSUME NEW w \in Workers, FindUnprocessable(w) PROVE EventIInv'
  BY <1>11 DEF FindUnprocessable
<1>12. ASSUME NEW w \in Workers, WorkFails(w) PROVE EventIInv'
  BY <1>12 DEF WorkFails
<1>13. ASSUME NEW w \in Workers, Mark(w) PROVE EventIInv'
  <2>1. done' \in BOOLEAN
    BY <1>13 DEF Mark
  <2>2. EventTypeOK' /\ (runs' > 0 \/ gone' \/ misread')
    BY <1>13, <2>1 DEF Mark
  <2>3. \A v \in Workers : v # w => pc'[v] = pc[v]
    BY <1>13 DEF Mark
  <2>4. faults' = 0 => done' /\ faults = 0 /\ lease' = w /\ pc'[w] = "answer"
    BY <1>13 DEF Mark
  <2>5. QED
    BY <1>13, <2>1, <2>2, <2>3, <2>4 DEF Mark
<1>14. ASSUME NEW w \in Workers, Release(w) PROVE EventIInv'
  BY <1>14 DEF Release
<1>15. ASSUME NEW w \in Workers, Drop(w) PROVE EventIInv'
  BY <1>15 DEF Drop
<1>16. ASSUME NEW w \in Workers, Kill(w) PROVE EventIInv'
  BY <1>16 DEF Kill
<1>17. CASE UNCHANGED eventVars
  BY <1>17 DEF eventVars
<1>18. CASE Vanish
  BY <1>18 DEF Vanish
<1>19. ASSUME NEW w \in Workers, Misread(w) PROVE EventIInv'
  BY <1>19 DEF Misread
<1>20. QED
  BY <1>1, <1>2, <1>3, <1>4, <1>5, <1>6, <1>7, <1>8, <1>9, <1>10, <1>11,
     <1>12, <1>13, <1>14, <1>15, <1>16, <1>17, <1>18, <1>19
  DEF EventNext, Handle

\* The inductive invariant holds in every reachable state.
LEMMA EventsInvariant == EventSpec => []EventIInv
  BY EventsBegin, EventsStep, PTL DEF EventSpec

\* The variables of StripeEvents keep their types; a lease is nobody's or a
\* worker's.
THEOREM EventTypesHold == EventSpec => []EventTypeOK
<1>1. EventIInv => EventTypeOK
  BY DEF EventIInv
<1>2. QED
  BY <1>1, EventsInvariant, PTL

\* No event is silenced before its work is carried out, unless its engagement is
\* gone or a read of it failed, however many workers race on it and however
\* often Redis, the rest of the work or a worker fails.
THEOREM NothingIsLost == EventSpec => []NothingLost
<1>1. EventIInv => NothingLost
  BY DEF EventIInv
<1>2. QED
  BY <1>1, EventsInvariant, PTL

\* Until the first fault the work is done at most once and by one worker at a
\* time, however many deliveries of the event overlap.
THEOREM WorkDoneOnce == EventSpec => []OnceWhenHealthy
<1>1. EventIInv => OnceWhenHealthy
  BY DEF EventIInv, OnceWhenHealthy, Working, Claimed
<1>2. QED
  BY <1>1, EventsInvariant, PTL

\* A lease is taken away only by its owner, by a dead owner's expiry or by a
\* fault.
THEOREM LeaseTakenByOwner == EventSpec => LeaseIsOwners
<1>1. EventIInv /\ [EventNext]_eventVars
        => [\A w \in Workers :
               lease = w /\ lease' # w
                  => \/ pc[w] \in {"release", "answer", "drop", "gone"}
                     \/ faults' > faults]_eventVars
  <2> SUFFICES ASSUME EventIInv, [EventNext]_eventVars, NEW w \in Workers,
                      lease = w, lease' # w
               PROVE  \/ pc[w] \in {"release", "answer", "drop", "gone"}
                      \/ faults' > faults
    OBVIOUS
  <2> USE WorkersAssumption, FaultsAssumption
      DEF EventIInv, EventTypeOK, At, Fault, Left, Free
  <2>1. CASE Expire
    BY <2>1 DEF Expire
  <2>2. ASSUME NEW v \in Workers, Deliver(v) \/ Handle(v)
        PROVE  pc[w] \in {"release", "answer", "drop", "gone"}
    BY <2>2 DEF Deliver, Handle, AnswerDuplicate, Lookup, Lock, AnswerBusy, RecheckDone,
                Recheck, Work, FindUnprocessable, Mark, Release, Drop
  <2>3. ASSUME NEW v \in Workers, ClaimFailsOpen(v) \/ Misread(v) \/ WorkFails(v) \/ Kill(v)
        PROVE  faults' > faults
    BY <2>3 DEF ClaimFailsOpen, Misread, WorkFails, Kill
  <2>4. CASE Vanish
    BY <2>4 DEF Vanish
  <2>5. CASE UNCHANGED eventVars
    BY <2>5 DEF eventVars
  <2>6. QED
    BY <2>1, <2>2, <2>3, <2>4, <2>5 DEF EventNext
<1>2. QED
  BY <1>1, EventsInvariant, PTL DEF EventSpec, LeaseIsOwners
=============================================================================
