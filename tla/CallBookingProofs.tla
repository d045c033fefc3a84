------------------------- MODULE CallBookingProofs --------------------------
(***************************************************************************)
(* Proofs about CallBooking, for any number of handlers, times, requests   *)
(* and faults.  The five properties of the module rest on one inductive    *)
(* invariant; its parts are of three kinds: what a handler's copy of the   *)
(* row is worth, what has been minted and cancelled so far, and how many   *)
(* rooms at Zoom the overlaps and faults so far can account for.           *)
(***************************************************************************)
EXTENDS CallBooking, FiniteSetTheorems, TLAPS

-----------------------------------------------------------------------------
(* Handlers by what they may still do.                                     *)

Busy == {p \in Procs : ~At(p, "idle")}

\* May still mint an icsUid.
Minting == {p \in Procs : proc[p].pc \in {"stamp", "readBook", "createMeeting", "book"}}

\* Has decided to create a meeting, and not created it; has created one, and
\* not booked it.
Creating == {p \in Procs : At(p, "createMeeting")}
Carrying == {p \in Procs : At(p, "book") /\ proc[p].made # 0}

\* Has cancelled booking u, and not settled the cancellation.
Settling(u) ==
    {p \in Procs : /\ proc[p].pc \in {"deleteMeeting", "withdraw", "settle"}
                   /\ proc[p].bk.uid = u}

\* Meetings that were created.
Used == {m \in Meeting : zoom[m].st # "none"}

-----------------------------------------------------------------------------
(* The parts of the invariant.                                             *)

\* What the place of a handler says about its copy of the booking.
FramesOK ==
    \A p \in Procs :
        /\ At(p, "stamp") => proc[p].next \in {"readMove", "readBook", "readPropose", "check"}
        /\ proc[p].pc \in {"patchMeeting", "move", "confirm", "deleteMeeting", "withdraw", "settle"}
              => Booked(proc[p].bk)
        /\ proc[p].pc \in {"patchMeeting", "deleteMeeting"} => proc[p].bk.meeting # 0
        /\ proc[p].pc \in {"stamp", "readBook", "createMeeting"} => proc[p].made = 0

\* A request mints at most one icsUid.
MintedOK == IsFiniteSet(Minting) /\ minted + Cardinality(Minting) <= requests

\* Every icsUid anywhere was minted, and once a call is booked one always is.
UidsOK ==
    /\ row.booking.uid <= minted
    /\ \A p \in Procs : proc[p].bk.uid <= minted
    /\ \A u \in Uid : u > minted => invite[u].kind = "none"
    /\ ~Booked(row.booking) => /\ row.booking = NoBooking
                               /\ \A p \in Procs : proc[p].bk = NoBooking

\* Every cancellation, settled or not, but the one that stands has been undone
\* by a stale write.
CancelsOK ==
    \A u \in Uid :
        /\ IsFiniteSet(Settling(u))
        /\ cancels[u] + Cardinality(Settling(u))
              <= revived + (IF row.booking.cancelled THEN 1 ELSE 0)

\* Each handler but the first has been counted when it came.
BusyOK ==
    /\ IsFiniteSet(Busy) /\ Cardinality(Busy) <= 1 + overlaps
    /\ overlaps <= requests

\* Without overlap a handler's copy is the row's booking, and the calendars
\* hold nothing newer than that.
InvitesOK ==
    overlaps = 0 =>
        /\ Booked(row.booking) =>
              LET i == invite[row.booking.uid]
              IN i.kind = "none" \/ i.seq <= row.booking.seq
        /\ \A p \in Procs :
              proc[p].pc \in {"patchMeeting", "move", "confirm", "deleteMeeting", "withdraw"}
                 => proc[p].bk = row.booking
        /\ \A p \in Procs :
              proc[p].pc \in {"confirm", "deleteMeeting", "withdraw"} =>
                 LET i == invite[proc[p].bk.uid]
                 IN i.kind = "none" \/ i.seq < proc[p].bk.seq

\* No calendar shows a call but the row's.
OthersQuiet == \A u \in Uid : u # row.booking.uid => invite[u].kind # "request"

\* Zoom and the row agree on the meeting, which is at time s.
MeetingAt(s) ==
    LET m == row.booking.meeting
    IN m # 0 => row.meeting = m /\ zoom[m].st \in {"live", "held"} /\ zoom[m].slot = s

\* The calendars show the call as the row has it.
InviteSent ==
    LET b == row.booking
    IN invite[b.uid] = [kind |-> "request", slot |-> b.slot, seq |-> b.seq]

\* Without overlap or fault a move brings Zoom first, then the row, then the
\* calendars to the new time.
CalmOK ==
    overlaps = 0 /\ faults = 0 =>
        /\ ~Booked(row.booking) => OthersQuiet
        /\ CallOn => /\ OthersQuiet
                     /\ InviteSent \/ \E p \in Procs : At(p, "confirm")
                     /\ \/ MeetingAt(row.booking.slot)
                        \/ \E p \in Procs : At(p, "move") /\ MeetingAt(proc[p].slot)
        /\ \A p \in Procs :
              /\ proc[p].pc \in {"createMeeting", "book"} => ~Booked(row.booking)
              /\ At(p, "book") /\ proc[p].made # 0 =>
                    zoom[proc[p].made] = [st |-> "live", slot |-> proc[p].slot]
              /\ At(p, "move") /\ CallOn => MeetingAt(proc[p].slot)
              /\ proc[p].pc \in {"deleteMeeting", "withdraw", "settle"} => row.booking.cancelled

\* Only meetings that were created are on record.
RoomsUsed ==
    /\ row.booking.meeting # 0 => row.booking.meeting \in Used
    /\ \A p \in Procs : /\ proc[p].bk.meeting # 0 => proc[p].bk.meeting \in Used
                        /\ proc[p].made # 0 => proc[p].made \in Used

\* A booking without a meeting, on the row, in a handler or about to be made.
Roomless ==
    \/ Booked(row.booking) /\ row.booking.meeting = 0
    \/ \E p \in Procs : \/ Booked(proc[p].bk) /\ proc[p].bk.meeting = 0
                        \/ At(p, "book") /\ proc[p].made = 0

\* A cancelled booking, on the row or in a handler, whose meeting was not and
\* will not be deleted.
Condemned(m) ==
    \/ row.booking.cancelled /\ row.booking.meeting = m
    \/ \E p \in Procs : proc[p].bk.cancelled /\ proc[p].bk.meeting = m
Undeleted ==
    \E m \in Meeting :
        /\ Live(m) /\ Condemned(m)
        /\ ~\E p \in Procs : At(p, "deleteMeeting") /\ proc[p].bk.meeting = m

\* One meeting needs no excuse, each other one an overlap or a fault; one more
\* is excused for each booking that never had its meeting, or kept it.
RoomsOK ==
    /\ ~Booked(row.booking) => Cardinality(Used) <= faults + Cardinality(Carrying)
    /\ Booked(row.booking) =>
          /\ Cardinality(Used) + Cardinality(Creating) <= 1 + overlaps + faults
          /\ Roomless \/ Undeleted =>
                Cardinality(Used) + Cardinality(Creating) <= overlaps + faults

IInv == /\ TypeOK /\ FramesOK /\ MintedOK /\ UidsOK /\ CancelsOK
        /\ BusyOK /\ InvitesOK /\ CalmOK /\ RoomsUsed /\ RoomsOK

-----------------------------------------------------------------------------
(* Lemmas about sets and frames.                                           *)

\* Two finite sets that differ in one element at most, counted.
LEMMA Counted ==
  ASSUME NEW S, NEW T, NEW p, IsFiniteSet(S), T \ {p} = S \ {p}
  PROVE  /\ IsFiniteSet(T) /\ Cardinality(S) \in Nat /\ Cardinality(T) \in Nat
         /\ p \in S /\ p \notin T => Cardinality(T) = Cardinality(S) - 1
         /\ p \notin S /\ p \in T => Cardinality(T) = Cardinality(S) + 1
         /\ (p \in S <=> p \in T) => T = S
<1> DEFINE U == S \ {p}
<1>1. /\ IsFiniteSet(U) /\ Cardinality(S) \in Nat /\ Cardinality(U) \in Nat
      /\ Cardinality(U) = IF p \in S THEN Cardinality(S) - 1 ELSE Cardinality(S)
  BY FS_RemoveElement, FS_CardinalityType
<1>2. /\ IsFiniteSet(U \cup {p})
      /\ Cardinality(U \cup {p}) = Cardinality(U) + 1
  BY <1>1, FS_AddElement
<1>3. (p \in S <=> p \in T) => T = S
  OBVIOUS
<1>4. CASE p \in T
  <2>1. T = U \cup {p}
    BY <1>4
  <2> HIDE DEF U
  <2> QED BY <1>1, <1>2, <1>3, <1>4, <2>1
<1>5. CASE p \notin T
  <2>1. T = U
    BY <1>5
  <2> HIDE DEF U
  <2> QED BY <1>1, <1>3, <1>5, <2>1
<1> QED BY <1>4, <1>5

\* A finite set with an element is not empty, and with two has two.
LEMMA CountedElements ==
  ASSUME NEW S, IsFiniteSet(S)
  PROVE  /\ Cardinality(S) \in Nat
         /\ \A p \in S : Cardinality(S) >= 1
         /\ \A p, q \in S : p # q => Cardinality(S) >= 2
<1>1. Cardinality(S) \in Nat
  BY FS_CardinalityType
<1>2. ASSUME NEW p \in S PROVE Cardinality(S) >= 1
  BY <1>1, FS_EmptySet
<1>3. ASSUME NEW p \in S, NEW q \in S, p # q PROVE Cardinality(S) >= 2
  <2>1. Cardinality(S) # 1
    BY <1>3, FS_Singleton
  <2> QED BY <1>1, <1>2, <2>1
<1> QED BY <1>1, <1>2, <1>3

\* The empty frame and the empty booking have the types of their kind.
LEMMA IdleType == Idle \in Frame /\ NoBooking \in Booking
  BY SlotsAssumption DEF Idle, NoBooking, Frame, Booking, Step

\* Who may mint has a number left.
LEMMA MayMint ==
  ASSUME TypeOK, MintedOK, NEW p \in Minting
  PROVE  minted < requests /\ requests <= MaxRequests /\ minted + 1 \in Uid
<1>1. Cardinality(Minting) \in Nat /\ Cardinality(Minting) >= 1
  BY CountedElements DEF MintedOK
<1> QED BY <1>1, BoundsAssumption DEF MintedOK, TypeOK, Uid

\* The frame a request starts its handler in.
Fresh(f) ==
    /\ f \in Frame /\ f.made = 0 /\ f.bk = NoBooking
    /\ f.pc \in {"stamp", "readMove", "readBook", "readPropose", "check", "propose"}
    /\ f.pc = "stamp" => f.next \in {"readMove", "readBook", "readPropose", "check"}

\* A request is its arrival and a fresh frame, whatever it asks for.
LEMMA RequestBegins ==
  ASSUME TypeOK, NEW p \in Procs, Request(p)
  PROVE  \E f : Fresh(f) /\ Begin(p, f)
<1> USE IdleType DEF Fresh, TypeOK, Frame, Step, Idle
<1>1. CASE Pick(p)
  <2>1. PICK s \in Slots : OpenPicker(p, [Idle EXCEPT !.slot = s,
                          !.next = IF Booked(row.booking) THEN "readMove" ELSE "readBook"])
    BY <1>1 DEF Pick
  <2> DEFINE g == [Idle EXCEPT !.slot = s,
                          !.next = IF Booked(row.booking) THEN "readMove" ELSE "readBook"]
             f == [g EXCEPT !.pc = "stamp", !.link = row.link]
  <2>2. Fresh(f)
    OBVIOUS
  <2>3. Begin(p, f)
    BY <2>1 DEF OpenPicker
  <2> HIDE DEF f
  <2> QED BY <2>2, <2>3
<1>2. CASE DeclineTimes(p)
  <2> DEFINE g == [Idle EXCEPT !.next = "readPropose", !.initial = TRUE]
             f == [g EXCEPT !.pc = "stamp", !.link = row.link]
  <2>2. Fresh(f)
    OBVIOUS
  <2>3. Begin(p, f)
    BY <1>2 DEF DeclineTimes, OpenPicker
  <2> HIDE DEF f
  <2> QED BY <2>2, <2>3
<1>3. CASE ExpertCancels(p)
  <2> DEFINE g == [Idle EXCEPT !.next = "check"]
             f == [g EXCEPT !.pc = "stamp", !.link = row.link]
  <2>2. Fresh(f)
    OBVIOUS
  <2>3. Begin(p, f)
    BY <1>3 DEF ExpertCancels, OpenPicker
  <2> HIDE DEF f
  <2> QED BY <2>2, <2>3
<1>4. CASE Choose(p)
  <2>1. PICK s \in Slots :
          Begin(p, [Idle EXCEPT !.slot = s,
                                !.pc = IF row.status = "scheduled" THEN "readMove" ELSE "readBook"])
    BY <1>4 DEF Choose
  <2>2. Fresh([Idle EXCEPT !.slot = s,
                           !.pc = IF row.status = "scheduled" THEN "readMove" ELSE "readBook"])
    OBVIOUS
  <2> QED BY <2>1, <2>2
<1>5. CASE NoneSuits(p)
  <2>1. Fresh([Idle EXCEPT !.pc = "readPropose", !.link = row.link, !.initial = TRUE])
    OBVIOUS
  <2> QED BY <1>5, <2>1 DEF NoneSuits
<1>6. CASE ClientCancels(p)
  <2>1. Fresh([Idle EXCEPT !.pc = "check"])
    OBVIOUS
  <2> QED BY <1>6, <2>1 DEF ClientCancels
<1>7. CASE AskTimes(p)
  <2>1. Fresh([Idle EXCEPT !.pc = "propose", !.link = row.link, !.initial = TRUE])
    OBVIOUS
  <2> QED BY <1>7, <2>1 DEF AskTimes
<1>8. CASE AskToMove(p)
  <2>1. Fresh([Idle EXCEPT !.pc = "propose", !.link = row.link])
    OBVIOUS
  <2> QED BY <1>8, <2>1 DEF AskToMove
<1> QED BY <1>1, <1>2, <1>3, <1>4, <1>5, <1>6, <1>7, <1>8 DEF Request

-----------------------------------------------------------------------------
(* What a step does, field by field.                                       *)

Row == [status : Status, booking : Booking, meeting : Meeting \cup {0},
        link : BOOLEAN, ended : BOOLEAN]

\* Handler p goes on to step l with copy b of the booking and meeting m.
Turns(p, l, b, m) ==
    /\ proc' \in [Procs -> Frame]
    /\ proc'[p].pc = l /\ proc'[p].bk = b /\ proc'[p].made = m
    /\ \A q \in Procs : q # p => proc'[q] = proc[q]

RowHas(b, m) == row' \in Row /\ row'.booking = b /\ row'.meeting = m
RowSame == RowHas(row.booking, row.meeting)

\* Nothing the invariant is about changes but handlers and counters.
Quiet == RowSame /\ lock' \in BOOLEAN /\ UNCHANGED <<zoom, invite, cancels, revived>>
NoArrival == UNCHANGED <<requests, overlaps>>

\* A place without an interest in any copy, and where it may be left for.
Plain == {"stamp", "readBook", "readMove", "check", "lock", "cancel", "release",
          "readPropose", "propose"}

Begins(p) ==
    /\ \E l \in Plain : Turns(p, l, NoBooking, 0)
    /\ proc'[p].pc = "stamp" => proc'[p].next \in {"readMove", "readBook", "readPropose", "check"}
    /\ At(p, "idle") /\ Arrive /\ Quiet /\ UNCHANGED <<minted, faults>>

Passes(p) ==
    /\ proc[p].pc \in Plain
    /\ \/ Turns(p, "idle", NoBooking, 0)
       \/ \E l \in Plain \ {"stamp"} : /\ Turns(p, l, proc[p].bk, proc[p].made)
                                       /\ l = "readBook" => At(p, "stamp")
    /\ Quiet /\ NoArrival /\ UNCHANGED minted /\ (Fault \/ NoFault)

\* A handler is gone: killed, or after a write or a mail that failed.
Stumbles(p) ==
    /\ ~At(p, "idle") /\ Turns(p, "idle", NoBooking, 0)
    /\ \/ UNCHANGED minted
       \/ At(p, "book") /\ minted' = minted + 1
    /\ Quiet /\ NoArrival /\ Fault

\* A step of no handler.
Aside ==
    /\ Quiet /\ UNCHANGED <<proc, minted>> /\ (Fault \/ NoFault)
    /\ NoArrival \/ Arrive

\* Handlers that keep what they hold, and go on.
Goes(p, l) == Turns(p, l, proc[p].bk, proc[p].made) /\ proc'[p].slot = proc[p].slot

Holds == NoArrival /\ UNCHANGED <<minted, faults>>

\* bookCall: it goes to create the meeting, has one or none, and books it.
StartsBook(p) ==
    /\ At(p, "readBook") /\ ~Booked(row.booking)
    /\ Goes(p, "createMeeting") /\ Quiet /\ Holds

OpensRoom(p) ==
    /\ At(p, "createMeeting")
    /\ \E m \in Meeting :
          /\ zoom[m].st = "none"
          /\ zoom' = [zoom EXCEPT ![m] = [st |-> "live", slot |-> proc[p].slot]]
          /\ Turns(p, "book", proc[p].bk, m) /\ proc'[p].slot = proc[p].slot
    /\ RowSame /\ Holds /\ UNCHANGED <<lock, invite, cancels, revived>>

OpensNone(p) == At(p, "createMeeting") /\ Goes(p, "book") /\ Quiet /\ Holds

Books(p) ==
    /\ At(p, "book") /\ minted' = minted + 1
    /\ \E b \in Booking :
          /\ b.uid = minted + 1 /\ b.slot = proc[p].slot /\ b.seq = 0
          /\ b.meeting = proc[p].made /\ ~b.cancelled
          /\ RowHas(b, IF b.meeting # 0 THEN b.meeting ELSE row.meeting)
          /\ Turns(p, "confirm", b, proc[p].made)
    /\ revived' = IF row.booking.cancelled THEN revived + 1 ELSE revived
    /\ NoArrival /\ UNCHANGED <<zoom, invite, lock, cancels, faults>>

\* rebookCall: it reads the row, moves the meeting, and writes what it read.
Reads(p) ==
    /\ At(p, "readMove") /\ Booked(row.booking)
    /\ Turns(p, IF row.booking.meeting # 0 THEN "patchMeeting" ELSE "move",
             row.booking, proc[p].made)
    /\ Quiet /\ Holds

MovesRoom(p) ==
    /\ At(p, "patchMeeting") /\ Goes(p, "move")
    /\ \/ /\ zoom[proc[p].bk.meeting].st # "deleted" /\ NoFault
          /\ zoom' = [zoom EXCEPT ![proc[p].bk.meeting].slot = proc[p].slot]
       \/ zoom[proc[p].bk.meeting].st = "deleted" /\ UNCHANGED zoom /\ NoFault
       \/ Fault /\ UNCHANGED zoom
    /\ RowSame /\ NoArrival /\ UNCHANGED <<invite, lock, minted, cancels, revived>>

WritesMove(p) ==
    /\ At(p, "move")
    /\ \E b \in Booking :
          /\ b = Moved(proc[p].bk, proc[p].slot) /\ RowHas(b, row.meeting)
          /\ b.uid = proc[p].bk.uid /\ b.slot = proc[p].slot /\ b.seq = proc[p].bk.seq + 1
          /\ b.meeting = proc[p].bk.meeting /\ b.cancelled = proc[p].bk.cancelled
          /\ Turns(p, "confirm", b, proc[p].made)
          /\ revived' = IF row.booking.cancelled /\ ~b.cancelled THEN revived + 1 ELSE revived
    /\ Holds /\ UNCHANGED <<zoom, invite, lock, cancels>>

Confirms(p) ==
    /\ At(p, "confirm") /\ Turns(p, "idle", NoBooking, 0) /\ Mailed("request", proc[p].bk)
    /\ RowSame /\ Holds /\ UNCHANGED <<zoom, lock, cancels, revived>>

\* cancelCall, from its compare-and-set on.
Cancels(p) ==
    /\ At(p, "cancel") /\ Cancellable
    /\ \E b \in Booking :
          /\ b.uid = row.booking.uid /\ b.slot = row.booking.slot
          /\ b.seq = row.booking.seq + 1 /\ b.meeting = row.booking.meeting /\ b.cancelled
          /\ RowHas(b, row.meeting)
          /\ Turns(p, IF b.meeting # 0 THEN "deleteMeeting" ELSE "withdraw", b, proc[p].made)
    /\ Holds /\ UNCHANGED <<zoom, invite, lock, cancels, revived>>

Deletes(p) ==
    /\ At(p, "deleteMeeting") /\ Goes(p, "withdraw")
    /\ \/ zoom' = [zoom EXCEPT ![proc[p].bk.meeting].st = "deleted"] /\ NoFault
       \/ Fault /\ UNCHANGED zoom
    /\ RowSame /\ NoArrival /\ UNCHANGED <<invite, lock, minted, cancels, revived>>

Withdraws(p) ==
    /\ At(p, "withdraw") /\ Goes(p, "settle")
    /\ \/ Mailed("cancel", proc[p].bk) /\ NoFault
       \/ Fault /\ UNCHANGED invite
    /\ RowSame /\ NoArrival /\ UNCHANGED <<zoom, lock, minted, cancels, revived>>

Settles(p) ==
    /\ At(p, "settle") /\ Goes(p, "release")
    /\ cancels' = [cancels EXCEPT ![proc[p].bk.uid] = @ + 1]
    /\ RowSame /\ Holds /\ UNCHANGED <<zoom, invite, lock, revived>>

Held ==
    /\ Arrive /\ RowSame
    /\ \E m \in Meeting : /\ zoom[m].st = "live"
                          /\ zoom' = [zoom EXCEPT ![m].st = "held"]
    /\ UNCHANGED <<proc, invite, lock, minted, cancels, revived, faults>>

Does(p) ==
    \/ Begins(p) \/ Passes(p) \/ Stumbles(p)
    \/ StartsBook(p) \/ OpensRoom(p) \/ OpensNone(p) \/ Books(p)
    \/ Reads(p) \/ MovesRoom(p) \/ WritesMove(p) \/ Confirms(p)
    \/ Cancels(p) \/ Deletes(p) \/ Withdraws(p) \/ Settles(p)

\* A new frame is seen as it was given.
LEMMA BecomeTurns ==
  ASSUME proc \in [Procs -> Frame], NEW p \in Procs, NEW f \in Frame, Become(p, f)
  PROVE  /\ Turns(p, f.pc, f.bk, f.made) /\ proc'[p] = f
<1>1. proc' \in [Procs -> Frame] /\ proc'[p] = f
  BY DEF Become
<1>2. \A q \in Procs : q # p => proc'[q] = proc[q]
  BY DEF Become
<1> QED BY <1>1, <1>2 DEF Turns

\* A handler that is done holds nothing.
LEMMA DoneTurns ==
  ASSUME proc \in [Procs -> Frame], NEW p \in Procs, Done(p)
  PROVE  Turns(p, "idle", NoBooking, 0)
<1>1. Idle.pc = "idle" /\ Idle.bk = NoBooking /\ Idle.made = 0
  BY DEF Idle
<1> QED BY <1>1, BecomeTurns, IdleType DEF Done

\* A handler that goes on holds what it held.
LEMMA ToGoes ==
  ASSUME proc \in [Procs -> Frame], NEW p \in Procs, NEW l \in Step, To(p, l)
  PROVE  Goes(p, l) /\ Turns(p, l, proc[p].bk, proc[p].made)
<1> DEFINE f == [proc[p] EXCEPT !.pc = l]
<1>1. /\ f \in Frame /\ f.pc = l /\ f.bk = proc[p].bk /\ f.made = proc[p].made
      /\ f.slot = proc[p].slot
  BY DEF Frame
<1>2. proc' = [proc EXCEPT ![p] = f]
  BY DEF To
<1> HIDE DEF f
<1> QED BY <1>1, <1>2, BecomeTurns DEF Become, Goes

\* The row keeps its type and its call under a new link and a new status.
LEMMA RowKept ==
  ASSUME TypeOK, NEW x \in BOOLEAN, NEW st \in Status,
         \/ row' = row \/ row' = [row EXCEPT !.link = x]
         \/ row' = [row EXCEPT !.link = x, !.status = st]
         \/ row' = [row EXCEPT !.status = st] \/ row' = [row EXCEPT !.ended = x, !.status = st]
  PROVE  RowSame
  BY DEF TypeOK, RowSame, RowHas, Row

\* What is read of the state is of the kind it is read as.
LEMMA FrameTypes ==
  ASSUME TypeOK
  PROVE  /\ proc \in [Procs -> Frame] /\ row \in Row
         /\ row.link \in BOOLEAN /\ row.status \in Status /\ row.booking \in Booking
         /\ \A p \in Procs :
               /\ proc[p] \in Frame /\ proc[p].pc \in Step /\ proc[p].next \in Step
               /\ proc[p].slot \in Slots /\ proc[p].bk \in Booking /\ proc[p].link \in BOOLEAN
               /\ proc[p].made \in Meeting \cup {0}
  BY DEF TypeOK, Row, Frame

\* A booking's fields have their types.
LEMMA BookingTypes ==
  ASSUME NEW b \in Booking
  PROVE  /\ b.uid \in Nat /\ b.uid \in Uid \cup {0} /\ b.slot \in Slots /\ b.seq \in Nat
         /\ b.meeting \in Meeting \cup {0} /\ b.cancelled \in BOOLEAN
  BY BoundsAssumption DEF Booking, Uid

\* A booking that was moved, and one that is cancelled.
LEMMA LaterBookings ==
  ASSUME NEW b \in Booking, NEW s \in Slots
  PROVE  /\ LET c == Moved(b, s)
            IN /\ c \in Booking /\ c.uid = b.uid /\ c.slot = s /\ c.seq = b.seq + 1
               /\ c.meeting = b.meeting /\ c.cancelled = b.cancelled
         /\ LET c == [b EXCEPT !.seq = @ + 1, !.cancelled = TRUE]
            IN /\ c \in Booking /\ c.uid = b.uid /\ c.slot = b.slot /\ c.seq = b.seq + 1
               /\ c.meeting = b.meeting /\ c.cancelled = TRUE
<1> DEFINE c == [b EXCEPT !.slot = s, !.seq = b.seq + 1]
           d == [b EXCEPT !.seq = b.seq + 1, !.cancelled = TRUE]
<1>1. b.seq + 1 \in Nat
  BY BookingTypes
<1>2. /\ c \in Booking /\ c.uid = b.uid /\ c.slot = s /\ c.seq = b.seq + 1
      /\ c.meeting = b.meeting /\ c.cancelled = b.cancelled
  BY <1>1 DEF Booking
<1>3. /\ d \in Booking /\ d.uid = b.uid /\ d.slot = b.slot /\ d.seq = b.seq + 1
      /\ d.meeting = b.meeting /\ d.cancelled = TRUE
  BY <1>1 DEF Booking
<1> QED BY <1>2, <1>3 DEF Moved

\* The zone is written, or not, and the picker goes on.
LEMMA StampZoneDoes ==
  ASSUME TypeOK, FramesOK, NEW p \in Procs, StampZone(p)
  PROVE  Passes(p)
<1> USE FrameTypes
<1>1. At(p, "stamp") /\ proc[p].next \in {"readMove", "readBook", "readPropose", "check"}
  BY DEF StampZone, FramesOK
<1>2. Turns(p, proc[p].next, proc[p].bk, proc[p].made)
  BY ToGoes DEF StampZone
<1>3. RowSame
  BY RowKept DEF StampZone
<1>4. Quiet /\ NoArrival /\ UNCHANGED minted /\ NoFault
  BY <1>3 DEF StampZone, RowOnly, Quiet, NoArrival, NoFault, TypeOK
<1> QED BY <1>1, <1>2, <1>4 DEF Passes, At, Plain

\* bookCall has nothing to do, turns into a move, or goes to make a meeting.
LEMMA ReadBookDoes ==
  ASSUME TypeOK, NEW p \in Procs, ReadBook(p)
  PROVE  Passes(p) \/ StartsBook(p)
<1> USE FrameTypes
<1>1. At(p, "readBook") /\ Quiet /\ Holds
  BY RowKept DEF ReadBook, ReadOnly, RowOnly, Quiet, Holds, NoArrival, NoFault, TypeOK
<1>2. CASE Done(p)
  BY <1>1, <1>2, DoneTurns DEF Passes, Holds, NoFault, At, Plain
<1>3. CASE To(p, "readMove")
  <2>1. Turns(p, "readMove", proc[p].bk, proc[p].made)
    BY <1>3, ToGoes DEF Step
  <2> QED BY <1>1, <2>1 DEF Passes, Holds, NoFault, At, Plain
<1>4. CASE /\ ~Booked(row.booking)
           /\ Become(p, [proc[p] EXCEPT !.pc = "createMeeting", !.link = row.link])
  <2> DEFINE f == [proc[p] EXCEPT !.pc = "createMeeting", !.link = row.link]
  <2>1. /\ f \in Frame /\ f.pc = "createMeeting" /\ f.bk = proc[p].bk
        /\ f.made = proc[p].made /\ f.slot = proc[p].slot
    BY DEF Frame, Step
  <2>2. Become(p, f)
    BY <1>4
  <2> HIDE DEF f
  <2>3. Goes(p, "createMeeting")
    BY <2>1, <2>2, BecomeTurns DEF Goes
  <2> QED BY <1>1, <1>4, <2>3 DEF StartsBook
<1> QED BY <1>2, <1>3, <1>4 DEF ReadBook

\* Zoom gives a meeting, or none.
LEMMA CreateMeetingDoes ==
  ASSUME TypeOK, NEW p \in Procs, CreateMeeting(p)
  PROVE  OpensRoom(p) \/ OpensNone(p)
<1> USE FrameTypes
<1>1. /\ At(p, "createMeeting") /\ RowSame /\ Holds
      /\ UNCHANGED <<lock, invite, cancels, revived>> /\ lock' \in BOOLEAN
  BY RowKept DEF CreateMeeting, ZoomOnly, Holds, NoArrival, NoFault, TypeOK
<1>2. CASE To(p, "book") /\ UNCHANGED zoom
  <2>1. Goes(p, "book")
    BY <1>2, ToGoes DEF Step
  <2> QED BY <1>1, <1>2, <2>1 DEF OpensNone, Quiet
<1>3. ASSUME NEW m \in Meeting,
             \A n \in Meeting : zoom[n].st = "none" <=> n >= m,
             zoom' = [zoom EXCEPT ![m] = [st |-> "live", slot |-> proc[p].slot]],
             Become(p, [proc[p] EXCEPT !.pc = "book", !.made = m])
      PROVE  OpensRoom(p)
  <2> DEFINE f == [proc[p] EXCEPT !.pc = "book", !.made = m]
  <2>1. f \in Frame /\ f.pc = "book" /\ f.bk = proc[p].bk /\ f.made = m /\ f.slot = proc[p].slot
    BY DEF Frame, Step
  <2>2. Become(p, f)
    BY <1>3
  <2>3. zoom[m].st = "none"
    BY <1>3 DEF Meeting
  <2> HIDE DEF f
  <2>4. Turns(p, "book", proc[p].bk, m) /\ proc'[p].slot = proc[p].slot
    BY <2>1, <2>2, BecomeTurns
  <2> QED BY <1>1, <1>3, <2>3, <2>4 DEF OpensRoom
<1> QED BY <1>2, <1>3 DEF CreateMeeting

\* The booking is written, or the write fails.
LEMMA BookDoes ==
  ASSUME TypeOK, MintedOK, NEW p \in Procs, Book(p)
  PROVE  Books(p) \/ Stumbles(p)
<1> USE FrameTypes
<1> DEFINE b == [uid |-> minted + 1, slot |-> proc[p].slot, seq |-> 0,
                 meeting |-> proc[p].made, cancelled |-> FALSE]
           f == [proc[p] EXCEPT !.pc = "confirm", !.bk = b]
           r == [row EXCEPT !.status = "scheduled", !.booking = b, !.link = proc[p].link,
                            !.meeting = IF b.meeting # 0 THEN b.meeting ELSE @]
<1>1. /\ At(p, "book") /\ minted' = minted + 1 /\ NoArrival
      /\ UNCHANGED <<zoom, invite, lock, cancels>> /\ lock' \in BOOLEAN
  BY DEF Book, RowOnly, NoArrival, TypeOK
<1>2. minted + 1 \in Uid
  BY <1>1, MayMint DEF Minting, At
<1>3. /\ b \in Booking /\ b.uid = minted + 1 /\ b.slot = proc[p].slot /\ b.seq = 0
      /\ b.meeting = proc[p].made /\ b.cancelled = FALSE
  BY <1>2 DEF Booking
<1> HIDE DEF b
<1>4. CASE Fault /\ Done(p) /\ UNCHANGED <<row, revived>>
  <2>1. Quiet
    BY <1>1, <1>4, RowKept DEF Quiet
  <2> QED BY <1>1, <1>4, <2>1, DoneTurns DEF Stumbles, At
<1>5. CASE /\ row' = r /\ NoFault /\ Become(p, f)
           /\ revived' = IF row.booking.cancelled THEN revived + 1 ELSE revived
  <2>1. f \in Frame /\ f.pc = "confirm" /\ f.bk = b /\ f.made = proc[p].made
    BY <1>3 DEF Frame, Step
  <2>2. RowHas(b, IF b.meeting # 0 THEN b.meeting ELSE row.meeting)
    BY <1>3, <1>5 DEF RowHas, Row, Status
  <2> HIDE DEF f
  <2>3. Turns(p, "confirm", b, proc[p].made)
    BY <1>5, <2>1, BecomeTurns
  <2> QED BY <1>1, <1>3, <1>5, <2>2, <2>3 DEF Books, NoFault
<1> QED BY <1>4, <1>5 DEF Book, b

\* rebookCall has nothing to do, or takes a copy of the booking.
LEMMA ReadMoveDoes ==
  ASSUME TypeOK, NEW p \in Procs, ReadMove(p)
  PROVE  Passes(p) \/ Reads(p)
<1> USE FrameTypes
<1>1. At(p, "readMove") /\ Quiet /\ Holds
  BY RowKept DEF ReadMove, ReadOnly, RowOnly, Quiet, Holds, NoArrival, NoFault, TypeOK
<1>2. CASE Done(p)
  BY <1>1, <1>2, DoneTurns DEF Passes, Holds, NoFault, At, Plain
<1> DEFINE l == IF row.booking.meeting # 0 THEN "patchMeeting" ELSE "move"
           f == [proc[p] EXCEPT !.pc = l, !.bk = row.booking, !.link = row.link]
<1>3. CASE Booked(row.booking) /\ Become(p, f)
  <2>1. f \in Frame /\ f.pc = l /\ f.bk = row.booking /\ f.made = proc[p].made
    BY DEF Frame, Step
  <2> HIDE DEF f
  <2>2. Turns(p, l, row.booking, proc[p].made)
    BY <1>3, <2>1, BecomeTurns
  <2> QED BY <1>1, <1>3, <2>2 DEF Reads
<1> QED BY <1>2, <1>3 DEF ReadMove

\* The meeting is moved, or left as it is.
LEMMA PatchMeetingDoes ==
  ASSUME TypeOK, NEW p \in Procs, PatchMeeting(p)
  PROVE  MovesRoom(p)
<1>1. Goes(p, "move")
  BY FrameTypes, ToGoes DEF PatchMeeting, Step
<1>2. RowSame
  BY RowKept, FrameTypes DEF PatchMeeting, ZoomOnly
<1> QED BY <1>1, <1>2 DEF PatchMeeting, MovesRoom, ZoomOnly, NoArrival, NoFault

\* The moved booking is written, or the write fails.
LEMMA MoveDoes ==
  ASSUME TypeOK, NEW p \in Procs, Move(p)
  PROVE  WritesMove(p) \/ Stumbles(p)
<1> USE FrameTypes
<1> DEFINE b == Moved(proc[p].bk, proc[p].slot)
           f == [proc[p] EXCEPT !.pc = "confirm", !.bk = b]
           r == [row EXCEPT !.status = "scheduled", !.booking = b, !.link = proc[p].link]
<1>1. /\ At(p, "move") /\ NoArrival /\ UNCHANGED <<zoom, invite, lock, cancels, minted>>
      /\ lock' \in BOOLEAN
  BY DEF Move, RowOnly, NoArrival, TypeOK
<1>2. /\ b \in Booking /\ b.uid = proc[p].bk.uid /\ b.slot = proc[p].slot
      /\ b.seq = proc[p].bk.seq + 1 /\ b.meeting = proc[p].bk.meeting
      /\ b.cancelled = proc[p].bk.cancelled
  <2>1. proc[p].bk \in Booking /\ proc[p].slot \in Slots
    OBVIOUS
  <2> QED BY <2>1, LaterBookings
<1> HIDE DEF b
<1>3. CASE Fault /\ Done(p) /\ UNCHANGED <<row, revived>>
  <2>1. Quiet
    BY <1>1, <1>3, RowKept DEF Quiet
  <2> QED BY <1>1, <1>3, <2>1, DoneTurns DEF Stumbles, At
<1>4. CASE /\ row' = r /\ NoFault /\ Become(p, f)
           /\ revived' = IF row.booking.cancelled /\ ~b.cancelled THEN revived + 1 ELSE revived
  <2>1. f \in Frame /\ f.pc = "confirm" /\ f.bk = b /\ f.made = proc[p].made
    BY <1>2 DEF Frame, Step
  <2>2. RowHas(b, row.meeting)
    BY <1>2, <1>4 DEF RowHas, Row, Status
  <2> HIDE DEF f
  <2>3. Turns(p, "confirm", b, proc[p].made)
    BY <1>4, <2>1, BecomeTurns
  <2>4. b = Moved(proc[p].bk, proc[p].slot)
    BY DEF b
  <2> QED BY <1>1, <1>2, <1>4, <2>2, <2>3, <2>4 DEF WritesMove, NoFault, Holds
<1> QED BY <1>3, <1>4 DEF Move, b

\* The invites are mailed, or lost.
LEMMA ConfirmDoes ==
  ASSUME TypeOK, NEW p \in Procs, Confirm(p)
  PROVE  Confirms(p) \/ Stumbles(p)
<1>1. Turns(p, "idle", NoBooking, 0) /\ RowSame
  BY RowKept, DoneTurns, FrameTypes DEF Confirm
<1>2. /\ At(p, "confirm") /\ NoArrival /\ lock' \in BOOLEAN
      /\ UNCHANGED <<zoom, lock, minted, cancels, revived>>
  BY DEF Confirm, NoArrival, TypeOK
<1>3. CASE Mailed("request", proc[p].bk) /\ NoFault
  BY <1>1, <1>2, <1>3 DEF Confirms, Holds, NoFault
<1>4. CASE Fault /\ UNCHANGED invite
  BY <1>1, <1>2, <1>4 DEF Stumbles, Quiet, At
<1> QED BY <1>3, <1>4 DEF Confirm

\* The look before the lock changes nothing.
LEMMA CheckCancelDoes ==
  ASSUME TypeOK, NEW p \in Procs, CheckCancel(p)
  PROVE  Passes(p)
<1>1. Turns(p, "idle", NoBooking, 0) \/ Turns(p, "lock", proc[p].bk, proc[p].made)
  BY FrameTypes, DoneTurns, ToGoes DEF CheckCancel, Step
<1>2. At(p, "check") /\ Quiet /\ NoArrival /\ UNCHANGED minted /\ NoFault
  BY RowKept, FrameTypes
  DEF CheckCancel, ReadOnly, RowOnly, Quiet, NoArrival, NoFault, TypeOK
<1> QED BY <1>1, <1>2 DEF Passes, At, Plain

\* The lock changes nothing but itself.
LEMMA LockDoes ==
  ASSUME TypeOK, NEW p \in Procs, Lock(p)
  PROVE  Passes(p)
<1>1. Turns(p, "idle", NoBooking, 0) \/ Turns(p, "cancel", proc[p].bk, proc[p].made)
  BY FrameTypes, DoneTurns, ToGoes DEF Lock, Step
<1>2. At(p, "lock") /\ Quiet /\ NoArrival /\ UNCHANGED minted /\ (Fault \/ NoFault)
  BY RowKept, FrameTypes DEF Lock, Quiet, NoArrival, TypeOK
<1> QED BY <1>1, <1>2 DEF Passes, At, Plain

\* The compare-and-set cancels the booking, or changes nothing.
LEMMA CancelDoes ==
  ASSUME TypeOK, NEW p \in Procs, Cancel(p)
  PROVE  Cancels(p) \/ Passes(p)
<1> USE FrameTypes
<1>1. /\ At(p, "cancel") /\ NoArrival /\ lock' \in BOOLEAN
      /\ UNCHANGED <<zoom, invite, lock, minted, cancels, revived>>
  BY DEF Cancel, RowOnly, NoArrival, TypeOK
<1>2. CASE UNCHANGED row /\ To(p, "release") /\ (Fault \/ NoFault)
  <2>1. Turns(p, "release", proc[p].bk, proc[p].made)
    BY <1>2, ToGoes DEF Step
  <2>2. Quiet
    BY <1>1, <1>2, RowKept DEF Quiet
  <2> QED BY <1>1, <1>2, <2>1, <2>2 DEF Passes, At, Plain
<1> DEFINE b == [row.booking EXCEPT !.seq = @ + 1, !.cancelled = TRUE]
           l == IF b.meeting # 0 THEN "deleteMeeting" ELSE "withdraw"
           f == [proc[p] EXCEPT !.bk = b, !.pc = l]
<1>3. /\ b \in Booking /\ b.uid = row.booking.uid /\ b.slot = row.booking.slot
      /\ b.seq = row.booking.seq + 1 /\ b.meeting = row.booking.meeting /\ b.cancelled = TRUE
  BY LaterBookings
<1> HIDE DEF b
<1>4. CASE /\ Cancellable /\ NoFault /\ Become(p, f)
           /\ row' = [row EXCEPT !.booking = b, !.status = "ended", !.link = FALSE]
  <2>1. f \in Frame /\ f.pc = l /\ f.bk = b /\ f.made = proc[p].made
    <3>1. l \in Step /\ proc[p] \in Frame /\ b \in Booking
      BY <1>3 DEF Step
    <3> HIDE DEF l
    <3> QED BY <3>1 DEF Frame
  <2>2. RowHas(b, row.meeting)
    <3>1. row \in Row
      OBVIOUS
    <3>2. row' \in Row
      BY <1>3, <1>4, <3>1 DEF Row, Status
    <3>3. row'.booking = b /\ row'.meeting = row.meeting
      BY <1>4, <3>1 DEF Row
    <3> QED BY <3>2, <3>3 DEF RowHas
  <2> HIDE DEF f
  <2>3. Turns(p, l, b, proc[p].made)
    BY <1>4, <2>1, BecomeTurns
  <2> QED BY <1>1, <1>3, <1>4, <2>2, <2>3 DEF Cancels, NoFault, Holds
<1>5. \/ /\ Cancellable /\ NoFault /\ Become(p, f)
         /\ row' = [row EXCEPT !.booking = b, !.status = "ended", !.link = FALSE]
      \/ UNCHANGED row /\ To(p, "release") /\ (Fault \/ NoFault)
  BY DEF Cancel, b
<1> QED BY <1>2, <1>4, <1>5

\* The meeting is deleted, or it stays.
LEMMA DeleteMeetingDoes ==
  ASSUME TypeOK, NEW p \in Procs, DeleteMeeting(p)
  PROVE  Deletes(p)
<1>1. Goes(p, "withdraw") /\ RowSame
  BY FrameTypes, ToGoes, RowKept DEF DeleteMeeting, ZoomOnly, Step
<1> QED BY <1>1 DEF DeleteMeeting, Deletes, ZoomOnly, NoArrival

\* The cancellation is mailed, or lost.
LEMMA WithdrawDoes ==
  ASSUME TypeOK, NEW p \in Procs, Withdraw(p)
  PROVE  Withdraws(p)
<1>1. Goes(p, "settle") /\ RowSame
  BY FrameTypes, ToGoes, RowKept DEF Withdraw, Step
<1> QED BY <1>1 DEF Withdraw, Withdraws, NoArrival

\* The consequences of the cancellation.
LEMMA SettleDoes ==
  ASSUME TypeOK, NEW p \in Procs, Settle(p)
  PROVE  Settles(p)
<1>1. Goes(p, "release") /\ RowSame
  BY FrameTypes, ToGoes, RowKept DEF Settle, Step
<1> QED BY <1>1 DEF Settle, Settles, Holds, NoArrival

\* The lock again changes nothing but itself.
LEMMA ReleaseDoes ==
  ASSUME TypeOK, NEW p \in Procs, Release(p)
  PROVE  Passes(p)
<1>1. Turns(p, "idle", NoBooking, 0) /\ RowSame
  BY FrameTypes, DoneTurns, RowKept DEF Release
<1>2. At(p, "release") /\ Quiet /\ NoArrival /\ UNCHANGED minted /\ (Fault \/ NoFault)
  BY <1>1 DEF Release, Quiet, NoArrival, TypeOK
<1> QED BY <1>1, <1>2 DEF Passes, At, Plain

\* Another round of times leaves the call alone.
LEMMA ReadProposeDoes ==
  ASSUME TypeOK, NEW p \in Procs, ReadPropose(p)
  PROVE  Passes(p)
<1> USE FrameTypes
<1> DEFINE f == [proc[p] EXCEPT !.pc = "propose", !.link = row.link]
<1>1. f \in Frame /\ f.pc = "propose" /\ f.bk = proc[p].bk /\ f.made = proc[p].made
  BY DEF Frame, Step
<1>2. Become(p, f) => Turns(p, "propose", proc[p].bk, proc[p].made)
  <2> HIDE DEF f
  <2> QED BY <1>1, BecomeTurns
<1>3. Turns(p, "idle", NoBooking, 0) \/ Turns(p, "propose", proc[p].bk, proc[p].made)
  BY <1>2, DoneTurns DEF ReadPropose
<1>4. At(p, "readPropose") /\ Quiet /\ NoArrival /\ UNCHANGED minted /\ NoFault
  BY RowKept DEF ReadPropose, RowOnly, Quiet, NoArrival, NoFault, TypeOK
<1> QED BY <1>3, <1>4 DEF Passes, At, Plain

\* So do proposals.
LEMMA ProposeDoes ==
  ASSUME TypeOK, NEW p \in Procs, Propose(p)
  PROVE  Passes(p)
<1>1. Turns(p, "idle", NoBooking, 0)
  BY FrameTypes, DoneTurns DEF Propose
<1>2. RowSame
  <2> USE FrameTypes
  <2> DEFINE st == IF proc[p].initial THEN "proposed" ELSE row.status
  <2>1. st \in Status
    BY DEF Status
  <2>2. \/ row' = [row EXCEPT !.link = TRUE, !.status = st]
        \/ row' = [row EXCEPT !.link = proc[p].link] \/ row' = row
    BY DEF Propose
  <2> HIDE DEF st
  <2> QED BY <2>1, <2>2, RowKept
<1>3. At(p, "propose") /\ Quiet /\ NoArrival /\ UNCHANGED minted /\ NoFault
  BY <1>2 DEF Propose, RowOnly, Quiet, NoArrival, NoFault, TypeOK
<1> QED BY <1>1, <1>3 DEF Passes, At, Plain

\* A request that is let in starts a fresh handler.
LEMMA RequestDoes ==
  ASSUME TypeOK, NEW p \in Procs, Request(p)
  PROVE  Begins(p)
<1>1. PICK f : Fresh(f) /\ Begin(p, f)
  BY RequestBegins
<1>2. Turns(p, f.pc, f.bk, f.made) /\ proc'[p] = f
  BY <1>1, FrameTypes, BecomeTurns DEF Fresh, Begin
<1>3. RowSame
  BY <1>1, FrameTypes, RowKept DEF Begin
<1>4. At(p, "idle") /\ Arrive /\ Quiet /\ UNCHANGED <<minted, faults>>
  BY <1>1, <1>3 DEF Begin, Quiet, TypeOK
<1> QED BY <1>1, <1>2, <1>4 DEF Fresh, Begins, Plain

\* A handler that dies is gone, and nothing else is.
LEMMA CrashDoes ==
  ASSUME TypeOK, NEW p \in Procs, Crash(p)
  PROVE  Stumbles(p)
<1>1. Turns(p, "idle", NoBooking, 0) /\ RowSame
  BY FrameTypes, DoneTurns, RowKept DEF Crash
<1> QED BY <1>1 DEF Crash, Stumbles, Quiet, NoArrival, TypeOK

\* Every step is a handler's, or one beside all handlers, or a call held.
LEMMA NextDoes ==
  ASSUME TypeOK, FramesOK, MintedOK, [Next]_vars
  PROVE  (\E p \in Procs : Does(p)) \/ Aside \/ Held
<1>1. ASSUME NEW p \in Procs, Request(p) PROVE Does(p)
  BY <1>1, RequestDoes DEF Does
<1>2. ASSUME NEW p \in Procs, Continue(p) PROVE Does(p)
  BY <1>2, StampZoneDoes, ReadBookDoes, CreateMeetingDoes, BookDoes, ReadMoveDoes,
     PatchMeetingDoes, MoveDoes, ConfirmDoes, CheckCancelDoes, LockDoes, CancelDoes,
     DeleteMeetingDoes, WithdrawDoes, SettleDoes, ReleaseDoes, ReadProposeDoes, ProposeDoes
  DEF Continue, Does
<1>3. ASSUME NEW p \in Procs, Crash(p) PROVE Does(p)
  BY <1>3, CrashDoes DEF Does
<1>4. CASE LockExpires
  <2>1. RowSame
    BY <1>4, FrameTypes, RowKept DEF LockExpires
  <2> QED BY <1>4, <2>1 DEF LockExpires, Aside, Quiet, NoArrival
<1>5. CASE OtherReply
  <2>1. PICK st \in {"talking", "ended"} : row' = [row EXCEPT !.status = st]
    BY <1>5 DEF OtherReply
  <2>2. RowSame
    BY <2>1, FrameTypes, RowKept DEF Status
  <2> QED BY <1>5, <2>2 DEF OtherReply, Aside, Quiet, NoFault, TypeOK
<1>6. CASE CallHeld
  <2>1. RowSame
    <3>1. ASSUME NEW st \in {"completed", "ended", row.status},
                 row' = [row EXCEPT !.ended = TRUE, !.status = st]
          PROVE  RowSame
      BY <3>1, FrameTypes, RowKept DEF Status
    <3>2. ASSUME row' = row PROVE RowSame
      BY <3>2, FrameTypes, RowKept
    <3> QED BY <1>6, <3>1, <3>2 DEF CallHeld
  <2>2. \E m \in Meeting : /\ zoom[m].st = "live"
                           /\ zoom' = [zoom EXCEPT ![m].st = "held"]
    BY <1>6 DEF CallHeld
  <2> QED BY <1>6, <2>1, <2>2 DEF CallHeld, Held
<1>7. CASE UNCHANGED vars
  <2>1. RowSame
    BY <1>7, FrameTypes, RowKept DEF vars
  <2> QED BY <1>7, <2>1 DEF vars, Aside, Quiet, NoArrival, NoFault, TypeOK
<1> QED BY <1>1, <1>2, <1>3, <1>4, <1>5, <1>6, <1>7 DEF Next

-----------------------------------------------------------------------------
(* Types, and what a handler's place says about its copy.                  *)

\* The frame of the handler that goes on is all there is to look at.
LEMMA FramesTurn ==
  ASSUME FramesOK, NEW p \in Procs, NEW l, NEW b, NEW m, Turns(p, l, b, m),
         l = "stamp" => proc'[p].next \in {"readMove", "readBook", "readPropose", "check"},
         l \in {"patchMeeting", "move", "confirm", "deleteMeeting", "withdraw", "settle"}
            => Booked(b),
         l \in {"patchMeeting", "deleteMeeting"} => b.meeting # 0,
         l \in {"stamp", "readBook", "createMeeting"} => m = 0
  PROVE  FramesOK'
  BY DEF Turns, FramesOK, At, Booked

\* What a place says of a copy holds after each step of a handler.
LEMMA FramesStep ==
  ASSUME TypeOK, FramesOK, NEW p \in Procs, Does(p)
  PROVE  FramesOK'
<1> USE FrameTypes
<1>1. CASE Begins(p)
  <2>1. PICK l \in Plain : Turns(p, l, NoBooking, 0)
    BY <1>1 DEF Begins
  <2>2. proc'[p].pc = l
    BY <2>1 DEF Turns
  <2> QED BY <1>1, <2>1, <2>2, FramesTurn DEF Begins, Plain
<1>2. CASE Passes(p)
  <2>1. CASE Turns(p, "idle", NoBooking, 0)
    BY <2>1, FramesTurn
  <2>2. ASSUME NEW l \in Plain \ {"stamp"}, Turns(p, l, proc[p].bk, proc[p].made),
               l = "readBook" => At(p, "stamp")
        PROVE  FramesOK'
    BY <2>2, FramesTurn DEF Plain, FramesOK, At
  <2> QED BY <1>2, <2>1, <2>2 DEF Passes
<1>3. CASE Stumbles(p)
  BY <1>3, FramesTurn DEF Stumbles
<1>4. CASE StartsBook(p)
  <2>1. proc[p].made = 0
    BY <1>4 DEF StartsBook, FramesOK, At
  <2> QED BY <1>4, <2>1, FramesTurn DEF StartsBook, Goes
<1>5. CASE OpensRoom(p)
  BY <1>5, FramesTurn DEF OpensRoom
<1>6. CASE OpensNone(p)
  BY <1>6, FramesTurn DEF OpensNone, Goes
<1>7. CASE Books(p)
  <2>1. PICK b \in Booking : b.uid = minted + 1 /\ Turns(p, "confirm", b, proc[p].made)
    BY <1>7 DEF Books
  <2>2. Booked(b)
    BY <2>1 DEF Booked, TypeOK
  <2> QED BY <2>1, <2>2, FramesTurn
<1>8. CASE Reads(p)
  BY <1>8, FramesTurn DEF Reads
<1>9. CASE MovesRoom(p)
  <2>1. Booked(proc[p].bk)
    BY <1>9 DEF MovesRoom, FramesOK, At
  <2> QED BY <1>9, <2>1, FramesTurn DEF MovesRoom, Goes
<1>10. CASE WritesMove(p)
  <2>1. PICK b \in Booking : b.uid = proc[p].bk.uid /\ Turns(p, "confirm", b, proc[p].made)
    BY <1>10 DEF WritesMove
  <2>2. Booked(b)
    BY <1>10, <2>1 DEF WritesMove, FramesOK, At, Booked
  <2> QED BY <2>1, <2>2, FramesTurn
<1>11. CASE Confirms(p)
  BY <1>11, FramesTurn DEF Confirms
<1>12. CASE Cancels(p)
  <2>1. PICK b \in Booking :
          /\ b.uid = row.booking.uid
          /\ Turns(p, IF b.meeting # 0 THEN "deleteMeeting" ELSE "withdraw", b, proc[p].made)
    BY <1>12 DEF Cancels
  <2>2. Booked(b)
    BY <1>12, <2>1 DEF Cancels, Cancellable, Booked
  <2> QED BY <2>1, <2>2, FramesTurn
<1>13. CASE Deletes(p)
  <2>1. Booked(proc[p].bk)
    BY <1>13 DEF Deletes, FramesOK, At
  <2> QED BY <1>13, <2>1, FramesTurn DEF Deletes, Goes
<1>14. CASE Withdraws(p)
  <2>1. Booked(proc[p].bk)
    BY <1>14 DEF Withdraws, FramesOK, At
  <2> QED BY <1>14, <2>1, FramesTurn DEF Withdraws, Goes
<1>15. CASE Settles(p)
  BY <1>15, FramesTurn DEF Settles, Goes
<1> QED BY <1>1, <1>2, <1>3, <1>4, <1>5, <1>6, <1>7, <1>8, <1>9, <1>10, <1>11, <1>12,
           <1>13, <1>14, <1>15 DEF Does

\* An invite is the one mailed, or as it was.
LEMMA MailedTypes ==
  ASSUME TypeOK, NEW b \in Booking, Booked(b), NEW k \in {"request", "cancel"}, Mailed(k, b)
  PROVE  /\ b.uid \in Uid
         /\ invite' \in [Uid -> [kind : {"none", "request", "cancel"}, slot : Slots, seq : Nat]]
         /\ \A u \in Uid : u # b.uid => invite'[u] = invite[u]
         /\ IF invite[b.uid].kind # "none" /\ invite[b.uid].seq > b.seq THEN invite' = invite
            ELSE invite'[b.uid] = [kind |-> k, slot |-> b.slot, seq |-> b.seq]
<1>1. b.uid \in Uid /\ b.slot \in Slots /\ b.seq \in Nat
  BY BookingTypes DEF Booked
<1> QED BY <1>1 DEF TypeOK, Mailed

\* The counters stay within their bounds.
LEMMA CounterTypes ==
  ASSUME TypeOK
  PROVE  /\ Fault \/ NoFault => faults' \in 0 .. MaxFaults
         /\ Arrive /\ BusyOK => /\ requests' \in 0 .. MaxRequests
                                /\ overlaps' \in 0 .. MaxRequests
<1>1. /\ faults \in Nat /\ MaxFaults \in Nat /\ faults <= MaxFaults
      /\ requests \in Nat /\ MaxRequests \in Nat /\ overlaps \in Nat
  BY BoundsAssumption DEF TypeOK
<1> QED BY <1>1 DEF Fault, NoFault, Arrive, BusyOK

\* So do the types.
LEMMA TypeStep ==
  ASSUME TypeOK, FramesOK, FramesOK', MintedOK, BusyOK, NEW p \in Procs, Does(p)
  PROVE  TypeOK'
<1> USE FrameTypes
<1>1. /\ \A q \in Procs : proc'[q].pc \in {"confirm", "withdraw", "settle"}
                             => Booked(proc'[q].bk)
      /\ \A q \in Procs : proc[q].pc \in {"confirm", "withdraw", "settle"}
                             => Booked(proc[q].bk)
  BY DEF FramesOK, Booked
<1>2. ASSUME Quiet, NoArrival, Fault \/ NoFault, minted' \in 0 .. MaxRequests,
             proc' \in [Procs -> Frame]
      PROVE  TypeOK'
  BY <1>1, <1>2, CounterTypes DEF Quiet, RowSame, RowHas, Row, NoArrival, TypeOK
<1>3. CASE Begins(p)
  <2>1. requests' \in 0 .. MaxRequests /\ overlaps' \in 0 .. MaxRequests
    BY <1>3, CounterTypes DEF Begins
  <2> QED BY <1>1, <1>3, <2>1 DEF Begins, Quiet, RowSame, RowHas, Row, TypeOK, Turns
<1>4. CASE Passes(p)
  BY <1>2, <1>4 DEF Passes, Turns, TypeOK
<1>5. CASE Stumbles(p)
  <2>1. At(p, "book") => minted + 1 \in Uid
    BY MayMint DEF Minting, At
  <2> QED BY <1>2, <1>5, <2>1 DEF Stumbles, Turns, TypeOK, Uid
<1>6. CASE StartsBook(p)
  BY <1>2, <1>6 DEF StartsBook, Turns, Goes, Holds, NoFault, TypeOK
<1>7. CASE OpensRoom(p)
  BY <1>1, <1>7 DEF OpensRoom, Turns, Holds, NoArrival, TypeOK, RowSame, RowHas, Row
<1>8. CASE OpensNone(p)
  BY <1>2, <1>8 DEF OpensNone, Turns, Goes, Holds, NoFault, TypeOK
<1>9. CASE Books(p)
  <2>1. minted + 1 \in Uid
    BY <1>9, MayMint DEF Minting, At, Books
  <2> QED BY <1>1, <1>9, <2>1 DEF Books, Turns, Holds, NoArrival, TypeOK, RowHas, Row, Uid
<1>10. CASE Reads(p)
  BY <1>2, <1>10 DEF Reads, Turns, Goes, Holds, NoFault, TypeOK
<1>11. CASE MovesRoom(p)
  <2>1. zoom' \in [Meeting -> [st : {"none", "live", "held", "deleted"}, slot : Slots]]
    BY <1>11 DEF MovesRoom, TypeOK
  <2>2. faults' \in 0 .. MaxFaults
    BY <1>11, CounterTypes DEF MovesRoom
  <2> QED BY <1>1, <1>11, <2>1, <2>2
      DEF MovesRoom, Turns, Goes, NoArrival, TypeOK, RowSame, RowHas, Row
<1>12. CASE WritesMove(p)
  BY <1>1, <1>12 DEF WritesMove, Turns, Holds, NoArrival, TypeOK, RowHas, Row
<1>13. CASE Confirms(p)
  <2>1. invite' \in [Uid -> [kind : {"none", "request", "cancel"}, slot : Slots, seq : Nat]]
    BY <1>1, <1>13, MailedTypes DEF Confirms, At
  <2> QED BY <1>1, <1>13, <2>1
      DEF Confirms, Turns, Holds, NoArrival, TypeOK, RowSame, RowHas, Row
<1>14. CASE Cancels(p)
  BY <1>1, <1>14 DEF Cancels, Turns, Holds, NoArrival, TypeOK, RowHas, Row
<1>15. CASE Deletes(p)
  <2>1. zoom' \in [Meeting -> [st : {"none", "live", "held", "deleted"}, slot : Slots]]
    BY <1>15 DEF Deletes, TypeOK
  <2>2. faults' \in 0 .. MaxFaults
    BY <1>15, CounterTypes DEF Deletes
  <2> QED BY <1>1, <1>15, <2>1, <2>2
      DEF Deletes, Turns, Goes, NoArrival, TypeOK, RowSame, RowHas, Row
<1>16. CASE Withdraws(p)
  <2>1. invite' \in [Uid -> [kind : {"none", "request", "cancel"}, slot : Slots, seq : Nat]]
    BY <1>1, <1>16, MailedTypes DEF Withdraws, At, TypeOK
  <2> QED BY <1>1, <1>16, <2>1, CounterTypes
      DEF Withdraws, Turns, Goes, NoArrival, TypeOK, RowSame, RowHas, Row
<1>17. CASE Settles(p)
  <2>1. proc[p].bk.uid \in Uid
    BY <1>1, <1>17, BookingTypes DEF Settles, At, Booked
  <2> QED BY <1>1, <1>17, <2>1
      DEF Settles, Turns, Goes, Holds, NoArrival, TypeOK, RowSame, RowHas, Row
<1> QED BY <1>3, <1>4, <1>5, <1>6, <1>7, <1>8, <1>9, <1>10, <1>11, <1>12,
           <1>13, <1>14, <1>15, <1>16, <1>17 DEF Does

-----------------------------------------------------------------------------
(* Counting: icsUids minted, cancellations, handlers.                      *)

\* The sets of handlers change in the handler that steps, and in no other.
LEMMA SetsTurn ==
  ASSUME TypeOK, NEW p \in Procs, NEW l, NEW b, NEW m, Turns(p, l, b, m)
  PROVE  /\ Busy' \ {p} = Busy \ {p} /\ (p \in Busy' <=> l # "idle")
         /\ Minting' \ {p} = Minting \ {p}
         /\ p \in Minting' <=> l \in {"stamp", "readBook", "createMeeting", "book"}
         /\ Creating' \ {p} = Creating \ {p} /\ (p \in Creating' <=> l = "createMeeting")
         /\ Carrying' \ {p} = Carrying \ {p} /\ (p \in Carrying' <=> l = "book" /\ m # 0)
         /\ \A u \in Uid : /\ Settling(u)' \ {p} = Settling(u) \ {p}
                           /\ p \in Settling(u)' <=>
                                 l \in {"deleteMeeting", "withdraw", "settle"} /\ b.uid = u
<1>1. /\ \A q \in Procs : q # p => proc'[q] = proc[q]
      /\ proc'[p].pc = l /\ proc'[p].bk = b /\ proc'[p].made = m
  BY DEF Turns
<1>2. Busy' \ {p} = Busy \ {p} /\ (p \in Busy' <=> l # "idle")
  BY <1>1 DEF Busy, At
<1>3. /\ Minting' \ {p} = Minting \ {p}
      /\ p \in Minting' <=> l \in {"stamp", "readBook", "createMeeting", "book"}
  BY <1>1 DEF Minting
<1>4. Creating' \ {p} = Creating \ {p} /\ (p \in Creating' <=> l = "createMeeting")
  BY <1>1 DEF Creating, At
<1>5. Carrying' \ {p} = Carrying \ {p} /\ (p \in Carrying' <=> l = "book" /\ m # 0)
  BY <1>1 DEF Carrying, At
<1>6. ASSUME NEW u \in Uid
      PROVE  /\ Settling(u)' \ {p} = Settling(u) \ {p}
             /\ p \in Settling(u)' <=>
                   l \in {"deleteMeeting", "withdraw", "settle"} /\ b.uid = u
  BY <1>1 DEF Settling
<1> QED BY <1>2, <1>3, <1>4, <1>5, <1>6

\* The count of numbers spoken for: minted, or still to be.
LEMMA MintedTurn ==
  ASSUME TypeOK, MintedOK, NEW p \in Procs, NEW l, NEW b, NEW m, Turns(p, l, b, m),
         \/ /\ minted' = minted /\ requests' = requests
            /\ l \in {"stamp", "readBook", "createMeeting", "book"} => p \in Minting
         \/ minted' = minted /\ requests' = requests + 1 /\ p \notin Minting
         \/ /\ minted' = minted + 1 /\ requests' = requests
            /\ p \in Minting /\ l \notin {"stamp", "readBook", "createMeeting", "book"}
  PROVE  MintedOK'
<1>1. /\ Minting' \ {p} = Minting \ {p}
      /\ p \in Minting' <=> l \in {"stamp", "readBook", "createMeeting", "book"}
  BY SetsTurn
<1>2. /\ IsFiniteSet(Minting') /\ Cardinality(Minting) \in Nat /\ Cardinality(Minting') \in Nat
      /\ p \in Minting /\ p \notin Minting' => Cardinality(Minting') = Cardinality(Minting) - 1
      /\ p \notin Minting /\ p \in Minting' => Cardinality(Minting') = Cardinality(Minting) + 1
      /\ (p \in Minting <=> p \in Minting') => Minting' = Minting
  BY <1>1, Counted DEF MintedOK
<1>3. minted \in Nat /\ requests \in Nat
  BY DEF TypeOK
<1> QED BY <1>1, <1>2, <1>3 DEF MintedOK

\* A number that is minted was spoken for.
LEMMA MintedStep ==
  ASSUME TypeOK, FramesOK, MintedOK, NEW p \in Procs, Does(p)
  PROVE  MintedOK'
<1> USE DEF NoArrival, Holds, Goes, At
<1>0. p \in Minting <=> proc[p].pc \in {"stamp", "readBook", "createMeeting", "book"}
  BY DEF Minting
<1>1. CASE Begins(p)
  BY <1>0, <1>1, MintedTurn DEF Begins, Arrive
<1>2. CASE Passes(p)
  <2>1. CASE Turns(p, "idle", NoBooking, 0)
    BY <1>0, <1>2, <2>1, MintedTurn DEF Passes
  <2>2. ASSUME NEW l \in Plain \ {"stamp"}, Turns(p, l, proc[p].bk, proc[p].made),
               l = "readBook" => At(p, "stamp")
        PROVE  MintedOK'
    BY <1>0, <1>2, <2>2, MintedTurn DEF Passes, Plain
  <2> QED BY <1>2, <2>1, <2>2 DEF Passes
<1>3. CASE Stumbles(p)
  BY <1>0, <1>3, MintedTurn DEF Stumbles
<1>4. CASE StartsBook(p)
  BY <1>0, <1>4, MintedTurn DEF StartsBook
<1>5. CASE OpensRoom(p)
  BY <1>0, <1>5, MintedTurn DEF OpensRoom
<1>6. CASE OpensNone(p)
  BY <1>0, <1>6, MintedTurn DEF OpensNone
<1>7. CASE Books(p)
  BY <1>0, <1>7, MintedTurn DEF Books
<1>8. CASE Reads(p)
  BY <1>0, <1>8, MintedTurn DEF Reads
<1>9. CASE MovesRoom(p)
  BY <1>0, <1>9, MintedTurn DEF MovesRoom
<1>10. CASE WritesMove(p)
  BY <1>0, <1>10, MintedTurn DEF WritesMove
<1>11. CASE Confirms(p)
  BY <1>0, <1>11, MintedTurn DEF Confirms
<1>12. CASE Cancels(p)
  BY <1>0, <1>12, MintedTurn DEF Cancels
<1>13. CASE Deletes(p)
  BY <1>0, <1>13, MintedTurn DEF Deletes
<1>14. CASE Withdraws(p)
  BY <1>0, <1>14, MintedTurn DEF Withdraws
<1>15. CASE Settles(p)
  BY <1>0, <1>15, MintedTurn DEF Settles
<1> QED BY <1>1, <1>2, <1>3, <1>4, <1>5, <1>6, <1>7, <1>8, <1>9, <1>10, <1>11, <1>12,
           <1>13, <1>14, <1>15 DEF Does

\* A handler is counted, from its request until it is done.
LEMMA BusyStep ==
  ASSUME TypeOK, BusyOK, NEW p \in Procs, Does(p)
  PROVE  BusyOK'
<1>1. ASSUME NEW l, NEW b, NEW m, Turns(p, l, b, m)
      PROVE  /\ IsFiniteSet(Busy') /\ Cardinality(Busy) \in Nat /\ Cardinality(Busy') \in Nat
             /\ Cardinality(Busy') <= Cardinality(Busy) + 1
             /\ p \in Busy => Cardinality(Busy') <= Cardinality(Busy)
             /\ Busy = {} => Cardinality(Busy') <= 1
  <2>1. Busy' \ {p} = Busy \ {p} /\ (p \in Busy' <=> l # "idle")
    BY <1>1, SetsTurn
  <2>2. Cardinality({}) = 0
    BY FS_EmptySet
  <2> QED BY <2>1, <2>2, Counted DEF BusyOK
<1>2. requests \in Nat /\ overlaps \in Nat
  BY DEF TypeOK
<1>3. CASE Begins(p)
  <2>1. Busy = {} <=> \A q \in Procs : At(q, "idle")
    BY DEF Busy
  <2> QED BY <1>1, <1>2, <1>3, <2>1 DEF Begins, Arrive, BusyOK
<1>4. CASE ~Begins(p)
  <2>1. p \in Busy /\ NoArrival
    BY <1>4 DEF Does, Passes, Stumbles, StartsBook, OpensRoom, OpensNone, Books, Reads,
        MovesRoom, WritesMove, Confirms, Cancels, Deletes, Withdraws, Settles, Holds,
        Busy, At, Plain
  <2>2. \E l, b, m : Turns(p, l, b, m)
    BY <1>4 DEF Does, Passes, Stumbles, StartsBook, OpensRoom, OpensNone, Books, Reads,
        MovesRoom, WritesMove, Confirms, Cancels, Deletes, Withdraws, Settles, Goes
  <2> QED BY <1>1, <1>2, <2>1, <2>2 DEF BusyOK, NoArrival
<1> QED BY <1>3, <1>4

\* A cancellation is undone by a stale write, or it stands.
Undone == revived + (IF row.booking.cancelled THEN 1 ELSE 0)

\* Cancellations that were not undone, and a handler that settles none more.
LEMMA CancelsTurn ==
  ASSUME TypeOK, CancelsOK, NEW p \in Procs, NEW l, NEW b, NEW m, Turns(p, l, b, m),
         cancels' = cancels, Undone' \in Nat, Undone' >= Undone,
         \/ l \notin {"deleteMeeting", "withdraw", "settle"}
         \/ proc[p].pc \in {"deleteMeeting", "withdraw", "settle"} /\ b = proc[p].bk
         \/ Undone' >= Undone + 1
  PROVE  CancelsOK'
<1>1. Undone \in Nat
  BY DEF Undone, TypeOK
<1> SUFFICES ASSUME NEW u \in Uid
             PROVE  /\ IsFiniteSet(Settling(u)')
                    /\ cancels[u] + Cardinality(Settling(u)') <= Undone'
  BY DEF CancelsOK, Undone
<1>2. /\ Settling(u)' \ {p} = Settling(u) \ {p}
      /\ p \in Settling(u)' <=> l \in {"deleteMeeting", "withdraw", "settle"} /\ b.uid = u
  BY SetsTurn
<1>3. IsFiniteSet(Settling(u)) /\ cancels[u] + Cardinality(Settling(u)) <= Undone
  BY DEF CancelsOK, Undone
<1>4. /\ IsFiniteSet(Settling(u)') /\ Cardinality(Settling(u)) \in Nat
      /\ Cardinality(Settling(u)') \in Nat
      /\ Cardinality(Settling(u)') <= Cardinality(Settling(u)) + 1
      /\ (p \in Settling(u)' => p \in Settling(u)) =>
            Cardinality(Settling(u)') <= Cardinality(Settling(u))
  BY <1>2, <1>3, Counted
<1>5. cancels[u] \in Nat
  BY DEF TypeOK
<1>6. proc[p].pc \in {"deleteMeeting", "withdraw", "settle"} /\ proc[p].bk.uid = u
         => p \in Settling(u)
  BY DEF Settling
<1> QED BY <1>1, <1>2, <1>3, <1>4, <1>5, <1>6

\* Each cancellation counted is one that stands, or that was undone.
LEMMA CancelsStep ==
  ASSUME TypeOK, FramesOK, CancelsOK, NEW p \in Procs, Does(p)
  PROVE  CancelsOK'
<1> USE DEF Goes
<1>1. /\ Undone \in Nat /\ revived \in Nat /\ row.booking.cancelled \in BOOLEAN
  BY FrameTypes, BookingTypes DEF TypeOK, Undone
<1>2. ASSUME NEW l, NEW b, NEW m, Turns(p, l, b, m), RowSame, UNCHANGED <<cancels, revived>>,
             \/ l \notin {"deleteMeeting", "withdraw", "settle"}
             \/ proc[p].pc \in {"deleteMeeting", "withdraw", "settle"} /\ b = proc[p].bk
      PROVE  CancelsOK'
  <2>1. Undone' = Undone
    BY <1>2 DEF Undone, RowSame, RowHas
  <2> QED BY <1>1, <1>2, <2>1, CancelsTurn
<1>3. CASE Begins(p)
  BY <1>2, <1>3 DEF Begins, Quiet, Plain
<1>4. CASE Passes(p)
  BY <1>2, <1>4 DEF Passes, Quiet, Plain
<1>5. CASE Stumbles(p)
  BY <1>2, <1>5 DEF Stumbles, Quiet
<1>6. CASE StartsBook(p)
  BY <1>2, <1>6 DEF StartsBook, Quiet
<1>7. CASE OpensRoom(p)
  BY <1>2, <1>7 DEF OpensRoom
<1>8. CASE OpensNone(p)
  BY <1>2, <1>8 DEF OpensNone, Quiet
<1>9. CASE Books(p)
  <2>1. PICK b \in Booking :
          /\ ~b.cancelled /\ Turns(p, "confirm", b, proc[p].made)
          /\ RowHas(b, IF b.meeting # 0 THEN b.meeting ELSE row.meeting)
    BY <1>9 DEF Books
  <2>2. Undone' = Undone
    BY <1>1, <1>9, <2>1 DEF Books, RowHas, Undone
  <2> QED BY <1>1, <1>9, <2>1, <2>2, CancelsTurn DEF Books
<1>10. CASE Reads(p)
  BY <1>2, <1>10 DEF Reads, Quiet
<1>11. CASE MovesRoom(p)
  BY <1>2, <1>11 DEF MovesRoom
<1>12. CASE WritesMove(p)
  <2>1. PICK b \in Booking :
          /\ Turns(p, "confirm", b, proc[p].made) /\ RowHas(b, row.meeting)
          /\ revived' = IF row.booking.cancelled /\ ~b.cancelled THEN revived + 1 ELSE revived
    BY <1>12 DEF WritesMove
  <2>2. Undone' \in Nat /\ Undone' >= Undone
    BY <1>1, <2>1, BookingTypes DEF RowHas, Undone
  <2> QED BY <1>1, <1>12, <2>1, <2>2, CancelsTurn DEF WritesMove
<1>13. CASE Confirms(p)
  BY <1>2, <1>13 DEF Confirms
<1>14. CASE Cancels(p)
  <2>1. PICK b \in Booking :
          /\ b.cancelled /\ RowHas(b, row.meeting)
          /\ Turns(p, IF b.meeting # 0 THEN "deleteMeeting" ELSE "withdraw", b, proc[p].made)
    BY <1>14 DEF Cancels
  <2>2. Undone' = Undone + 1
    BY <1>1, <1>14, <2>1, BookingTypes DEF Cancels, Cancellable, RowHas, Undone
  <2> QED BY <1>1, <1>14, <2>1, <2>2, CancelsTurn DEF Cancels
<1>15. CASE Deletes(p)
  BY <1>2, <1>15 DEF Deletes, At
<1>16. CASE Withdraws(p)
  BY <1>2, <1>16 DEF Withdraws, At
<1>17. CASE Settles(p)
  <2>1. /\ Turns(p, "release", proc[p].bk, proc[p].made) /\ Undone' = Undone
        /\ cancels' = [cancels EXCEPT ![proc[p].bk.uid] = @ + 1] /\ At(p, "settle")
    BY <1>17 DEF Settles, RowSame, RowHas, Undone
  <2> SUFFICES ASSUME NEW u \in Uid
               PROVE  /\ IsFiniteSet(Settling(u)')
                      /\ cancels'[u] + Cardinality(Settling(u)') <= Undone'
    BY DEF CancelsOK, Undone
  <2>2. Settling(u)' \ {p} = Settling(u) \ {p} /\ p \notin Settling(u)'
    BY <2>1, SetsTurn
  <2>3. IsFiniteSet(Settling(u)) /\ cancels[u] + Cardinality(Settling(u)) <= Undone
    BY DEF CancelsOK, Undone
  <2>4. /\ IsFiniteSet(Settling(u)') /\ Cardinality(Settling(u)) \in Nat
        /\ p \in Settling(u) => Cardinality(Settling(u)') = Cardinality(Settling(u)) - 1
        /\ p \notin Settling(u) => Settling(u)' = Settling(u)
    BY <2>2, <2>3, Counted
  <2>5. cancels[u] \in Nat /\ cancels \in [Uid -> Nat]
    BY DEF TypeOK
  <2>6. cancels'[u] = IF proc[p].bk.uid = u THEN cancels[u] + 1 ELSE cancels[u]
    BY <2>1, <2>5
  <2>7. proc[p].bk.uid = u <=> p \in Settling(u)
    BY <2>1 DEF Settling, At
  <2> QED BY <1>1, <2>1, <2>3, <2>4, <2>5, <2>6, <2>7
<1> QED BY <1>3, <1>4, <1>5, <1>6, <1>7, <1>8, <1>9, <1>10, <1>11, <1>12,
           <1>13, <1>14, <1>15, <1>16, <1>17 DEF Does

-----------------------------------------------------------------------------
(* The calendars.                                                          *)

\* Only numbers that were minted come in, and none before the first.
LEMMA UidsTurn ==
  ASSUME TypeOK, UidsOK, NEW p \in Procs, NEW l, NEW b \in Booking, NEW m,
         Turns(p, l, b, m), NEW r \in Booking, NEW n, RowHas(r, n),
         minted' \in Nat, minted' >= minted, b.uid <= minted', r.uid <= minted',
         \A u \in Uid : u > minted' => invite'[u].kind = "none",
         ~Booked(r) => /\ r = NoBooking /\ b = NoBooking /\ ~Booked(row.booking)
  PROVE  UidsOK'
<1>1. /\ proc'[p].bk = b /\ \A q \in Procs : q # p => proc'[q] = proc[q]
      /\ row'.booking = r
  BY DEF Turns, RowHas
<1>2. ASSUME NEW q \in Procs PROVE proc'[q].bk.uid <= minted'
  <2>1. proc[q].bk.uid <= minted /\ proc[q].bk.uid \in Nat /\ minted \in Nat
    BY FrameTypes, BookingTypes DEF UidsOK, TypeOK
  <2> QED BY <1>1, <2>1
<1>3. ~Booked(r) => \A q \in Procs : proc'[q].bk = NoBooking
  BY <1>1 DEF UidsOK
<1> QED BY <1>1, <1>2, <1>3 DEF UidsOK

\* Copies and mails pass numbers on; only bookCall brings in a new one.
LEMMA UidsStep ==
  ASSUME TypeOK, FramesOK, UidsOK, NEW p \in Procs, Does(p)
  PROVE  UidsOK'
<1> USE FrameTypes, IdleType DEF Goes, Holds
<1>0. /\ minted \in Nat /\ row.booking.uid <= minted /\ proc[p].bk.uid <= minted
      /\ NoBooking.uid = 0 /\ NoBooking.uid <= minted
      /\ \A u \in Uid : u > minted => invite[u].kind = "none"
      /\ ~Booked(row.booking) => row.booking = NoBooking /\ proc[p].bk = NoBooking
  BY DEF UidsOK, TypeOK, NoBooking
<1>1. ASSUME NEW l, NEW b \in {NoBooking, proc[p].bk, row.booking}, NEW m,
             Turns(p, l, b, m), RowSame, UNCHANGED invite,
             \/ UNCHANGED minted \/ minted' = minted + 1
      PROVE  UidsOK'
  <2>1. /\ b \in Booking /\ b.uid <= minted /\ b.uid \in Nat
        /\ ~Booked(row.booking) => b = NoBooking
    BY <1>0, <1>1, BookingTypes
  <2>2. minted' \in Nat /\ minted' >= minted
    BY <1>0, <1>1
  <2>3. row.booking.uid \in Nat /\ row.booking \in Booking
    BY BookingTypes
  <2>4. b.uid <= minted' /\ row.booking.uid <= minted'
    BY <1>0, <2>1, <2>2, <2>3
  <2>5. \A u \in Uid : u > minted' => invite'[u].kind = "none"
    BY <1>0, <1>1 DEF Uid
  <2>6. RowHas(row.booking, row.meeting)
    BY <1>1 DEF RowSame
  <2> QED BY <1>0, <1>1, <2>1, <2>2, <2>3, <2>4, <2>5, <2>6, UidsTurn
<1>2. CASE Begins(p)
  BY <1>1, <1>2 DEF Begins, Quiet
<1>3. CASE Passes(p)
  BY <1>1, <1>3 DEF Passes, Quiet
<1>4. CASE Stumbles(p)
  BY <1>1, <1>4 DEF Stumbles, Quiet
<1>5. CASE StartsBook(p)
  BY <1>1, <1>5 DEF StartsBook, Quiet
<1>6. CASE OpensRoom(p)
  BY <1>1, <1>6 DEF OpensRoom
<1>7. CASE OpensNone(p)
  BY <1>1, <1>7 DEF OpensNone, Quiet
<1>8. CASE Books(p)
  <2>1. PICK b \in Booking :
          /\ b.uid = minted + 1 /\ Turns(p, "confirm", b, proc[p].made)
          /\ RowHas(b, IF b.meeting # 0 THEN b.meeting ELSE row.meeting)
    BY <1>8 DEF Books
  <2>2. minted' = minted + 1 /\ Booked(b) /\ invite' = invite
    BY <1>0, <1>8, <2>1 DEF Books, Booked
  <2>3. \A u \in Uid : u > minted' => invite'[u].kind = "none"
    BY <1>0, <2>2 DEF Uid
  <2> QED BY <1>0, <2>1, <2>2, <2>3, UidsTurn
<1>9. CASE Reads(p)
  BY <1>1, <1>9 DEF Reads, Quiet
<1>10. CASE MovesRoom(p)
  BY <1>1, <1>10 DEF MovesRoom
<1>11. CASE WritesMove(p)
  <2>1. PICK b \in Booking : /\ b.uid = proc[p].bk.uid /\ RowHas(b, row.meeting)
                             /\ Turns(p, "confirm", b, proc[p].made)
    BY <1>11 DEF WritesMove
  <2>2. Booked(b)
    BY <1>11, <2>1 DEF WritesMove, FramesOK, At, Booked
  <2> QED BY <1>0, <1>11, <2>1, <2>2, UidsTurn DEF WritesMove
<1>12. CASE Confirms(p) \/ Withdraws(p)
  <2>1. /\ Booked(proc[p].bk) /\ RowSame /\ UNCHANGED minted
        /\ \E l : \/ Turns(p, l, NoBooking, 0) \/ Turns(p, l, proc[p].bk, proc[p].made)
        /\ \/ invite' = invite
           \/ Mailed("request", proc[p].bk) \/ Mailed("cancel", proc[p].bk)
    BY <1>12 DEF Confirms, Withdraws, FramesOK, At
  <2>2. ASSUME NEW u \in Uid, u > minted PROVE invite'[u] = invite[u]
    <3>1. u # proc[p].bk.uid
      BY <1>0, <2>2, BookingTypes DEF Uid
    <3>2. Mailed("request", proc[p].bk) => invite'[u] = invite[u]
      BY <2>1, <3>1, MailedTypes
    <3>3. Mailed("cancel", proc[p].bk) => invite'[u] = invite[u]
      BY <2>1, <3>1, MailedTypes
    <3> QED BY <2>1, <3>2, <3>3
  <2>3. \A u \in Uid : u > minted' => invite'[u].kind = "none"
    BY <1>0, <2>1, <2>2
  <2>4. ASSUME NEW l, NEW b \in {NoBooking, proc[p].bk}, NEW m, Turns(p, l, b, m)
        PROVE  UidsOK'
    <3>1. Booked(row.booking)
      BY <1>0, <2>1 DEF Booked
    <3>2. b \in Booking /\ b.uid <= minted /\ RowHas(row.booking, row.meeting)
      BY <1>0, <2>1, <2>4 DEF RowSame
    <3> QED BY <1>0, <2>1, <2>3, <2>4, <3>1, <3>2, UidsTurn
  <2> QED BY <2>1, <2>4
<1>13. CASE Cancels(p)
  <2>1. PICK b \in Booking :
          /\ b.uid = row.booking.uid /\ RowHas(b, row.meeting)
          /\ Turns(p, IF b.meeting # 0 THEN "deleteMeeting" ELSE "withdraw", b, proc[p].made)
    BY <1>13 DEF Cancels
  <2>2. Booked(b)
    BY <1>13, <2>1 DEF Cancels, Cancellable, Booked
  <2> QED BY <1>0, <1>13, <2>1, <2>2, UidsTurn DEF Cancels
<1>14. CASE Deletes(p)
  BY <1>1, <1>14 DEF Deletes
<1>15. CASE Settles(p)
  BY <1>1, <1>15 DEF Settles
<1> QED BY <1>2, <1>3, <1>4, <1>5, <1>6, <1>7, <1>8, <1>9, <1>10, <1>11, <1>12,
           <1>13, <1>14, <1>15 DEF Does

\* Without overlap whoever steps is the only one there.
LEMMA Alone ==
  ASSUME TypeOK, BusyOK, NEW p \in Procs, Does(p), overlaps' = 0
  PROVE  /\ overlaps = 0 /\ \A q \in Procs : q # p => At(q, "idle")
         /\ \A q \in Procs : q # p => proc'[q] = proc[q]
<1>1. \A q \in Procs : q # p => proc'[q] = proc[q]
  BY DEF Does, Begins, Passes, Stumbles, StartsBook, OpensRoom, OpensNone, Books, Reads,
     MovesRoom, WritesMove, Confirms, Cancels, Deletes, Withdraws, Settles, Goes, Turns
<1>2. overlaps \in Nat
  BY DEF TypeOK
<1>3. CASE Begins(p)
  BY <1>1, <1>2, <1>3 DEF Begins, Arrive
<1>4. CASE ~Begins(p)
  <2>1. p \in Busy /\ overlaps = 0
    BY <1>4 DEF Does, Passes, Stumbles, StartsBook, OpensRoom, OpensNone, Books, Reads,
        MovesRoom, WritesMove, Confirms, Cancels, Deletes, Withdraws, Settles, Holds,
        NoArrival, Busy, At, Plain
  <2>2. ASSUME NEW q \in Procs, q # p, ~At(q, "idle") PROVE FALSE
    <3>1. q \in Busy
      BY <2>2 DEF Busy
    <3> QED BY <2>1, <2>2, <3>1, CountedElements DEF BusyOK
  <2> QED BY <1>1, <2>1, <2>2
<1> QED BY <1>3, <1>4

\* Alone, the handler that goes on and the row are all there is to look at.
LEMMA InvitesTurn ==
  ASSUME NEW p \in Procs, NEW l, NEW b, NEW m, Turns(p, l, b, m),
         \A q \in Procs : q # p => At(q, "idle"), NEW r, NEW n, RowHas(r, n),
         Booked(r) => invite'[r.uid].kind = "none" \/ invite'[r.uid].seq <= r.seq,
         l \in {"patchMeeting", "move", "confirm", "deleteMeeting", "withdraw"} => b = r,
         l \in {"confirm", "deleteMeeting", "withdraw"} =>
            invite'[b.uid].kind = "none" \/ invite'[b.uid].seq < b.seq
  PROVE  InvitesOK'
<1>1. /\ \A q \in Procs : q # p => proc'[q].pc = "idle"
      /\ proc'[p].pc = l /\ proc'[p].bk = b /\ row'.booking = r
  BY DEF Turns, RowHas, At
<1> QED BY <1>1 DEF InvitesOK

\* Alone, a handler reads the row it writes, and mails what it wrote.
LEMMA InvitesStep ==
  ASSUME TypeOK, FramesOK, UidsOK, BusyOK, InvitesOK, NEW p \in Procs, Does(p)
  PROVE  InvitesOK'
<1> USE FrameTypes, IdleType DEF Goes, Holds, At
<1> SUFFICES ASSUME overlaps' = 0 PROVE InvitesOK'
  BY DEF InvitesOK
<1>1. overlaps = 0 /\ \A q \in Procs : q # p => At(q, "idle")
  BY Alone
<1>2. /\ Booked(row.booking) =>
            \/ invite[row.booking.uid].kind = "none"
            \/ invite[row.booking.uid].seq <= row.booking.seq
      /\ proc[p].pc \in {"patchMeeting", "move", "confirm", "deleteMeeting", "withdraw"}
            => proc[p].bk = row.booking
      /\ proc[p].pc \in {"confirm", "deleteMeeting", "withdraw"} =>
            \/ invite[proc[p].bk.uid].kind = "none"
            \/ invite[proc[p].bk.uid].seq < proc[p].bk.seq
  BY <1>1 DEF InvitesOK
<1>3. \A u \in Uid : invite[u].seq \in Nat
  BY DEF TypeOK
<1>4. ASSUME NEW l \in Plain \cup {"idle", "createMeeting", "book", "settle"}, NEW b, NEW m,
             Turns(p, l, b, m), RowSame, UNCHANGED invite
      PROVE  InvitesOK'
  BY <1>1, <1>2, <1>4, InvitesTurn DEF RowSame, Plain
<1>5. CASE Begins(p)
  BY <1>4, <1>5 DEF Begins, Quiet
<1>6. CASE Passes(p)
  BY <1>4, <1>6 DEF Passes, Quiet
<1>7. CASE Stumbles(p)
  BY <1>4, <1>7 DEF Stumbles, Quiet
<1>8. CASE StartsBook(p)
  BY <1>4, <1>8 DEF StartsBook, Quiet
<1>9. CASE OpensRoom(p)
  BY <1>4, <1>9 DEF OpensRoom
<1>10. CASE OpensNone(p)
  BY <1>4, <1>10 DEF OpensNone, Quiet
<1>11. CASE Books(p)
  <2>1. PICK b \in Booking :
          /\ b.uid = minted + 1 /\ Turns(p, "confirm", b, proc[p].made)
          /\ RowHas(b, IF b.meeting # 0 THEN b.meeting ELSE row.meeting)
    BY <1>11 DEF Books
  <2>2. minted \in Nat /\ b.uid \in Uid
    BY <2>1, BookingTypes DEF TypeOK
  <2>3. invite'[b.uid].kind = "none"
    BY <1>11, <2>1, <2>2 DEF Books, UidsOK
  <2> QED BY <1>1, <2>1, <2>3, InvitesTurn
<1>12. CASE Reads(p)
  <2>1. PICK l \in {"patchMeeting", "move"} : Turns(p, l, row.booking, proc[p].made)
    BY <1>12 DEF Reads
  <2> QED BY <1>1, <1>2, <1>12, <2>1, InvitesTurn DEF Reads, Quiet, RowSame
<1>13. CASE MovesRoom(p)
  BY <1>1, <1>2, <1>13, InvitesTurn DEF MovesRoom, RowSame
<1>14. CASE WritesMove(p)
  <2>1. PICK b \in Booking :
          /\ b.uid = proc[p].bk.uid /\ b.seq = proc[p].bk.seq + 1
          /\ Turns(p, "confirm", b, proc[p].made) /\ RowHas(b, row.meeting)
    BY <1>14 DEF WritesMove
  <2>2. /\ proc[p].bk = row.booking /\ Booked(row.booking) /\ invite' = invite
    BY <1>2, <1>14 DEF WritesMove, FramesOK
  <2>3. row.booking.uid \in Uid /\ row.booking.seq \in Nat
    BY <2>2, BookingTypes DEF Booked
  <2>4. invite'[b.uid].kind = "none" \/ invite'[b.uid].seq < b.seq
    BY <1>2, <1>3, <2>1, <2>2, <2>3
  <2>5. b.seq \in Nat /\ invite'[b.uid].seq \in Nat
    BY <1>3, <2>1, <2>2, <2>3
  <2> QED BY <1>1, <2>1, <2>4, <2>5, InvitesTurn
<1>15. CASE Confirms(p) \/ Withdraws(p)
  <2>1. /\ Booked(proc[p].bk) /\ RowSame /\ proc[p].bk = row.booking
        /\ Turns(p, "idle", NoBooking, 0) \/ Turns(p, "settle", proc[p].bk, proc[p].made)
        /\ \/ invite' = invite
           \/ Mailed("request", proc[p].bk) \/ Mailed("cancel", proc[p].bk)
    BY <1>2, <1>15 DEF Confirms, Withdraws, FramesOK
  <2>2. ASSUME NEW k \in {"request", "cancel"}, Mailed(k, row.booking)
        PROVE  \/ invite'[row.booking.uid].kind = "none"
               \/ invite'[row.booking.uid].seq <= row.booking.seq
    <3>1. row.booking.seq \in Nat /\ row.booking.uid \in Uid
      BY <2>1, BookingTypes DEF Booked
    <3>2. \/ invite' = invite
          \/ invite'[row.booking.uid] =
                [kind |-> k, slot |-> row.booking.slot, seq |-> row.booking.seq]
      BY <2>1, <2>2, MailedTypes
    <3> QED BY <1>2, <2>1, <3>1, <3>2
  <2>3. \/ invite'[row.booking.uid].kind = "none"
        \/ invite'[row.booking.uid].seq <= row.booking.seq
    BY <1>2, <2>1, <2>2
  <2> QED BY <1>1, <2>1, <2>3, InvitesTurn DEF RowSame
<1>16. CASE Cancels(p)
  <2>1. PICK b \in Booking :
          /\ b.uid = row.booking.uid /\ b.seq = row.booking.seq + 1 /\ RowHas(b, row.meeting)
          /\ Turns(p, IF b.meeting # 0 THEN "deleteMeeting" ELSE "withdraw", b, proc[p].made)
    BY <1>16 DEF Cancels
  <2>2. Booked(row.booking) /\ invite' = invite
    BY <1>16 DEF Cancels, Cancellable
  <2>3. row.booking.uid \in Uid /\ row.booking.seq \in Nat
    BY <2>2, BookingTypes DEF Booked
  <2>4. invite'[b.uid].kind = "none" \/ invite'[b.uid].seq < b.seq
    BY <1>2, <1>3, <2>1, <2>2, <2>3
  <2>5. b.seq \in Nat /\ invite'[b.uid].seq \in Nat
    BY <1>3, <2>1, <2>2, <2>3
  <2> QED BY <1>1, <2>1, <2>4, <2>5, InvitesTurn
<1>17. CASE Deletes(p)
  BY <1>1, <1>2, <1>17, InvitesTurn DEF Deletes, RowSame
<1>18. CASE Settles(p)
  BY <1>4, <1>18 DEF Settles, Plain
<1> QED BY <1>5, <1>6, <1>7, <1>8, <1>9, <1>10, <1>11, <1>12, <1>13, <1>14, <1>15,
           <1>16, <1>17, <1>18 DEF Does

\* A mail is sent by a handler whose copy outranks what the calendars hold.
LEMMA RisesStep ==
  ASSUME TypeOK, FramesOK, InvitesOK, NEW p \in Procs, Does(p), overlaps = 0,
         NEW u \in Uid, invite'[u] # invite[u], invite[u].kind # "none"
  PROVE  invite'[u].seq > invite[u].seq
<1>1. Confirms(p) \/ Withdraws(p)
  BY DEF Does, Begins, Passes, Stumbles, StartsBook, OpensRoom, OpensNone, Books, Reads,
     MovesRoom, WritesMove, Cancels, Deletes, Settles, Quiet
<1>2. /\ proc[p].bk \in Booking /\ Booked(proc[p].bk)
      /\ proc[p].pc \in {"confirm", "withdraw"}
      /\ invite' = invite \/ \E k \in {"request", "cancel"} : Mailed(k, proc[p].bk)
  BY <1>1, FrameTypes DEF Confirms, Withdraws, FramesOK, At
<1>3. PICK k \in {"request", "cancel"} : Mailed(k, proc[p].bk)
  BY <1>2
<1>4. /\ u = proc[p].bk.uid
      /\ invite' # invite => invite'[u] = [kind |-> k, slot |-> proc[p].bk.slot,
                                           seq |-> proc[p].bk.seq]
  BY <1>2, <1>3, MailedTypes
<1>5. invite[u].seq < proc[p].bk.seq
  BY <1>2, <1>4 DEF InvitesOK
<1>6. invite[u].seq \in Nat /\ proc[p].bk.seq \in Nat
  BY <1>2, BookingTypes DEF TypeOK
<1> QED BY <1>4, <1>5, <1>6

\* Alone, a handler's step is judged by the row, Zoom and the calendars it leaves.
LEMMA CalmTurn ==
  ASSUME NEW p \in Procs, NEW l, NEW b, NEW m, Turns(p, l, b, m),
         \A q \in Procs : q # p => At(q, "idle"),
         ~Booked(row.booking)' => OthersQuiet', CallOn' => OthersQuiet',
         CallOn' => InviteSent' \/ l = "confirm",
         CallOn' => MeetingAt(row.booking.slot)' \/ l = "move",
         CallOn' /\ l = "move" => MeetingAt(proc[p].slot)',
         l \in {"createMeeting", "book"} => ~Booked(row.booking)',
         l = "book" /\ m # 0 => zoom'[m] = [st |-> "live", slot |-> proc'[p].slot],
         l \in {"deleteMeeting", "withdraw", "settle"} => row'.booking.cancelled
  PROVE  CalmOK'
<1>1. /\ \A q \in Procs : q # p => proc'[q].pc = "idle"
      /\ proc'[p].pc = l /\ proc'[p].made = m
  BY DEF Turns, At
<1> QED BY <1>1 DEF CalmOK, At

\* Alone and without fault, a handler leaves the call whole, or on its way there.
LEMMA CalmStep ==
  ASSUME TypeOK, FramesOK, UidsOK, BusyOK, InvitesOK, CalmOK, NEW p \in Procs, Does(p)
  PROVE  CalmOK'
<1> USE FrameTypes, IdleType DEF Goes, Holds, At
<1> SUFFICES ASSUME overlaps' = 0, faults' = 0 PROVE CalmOK'
  BY DEF CalmOK
<1>1. overlaps = 0 /\ \A q \in Procs : q # p => At(q, "idle")
  BY Alone
<1>2. faults = 0 /\ ~Fault
  BY DEF Does, Begins, Passes, Stumbles, StartsBook, OpensRoom, OpensNone, Books, Reads,
     MovesRoom, WritesMove, Confirms, Cancels, Deletes, Withdraws, Settles, Fault, NoFault,
     TypeOK
<1>3. /\ ~Booked(row.booking) => OthersQuiet
      /\ CallOn => OthersQuiet
      /\ CallOn => InviteSent \/ proc[p].pc = "confirm"
      /\ CallOn => \/ MeetingAt(row.booking.slot)
                   \/ proc[p].pc = "move" /\ MeetingAt(proc[p].slot)
      /\ proc[p].pc \in {"createMeeting", "book"} => ~Booked(row.booking)
      /\ proc[p].pc = "book" /\ proc[p].made # 0 =>
            zoom[proc[p].made] = [st |-> "live", slot |-> proc[p].slot]
      /\ proc[p].pc = "move" /\ CallOn => MeetingAt(proc[p].slot)
      /\ proc[p].pc \in {"deleteMeeting", "withdraw", "settle"} => row.booking.cancelled
  <2>1. \A q \in Procs : proc[q].pc \in {"confirm", "move"} => q = p
    BY <1>1
  <2> QED BY <1>1, <1>2, <2>1 DEF CalmOK
<1>4. /\ proc[p].pc \in {"patchMeeting", "move", "confirm", "deleteMeeting", "withdraw"}
            => proc[p].bk = row.booking /\ Booked(row.booking)
      /\ proc[p].pc \in {"confirm", "deleteMeeting", "withdraw"} =>
            \/ invite[proc[p].bk.uid].kind = "none"
            \/ invite[proc[p].bk.uid].seq < proc[p].bk.seq
  BY <1>1 DEF InvitesOK, FramesOK
<1>5. RowSame /\ UNCHANGED <<zoom, invite>> =>
         /\ (Booked(row.booking) <=> Booked(row.booking)') /\ row'.booking = row.booking
         /\ (OthersQuiet <=> OthersQuiet') /\ (CallOn <=> CallOn')
         /\ (InviteSent <=> InviteSent')
         /\ (MeetingAt(row.booking.slot) <=> MeetingAt(row.booking.slot)')
  BY DEF RowSame, RowHas, Booked, OthersQuiet, CallOn, InviteSent, MeetingAt
<1>6. ASSUME NEW l \in Plain \cup {"idle"}, NEW b, NEW m, Turns(p, l, b, m),
             proc[p].pc \notin {"confirm", "move"}, RowSame, UNCHANGED <<zoom, invite>>
      PROVE  CalmOK'
  BY <1>1, <1>3, <1>5, <1>6, CalmTurn DEF Plain
<1>7. CASE Begins(p)
  BY <1>6, <1>7 DEF Begins, Quiet
<1>8. CASE Passes(p)
  BY <1>6, <1>8 DEF Passes, Quiet, Plain
<1>9. CASE Stumbles(p)
  BY <1>2, <1>9 DEF Stumbles
<1>10. CASE StartsBook(p)
  BY <1>1, <1>3, <1>5, <1>10, CalmTurn DEF StartsBook, Quiet, CallOn
<1>11. CASE OpensRoom(p)
  <2>1. PICK m \in Meeting :
          /\ zoom' = [zoom EXCEPT ![m] = [st |-> "live", slot |-> proc[p].slot]]
          /\ Turns(p, "book", proc[p].bk, m) /\ proc'[p].slot = proc[p].slot
    BY <1>11 DEF OpensRoom
  <2>2. zoom'[m] = [st |-> "live", slot |-> proc'[p].slot]
    BY <2>1 DEF TypeOK
  <2>3. ~Booked(row.booking)' /\ ~CallOn' /\ OthersQuiet'
    BY <1>3, <1>11 DEF OpensRoom, RowSame, RowHas, Booked, CallOn, OthersQuiet
  <2> QED BY <1>1, <2>1, <2>2, <2>3, CalmTurn
<1>12. CASE OpensNone(p)
  <2>1. proc[p].made = 0
    BY <1>12 DEF OpensNone, FramesOK
  <2> QED BY <1>1, <1>3, <1>5, <1>12, <2>1, CalmTurn DEF OpensNone, Quiet, CallOn
<1>13. CASE Books(p)
  <2>1. PICK b \in Booking :
          /\ b.uid = minted + 1 /\ b.slot = proc[p].slot /\ b.meeting = proc[p].made
          /\ RowHas(b, IF b.meeting # 0 THEN b.meeting ELSE row.meeting)
          /\ Turns(p, "confirm", b, proc[p].made)
    BY <1>13 DEF Books
  <2>2. /\ row'.booking = b /\ UNCHANGED <<zoom, invite>> /\ Booked(b)
        /\ b.meeting # 0 => row'.meeting = b.meeting
    BY <1>13, <2>1 DEF Books, RowHas, Booked, TypeOK
  <2>3. OthersQuiet'
    <3>1. ~Booked(row.booking) /\ OthersQuiet
      BY <1>3, <1>13 DEF Books
    <3> QED BY <2>2, <3>1 DEF OthersQuiet, Booked, Uid
  <2>4. MeetingAt(row.booking.slot)'
    BY <1>3, <1>13, <2>1, <2>2 DEF Books, MeetingAt
  <2> QED BY <1>1, <2>1, <2>2, <2>3, <2>4, CalmTurn DEF Booked
<1>14. CASE Reads(p)
  <2>1. PICK l \in {"patchMeeting", "move"} : /\ Turns(p, l, row.booking, proc[p].made)
                                              /\ l = "move" => row.booking.meeting = 0
    BY <1>14 DEF Reads
  <2>2. l = "move" => MeetingAt(proc[p].slot)'
    BY <1>14, <2>1 DEF Reads, Quiet, RowSame, RowHas, MeetingAt
  <2>3. RowSame /\ UNCHANGED <<zoom, invite>> /\ proc[p].pc = "readMove"
    BY <1>14 DEF Reads, Quiet
  <2> QED BY <1>1, <1>3, <1>5, <2>1, <2>2, <2>3, CalmTurn
<1>15. CASE MovesRoom(p)
  <2>1. /\ Turns(p, "move", proc[p].bk, proc[p].made) /\ proc'[p].slot = proc[p].slot
        /\ row'.booking = row.booking /\ row'.meeting = row.meeting /\ UNCHANGED invite
        /\ proc[p].bk = row.booking /\ Booked(row.booking) /\ row.booking.meeting # 0
        /\ row.booking.meeting \in Meeting /\ proc[p].pc = "patchMeeting"
    BY <1>4, <1>15, BookingTypes DEF MovesRoom, RowSame, RowHas, FramesOK
  <2>2. CallOn => MeetingAt(proc[p].slot)'
    <3> HAVE CallOn
    <3>1. /\ row.meeting = row.booking.meeting
          /\ zoom[row.booking.meeting].st \in {"live", "held"}
      BY <1>3, <2>1 DEF MeetingAt
    <3>2. zoom' = [zoom EXCEPT ![row.booking.meeting].slot = proc[p].slot]
      BY <1>2, <1>15, <2>1, <3>1 DEF MovesRoom
    <3>3. /\ zoom'[row.booking.meeting].slot = proc[p].slot
          /\ zoom'[row.booking.meeting].st = zoom[row.booking.meeting].st
      BY <2>1, <3>2 DEF TypeOK
    <3> QED BY <2>1, <3>1, <3>3 DEF MeetingAt
  <2>3. /\ Booked(row.booking)' /\ (CallOn <=> CallOn') /\ (OthersQuiet <=> OthersQuiet')
        /\ InviteSent <=> InviteSent'
    BY <2>1 DEF Booked, CallOn, OthersQuiet, InviteSent
  <2> QED BY <1>1, <1>3, <2>1, <2>2, <2>3, CalmTurn
<1>16. CASE WritesMove(p)
  <2>1. PICK b \in Booking :
          /\ b.uid = proc[p].bk.uid /\ b.slot = proc[p].slot /\ RowHas(b, row.meeting)
          /\ b.meeting = proc[p].bk.meeting /\ b.cancelled = proc[p].bk.cancelled
          /\ Turns(p, "confirm", b, proc[p].made)
    BY <1>16 DEF WritesMove
  <2>2. /\ row'.booking = b /\ row'.meeting = row.meeting /\ UNCHANGED <<zoom, invite>>
        /\ proc[p].bk = row.booking /\ Booked(row.booking) /\ proc[p].pc = "move"
    BY <1>4, <1>16, <2>1 DEF WritesMove, RowHas
  <2>3. Booked(row.booking)' /\ (CallOn <=> CallOn') /\ (OthersQuiet <=> OthersQuiet')
    BY <2>1, <2>2 DEF Booked, CallOn, OthersQuiet
  <2>4. CallOn => MeetingAt(row.booking.slot)'
    <3> HAVE CallOn
    <3>1. MeetingAt(proc[p].slot)
      BY <1>3, <2>2
    <3> QED BY <2>1, <2>2, <3>1 DEF MeetingAt
  <2> QED BY <1>1, <1>3, <2>1, <2>2, <2>3, <2>4, CalmTurn
<1>17. CASE Confirms(p)
  <2>1. /\ Turns(p, "idle", NoBooking, 0) /\ Mailed("request", row.booking)
        /\ row'.booking = row.booking /\ row'.meeting = row.meeting /\ UNCHANGED zoom
        /\ proc[p].bk = row.booking /\ Booked(row.booking) /\ proc[p].pc = "confirm"
    BY <1>4, <1>17 DEF Confirms, RowSame, RowHas
  <2>2. /\ row.booking.uid \in Uid /\ row.booking.seq \in Nat
        /\ invite[row.booking.uid].seq \in Nat
    BY <2>1, BookingTypes DEF Booked, TypeOK
  <2>3. /\ \A u \in Uid : u # row.booking.uid => invite'[u] = invite[u]
        /\ invite'[row.booking.uid] =
              [kind |-> "request", slot |-> row.booking.slot, seq |-> row.booking.seq]
    <3>1. ~(invite[row.booking.uid].kind # "none"
            /\ invite[row.booking.uid].seq > row.booking.seq)
      BY <1>4, <2>1, <2>2
    <3> QED BY <2>1, <3>1, MailedTypes
  <2>4. /\ Booked(row.booking)' /\ (CallOn <=> CallOn') /\ (OthersQuiet <=> OthersQuiet')
        /\ InviteSent' /\ (MeetingAt(row.booking.slot) <=> MeetingAt(row.booking.slot)')
    BY <2>1, <2>3 DEF Booked, CallOn, OthersQuiet, InviteSent, MeetingAt
  <2> QED BY <1>1, <1>3, <2>1, <2>4, CalmTurn
<1>18. CASE Cancels(p)
  <2>1. PICK b \in Booking :
          /\ b.uid = row.booking.uid /\ b.cancelled /\ RowHas(b, row.meeting)
          /\ Turns(p, IF b.meeting # 0 THEN "deleteMeeting" ELSE "withdraw", b, proc[p].made)
    BY <1>18 DEF Cancels
  <2>2. Booked(row.booking)' /\ ~CallOn' /\ row'.booking.cancelled
    BY <1>18, <2>1 DEF Cancels, Cancellable, Booked, CallOn, RowHas
  <2> QED BY <1>1, <2>1, <2>2, CalmTurn
<1>19. CASE Deletes(p) \/ Withdraws(p)
  <2>1. /\ RowSame /\ proc[p].pc \in {"deleteMeeting", "withdraw"}
        /\ \/ Turns(p, "withdraw", proc[p].bk, proc[p].made)
           \/ Turns(p, "settle", proc[p].bk, proc[p].made)
    BY <1>19 DEF Deletes, Withdraws
  <2>2. Booked(row.booking)' /\ ~CallOn' /\ row'.booking.cancelled
    BY <1>3, <1>4, <2>1 DEF Booked, CallOn, RowSame, RowHas
  <2> QED BY <1>1, <2>1, <2>2, CalmTurn
<1>20. CASE Settles(p)
  BY <1>6, <1>20 DEF Settles, Plain
<1> QED BY <1>7, <1>8, <1>9, <1>10, <1>11, <1>12, <1>13, <1>14, <1>15, <1>16, <1>17,
           <1>18, <1>19, <1>20 DEF Does

-----------------------------------------------------------------------------
(* Rooms at Zoom.                                                          *)

\* Sets of rooms and of handlers on the way to one are finite; a handler that
\* is in neither of the two is one more.
LEMMA RoomsFinite ==
  ASSUME TypeOK, BusyOK
  PROVE  /\ IsFiniteSet(Used) /\ IsFiniteSet(Creating) /\ IsFiniteSet(Carrying)
         /\ Cardinality(Used) \in Nat /\ Cardinality(Creating) \in Nat
         /\ Cardinality(Carrying) \in Nat /\ overlaps \in Nat /\ faults \in Nat
         /\ Cardinality(Creating) + Cardinality(Carrying) <= 1 + overlaps
         /\ \A p \in Busy : p \notin Creating /\ p \notin Carrying =>
               Cardinality(Creating) + Cardinality(Carrying) <= overlaps
<1>1. IsFiniteSet(Meeting)
  BY FS_Interval, BoundsAssumption DEF Meeting
<1>2. Used \subseteq Meeting
  BY DEF Used
<1>3. IsFiniteSet(Used)
  BY <1>1, <1>2, FS_Subset
<1> DEFINE C == Creating \cup Carrying
<1>4. /\ C \subseteq Busy /\ Creating \subseteq Busy /\ Carrying \subseteq Busy
      /\ Creating \cap Carrying = {}
  BY DEF Creating, Carrying, Busy, At
<1>5. /\ IsFiniteSet(Busy) /\ IsFiniteSet(C) /\ IsFiniteSet(Creating) /\ IsFiniteSet(Carrying)
      /\ Cardinality(C) <= Cardinality(Busy)
      /\ Cardinality(Busy) = Cardinality(C) => Busy = C
  BY <1>4, FS_Subset DEF BusyOK
<1>6. /\ Cardinality(Used) \in Nat /\ Cardinality(Creating) \in Nat
      /\ Cardinality(Carrying) \in Nat /\ Cardinality(Busy) \in Nat /\ Cardinality(C) \in Nat
      /\ overlaps \in Nat /\ faults \in Nat
  BY <1>3, <1>5, FS_CardinalityType DEF TypeOK
<1>7. Cardinality(C) = Cardinality(Creating) + Cardinality(Carrying)
  <2>1. Cardinality(C) = Cardinality(Creating) + Cardinality(Carrying)
                            - Cardinality(Creating \cap Carrying)
    BY <1>5, FS_Union
  <2>2. Cardinality(Creating \cap Carrying) = 0
    BY <1>4, FS_EmptySet
  <2> HIDE DEF C
  <2> QED BY <1>6, <2>1, <2>2
<1>8. \A p \in Busy : p \notin Creating /\ p \notin Carrying => Busy # C
  OBVIOUS
<1> HIDE DEF C
<1>9. Cardinality(Busy) <= 1 + overlaps
  BY DEF BusyOK
<1> QED BY <1>3, <1>5, <1>6, <1>7, <1>8, <1>9

\* How the sets on the way to a room are counted when a handler steps.
LEMMA RoomsCounted ==
  ASSUME TypeOK, BusyOK, NEW p \in Procs, NEW l, NEW b, NEW m, Turns(p, l, b, m)
  PROVE  /\ Cardinality(Creating)' \in Nat /\ Cardinality(Carrying)' \in Nat
         /\ p \in Creating <=> proc[p].pc = "createMeeting"
         /\ p \in Carrying <=> proc[p].pc = "book" /\ proc[p].made # 0
         /\ l # "createMeeting" \/ p \in Creating =>
               Cardinality(Creating)' <= Cardinality(Creating)
         /\ l # "createMeeting" /\ p \in Creating =>
               Cardinality(Creating)' = Cardinality(Creating) - 1
         /\ Cardinality(Carrying)' >= Cardinality(Carrying) - 1
         /\ p \notin Carrying => Cardinality(Carrying)' >= Cardinality(Carrying)
         /\ p \notin Carrying /\ l = "book" /\ m # 0 =>
               Cardinality(Carrying)' = Cardinality(Carrying) + 1
<1>1. /\ Creating' \ {p} = Creating \ {p} /\ (p \in Creating' <=> l = "createMeeting")
      /\ Carrying' \ {p} = Carrying \ {p} /\ (p \in Carrying' <=> l = "book" /\ m # 0)
  BY SetsTurn
<1>2. IsFiniteSet(Creating) /\ IsFiniteSet(Carrying)
  BY RoomsFinite
<1>3. /\ Cardinality(Creating) \in Nat /\ Cardinality(Creating') \in Nat
      /\ p \in Creating /\ p \notin Creating' => Cardinality(Creating') = Cardinality(Creating) - 1
      /\ (p \in Creating <=> p \in Creating') => Creating' = Creating
  BY <1>1, <1>2, Counted
<1>4. /\ Cardinality(Carrying) \in Nat /\ Cardinality(Carrying') \in Nat
      /\ p \in Carrying /\ p \notin Carrying' => Cardinality(Carrying') = Cardinality(Carrying) - 1
      /\ p \notin Carrying /\ p \in Carrying' => Cardinality(Carrying') = Cardinality(Carrying) + 1
      /\ (p \in Carrying <=> p \in Carrying') => Carrying' = Carrying
  BY <1>1, <1>2, Counted
<1>5. /\ p \in Creating <=> proc[p].pc = "createMeeting"
      /\ p \in Carrying <=> proc[p].pc = "book" /\ proc[p].made # 0
  BY DEF Creating, Carrying, At
<1> QED BY <1>1, <1>3, <1>4, <1>5

\* Whose copies, and whose row, name rooms that were created.
LEMMA RoomsUsedTurn ==
  ASSUME RoomsUsed, NEW p \in Procs, NEW l, NEW b, NEW m, Turns(p, l, b, m),
         NEW r, NEW n, RowHas(r, n), Used \subseteq Used',
         r.meeting # 0 => r.meeting \in Used', b.meeting # 0 => b.meeting \in Used',
         m # 0 => m \in Used'
  PROVE  RoomsUsed'
<1>1. /\ \A q \in Procs : q # p => proc'[q] = proc[q]
      /\ proc'[p].bk = b /\ proc'[p].made = m /\ row'.booking = r
  BY DEF Turns, RowHas
<1> QED BY <1>1 DEF RoomsUsed

\* Meetings are recorded only once they are made.
LEMMA RoomsUsedStep ==
  ASSUME TypeOK, FramesOK, RoomsUsed, NEW p \in Procs, Does(p)
  PROVE  RoomsUsed'
<1> USE FrameTypes DEF Goes, Holds
<1>0. /\ NoBooking.meeting = 0
      /\ row.booking.meeting # 0 => row.booking.meeting \in Used
      /\ proc[p].bk.meeting # 0 => proc[p].bk.meeting \in Used
      /\ proc[p].made # 0 => proc[p].made \in Used
  BY DEF RoomsUsed, NoBooking
<1>1. ASSUME NEW l, NEW b, b \in {NoBooking, proc[p].bk, row.booking},
             NEW m, m \in {0, proc[p].made},
             Turns(p, l, b, m), RowSame, Used \subseteq Used'
      PROVE  RoomsUsed'
  <2>1. b.meeting # 0 => b.meeting \in Used'
    BY <1>0, <1>1
  <2>2. m # 0 => m \in Used'
    BY <1>0, <1>1
  <2> QED BY <1>0, <1>1, <2>1, <2>2, RoomsUsedTurn DEF RowSame
<1>2. UNCHANGED zoom => Used' = Used
  BY DEF Used
<1>3. CASE Begins(p)
  BY <1>1, <1>2, <1>3 DEF Begins, Quiet
<1>4. CASE Passes(p)
  BY <1>1, <1>2, <1>4 DEF Passes, Quiet
<1>5. CASE Stumbles(p)
  BY <1>1, <1>2, <1>5 DEF Stumbles, Quiet
<1>6. CASE StartsBook(p)
  BY <1>1, <1>2, <1>6 DEF StartsBook, Quiet
<1>7. CASE OpensRoom(p)
  <2>1. PICK m \in Meeting :
          /\ zoom' = [zoom EXCEPT ![m] = [st |-> "live", slot |-> proc[p].slot]]
          /\ Turns(p, "book", proc[p].bk, m)
    BY <1>7 DEF OpensRoom
  <2>2. m \in Used' /\ Used \subseteq Used'
    BY <2>1 DEF Used, TypeOK
  <2> QED BY <1>0, <1>7, <2>1, <2>2, RoomsUsedTurn DEF OpensRoom, RowSame
<1>8. CASE OpensNone(p)
  BY <1>1, <1>2, <1>8 DEF OpensNone, Quiet
<1>9. CASE Books(p)
  <2>1. PICK b \in Booking :
          /\ b.meeting = proc[p].made /\ Turns(p, "confirm", b, proc[p].made)
          /\ RowHas(b, IF b.meeting # 0 THEN b.meeting ELSE row.meeting)
    BY <1>9 DEF Books
  <2>2. Used' = Used
    BY <1>2, <1>9 DEF Books
  <2> QED BY <1>0, <2>1, <2>2, RoomsUsedTurn
<1>10. CASE Reads(p)
  BY <1>1, <1>2, <1>10 DEF Reads, Quiet
<1>11. CASE MovesRoom(p)
  <2>1. Used' = Used
    BY <1>11 DEF MovesRoom, Used, TypeOK
  <2> QED BY <1>1, <1>11, <2>1 DEF MovesRoom
<1>12. CASE WritesMove(p)
  <2>1. PICK b \in Booking :
          /\ b.meeting = proc[p].bk.meeting /\ Turns(p, "confirm", b, proc[p].made)
          /\ RowHas(b, row.meeting)
    BY <1>12 DEF WritesMove
  <2>2. Used' = Used
    BY <1>2, <1>12 DEF WritesMove
  <2> QED BY <1>0, <2>1, <2>2, RoomsUsedTurn
<1>13. CASE Confirms(p)
  BY <1>1, <1>2, <1>13 DEF Confirms
<1>14. CASE Cancels(p)
  <2>1. PICK b \in Booking :
          /\ b.meeting = row.booking.meeting /\ RowHas(b, row.meeting)
          /\ Turns(p, IF b.meeting # 0 THEN "deleteMeeting" ELSE "withdraw", b, proc[p].made)
    BY <1>14 DEF Cancels
  <2>2. Used' = Used
    BY <1>2, <1>14 DEF Cancels
  <2> QED BY <1>0, <2>1, <2>2, RoomsUsedTurn
<1>15. CASE Deletes(p)
  <2>1. Used \subseteq Used'
    BY <1>15 DEF Deletes, Used, TypeOK
  <2> QED BY <1>1, <1>15, <2>1 DEF Deletes
<1>16. CASE Withdraws(p)
  BY <1>1, <1>2, <1>16 DEF Withdraws
<1>17. CASE Settles(p)
  BY <1>1, <1>2, <1>17 DEF Settles
<1> QED BY <1>3, <1>4, <1>5, <1>6, <1>7, <1>8, <1>9, <1>10, <1>11, <1>12, <1>13,
           <1>14, <1>15, <1>16, <1>17 DEF Does

\* No step makes an excuse out of nothing: a booking without a meeting ...
LEMMA RoomlessTurn ==
  ASSUME NEW p \in Procs, NEW l, NEW b, NEW m, Turns(p, l, b, m), NEW r, NEW n, RowHas(r, n),
         Booked(r) /\ r.meeting = 0 => Roomless,
         Booked(b) /\ b.meeting = 0 => Roomless,
         l = "book" /\ m = 0 => Roomless,
         Roomless'
  PROVE  Roomless
<1>1. /\ \A q \in Procs : q # p => proc'[q] = proc[q]
      /\ proc'[p].pc = l /\ proc'[p].bk = b /\ proc'[p].made = m /\ row'.booking = r
  BY DEF Turns, RowHas
<1> QED BY <1>1 DEF Roomless, At, Booked

\* ... or a cancelled one with a meeting that nobody deletes.
LEMMA UndeletedTurn ==
  ASSUME NEW p \in Procs, NEW l, NEW b, NEW m, Turns(p, l, b, m), NEW r, NEW n, RowHas(r, n),
         \A x \in Meeting : Live(x)' /\ Condemned(x) => Live(x),
         r.cancelled /\ r.meeting # 0 =>
            Condemned(r.meeting) \/ (l = "deleteMeeting" /\ b.meeting = r.meeting),
         b.cancelled /\ b.meeting # 0 => Condemned(b.meeting) \/ l = "deleteMeeting",
         At(p, "deleteMeeting") => zoom'[proc[p].bk.meeting].st # "live",
         Undeleted'
  PROVE  Undeleted
<1>1. /\ \A q \in Procs : q # p => proc'[q] = proc[q]
      /\ proc'[p].pc = l /\ proc'[p].bk = b /\ row'.booking = r
  BY DEF Turns, RowHas
<1>2. PICK x \in Meeting :
        /\ Live(x)' /\ Condemned(x)'
        /\ ~\E q \in Procs : proc'[q].pc = "deleteMeeting" /\ proc'[q].bk.meeting = x
  BY DEF Undeleted, At
<1>3. x # 0
  BY DEF Meeting
<1>4. Condemned(x)
  <2>1. \/ r.cancelled /\ r.meeting = x
        \/ b.cancelled /\ b.meeting = x
        \/ \E q \in Procs : q # p /\ proc[q].bk.cancelled /\ proc[q].bk.meeting = x
    BY <1>1, <1>2 DEF Condemned
  <2>2. l = "deleteMeeting" => b.meeting # x
    BY <1>1, <1>2
  <2> QED BY <1>3, <2>1, <2>2 DEF Condemned
<1>5. Live(x)
  BY <1>2, <1>4
<1>6. ASSUME NEW q \in Procs, At(q, "deleteMeeting"), proc[q].bk.meeting = x
      PROVE  FALSE
  <2>1. q # p
    BY <1>2, <1>6 DEF Live
  <2> QED BY <1>1, <1>2, <1>6, <2>1 DEF At
<1> QED BY <1>4, <1>5, <1>6 DEF Undeleted

\* Once a call is booked, rooms need no more excuses than before, unless a
\* fault is one.
LEMMA RoomsBooked ==
  ASSUME TypeOK, BusyOK, RoomsOK, Booked(row.booking), Booked(row.booking)',
         Used' = Used, Cardinality(Creating)' \in Nat,
         Cardinality(Creating)' <= Cardinality(Creating),
         overlaps' \in Nat, overlaps' >= overlaps,
         \/ faults' = faults + 1
         \/ faults' = faults /\ (Roomless' => Roomless) /\ (Undeleted' => Undeleted)
  PROVE  RoomsOK'
<1>1. Cardinality(Used)' = Cardinality(Used)
  OBVIOUS
<1> QED BY <1>1, RoomsFinite DEF RoomsOK

\* Steps that leave the row and what Zoom has live.
LEMMA RoomsTurn ==
  ASSUME TypeOK, BusyOK, RoomsOK, NEW p \in Procs, NEW l, NEW b, NEW m, Turns(p, l, b, m),
         b \in {NoBooking, row.booking, proc[p].bk}, RowSame,
         Used' = Used, \A x \in Meeting : Live(x)' => Live(x),
         NoArrival \/ Arrive, Fault \/ NoFault,
         At(p, "book") => Fault, l # "book",
         l = "createMeeting" => ~Booked(row.booking),
         At(p, "deleteMeeting") /\ ~Fault => zoom'[proc[p].bk.meeting].st # "live"
  PROVE  RoomsOK'
<1>1. /\ faults' = faults + 1 \/ (faults' = faults /\ ~Fault)
      /\ overlaps' \in Nat /\ overlaps' >= overlaps
      /\ Cardinality(Used)' = Cardinality(Used) /\ row'.booking = row.booking
  <2>1. faults \in Nat /\ overlaps \in Nat
    BY RoomsFinite
  <2>2. faults' = faults + 1 \/ (faults' = faults /\ ~Fault)
    BY <2>1 DEF Fault, NoFault
  <2>3. overlaps' \in Nat /\ overlaps' >= overlaps
    BY <2>1 DEF NoArrival, Arrive
  <2> QED BY <2>2, <2>3 DEF RowSame, RowHas
<1>2. CASE ~Booked(row.booking)
  <2>1. \/ Cardinality(Carrying)' >= Cardinality(Carrying)
        \/ faults' = faults + 1 /\ Cardinality(Carrying)' >= Cardinality(Carrying) - 1
    BY <1>1, RoomsCounted DEF At
  <2>2. ~Booked(row.booking)'
    BY <1>1, <1>2 DEF Booked
  <2>3. Cardinality(Carrying)' \in Nat
    BY RoomsCounted
  <2>4. Cardinality(Used) <= faults + Cardinality(Carrying)
    BY <1>2 DEF RoomsOK
  <2>5. Cardinality(Used)' <= faults' + Cardinality(Carrying)'
    BY <1>1, <2>1, <2>3, <2>4, RoomsFinite
  <2> QED BY <2>2, <2>5 DEF RoomsOK
<1>3. CASE Booked(row.booking)
  <2>1. Booked(row.booking)'
    BY <1>1, <1>3 DEF Booked
  <2>2. Cardinality(Creating)' \in Nat /\ Cardinality(Creating)' <= Cardinality(Creating)
    BY <1>3, RoomsCounted
  <2>3. ASSUME faults' = faults, ~Fault
        PROVE  (Roomless' => Roomless) /\ (Undeleted' => Undeleted)
    <3>1. ~Booked(NoBooking) /\ ~NoBooking.cancelled
      BY DEF NoBooking, Booked
    <3>2. /\ Booked(row.booking) /\ row.booking.meeting = 0 => Roomless
          /\ Booked(proc[p].bk) /\ proc[p].bk.meeting = 0 => Roomless
          /\ row.booking.cancelled => Condemned(row.booking.meeting)
          /\ proc[p].bk.cancelled => Condemned(proc[p].bk.meeting)
      BY DEF Roomless, Condemned
    <3>3. RowHas(row.booking, row.meeting)
      BY DEF RowSame
    <3>4. Booked(b) /\ b.meeting = 0 => Roomless
      BY <3>1, <3>2
    <3>5. b.cancelled => Condemned(b.meeting)
      BY <3>1, <3>2
    <3>6. Roomless' => Roomless
      BY <3>2, <3>3, <3>4, RoomlessTurn
    <3>7. Undeleted' => Undeleted
      BY <2>3, <3>2, <3>3, <3>5, UndeletedTurn
    <3> QED BY <3>6, <3>7
  <2> QED BY <1>1, <1>3, <2>1, <2>2, <2>3, RoomsBooked
<1> QED BY <1>2, <1>3

\* A handler that makes one room more has its excuse already.
LEMMA RoomsStep ==
  ASSUME TypeOK, FramesOK, UidsOK, BusyOK, RoomsUsed, RoomsOK, NEW p \in Procs, Does(p)
  PROVE  RoomsOK'
<1> USE FrameTypes DEF Goes, Holds, At
<1>1. UNCHANGED zoom => Used' = Used /\ \A x \in Meeting : Live(x)' => Live(x)
  BY DEF Used, Live
<1>2. ~Booked(NoBooking) /\ ~NoBooking.cancelled
  BY DEF NoBooking, Booked
<1>3. CASE Begins(p)
  BY <1>1, <1>3, RoomsTurn DEF Begins, Quiet, Plain, NoFault
<1>4. CASE Passes(p)
  BY <1>1, <1>4, RoomsTurn DEF Passes, Quiet, Plain
<1>5. CASE Stumbles(p)
  BY <1>1, <1>5, RoomsTurn DEF Stumbles, Quiet
<1>6. CASE StartsBook(p)
  BY <1>1, <1>6, RoomsTurn DEF StartsBook, Quiet, NoFault
<1>7. CASE OpensRoom(p)
  <2>1. PICK m \in Meeting :
          /\ zoom[m].st = "none" /\ Turns(p, "book", proc[p].bk, m)
          /\ zoom' = [zoom EXCEPT ![m] = [st |-> "live", slot |-> proc[p].slot]]
    BY <1>7 DEF OpensRoom
  <2>2. /\ At(p, "createMeeting") /\ row'.booking = row.booking /\ RowHas(row.booking, row.meeting)
        /\ UNCHANGED <<overlaps, faults>> /\ m # 0
    BY <1>7 DEF OpensRoom, RowSame, RowHas, NoArrival, Meeting
  <2>3. /\ Used' = Used \cup {m} /\ m \notin Used
        /\ \A x \in Meeting : x # m => (Live(x)' <=> Live(x))
    BY <2>1 DEF Used, Live, TypeOK
  <2>4. Cardinality(Used') = Cardinality(Used) + 1
    BY <2>3, RoomsFinite, FS_AddElement
  <2>5. /\ Cardinality(Creating)' = Cardinality(Creating) - 1
        /\ Cardinality(Carrying)' = Cardinality(Carrying) + 1
        /\ Cardinality(Creating)' \in Nat /\ Cardinality(Carrying)' \in Nat
    BY <2>1, <2>2, RoomsCounted
  <2>6. Booked(row.booking) <=> Booked(row.booking)'
    BY <2>2 DEF Booked
  <2>7. Roomless' => Roomless
    <3>1. /\ Booked(row.booking) /\ row.booking.meeting = 0 => Roomless
          /\ Booked(proc[p].bk) /\ proc[p].bk.meeting = 0 => Roomless
      BY DEF Roomless
    <3> QED BY <2>1, <2>2, <3>1, RoomlessTurn
  <2>8. Undeleted' => Undeleted
    <3>1. /\ row.booking.cancelled => Condemned(row.booking.meeting)
          /\ proc[p].bk.cancelled => Condemned(proc[p].bk.meeting)
      BY DEF Condemned
    <3>2. ~Condemned(m)
      BY <2>2, <2>3 DEF RoomsUsed, Condemned
    <3>3. \A x \in Meeting : Live(x)' /\ Condemned(x) => Live(x)
      BY <2>3, <3>2
    <3> QED BY <2>1, <2>2, <3>1, <3>3, UndeletedTurn
  <2>9. Cardinality(Used)' = Cardinality(Used) + 1
    BY <2>4
  <2> QED BY <2>2, <2>5, <2>6, <2>7, <2>8, <2>9, RoomsFinite DEF RoomsOK
<1>8. CASE OpensNone(p)
  <2>1. /\ Turns(p, "book", proc[p].bk, proc[p].made) /\ proc[p].pc = "createMeeting"
        /\ Used' = Used /\ row'.booking = row.booking /\ UNCHANGED <<overlaps, faults>>
    BY <1>1, <1>8 DEF OpensNone, Quiet, RowSame, RowHas, NoArrival
  <2>2. /\ Cardinality(Creating)' = Cardinality(Creating) - 1
        /\ Cardinality(Carrying)' >= Cardinality(Carrying)
        /\ Cardinality(Creating)' \in Nat /\ Cardinality(Carrying)' \in Nat
    BY <2>1, RoomsCounted
  <2>3. Booked(row.booking) <=> Booked(row.booking)'
    BY <2>1 DEF Booked
  <2>4. Cardinality(Used)' = Cardinality(Used)
    BY <2>1
  <2> QED BY <2>1, <2>2, <2>3, <2>4, RoomsFinite DEF RoomsOK
<1>9. CASE Books(p)
  <2>1. PICK b \in Booking :
          /\ b.uid = minted + 1 /\ b.meeting = proc[p].made /\ ~b.cancelled
          /\ RowHas(b, IF b.meeting # 0 THEN b.meeting ELSE row.meeting)
          /\ Turns(p, "confirm", b, proc[p].made)
    BY <1>9 DEF Books
  <2>2. /\ At(p, "book") /\ row'.booking = b /\ Booked(b) /\ UNCHANGED <<overlaps, faults>>
        /\ Used' = Used /\ \A x \in Meeting : Live(x)' => Live(x)
    BY <1>1, <1>9, <2>1 DEF Books, RowHas, Booked, NoArrival, TypeOK
  <2>3. Booked(row.booking)'
    BY <2>2 DEF Booked
  <2>4. /\ Cardinality(Creating)' \in Nat /\ Cardinality(Creating)' <= Cardinality(Creating)
        /\ Cardinality(Used)' = Cardinality(Used)
    BY <2>1, <2>2, RoomsCounted
  <2>5. Roomless' => Roomless
    <3>1. b.meeting = 0 => Roomless
      BY <2>1, <2>2 DEF Roomless
    <3> QED BY <2>1, <3>1, RoomlessTurn
  <2>6. Undeleted' => Undeleted
    BY <2>1, <2>2, UndeletedTurn
  <2>7. CASE Booked(row.booking)
    BY <2>2, <2>3, <2>4, <2>5, <2>6, <2>7, RoomsBooked, RoomsFinite
  <2>8. CASE ~Booked(row.booking)
    <3>1. \A q \in Procs : proc[q].bk = NoBooking
      BY <2>8 DEF UidsOK
    <3>2. ~Undeleted
      BY <1>2, <2>8, <3>1 DEF Undeleted, Condemned, UidsOK
    <3>3. Roomless => \E q \in Busy : q \notin Creating /\ q \notin Carrying
      BY <1>2, <2>8, <3>1 DEF Roomless, Busy, Creating, Carrying
    <3>4. Cardinality(Used) <= faults + Cardinality(Carrying)
      BY <2>8 DEF RoomsOK
    <3> QED BY <2>2, <2>3, <2>4, <2>5, <2>6, <3>2, <3>3, <3>4, RoomsFinite DEF RoomsOK
  <2> QED BY <2>7, <2>8
<1>10. CASE Reads(p)
  BY <1>1, <1>10, RoomsTurn DEF Reads, Quiet, NoFault
<1>11. CASE MovesRoom(p)
  <2>1. Used' = Used /\ \A x \in Meeting : Live(x)' => Live(x)
    <3>1. \A x \in Meeting : zoom'[x].st = zoom[x].st
      BY <1>11 DEF MovesRoom, TypeOK
    <3> QED BY <3>1 DEF Used, Live
  <2> QED BY <1>11, <2>1, RoomsTurn DEF MovesRoom
<1>12. CASE WritesMove(p)
  <2>1. PICK b \in Booking :
          /\ b.uid = proc[p].bk.uid /\ b.meeting = proc[p].bk.meeting
          /\ b.cancelled = proc[p].bk.cancelled
          /\ RowHas(b, row.meeting) /\ Turns(p, "confirm", b, proc[p].made)
    BY <1>12 DEF WritesMove
  <2>2. /\ At(p, "move") /\ row'.booking = b /\ Booked(proc[p].bk) /\ Booked(b)
        /\ UNCHANGED <<overlaps, faults>>
        /\ Used' = Used /\ \A x \in Meeting : Live(x)' => Live(x)
    BY <1>1, <1>12, <2>1 DEF WritesMove, RowHas, Booked, NoArrival, FramesOK
  <2>3. Booked(row.booking) /\ Booked(row.booking)'
    BY <1>2, <2>2 DEF Booked, UidsOK
  <2>4. /\ Cardinality(Creating)' \in Nat /\ Cardinality(Creating)' <= Cardinality(Creating)
    BY <2>1, RoomsCounted
  <2>5. Roomless' => Roomless
    <3>1. b.meeting = 0 => Roomless
      BY <2>1, <2>2 DEF Roomless
    <3> QED BY <2>1, <3>1, RoomlessTurn
  <2>6. Undeleted' => Undeleted
    <3>1. b.cancelled => Condemned(b.meeting)
      BY <2>1 DEF Condemned
    <3> QED BY <2>1, <2>2, <3>1, UndeletedTurn
  <2> QED BY <2>2, <2>3, <2>4, <2>5, <2>6, RoomsBooked, RoomsFinite
<1>13. CASE Confirms(p)
  BY <1>1, <1>13, RoomsTurn DEF Confirms, NoFault
<1>14. CASE Cancels(p)
  <2>1. PICK b \in Booking :
          /\ b.uid = row.booking.uid /\ b.meeting = row.booking.meeting /\ RowHas(b, row.meeting)
          /\ Turns(p, IF b.meeting # 0 THEN "deleteMeeting" ELSE "withdraw", b, proc[p].made)
    BY <1>14 DEF Cancels
  <2>2. /\ At(p, "cancel") /\ row'.booking = b /\ Booked(row.booking)
        /\ UNCHANGED <<overlaps, faults>>
        /\ Used' = Used /\ \A x \in Meeting : Live(x)' => Live(x)
    BY <1>1, <1>14, <2>1 DEF Cancels, Cancellable, RowHas, NoArrival
  <2>3. Booked(row.booking)'
    BY <2>1, <2>2 DEF Booked
  <2>4. PICK l \in {"deleteMeeting", "withdraw"} :
          /\ Turns(p, l, b, proc[p].made)
          /\ b.meeting # 0 => l = "deleteMeeting"
    BY <2>1
  <2>5. /\ Cardinality(Creating)' \in Nat /\ Cardinality(Creating)' <= Cardinality(Creating)
    BY <2>4, RoomsCounted
  <2>6. Roomless' => Roomless
    <3>1. b.meeting = 0 => Roomless
      BY <2>1, <2>2 DEF Roomless
    <3> QED BY <2>1, <2>4, <3>1, RoomlessTurn
  <2>7. Undeleted' => Undeleted
    <3>1. /\ b.cancelled /\ b.meeting # 0 => l = "deleteMeeting"
          /\ ~At(p, "deleteMeeting")
          /\ \A x \in Meeting : Live(x)' /\ Condemned(x) => Live(x)
      BY <2>2, <2>4
    <3> QED BY <2>1, <2>4, <3>1, UndeletedTurn
  <2> QED BY <2>2, <2>3, <2>5, <2>6, <2>7, RoomsBooked, RoomsFinite
<1>15. CASE Deletes(p)
  <2>1. proc[p].bk.meeting \in Meeting
    BY <1>15, BookingTypes DEF Deletes, FramesOK
  <2>2. Used' = Used /\ \A x \in Meeting : Live(x)' => Live(x)
    <3>1. zoom[proc[p].bk.meeting].st # "none"
      <4>1. proc[p].bk.meeting # 0
        BY <2>1 DEF Meeting
      <4>2. proc[p].bk.meeting \in Used
        BY <4>1 DEF RoomsUsed
      <4> QED BY <4>2 DEF Used
    <3>2. zoom \in [Meeting -> [st : {"none", "live", "held", "deleted"}, slot : Slots]]
      BY DEF TypeOK
    <3>3. CASE zoom' = [zoom EXCEPT ![proc[p].bk.meeting].st = "deleted"]
      <4>1. zoom'[proc[p].bk.meeting].st = "deleted"
        BY <2>1, <3>2, <3>3
      <4>2. \A x \in Meeting : x # proc[p].bk.meeting => zoom'[x] = zoom[x]
        BY <3>2, <3>3
      <4> QED BY <3>1, <4>1, <4>2 DEF Used, Live
    <3>4. CASE UNCHANGED zoom
      BY <1>1, <3>4
    <3> QED BY <1>15, <3>3, <3>4 DEF Deletes
  <2>3. ~Fault => zoom'[proc[p].bk.meeting].st # "live"
    BY <1>15, <2>1 DEF Deletes, TypeOK
  <2> QED BY <1>15, <2>2, <2>3, RoomsTurn DEF Deletes
<1>16. CASE Withdraws(p)
  BY <1>1, <1>16, RoomsTurn DEF Withdraws
<1>17. CASE Settles(p)
  BY <1>1, <1>17, RoomsTurn DEF Settles, NoFault
<1> QED BY <1>3, <1>4, <1>5, <1>6, <1>7, <1>8, <1>9, <1>10, <1>11, <1>12, <1>13,
           <1>14, <1>15, <1>16, <1>17 DEF Does

-----------------------------------------------------------------------------
(* Steps beside the handlers, the beginning, and the theorems.             *)

\* Replies, meetings that end and locks that expire disturb no part of it.
LEMMA BesideStep ==
  ASSUME IInv, Aside \/ Held
  PROVE  IInv'
<1> USE DEF IInv
<1>1. /\ proc' = proc /\ minted' = minted /\ invite' = invite /\ cancels' = cancels
      /\ revived' = revived /\ row'.booking = row.booking /\ row'.meeting = row.meeting
      /\ row' \in Row /\ lock' \in BOOLEAN
      /\ (NoArrival \/ Arrive) /\ (Fault \/ NoFault)
  BY DEF Aside, Held, Quiet, RowSame, RowHas, NoFault, TypeOK
<1>2. /\ requests \in Nat /\ overlaps \in Nat /\ faults \in Nat
      /\ requests' \in 0 .. MaxRequests /\ overlaps' \in 0 .. MaxRequests
      /\ faults' \in 0 .. MaxFaults
      /\ requests' \in Nat /\ overlaps' \in Nat /\ faults' \in Nat
      /\ requests' >= requests /\ overlaps' >= overlaps /\ faults' >= faults
      /\ overlaps' <= requests'
  <2>1. requests \in Nat /\ overlaps \in Nat /\ faults \in Nat /\ overlaps <= requests
    BY DEF TypeOK, BusyOK
  <2>2. /\ requests' \in 0 .. MaxRequests /\ overlaps' \in 0 .. MaxRequests
        /\ faults' \in 0 .. MaxFaults
    BY <1>1, CounterTypes DEF NoArrival, TypeOK
  <2>3. requests' >= requests /\ overlaps' >= overlaps /\ overlaps' <= requests'
    BY <1>1, <2>1 DEF NoArrival, Arrive
  <2>4. faults' >= faults
    BY <1>1, <2>1 DEF Fault, NoFault
  <2> QED BY <2>1, <2>2, <2>3, <2>4
<1>3. /\ zoom' \in [Meeting -> [st : {"none", "live", "held", "deleted"}, slot : Slots]]
      /\ Used' = Used /\ \A x \in Meeting : Live(x)' => Live(x)
      /\ zoom' = zoom \/ Held
  <2>1. CASE zoom' = zoom
    BY <2>1 DEF TypeOK, Used, Live
  <2>2. CASE Held
    <3>1. PICK m \in Meeting : zoom[m].st = "live" /\ zoom' = [zoom EXCEPT ![m].st = "held"]
      BY <2>2 DEF Held
    <3>2. zoom \in [Meeting -> [st : {"none", "live", "held", "deleted"}, slot : Slots]]
      BY DEF TypeOK
    <3>3. /\ zoom'[m].st = "held"
          /\ \A x \in Meeting : x # m => zoom'[x] = zoom[x]
          /\ zoom' \in [Meeting -> [st : {"none", "live", "held", "deleted"}, slot : Slots]]
      BY <3>1, <3>2
    <3> QED BY <2>2, <3>1, <3>3 DEF Used, Live
  <2> QED BY <2>1, <2>2 DEF Aside, Quiet
<1>4. TypeOK'
  BY <1>1, <1>2, <1>3 DEF TypeOK, Row
<1>5. FramesOK' /\ UidsOK'
  BY <1>1 DEF FramesOK, UidsOK, At, Booked
<1>6. MintedOK' /\ CancelsOK' /\ BusyOK'
  <2>1. Minting' = Minting /\ Busy' = Busy /\ \A u \in Uid : Settling(u)' = Settling(u)
    BY <1>1 DEF Minting, Busy, Settling, At
  <2>2. /\ Cardinality(Minting) \in Nat /\ Cardinality(Busy) \in Nat /\ minted \in Nat
    BY FS_CardinalityType DEF MintedOK, BusyOK, TypeOK
  <2>3. MintedOK'
    BY <1>1, <1>2, <2>1, <2>2 DEF MintedOK
  <2>4. CancelsOK'
    BY <1>1, <2>1 DEF CancelsOK
  <2>5. BusyOK'
    BY <1>2, <2>1, <2>2 DEF BusyOK
  <2> QED BY <2>3, <2>4, <2>5
<1>7. InvitesOK'
  BY <1>1, <1>2 DEF InvitesOK, Booked
<1>8. CalmOK'
  <2> SUFFICES ASSUME overlaps' = 0, faults' = 0 PROVE CalmOK'
    BY DEF CalmOK
  <2>1. overlaps = 0 /\ faults = 0
    BY <1>2
  <2>2. CASE zoom' = zoom
    BY <1>1, <2>1, <2>2 DEF CalmOK, OthersQuiet, InviteSent, MeetingAt, CallOn, Booked, At
  <2>3. CASE Held
    <3>1. \A q \in Procs : At(q, "idle")
      BY <2>1, <2>3 DEF Held, Arrive
    <3>2. PICK m \in Meeting : zoom[m].st = "live" /\ zoom' = [zoom EXCEPT ![m].st = "held"]
      BY <2>3 DEF Held
    <3>3. zoom \in [Meeting -> [st : {"none", "live", "held", "deleted"}, slot : Slots]]
      BY DEF TypeOK
    <3>4. \A x \in Meeting : /\ zoom'[x].slot = zoom[x].slot
                             /\ zoom[x].st \in {"live", "held"} => zoom'[x].st \in {"live", "held"}
      BY <3>2, <3>3
    <3>5. MeetingAt(row.booking.slot) => MeetingAt(row.booking.slot)'
      BY <1>1, <3>4, FrameTypes, BookingTypes DEF MeetingAt
    <3>6. \A q \in Procs : proc'[q].pc = "idle"
      BY <1>1, <3>1 DEF At
    <3> QED BY <1>1, <2>1, <3>1, <3>5, <3>6 DEF CalmOK, OthersQuiet, InviteSent, CallOn, Booked, At
  <2> QED BY <1>3, <2>2, <2>3
<1>9. RoomsUsed'
  BY <1>1, <1>3 DEF RoomsUsed
<1>10. RoomsOK'
  <2>1. Creating' = Creating /\ Carrying' = Carrying
    BY <1>1 DEF Creating, Carrying, At
  <2>2. Roomless' => Roomless
    BY <1>1 DEF Roomless, At, Booked
  <2>3. Undeleted' => Undeleted
    BY <1>1, <1>3 DEF Undeleted, Condemned, At
  <2>4. /\ Cardinality(Used)' = Cardinality(Used) /\ Cardinality(Creating)' = Cardinality(Creating)
        /\ Cardinality(Carrying)' = Cardinality(Carrying)
        /\ Booked(row.booking) <=> Booked(row.booking)'
    BY <1>1, <1>3, <2>1 DEF Booked
  <2> QED BY <1>2, <2>2, <2>3, <2>4, RoomsFinite DEF RoomsOK
<1> QED BY <1>4, <1>5, <1>6, <1>7, <1>8, <1>9, <1>10

\* Nothing is booked, made or mailed at first.
LEMMA InitIInv ==
  ASSUME Init
  PROVE  IInv
<1>1. /\ Idle.pc = "idle" /\ Idle.bk = NoBooking /\ Idle.made = 0 /\ Idle.slot \in Slots
      /\ NoBooking.uid = 0 /\ NoBooking.meeting = 0 /\ ~NoBooking.cancelled
  BY SlotsAssumption DEF Idle, NoBooking
<1>2. /\ \A p \in Procs : proc[p] = Idle
      /\ row.booking = NoBooking /\ row.meeting = 0 /\ minted = 0 /\ requests = 0
      /\ overlaps = 0 /\ faults = 0 /\ revived = 0
      /\ \A u \in Uid : cancels[u] = 0 /\ invite[u].kind = "none"
      /\ \A m \in Meeting : zoom[m].st = "none"
  BY DEF Init
<1>3. TypeOK
  <2>1. row \in Row
    BY IdleType DEF Init, Row, Status
  <2>2. zoom \in [Meeting -> [st : {"none", "live", "held", "deleted"}, slot : Slots]]
    BY <1>1 DEF Init
  <2>3. invite \in [Uid -> [kind : {"none", "request", "cancel"}, slot : Slots, seq : Nat]]
    BY <1>1 DEF Init
  <2>4. proc \in [Procs -> Frame] /\ lock \in BOOLEAN /\ cancels \in [Uid -> Nat]
    BY IdleType DEF Init
  <2> QED BY <1>1, <1>2, <2>1, <2>2, <2>3, <2>4, BoundsAssumption DEF TypeOK, Row
<1>4. /\ Busy = {} /\ Minting = {} /\ Creating = {} /\ Carrying = {} /\ Used = {}
      /\ \A u \in Uid : Settling(u) = {}
  BY <1>1, <1>2 DEF Busy, Minting, Creating, Carrying, Used, Settling, At
<1>5. IsFiniteSet({}) /\ Cardinality({}) = 0
  BY FS_EmptySet
<1>6. FramesOK /\ UidsOK
  BY <1>1, <1>2 DEF FramesOK, UidsOK, At
<1>7. MintedOK /\ CancelsOK /\ BusyOK
  <2>1. MintedOK /\ BusyOK
    BY <1>2, <1>4, <1>5 DEF MintedOK, BusyOK
  <2>2. CancelsOK
    BY <1>1, <1>2, <1>4, <1>5 DEF CancelsOK
  <2> QED BY <2>1, <2>2
<1>8. InvitesOK /\ CalmOK
  BY <1>1, <1>2 DEF InvitesOK, CalmOK, Booked, CallOn, OthersQuiet, At
<1>9. RoomsUsed
  BY <1>1, <1>2 DEF RoomsUsed
<1>10. RoomsOK
  BY <1>1, <1>2, <1>4, <1>5 DEF RoomsOK, Booked
<1> QED BY <1>3, <1>6, <1>7, <1>8, <1>9, <1>10 DEF IInv

\* The invariant is inductive.
LEMMA StepIInv ==
  ASSUME IInv, [Next]_vars
  PROVE  IInv'
<1>1. ASSUME NEW p \in Procs, Does(p) PROVE IInv'
  <2> USE DEF IInv
  <2>1. FramesOK'
    BY <1>1, FramesStep
  <2>2. TypeOK'
    BY <1>1, <2>1, TypeStep
  <2>3. MintedOK' /\ UidsOK' /\ CancelsOK' /\ BusyOK'
    BY <1>1, MintedStep, UidsStep, CancelsStep, BusyStep
  <2>4. InvitesOK' /\ CalmOK'
    BY <1>1, InvitesStep, CalmStep
  <2>5. RoomsUsed' /\ RoomsOK'
    BY <1>1, RoomsUsedStep, RoomsStep
  <2> QED BY <2>1, <2>2, <2>3, <2>4, <2>5
<1>2. (\E p \in Procs : Does(p)) \/ Aside \/ Held
  BY NextDoes DEF IInv
<1> QED BY <1>1, <1>2, BesideStep

\* What the invariant says of the rooms when nobody is on the way.
LEMMA StrayCounted ==
  ASSUME IInv
  PROVE  StrayMeetings
<1> USE DEF IInv
<1> DEFINE Stray == {m \in Meeting : Live(m) /\ ~(CallOn /\ m = row.booking.meeting)}
<1> SUFFICES ASSUME AtRest PROVE Cardinality(Stray) <= overlaps + faults
  BY DEF StrayMeetings
<1>1. /\ Stray \subseteq Used /\ IsFiniteSet(Used)
      /\ Cardinality(Used) \in Nat /\ overlaps \in Nat /\ faults \in Nat
  BY RoomsFinite DEF Used, Live
<1>2. IsFiniteSet(Stray) /\ Cardinality(Stray) \in Nat /\ Cardinality(Stray) <= Cardinality(Used)
  BY <1>1, FS_Subset, FS_CardinalityType
<1>3. Creating = {} /\ Carrying = {} /\ Cardinality({}) = 0
  BY FS_EmptySet DEF Creating, Carrying, AtRest, At
<1>4. ASSUME NEW m \in Used, m \notin Stray
      PROVE  Cardinality(Stray) <= Cardinality(Used) - 1
  <2>1. Stray \subseteq Used \ {m}
    BY <1>1, <1>4
  <2>2. IsFiniteSet(Used \ {m}) /\ Cardinality(Used \ {m}) = Cardinality(Used) - 1
    BY <1>1, FS_RemoveElement
  <2> HIDE DEF Stray
  <2> QED BY <2>1, <2>2, FS_Subset
<1>5. CASE ~Booked(row.booking)
  <2> HIDE DEF Stray
  <2> QED BY <1>1, <1>2, <1>3, <1>5 DEF RoomsOK
<1>6. CASE Booked(row.booking)
  <2>1. /\ Cardinality(Used) <= 1 + overlaps + faults
        /\ Roomless \/ Undeleted => Cardinality(Used) <= overlaps + faults
    BY <1>1, <1>3, <1>6 DEF RoomsOK
  <2>2. CASE Roomless \/ Undeleted
    <3> HIDE DEF Stray
    <3> QED BY <1>1, <1>2, <2>1, <2>2
  <2>3. CASE ~Roomless /\ ~Undeleted
    <3>1. row.booking.meeting \in Used
      BY <1>6, <2>3 DEF Roomless, RoomsUsed
    <3>2. row.booking.meeting \notin Stray
      <4> SUFFICES ASSUME ~CallOn, Live(row.booking.meeting) PROVE FALSE
        OBVIOUS
      <4>1. row.booking.cancelled /\ row.booking.meeting \in Meeting
        BY <1>6, <3>1 DEF CallOn, Used
      <4> QED BY <2>3, <4>1 DEF Undeleted, Condemned, AtRest, At
    <3>3. Cardinality(Stray) <= Cardinality(Used) - 1
      BY <1>4, <3>1, <3>2
    <3> HIDE DEF Stray
    <3> QED BY <1>1, <1>2, <2>1, <3>3
  <2> QED BY <2>2, <2>3
<1> QED BY <1>5, <1>6

\* What the invariant says of a call that nobody is busy with.
LEMMA CalmAgrees ==
  ASSUME IInv
  PROVE  LiveCallAgrees
<1> SUFFICES ASSUME AtRest, overlaps = 0, faults = 0, NEW u \in Uid
             PROVE  LET b == row.booking IN
                    IF CallOn /\ u = b.uid
                    THEN /\ invite[u] = [kind |-> "request", slot |-> b.slot, seq |-> b.seq]
                         /\ b.meeting # 0 =>
                               /\ row.meeting = b.meeting
                               /\ zoom[b.meeting].st \in {"live", "held"}
                               /\ zoom[b.meeting].slot = b.slot
                    ELSE invite[u].kind # "request" \/ b.cancelled
  BY DEF LiveCallAgrees
<1>1. /\ ~Booked(row.booking) => OthersQuiet
      /\ CallOn => OthersQuiet /\ InviteSent /\ MeetingAt(row.booking.slot)
  BY DEF IInv, CalmOK, AtRest, At
<1>2. CASE CallOn
  BY <1>1, <1>2 DEF OthersQuiet, InviteSent, MeetingAt
<1>3. CASE ~CallOn
  <2>1. ~Booked(row.booking) => u # row.booking.uid
    BY DEF Booked, Uid
  <2> QED BY <1>1, <1>3, <2>1 DEF CallOn, OthersQuiet
<1> QED BY <1>2, <1>3

\* A cancellation is settled once for each time the booking was cancelled.
LEMMA CancelsCounted ==
  ASSUME IInv
  PROVE  CancelledOnce
<1> SUFFICES ASSUME NEW u \in Uid PROVE cancels[u] <= 1 + revived
  BY DEF CancelledOnce
<1>1. /\ cancels[u] + Cardinality(Settling(u))
            <= revived + (IF row.booking.cancelled THEN 1 ELSE 0)
      /\ Cardinality(Settling(u)) \in Nat
  BY FS_CardinalityType DEF IInv, CancelsOK
<1>2. cancels[u] \in Nat /\ revived \in Nat
  BY DEF IInv, TypeOK
<1> QED BY <1>1, <1>2

\* In every reachable state the inductive invariant holds.
THEOREM IInvHolds == Spec => []IInv
<1>1. Init => IInv
  BY InitIInv
<1>2. IInv /\ [Next]_vars => IInv'
  BY StepIInv
<1> QED BY <1>1, <1>2, PTL DEF Spec

\* Every variable keeps its type: no counter, no meeting and no icsUid leaves
\* its bound, and who mails about a call, or settles its cancellation, has one.
THEOREM TypesHold == Spec => []TypeOK
<1>1. IInv => TypeOK
  BY DEF IInv
<1> QED BY <1>1, IInvHolds, PTL

\* bookCall, rebookCall and cancelCall, in any number and order and with any
\* failure, leave no more live meetings at Zoom beside the call's own than
\* requests overlapped and steps failed.
THEOREM RoomsBounded == Spec => []StrayMeetings
<1>1. IInv => StrayMeetings
  BY StrayCounted
<1> QED BY <1>1, IInvHolds, PTL

\* Without overlap or fault the row, Zoom and the calendars agree on the call
\* whenever no handler is busy.
THEOREM CallAgreed == Spec => []LiveCallAgrees
<1>1. IInv => LiveCallAgrees
  BY CalmAgrees
<1> QED BY <1>1, IInvHolds, PTL

\* A booking's cancellation has its consequences once, and once more only for
\* a stale write of bookCall or rebookCall that undid it.
THEOREM CancelSettledOnce == Spec => []CancelledOnce
<1>1. IInv => CancelledOnce
  BY CancelsCounted
<1> QED BY <1>1, IInvHolds, PTL

\* Without overlap each invite, or its withdrawal, outranks what the calendars
\* hold of the call: sendConfirmations and the cancel mail carry an icsSequence
\* that was raised since.
THEOREM InvitesRise == Spec => SequenceRises
<1> DEFINE A == \A u \in Uid :
                   invite'[u] # invite[u] /\ invite[u].kind # "none" /\ overlaps = 0
                      => invite'[u].seq > invite[u].seq
<1>1. IInv /\ [Next]_vars => [A]_vars
  <2> SUFFICES ASSUME IInv, [Next]_vars PROVE A
    OBVIOUS
  <2>1. ASSUME NEW p \in Procs, Does(p) PROVE A
    BY <2>1, RisesStep DEF IInv
  <2>2. Aside \/ Held => invite' = invite
    BY DEF Aside, Held, Quiet
  <2>3. (\E p \in Procs : Does(p)) \/ Aside \/ Held
    BY NextDoes DEF IInv
  <2> QED BY <2>1, <2>2, <2>3
<1> QED BY <1>1, IInvHolds, PTL DEF Spec, SequenceRises

=============================================================================
