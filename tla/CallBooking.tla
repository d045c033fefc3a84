----------------------------- MODULE CallBooking -----------------------------
(***************************************************************************)
(* Finding, moving and cancelling the one call of an engagement: Matchy's  *)
(* proposals, the expert's picker link and e-mail replies, bookCall,       *)
(* rebookCall and cancelCall, against three places that must agree: the    *)
(* row, the Zoom meeting and the invites in the two calendars.             *)
(*                                                                         *)
(* A handler moves in steps, one for each read, write or call of Zoom; a   *)
(* write changes the row of that moment (theorem NoLostWrite of            *)
(* RowAndEventProofs), but bookCall and rebookCall write values they       *)
(* computed from an earlier read, which the frame keeps.  The time a call  *)
(* is at is a slot.  Both parties' copies of an invite are one.            *)
(***************************************************************************)
EXTENDS Naturals, FiniteSets

CONSTANTS
    Procs,         \* handlers that can overlap
    Slots,         \* times that can be offered
    MaxRequests,   \* bound: requests, replies and meeting ends
    MaxFaults      \* bound: kills, failed writes, mails, Zoom and Redis calls

ASSUME SlotsAssumption == Slots # {}
ASSUME BoundsAssumption == MaxRequests \in Nat \ {0} /\ MaxFaults \in Nat

\* A request makes at most one meeting and mints at most one icsUid, so both
\* are numbered; 0 is null.
Meeting == 1 .. MaxRequests
Uid == 1 .. MaxRequests

VARIABLES
    row,        \* [status, booking, meeting, link, ended]
    zoom,       \* zoom[m]: the meeting's state and the time Zoom shows
    invite,     \* invite[u]: the newest invite of icsUid u in the calendars
    lock,       \* booking-lock:<project>:<expert> exists
    proc,       \* proc[p]: where handler p is and what it remembers
    minted,     \* icsUids minted so far
    cancels,    \* cancels[u]: cancellations of u carried to their consequences
    revived,    \* history: cancelled bookings a stale write made live again
    requests,
    overlaps,   \* history: requests that came while another was being handled
    faults

vars == <<row, zoom, invite, lock, proc, minted, cancels, revived, requests,
          overlaps, faults>>

\* uid, meeting 0 are null; seq is icsSequence.
Booking == [uid : Uid \cup {0}, slot : Slots, seq : Nat,
            meeting : Meeting \cup {0}, cancelled : BOOLEAN]

NoBooking == [uid |-> 0, slot |-> CHOOSE s \in Slots : TRUE, seq |-> 0,
              meeting |-> 0, cancelled |-> FALSE]

\* "talking" is any status before times were proposed, "proposed" is
\* scheduling_sent, "ended" rejected_after_outreach.
Status == {"talking", "proposed", "scheduled", "completed", "ended"}

Step == {"idle", "stamp", "readBook", "createMeeting", "book", "readMove",
         "patchMeeting", "move", "confirm", "check", "lock", "cancel",
         "deleteMeeting", "withdraw", "settle", "release", "readPropose", "propose"}

\* Between taking the booking lock, or going on without it, and giving it back.
Locked == {"cancel", "deleteMeeting", "withdraw", "settle", "release"}

\* bk and link are what the handler read of the row; next is where the picker
\* goes once the time zone is written; made is the meeting created; initial,
\* that times are proposed for a first call and not for a move.
Frame == [pc : Step, next : Step, slot : Slots, bk : Booking, link : BOOLEAN,
          made : Meeting \cup {0}, initial : BOOLEAN]

Idle == [pc |-> "idle", next |-> "idle", slot |-> CHOOSE s \in Slots : TRUE,
         bk |-> NoBooking, link |-> FALSE, made |-> 0, initial |-> FALSE]

Booked(b) == b.uid # 0

\* Types, and: who mails about a call, or settles its cancellation, has one.
TypeOK ==
    /\ row \in [status : Status, booking : Booking, meeting : Meeting \cup {0},
                link : BOOLEAN, ended : BOOLEAN]
    /\ zoom \in [Meeting -> [st : {"none", "live", "held", "deleted"}, slot : Slots]]
    /\ invite \in [Uid -> [kind : {"none", "request", "cancel"}, slot : Slots, seq : Nat]]
    /\ lock \in BOOLEAN
    /\ proc \in [Procs -> Frame]
    /\ \A p \in Procs : proc[p].pc \in {"confirm", "withdraw", "settle"} => Booked(proc[p].bk)
    /\ minted \in 0 .. MaxRequests
    /\ cancels \in [Uid -> Nat]
    /\ revived \in Nat
    /\ requests \in 0 .. MaxRequests
    /\ overlaps \in 0 .. MaxRequests
    /\ faults \in 0 .. MaxFaults

Init ==
    /\ row = [status |-> "talking", booking |-> NoBooking, meeting |-> 0,
              link |-> FALSE, ended |-> FALSE]
    /\ zoom = [m \in Meeting |-> [st |-> "none", slot |-> Idle.slot]]
    /\ invite = [u \in Uid |-> [kind |-> "none", slot |-> Idle.slot, seq |-> 0]]
    /\ lock = FALSE
    /\ proc = [p \in Procs |-> Idle]
    /\ minted = 0
    /\ cancels = [u \in Uid |-> 0]
    /\ revived = 0
    /\ requests = 0
    /\ overlaps = 0
    /\ faults = 0

-----------------------------------------------------------------------------
At(p, l) == proc[p].pc = l
To(p, l) == proc' = [proc EXCEPT ![p].pc = l]
Become(p, frame) == proc' = [proc EXCEPT ![p] = frame]
Done(p) == Become(p, Idle)

Fault == faults < MaxFaults /\ faults' = faults + 1
NoFault == UNCHANGED faults

\* A request that overlaps another is counted; its handler starts in `frame`.
Arrive ==
    /\ requests < MaxRequests /\ requests' = requests + 1
    /\ overlaps' = IF \A p \in Procs : At(p, "idle") THEN overlaps ELSE overlaps + 1
Begin(p, frame) ==
    /\ At(p, "idle") /\ Arrive /\ Become(p, frame)
    /\ UNCHANGED <<row, zoom, invite, lock, minted, cancels, revived, faults>>

RowOnly == UNCHANGED <<zoom, invite, lock, cancels, requests, overlaps>>
ReadOnly == UNCHANGED <<row, minted, revived>> /\ RowOnly
ZoomOnly == UNCHANGED <<row, invite, lock, minted, cancels, revived, requests, overlaps>>

-----------------------------------------------------------------------------
\* The expert's picker opens with the live link, until the booking is cancelled.
\* It decides by this first read whether a pick books or moves.
OpenPicker(p, frame) ==
    /\ row.link /\ ~row.booking.cancelled
    /\ Begin(p, [frame EXCEPT !.pc = "stamp", !.link = row.link])

Pick(p) ==
    \E s \in Slots :
       OpenPicker(p, [Idle EXCEPT !.slot = s,
                          !.next = IF Booked(row.booking) THEN "readMove" ELSE "readBook"])

\* "None of these times work", or: cancel the call.
DeclineTimes(p) == OpenPicker(p, [Idle EXCEPT !.next = "readPropose", !.initial = TRUE])
ExpertCancels(p) == Booked(row.booking) /\ OpenPicker(p, [Idle EXCEPT !.next = "check"])

\* The browser's zone is written with the rest of the scheduling state read
\* before; an unchanged zone writes nothing, and a failed write is ignored.
StampZone(p) ==
    /\ At(p, "stamp")
    /\ \/ row' = [row EXCEPT !.link = proc[p].link]
       \/ UNCHANGED row
    /\ To(p, proc[p].next)
    /\ UNCHANGED <<minted, revived>> /\ RowOnly /\ NoFault

\* The expert names a time by e-mail, or says that none of the offered suits.
Choose(p) ==
    /\ row.status \in {"proposed", "scheduled"}
    /\ \E s \in Slots :
          Begin(p, [Idle EXCEPT !.slot = s,
                                !.pc = IF row.status = "scheduled" THEN "readMove" ELSE "readBook"])
NoneSuits(p) ==
    /\ row.status \in {"proposed", "scheduled"}
    /\ Begin(p, [Idle EXCEPT !.pc = "readPropose", !.link = row.link, !.initial = TRUE])

\* Mutant: bookCall without its look for an existing booking.
MutReadBook(p) ==
    /\ At(p, "readBook")
    /\ \/ Done(p)
       \/ Become(p, [proc[p] EXCEPT !.pc = "createMeeting", !.link = row.link])
    /\ ReadOnly /\ NoFault

\* bookCall reads the row: what is booked already is moved, never booked twice;
\* the account may not be entitled to schedule.
ReadBook(p) ==
    /\ At(p, "readBook")
    /\ \/ Done(p)                                   \* 'activation_required'
       \/ Booked(row.booking) /\ row.booking.slot = proc[p].slot /\ Done(p)
       \/ Booked(row.booking) /\ row.booking.slot # proc[p].slot /\ To(p, "readMove")
       \/ /\ ~Booked(row.booking)
          /\ Become(p, [proc[p] EXCEPT !.pc = "createMeeting", !.link = row.link])
    /\ ReadOnly /\ NoFault

\* Zoom failing leaves the call without a meeting.
CreateMeeting(p) ==
    /\ At(p, "createMeeting")
    /\ \/ \E m \in Meeting :
             /\ \A n \in Meeting : zoom[n].st = "none" <=> n >= m
             /\ zoom' = [zoom EXCEPT ![m] = [st |-> "live", slot |-> proc[p].slot]]
             /\ Become(p, [proc[p] EXCEPT !.pc = "book", !.made = m])
       \/ To(p, "book") /\ UNCHANGED zoom
    /\ ZoomOnly /\ NoFault

\* The new booking goes over whatever the row holds by now.
Book(p) ==
    LET b == [uid |-> minted + 1, slot |-> proc[p].slot, seq |-> 0,
              meeting |-> proc[p].made, cancelled |-> FALSE]
    IN
    /\ At(p, "book")
    /\ minted' = minted + 1
    /\ \/ /\ row' = [row EXCEPT !.status = "scheduled", !.booking = b,
                                !.link = proc[p].link,
                                !.meeting = IF b.meeting # 0 THEN b.meeting ELSE @]
          /\ revived' = IF row.booking.cancelled THEN revived + 1 ELSE revived
          /\ Become(p, [proc[p] EXCEPT !.pc = "confirm", !.bk = b])
          /\ NoFault
       \/ Fault /\ Done(p) /\ UNCHANGED <<row, revived>>    \* 'write_failed'
    /\ RowOnly

-----------------------------------------------------------------------------
\* rebookCall reads the row.
ReadMove(p) ==
    /\ At(p, "readMove")
    /\ \/ Done(p)                                   \* 'activation_required'
       \/ ~Booked(row.booking) /\ Done(p)           \* 'nothing_booked'
       \/ /\ Booked(row.booking)
          /\ Become(p, [proc[p] EXCEPT
                !.pc = IF row.booking.meeting # 0 THEN "patchMeeting" ELSE "move",
                !.bk = row.booking, !.link = row.link])
    /\ ReadOnly /\ NoFault

\* Mutant: the meeting stays where it was.
MutPatchMeeting(p) ==
    /\ At(p, "patchMeeting") /\ To(p, "move")
    /\ UNCHANGED zoom /\ ZoomOnly /\ NoFault

\* The meeting is moved, if it still exists; failing to is ignored.
PatchMeeting(p) ==
    LET m == proc[p].bk.meeting IN
    /\ At(p, "patchMeeting")
    /\ \/ /\ zoom[m].st # "deleted"
          /\ zoom' = [zoom EXCEPT ![m].slot = proc[p].slot]
          /\ NoFault
       \/ zoom[m].st = "deleted" /\ UNCHANGED <<zoom, faults>>
       \/ Fault /\ UNCHANGED zoom
    /\ To(p, "move")
    /\ ZoomOnly

\* Mutant: the invite of a moved call keeps its SEQUENCE.
MutMoved(b, s) == [b EXCEPT !.slot = s]

\* Mutant: the moved booking is written anew and loses its icsUid.
MutMovedAnew(b, s) == [NoBooking EXCEPT !.slot = s, !.seq = b.seq + 1, !.meeting = b.meeting]

\* The booking as it was read, at its new time.
Moved(b, s) == [b EXCEPT !.slot = s, !.seq = @ + 1]

Move(p) ==
    LET b == Moved(proc[p].bk, proc[p].slot) IN
    /\ At(p, "move")
    /\ \/ /\ row' = [row EXCEPT !.status = "scheduled", !.booking = b, !.link = proc[p].link]
          /\ revived' = IF row.booking.cancelled /\ ~b.cancelled THEN revived + 1 ELSE revived
          /\ Become(p, [proc[p] EXCEPT !.pc = "confirm", !.bk = b])
          /\ NoFault
       \/ Fault /\ Done(p) /\ UNCHANGED <<row, revived>>    \* 'write_failed'
    /\ UNCHANGED minted /\ RowOnly

\* A calendar keeps the invite of the highest SEQUENCE it has seen.
Mailed(kind, b) ==
    invite' = IF invite[b.uid].kind # "none" /\ invite[b.uid].seq > b.seq THEN invite
              ELSE [invite EXCEPT ![b.uid] = [kind |-> kind, slot |-> b.slot, seq |-> b.seq]]

\* sendConfirmations; a mail that fails is lost.
Confirm(p) ==
    /\ At(p, "confirm")
    /\ \/ Mailed("request", proc[p].bk) /\ NoFault
       \/ Fault /\ UNCHANGED invite
    /\ Done(p)
    /\ UNCHANGED <<row, zoom, lock, minted, cancels, revived, requests, overlaps>>

-----------------------------------------------------------------------------
ClientCancels(p) == Begin(p, [Idle EXCEPT !.pc = "check"])

\* cancelCall prices the cancel of the row it reads, if there is one to price.
CheckCancel(p) ==
    /\ At(p, "check")
    /\ \/ Booked(row.booking) /\ ~row.booking.cancelled /\ To(p, "lock")
       \/ Done(p)                \* nothing to cancel, or late and not confirmed
    /\ ReadOnly /\ NoFault

\* Redis failing is read as having no lock, and the handler goes on.
Lock(p) ==
    /\ At(p, "lock")
    /\ \/ ~lock /\ lock' = TRUE /\ To(p, "cancel") /\ NoFault
       \/ lock /\ UNCHANGED lock /\ Done(p) /\ NoFault          \* 'locked'
       \/ Fault /\ UNCHANGED lock /\ To(p, "cancel")
    /\ UNCHANGED <<row, zoom, invite, minted, cancels, revived, requests, overlaps>>

\* Mutant: the checks made before the lock was taken are not repeated.
MutCancellable == Booked(row.booking)

Cancellable == Booked(row.booking) /\ ~row.booking.cancelled

\* One compare-and-set decides; it also revokes the picker link.
Cancel(p) ==
    LET b == [row.booking EXCEPT !.seq = @ + 1, !.cancelled = TRUE] IN
    /\ At(p, "cancel")
    /\ \/ /\ Cancellable
          /\ row' = [row EXCEPT !.booking = b, !.status = "ended", !.link = FALSE]
          /\ Become(p, [proc[p] EXCEPT !.bk = b,
                            !.pc = IF b.meeting # 0 THEN "deleteMeeting" ELSE "withdraw"])
          /\ NoFault
       \/ ~Cancellable /\ UNCHANGED row /\ To(p, "release") /\ NoFault
       \/ Fault /\ UNCHANGED row /\ To(p, "release")            \* 'conflict'
    /\ UNCHANGED <<minted, revived>> /\ RowOnly

\* A meeting that cannot be deleted stays.
DeleteMeeting(p) ==
    /\ At(p, "deleteMeeting")
    /\ \/ zoom' = [zoom EXCEPT ![proc[p].bk.meeting].st = "deleted"] /\ NoFault
       \/ Fault /\ UNCHANGED zoom
    /\ To(p, "withdraw")
    /\ ZoomOnly

Withdraw(p) ==
    /\ At(p, "withdraw")
    /\ \/ Mailed("cancel", proc[p].bk) /\ NoFault
       \/ Fault /\ UNCHANGED invite
    /\ To(p, "settle")
    /\ UNCHANGED <<row, zoom, lock, minted, cancels, revived, requests, overlaps>>

\* The client's fee or the expert's removal, where the policy asks for one.
Settle(p) ==
    /\ At(p, "settle")
    /\ cancels' = [cancels EXCEPT ![proc[p].bk.uid] = @ + 1]
    /\ To(p, "release")
    /\ UNCHANGED <<row, zoom, invite, lock, minted, revived, requests, overlaps, faults>>

\* The lock is deleted whoever holds it; Redis may not answer.
Release(p) ==
    /\ At(p, "release")
    /\ \/ lock' = FALSE /\ NoFault
       \/ Fault /\ UNCHANGED lock
    /\ Done(p)
    /\ UNCHANGED <<row, zoom, invite, minted, cancels, revived, requests, overlaps>>

\* A handler that takes longer than the lock lives is a fault.
LockExpires ==
    /\ lock /\ lock' = FALSE
    /\ IF \E p \in Procs : proc[p].pc \in Locked THEN Fault ELSE NoFault
    /\ UNCHANGED <<row, zoom, invite, proc, minted, cancels, revived, requests, overlaps>>

-----------------------------------------------------------------------------
\* Matchy is asked for times: for a first call once the rate is agreed, or for
\* a booked call that has to move.
AskTimes(p) ==
    /\ row.status \in {"talking", "proposed"}
    /\ Begin(p, [Idle EXCEPT !.pc = "propose", !.link = row.link, !.initial = TRUE])
AskToMove(p) ==
    /\ row.status = "scheduled" /\ Booked(row.booking)
    /\ Begin(p, [Idle EXCEPT !.pc = "propose", !.link = row.link])

\* No time suited: another round on a fresh read, or none is left and the
\* state read first is written back.
ReadPropose(p) ==
    /\ At(p, "readPropose")
    /\ \/ Become(p, [proc[p] EXCEPT !.pc = "propose", !.link = row.link]) /\ UNCHANGED row
       \/ row' = [row EXCEPT !.link = proc[p].link] /\ Done(p)
    /\ UNCHANGED <<minted, revived>> /\ RowOnly /\ NoFault

\* proposeTimes: a mail that went out carries the link from now on; one that
\* was held, or a client without free time, leaves the link that was read.
Propose(p) ==
    /\ At(p, "propose")
    /\ \/ row' = [row EXCEPT !.link = TRUE,
                             !.status = IF proc[p].initial THEN "proposed" ELSE @]
       \/ row' = [row EXCEPT !.link = proc[p].link]
       \/ UNCHANGED row                                         \* nothing sent
    /\ Done(p)
    /\ UNCHANGED <<minted, revived>> /\ RowOnly /\ NoFault

\* Any other reply is classified, whatever the status: a refusal ends the
\* engagement, all else reopens the talk.
OtherReply ==
    /\ Arrive
    /\ \E st \in {"talking", "ended"} : row' = [row EXCEPT !.status = st]
    /\ UNCHANGED <<zoom, invite, lock, proc, minted, cancels, revived, faults>>

\* A meeting ends at Zoom; the row is found by its legacy meeting id.  What
\* attendance then does to the money is module Attendance's.
CallHeld ==
    /\ Arrive
    /\ \E m \in Meeting :
          /\ zoom[m].st = "live"
          /\ zoom' = [zoom EXCEPT ![m].st = "held"]
          /\ IF row.meeting = m /\ ~row.ended /\ row.status # "completed"
             THEN \E st \in {"completed", "ended", row.status} :
                     row' = [row EXCEPT !.ended = TRUE, !.status = st]
             ELSE UNCHANGED row
    /\ UNCHANGED <<invite, lock, proc, minted, cancels, revived, faults>>

\* The process of a handler dies.
Crash(p) ==
    /\ ~At(p, "idle") /\ Fault /\ Done(p)
    /\ UNCHANGED <<row, zoom, invite, lock, minted, cancels, revived, requests, overlaps>>

Request(p) ==
    \/ Pick(p) \/ DeclineTimes(p) \/ ExpertCancels(p) \/ Choose(p) \/ NoneSuits(p)
    \/ ClientCancels(p) \/ AskTimes(p) \/ AskToMove(p)

Continue(p) ==
    \/ StampZone(p) \/ ReadBook(p) \/ CreateMeeting(p) \/ Book(p)
    \/ ReadMove(p) \/ PatchMeeting(p) \/ Move(p) \/ Confirm(p)
    \/ CheckCancel(p) \/ Lock(p) \/ Cancel(p) \/ DeleteMeeting(p) \/ Withdraw(p)
    \/ Settle(p) \/ Release(p) \/ ReadPropose(p) \/ Propose(p)

Next ==
    \/ \E p \in Procs : Request(p) \/ Continue(p) \/ Crash(p)
    \/ LockExpires \/ OtherReply \/ CallHeld

Spec == Init /\ [][Next]_vars

-----------------------------------------------------------------------------
AtRest == \A p \in Procs : At(p, "idle")

Live(m) == zoom[m].st = "live"
CallOn == Booked(row.booking) /\ ~row.booking.cancelled

\* Rooms that wait for nobody: whoever opens one is alone in it.  Each needs
\* a request that overlapped another, or a fault, of its own; a call that is
\* booked, moved and cancelled one request after the other leaves none.
StrayMeetings ==
    AtRest => Cardinality({m \in Meeting : Live(m) /\ ~(CallOn /\ m = row.booking.meeting)})
                 <= overlaps + faults

\* Without overlap or fault the row, Zoom and both calendars agree at rest on
\* the one call and its time, and meeting.ended will find the row.  Not so for
\* a cancelled call: a reply can lead to a move that invites to it again.
LiveCallAgrees ==
    AtRest /\ overlaps = 0 /\ faults = 0 =>
       LET b == row.booking IN
       \A u \in Uid :
          IF CallOn /\ u = b.uid
          THEN /\ invite[u] = [kind |-> "request", slot |-> b.slot, seq |-> b.seq]
               /\ b.meeting # 0 =>
                     /\ row.meeting = b.meeting
                     /\ zoom[b.meeting].st \in {"live", "held"}
                     /\ zoom[b.meeting].slot = b.slot
          ELSE invite[u].kind # "request" \/ b.cancelled

\* A cancellation has its consequences, a fee or a removal, once: whoever
\* holds the lock, and however it was lost, the compare-and-set decides.  Only
\* a move that had read the booking before brings it back to be cancelled again.
CancelledOnce == \A u \in Uid : cancels[u] <= 1 + revived

\* Without overlap every mail about a call outranks those before it, so that
\* no calendar keeps an older time.
SequenceRises ==
    [][\A u \in Uid :
          invite'[u] # invite[u] /\ invite[u].kind # "none" /\ overlaps = 0
             => invite'[u].seq > invite[u].seq]_vars
=============================================================================
