------------------------- MODULE ConversationProofs --------------------------
(* Proofs about Conversation: of a morning's nudge jobs the first to finish   *)
(* wins, a follow-up that went is on the thread and one that the thread shows *)
(* as sent went, and nothing is mailed to an address that was listed before   *)
(* the message was cleared - for any number of handlers, requests, replies,   *)
(* mornings, redeliveries and faults.                                         *)
EXTENDS Conversation, FiniteSetTheorems, WellFoundedInduction, TLAPS

Points == {"idle", "n_plan", "n_state", "n_check", "n_list", "n_send", "n_clear",
           "n_append", "n_count", "r_store", "r_read", "r_list", "r_follow",
           "r_send", "r_append", "r_mark", "m_clear", "m_gate", "m_send", "m_restore",
           "m_mark", "q_gate", "q_send", "q_write", "q_append", "t_gate", "t_send",
           "t_append", "t_status", "d_list", "d_row"}
Kinds == {"none", "planner", "nudge", "reply", "complaint", "release", "decide"}

Handlers == [pc : Points, kind : Kinds, mode : Modes, row : RowType,
             addr : Addresses \cup {NoAddress}, draft : BOOLEAN, held : BOOLEAN,
             at : Nat, job : NudgeType]

EventType == [kind : {"reply", "complaint"}, address : Addresses, no : Nat]

\* Where a nudge has passed its checks, and where it has its job; where a handler
\* works with an address; where a release has its draft, and where it has taken
\* the flag away.
Checked == {"n_list", "n_send", "n_clear", "n_append", "n_count"}
Holding == {"n_check"} \cup Checked
Addressed == Checked \cup {"r_store", "r_read", "r_list", "r_follow", "r_send",
                           "r_append", "r_mark", "m_clear", "m_gate", "m_send",
                           "m_mark", "q_gate", "q_send", "t_send", "d_list", "d_row"}
Flagless == {"m_gate", "m_send", "m_restore"}
Drafted == {"m_clear"} \cup Flagless

\* What is true of each handler h on a thread t.
HandlerOK(h, t) ==
    /\ h \in Handlers
    /\ h.pc \in Addressed => h.addr \in Addresses
    /\ h.pc = "n_check" => h.addr = h.row.address
    /\ h.pc \in Checked => h.row.nudge.count < MaxNudges
    /\ h.pc \in {"d_list", "d_row"} => h.kind = "complaint"
    /\ h.pc \in Drafted => h.at \in DOMAIN t /\ t[h.at].what = "followup"
    /\ h.pc \in Flagless => t[h.at].went = "sent"

\* A release whose flag is gone is alone with its draft.
HandlersOK ==
    /\ w \in [Workers -> Handlers]
    /\ \A p \in Workers : HandlerOK(w[p], thread)
    /\ \A p, q \in Workers :
          p # q /\ w[p].pc \in Flagless /\ w[q].pc \in Flagless => w[p].at # w[q].at

\* What is true of the rest.
RowOK == row \in RowType
ThreadOK ==
    /\ thread \in Seq(MessageType)
    /\ \A i \in DOMAIN thread : thread[i].went = "pending" => thread[i].what = "followup"
MailType(counts, days, sets) ==
    [intro : counts, later : counts, followup : Nat, terms : Nat, nudge : days, bounced : sets]
MailOK == mail \in MailType([Addresses -> Nat], [1 .. MaxClock -> Nat], SUBSET Addresses)
JobsOK == \A n \in nudgeJobs : n[2] \in NudgeType
RestOK ==
    /\ mode \in Modes /\ suppressed \subseteq Addresses
    /\ locks = {} /\ events \subseteq EventType
    /\ clock \in 1 .. MaxClock + 1 /\ starts \in 0 .. MaxStarts
    /\ faults \in Seq(Ops) /\ Len(faults) <= MaxFaults

----------------------------------------------------------------------------
(* The two accounts.                                                         *)

Bit(b) == IF b THEN 1 ELSE 0

\* The follow-ups the thread shows as sent, the releases that are about to mail
\* one or to give it back, the replies that have mailed one and not yet put it
\* on the thread, and those that have not yet put it on the row.
Lines(t) == {i \in DOMAIN t : t[i].what = "followup" /\ t[i].went = "sent"}
Releasing == {p \in Workers : w[p].pc \in Flagless}
Unwritten == {p \in Workers : w[p].pc = "r_append"}
Unmarked == {p \in Workers : w[p].pc = "r_mark"}

\* What may hide a mail from the thread, and a line from the account of the mail.
Hides == {"answer_lost", "kill"}
Shows == {"kill", "clear_lost", "restore_lost"}

\* A line for each mail, but for lost answers, kills and refused lines - these
\* only once the row has it that terms were asked for; a mail for each line, but
\* for kills and for flags that were lost.
FollowUps ==
    /\ mail.followup + Cardinality(Releasing)
          <= Cardinality(Lines(thread)) + Cardinality(Unwritten)
             + Faults(Hides) + Faults({"append_lost"})
    /\ ~row.followed =>
          mail.followup + Cardinality(Releasing)
             <= Cardinality(Lines(thread)) + Cardinality(Unwritten) + Cardinality(Unmarked)
                + Faults(Hides)
    /\ Cardinality(Lines(thread)) + Cardinality(Unwritten)
          <= mail.followup + Cardinality(Releasing) + Faults(Shows)

\* A job waits on a line of the thread; who has one is there after its time, and
\* who has just published one before it.
WaitsOn(job, t) == job.since \in 1 .. Len(t) /\ job.day # 0
Due ==
    /\ \A n \in nudgeJobs : WaitsOn(n[2], thread)
    /\ \A p \in Workers :
          /\ w[p].pc \in Holding => WaitsOn(w[p].job, thread) /\ NudgeDue(w[p].job.day) <= clock
          /\ w[p].pc = "n_state" => NudgeDue(w[p].job.day) > clock

\* A handler at one of the points pcs with a job for day d.
Mate(pcs, d) == \E q \in Workers : w[q].pc \in pcs /\ w[q].job.day = d

\* A nudge is on the thread, after everything that a job for day d waits on.
Covered(d) ==
    \E i \in DOMAIN thread :
        /\ thread[i].what = "nudge" /\ thread[i].went = "sent"
        /\ \A n \in nudgeJobs : n[2].day = d => n[2].since < i
        /\ \A q \in Workers : w[q].pc \in Holding /\ w[q].job.day = d => w[q].job.since < i

\* Once a nudge of day d has gone, the day has come; the nudge is on the thread,
\* or will be, or is lost; and the slot in the row is free, or will be, or stays.
Said(d) ==
    \/ Mate({"n_append"}, d)
    \/ Covered(d)
    \/ Faults({"append_lost", "answer_lost"}) > 0
Freed(d) ==
    \/ Mate({"n_append", "n_count", "n_clear"}, d)
    \/ row.nudge.day # d
    \/ Faults({"write_lost"}) > 0
Slots ==
    \A d \in 1 .. MaxClock : mail.nudge[d] > 0 =>
        /\ NudgeDue(d) <= clock
        /\ Faults({"kill"}) > 0 \/ (Said(d) /\ Freed(d))

\* The inductive invariant.
IInv ==
    /\ RowOK /\ ThreadOK /\ MailOK /\ JobsOK /\ RestOK /\ HandlersOK
    /\ FollowUps /\ Due /\ Slots
----------------------------------------------------------------------------
(* What holds of one handler and of one thread.                              *)

LEMMA IdleOK == ASSUME NEW t PROVE HandlerOK(Idle, t)
<1>1. (CHOOSE r \in FirstRecords : TRUE).row \in RowType
  BY FirstRecordsAssumption
<1>2. NoNudge \in NudgeType
  BY MaxNudgesAssumption DEF NoNudge, NudgeType
<1>3. Idle \in Handlers
  BY <1>1, <1>2 DEF Idle, Handlers, Points, Kinds, Modes
<1>4. Idle.pc = "idle"
  BY DEF Idle
<1>5. QED
  BY <1>3, <1>4 DEF HandlerOK, Addressed, Checked, Drafted, Flagless

\* The lines a handler relies on are still there.
Kept == \A i \in DOMAIN thread : i \in DOMAIN thread' /\ thread'[i] = thread[i]

LEMMA StillOK ==
    ASSUME Kept, NEW h, HandlerOK(h, thread)
    PROVE  HandlerOK(h, thread')
<1>1. h.pc \in Drafted => h.at \in DOMAIN thread' /\ thread'[h.at] = thread[h.at]
  BY DEF Kept, HandlerOK
<1>2. h.pc \in Flagless => h.pc \in Drafted
  BY DEF Drafted
<1>3. QED
  BY <1>1, <1>2 DEF HandlerOK

\* The thread grows, or a draft's flag changes.
Grows ==
    /\ Len(thread) <= Len(thread') /\ Len(thread') \in Nat
    /\ \A i \in DOMAIN thread : /\ i \in DOMAIN thread'
                               /\ thread[i].what # "followup" => thread'[i] = thread[i]

\* A step of handler p leaves the other handlers alone.
Beside(p) == /\ w' \in [Workers -> Handlers]
             /\ \A q \in Workers \ {p} : w'[q] = w[q]

LEMMA Task ==
    ASSUME HandlersOK, NEW p \in Workers, NEW h \in Handlers, w' = [w EXCEPT ![p] = h]
    PROVE  w'[p] = h /\ Beside(p)
  BY DEF HandlersOK, Beside

LEMMA HandlersStep ==
    ASSUME HandlersOK, NEW p \in Workers, NEW h, w' = [w EXCEPT ![p] = h],
           HandlerOK(h, thread'),
           \A q \in Workers \ {p} : HandlerOK(w[q], thread'),
           h.pc \in Flagless => \A q \in Workers \ {p} : w[q].pc \in Flagless => w[q].at # h.at
    PROVE  HandlersOK'
<1>1. h \in Handlers
  BY DEF HandlerOK
<1>2. w'[p] = h /\ w' \in [Workers -> Handlers] /\ \A q \in Workers \ {p} : w'[q] = w[q]
  BY <1>1, Task DEF Beside
<1>3. \A q \in Workers : HandlerOK(w'[q], thread')
  BY <1>2
<1>4. ASSUME NEW q \in Workers, NEW r \in Workers, q # r,
             w'[q].pc \in Flagless, w'[r].pc \in Flagless
      PROVE  w'[q].at # w'[r].at
  <2>1. CASE q = p
    BY <1>2, <1>4, <2>1
  <2>2. CASE r = p
    BY <1>2, <1>4, <2>2
  <2>3. CASE q # p /\ r # p
    BY <1>2, <1>4, <2>3 DEF HandlersOK
  <2>4. QED
    BY <2>1, <2>2, <2>3
<1>5. QED
  BY <1>2, <1>3, <1>4 DEF HandlersOK

----------------------------------------------------------------------------
(* Counting.                                                                 *)

LEMMA FaultsFinite ==
    ASSUME NEW f \in Seq(Ops), NEW kinds
    PROVE  /\ IsFiniteSet({i \in DOMAIN f : f[i] \in kinds})
           /\ Cardinality({i \in DOMAIN f : f[i] \in kinds}) \in Nat
<1>1. DOMAIN f = 1 .. Len(f) /\ Len(f) \in Nat
  OBVIOUS
<1>2. IsFiniteSet(1 .. Len(f))
  BY <1>1, FS_Interval
<1>3. QED
  BY <1>1, <1>2, FS_Subset, FS_CardinalityType

LEMMA FaultCounted ==
    ASSUME RestOK, NEW kinds, NEW op, Fault(op)
    PROVE  /\ Faults(kinds) \in Nat
           /\ Faults(kinds)' = Faults(kinds) + Bit(op \in kinds)
           /\ faults' \in Seq(Ops) /\ Len(faults') <= MaxFaults
<1> DEFINE S == {i \in DOMAIN faults : faults[i] \in kinds}
           T == {i \in DOMAIN faults' : faults'[i] \in kinds}
           n == Len(faults) + 1
<1>1. DOMAIN faults = 1 .. Len(faults) /\ Len(faults) \in Nat /\ faults \in Seq(Ops)
  BY DEF RestOK
<1>2. faults' = Append(faults, op) /\ op \in Ops /\ Len(faults) < MaxFaults
  BY DEF Fault
<1>3. /\ faults' \in Seq(Ops) /\ DOMAIN faults' = 1 .. n /\ Len(faults') = n
      /\ \A i \in 1 .. Len(faults) : faults'[i] = faults[i]
      /\ faults'[n] = op
  BY <1>1, <1>2
<1>4. n \notin S
  BY <1>1
<1>5. IsFiniteSet(S) /\ Cardinality(S) \in Nat
  BY <1>1, FaultsFinite
<1>6. Faults(kinds) = Cardinality(S) /\ Faults(kinds)' = Cardinality(T)
  BY DEF Faults
<1>7. Len(faults') <= MaxFaults
  BY <1>1, <1>2, <1>3, BoundsAssumption
<1>8. CASE op \in kinds
  <2>1. T = S \cup {n}
    BY <1>1, <1>3, <1>8
  <2> HIDE DEF S, T, n
  <2>2. Cardinality(S \cup {n}) = Cardinality(S) + 1
    BY <1>4, <1>5, FS_AddElement
  <2>3. QED
    BY <1>3, <1>5, <1>6, <1>7, <1>8, <2>1, <2>2 DEF Bit
<1>9. CASE op \notin kinds
  <2>1. T = S
    BY <1>1, <1>3, <1>9
  <2> HIDE DEF S, T, n
  <2>2. QED
    BY <1>3, <1>5, <1>6, <1>7, <1>9, <2>1 DEF Bit
<1>10. QED
  BY <1>8, <1>9

\* At most one fault, of any kind, in a step.
SomeFault == UNCHANGED faults \/ \E op \in Ops : Fault(op)

LEMMA FaultsGrow ==
    ASSUME RestOK, SomeFault, NEW kinds
    PROVE  /\ Faults(kinds) \in Nat /\ Faults(kinds)' \in Nat
           /\ Faults(kinds) <= Faults(kinds)'
           /\ faults' \in Seq(Ops) /\ Len(faults') <= MaxFaults
<1>1. CASE UNCHANGED faults
  <2>1. Faults(kinds) \in Nat
    BY FaultsFinite DEF RestOK, Faults
  <2>2. Faults(kinds)' = Faults(kinds)
    BY <1>1 DEF Faults
  <2>3. QED
    BY <1>1, <2>1, <2>2 DEF RestOK
<1>2. ASSUME NEW op \in Ops, Fault(op)
      PROVE  /\ Faults(kinds) \in Nat /\ Faults(kinds)' \in Nat
             /\ Faults(kinds) <= Faults(kinds)'
             /\ faults' \in Seq(Ops) /\ Len(faults') <= MaxFaults
  <2>1. /\ Faults(kinds) \in Nat
        /\ Faults(kinds)' = Faults(kinds) + Bit(op \in kinds)
        /\ faults' \in Seq(Ops) /\ Len(faults') <= MaxFaults
    BY <1>2, FaultCounted
  <2>2. Bit(op \in kinds) \in Nat
    BY DEF Bit
  <2>3. QED
    BY <2>1, <2>2
<1>3. QED
  BY <1>1, <1>2 DEF SomeFault

LEMMA OneApart ==
    ASSUME NEW S, IsFiniteSet(S), NEW x
    PROVE  Cardinality(S) = Cardinality(S \ {x}) + Bit(x \in S) /\ Cardinality(S \ {x}) \in Nat
<1>1. IsFiniteSet(S \ {x})
  BY FS_Subset
<1>2. Cardinality(S \ {x}) \in Nat /\ Cardinality(S) \in Nat
  BY <1>1, FS_CardinalityType
<1>3. CASE x \in S
  <2>1. Cardinality(S \ {x}) = Cardinality(S) - 1
    BY <1>3, FS_RemoveElement
  <2>2. QED
    BY <1>2, <1>3, <2>1 DEF Bit
<1>4. CASE x \notin S
  <2>1. S \ {x} = S
    BY <1>4
  <2>2. Cardinality(S \ {x}) = Cardinality(S)
    BY <2>1, Zenon
  <2>3. QED
    BY <1>2, <1>4, <2>2 DEF Bit
<1>5. QED
  BY <1>3, <1>4

\* A set of handlers before and after a step of p.
LEMMA OneMoves ==
    ASSUME NEW p \in Workers, NEW S \in SUBSET Workers, NEW T \in SUBSET Workers,
           S \ {p} = T \ {p}
    PROVE  /\ Cardinality(S) \in Nat /\ Cardinality(T) \in Nat
           /\ Cardinality(S) + Bit(p \in T) = Cardinality(T) + Bit(p \in S)
<1>1. IsFiniteSet(S) /\ IsFiniteSet(T)
  BY WorkersAssumption, FS_Subset
<1>2. Cardinality(S) = Cardinality(S \ {p}) + Bit(p \in S) /\ Cardinality(S \ {p}) \in Nat
  BY <1>1, OneApart
<1>3. Cardinality(T) = Cardinality(T \ {p}) + Bit(p \in T) /\ Cardinality(T \ {p}) \in Nat
  BY <1>1, OneApart
<1>4. Cardinality(S \ {p}) = Cardinality(T \ {p})
  BY Zenon
<1>5. Bit(p \in S) \in Nat /\ Bit(p \in T) \in Nat
  BY DEF Bit
<1>6. QED
  BY <1>2, <1>3, <1>4, <1>5

----------------------------------------------------------------------------
(* The thread.                                                               *)

LEMMA LinesFinite ==
    ASSUME NEW t \in Seq(MessageType)
    PROVE  IsFiniteSet(Lines(t)) /\ Cardinality(Lines(t)) \in Nat
<1>1. DOMAIN t = 1 .. Len(t) /\ Len(t) \in Nat
  OBVIOUS
<1>2. IsFiniteSet(1 .. Len(t)) /\ Lines(t) \subseteq 1 .. Len(t)
  BY <1>1, FS_Interval DEF Lines
<1>3. QED
  BY <1>2, FS_Subset, FS_CardinalityType

\* A message is put at the end.
LEMMA Appended ==
    ASSUME ThreadOK, NEW m \in MessageType, m.went = "pending" => m.what = "followup",
           thread' = Append(thread, m)
    PROVE  /\ ThreadOK' /\ Kept /\ Grows
           /\ ~(m.what = "followup" /\ m.went = "sent") => Lines(thread') = Lines(thread)
           /\ m.what = "followup" /\ m.went = "sent"
                 => Cardinality(Lines(thread')) = Cardinality(Lines(thread)) + 1
<1> DEFINE n == Len(thread) + 1
<1>1. /\ thread \in Seq(MessageType) /\ Len(thread) \in Nat /\ DOMAIN thread = 1 .. Len(thread)
      /\ thread' \in Seq(MessageType) /\ DOMAIN thread' = 1 .. n
      /\ \A i \in 1 .. Len(thread) : thread'[i] = thread[i]
      /\ thread'[n] = m
  BY DEF ThreadOK
<1>2. Kept /\ Grows
  BY <1>1 DEF Kept, Grows
<1>3. ThreadOK'
  <2>1. ASSUME NEW i \in DOMAIN thread', thread'[i].went = "pending"
        PROVE  thread'[i].what = "followup"
    <3>1. CASE i = n
      BY <1>1, <2>1, <3>1
    <3>2. CASE i # n
      BY <1>1, <2>1, <3>2 DEF ThreadOK
    <3>3. QED
      BY <3>1, <3>2
  <2>2. QED
    BY <1>1, <2>1 DEF ThreadOK
<1>4. n \notin Lines(thread)
  BY <1>1 DEF Lines
<1>5. CASE ~(m.what = "followup" /\ m.went = "sent")
  <2>1. Lines(thread') = Lines(thread)
    BY <1>1, <1>5 DEF Lines
  <2>2. QED
    BY <1>2, <1>3, <1>5, <2>1
<1>6. CASE m.what = "followup" /\ m.went = "sent"
  <2>1. Lines(thread') = Lines(thread) \cup {n}
    BY <1>1, <1>6 DEF Lines
  <2> HIDE DEF n
  <2>2. Cardinality(Lines(thread) \cup {n}) = Cardinality(Lines(thread)) + 1
    BY <1>1, <1>4, LinesFinite, FS_AddElement
  <2>3. Cardinality(Lines(thread')) = Cardinality(Lines(thread)) + 1
    BY <2>1, <2>2, Zenon
  <2>4. QED
    BY <1>2, <1>3, <1>6, <2>3
<1>7. QED
  BY <1>5, <1>6

\* The flag of a draft is cleared, or set again.
LEMMA Restamped ==
    ASSUME ThreadOK, NEW i \in DOMAIN thread, thread[i].what = "followup",
           NEW went \in {"sent", "pending"}, thread' = [thread EXCEPT ![i].went = went]
    PROVE  /\ ThreadOK' /\ Grows
           /\ DOMAIN thread' = DOMAIN thread
           /\ \A j \in DOMAIN thread \ {i} : thread'[j] = thread[j]
           /\ thread'[i].what = "followup" /\ thread'[i].went = went
           /\ Cardinality(Lines(thread)) \in Nat /\ Cardinality(Lines(thread')) \in Nat
           /\ Cardinality(Lines(thread')) + Bit(thread[i].went = "sent")
                 = Cardinality(Lines(thread)) + Bit(went = "sent")
<1> DEFINE m == [thread[i] EXCEPT !.went = went]
<1>1. /\ thread \in Seq(MessageType) /\ DOMAIN thread = 1 .. Len(thread) /\ Len(thread) \in Nat
      /\ thread[i] \in MessageType
  BY DEF ThreadOK
<1>2. m \in MessageType /\ m.what = "followup" /\ m.went = went
  BY <1>1 DEF MessageType
<1>3. thread' = [thread EXCEPT ![i] = m]
  OBVIOUS
<1> HIDE DEF m
<1>4. /\ thread' \in Seq(MessageType) /\ DOMAIN thread' = DOMAIN thread
      /\ \A j \in DOMAIN thread \ {i} : thread'[j] = thread[j]
      /\ thread'[i] = m
  BY <1>1, <1>2, <1>3
<1>5. ThreadOK'
  <2>1. ASSUME NEW j \in DOMAIN thread', thread'[j].went = "pending"
        PROVE  thread'[j].what = "followup"
    BY <1>2, <1>4, <2>1 DEF ThreadOK
  <2>2. QED
    BY <1>4, <2>1 DEF ThreadOK
<1>6. IsFiniteSet(Lines(thread)) /\ IsFiniteSet(Lines(thread'))
  BY <1>1, <1>4, LinesFinite
<1>7. /\ Cardinality(Lines(thread)) = Cardinality(Lines(thread) \ {i}) + Bit(i \in Lines(thread))
      /\ Cardinality(Lines(thread) \ {i}) \in Nat
  BY <1>6, OneApart
<1>8. /\ Cardinality(Lines(thread')) = Cardinality(Lines(thread') \ {i}) + Bit(i \in Lines(thread'))
      /\ Cardinality(Lines(thread') \ {i}) \in Nat
  BY <1>6, OneApart
<1>9. Lines(thread') \ {i} = Lines(thread) \ {i}
  BY <1>4 DEF Lines
<1>10. Cardinality(Lines(thread') \ {i}) = Cardinality(Lines(thread) \ {i})
  BY <1>9, Zenon
<1>11. (i \in Lines(thread) <=> thread[i].went = "sent") /\ (i \in Lines(thread') <=> went = "sent")
  BY <1>2, <1>4 DEF Lines
<1>12. Grows
  BY <1>1, <1>4 DEF Grows
<1>13. QED
  BY <1>12, <1>2, <1>4, <1>5, <1>7, <1>8, <1>10, <1>11 DEF Bit

----------------------------------------------------------------------------
(* The accounts from one state to the next.                                  *)

\* What handler p does to the account of the follow-ups pays for itself.
PaysForLines(p) ==
    /\ mail'.followup + Bit(w'[p].pc \in Flagless) + Cardinality(Lines(thread))
       + Bit(w[p].pc = "r_append") + Faults(Hides) + Faults({"append_lost"})
         <= mail.followup + Bit(w[p].pc \in Flagless) + Cardinality(Lines(thread'))
            + Bit(w'[p].pc = "r_append") + Faults(Hides)' + Faults({"append_lost"})'
    /\ ~row'.followed =>
          /\ ~row.followed
          /\ mail'.followup + Bit(w'[p].pc \in Flagless) + Cardinality(Lines(thread))
             + Bit(w[p].pc = "r_append") + Bit(w[p].pc = "r_mark") + Faults(Hides)
               <= mail.followup + Bit(w[p].pc \in Flagless) + Cardinality(Lines(thread'))
                  + Bit(w'[p].pc = "r_append") + Bit(w'[p].pc = "r_mark") + Faults(Hides)'
    /\ Cardinality(Lines(thread')) + Bit(w'[p].pc = "r_append") + mail.followup
       + Bit(w[p].pc \in Flagless) + Faults(Shows)
         <= Cardinality(Lines(thread)) + Bit(w[p].pc = "r_append") + mail'.followup
            + Bit(w'[p].pc \in Flagless) + Faults(Shows)'

LEMMA FollowUpsStep ==
    ASSUME ThreadOK, MailOK, RestOK, FollowUps, ThreadOK', MailOK', SomeFault,
           NEW p \in Workers, Beside(p), PaysForLines(p)
    PROVE  FollowUps'
<1>1. /\ Cardinality(Releasing) \in Nat /\ Cardinality(Releasing') \in Nat
      /\ Cardinality(Releasing) + Bit(p \in Releasing')
           = Cardinality(Releasing') + Bit(p \in Releasing)
  <2>1. Releasing \in SUBSET Workers /\ Releasing' \in SUBSET Workers
    BY DEF Releasing
  <2>2. Releasing \ {p} = Releasing' \ {p}
    BY DEF Releasing, Beside
  <2>3. QED
    BY <2>1, <2>2, OneMoves
<1>2. /\ Cardinality(Unwritten) \in Nat /\ Cardinality(Unwritten') \in Nat
      /\ Cardinality(Unwritten) + Bit(p \in Unwritten')
           = Cardinality(Unwritten') + Bit(p \in Unwritten)
  <2>1. Unwritten \in SUBSET Workers /\ Unwritten' \in SUBSET Workers
    BY DEF Unwritten
  <2>2. Unwritten \ {p} = Unwritten' \ {p}
    BY DEF Unwritten, Beside
  <2>3. QED
    BY <2>1, <2>2, OneMoves
<1>3. /\ Cardinality(Unmarked) \in Nat /\ Cardinality(Unmarked') \in Nat
      /\ Cardinality(Unmarked) + Bit(p \in Unmarked')
           = Cardinality(Unmarked') + Bit(p \in Unmarked)
  <2>1. Unmarked \in SUBSET Workers /\ Unmarked' \in SUBSET Workers
    BY DEF Unmarked
  <2>2. Unmarked \ {p} = Unmarked' \ {p}
    BY DEF Unmarked, Beside
  <2>3. QED
    BY <2>1, <2>2, OneMoves
<1>4. /\ Bit(p \in Releasing) = Bit(w[p].pc \in Flagless)
      /\ Bit(p \in Releasing') = Bit(w'[p].pc \in Flagless)
      /\ Bit(p \in Unwritten) = Bit(w[p].pc = "r_append")
      /\ Bit(p \in Unwritten') = Bit(w'[p].pc = "r_append")
      /\ Bit(p \in Unmarked) = Bit(w[p].pc = "r_mark")
      /\ Bit(p \in Unmarked') = Bit(w'[p].pc = "r_mark")
  BY DEF Releasing, Unwritten, Unmarked, Bit
<1>5. /\ Bit(w[p].pc \in Flagless) \in Nat /\ Bit(w'[p].pc \in Flagless) \in Nat
      /\ Bit(w[p].pc = "r_append") \in Nat /\ Bit(w'[p].pc = "r_append") \in Nat
      /\ Bit(w[p].pc = "r_mark") \in Nat /\ Bit(w'[p].pc = "r_mark") \in Nat
  BY DEF Bit
<1>6. /\ Cardinality(Lines(thread)) \in Nat /\ Cardinality(Lines(thread')) \in Nat
      /\ mail.followup \in Nat /\ mail'.followup \in Nat
  BY LinesFinite DEF ThreadOK, MailOK, MailType
<1>7. /\ Faults(Hides) \in Nat /\ Faults(Hides)' \in Nat
      /\ Faults({"append_lost"}) \in Nat /\ Faults({"append_lost"})' \in Nat
      /\ Faults(Shows) \in Nat /\ Faults(Shows)' \in Nat
  <2>1. \A kinds : Faults(kinds) \in Nat /\ Faults(kinds)' \in Nat
    BY FaultsGrow
  <2>2. QED
    BY <2>1 DEF Hides, Shows
<1>8. mail'.followup + Cardinality(Releasing')
        <= Cardinality(Lines(thread')) + Cardinality(Unwritten')
           + Faults(Hides)' + Faults({"append_lost"})'
  BY <1>1, <1>2, <1>4, <1>5, <1>6, <1>7 DEF FollowUps, PaysForLines
<1>9. ~row'.followed =>
        mail'.followup + Cardinality(Releasing')
          <= Cardinality(Lines(thread')) + Cardinality(Unwritten') + Cardinality(Unmarked')
             + Faults(Hides)'
  BY <1>1, <1>2, <1>3, <1>4, <1>5, <1>6, <1>7 DEF FollowUps, PaysForLines
<1>10. Cardinality(Lines(thread')) + Cardinality(Unwritten')
         <= mail'.followup + Cardinality(Releasing') + Faults(Shows)'
  BY <1>1, <1>2, <1>4, <1>5, <1>6, <1>7 DEF FollowUps, PaysForLines
<1>11. QED
  BY <1>8, <1>9, <1>10 DEF FollowUps

\* What handler p takes up for a job: its own, or one that has come due.
Follows(p) ==
    w'[p].pc \in Holding =>
        \/ w[p].pc \in Holding /\ w'[p].job = w[p].job
        \/ \E n \in nudgeJobs : w'[p].job = n[2] /\ NudgeDue(n[2].day) <= clock

\* A job that is new waits on a line, and its time is to come.
JobsCalm ==
    \A n \in nudgeJobs' :
        \/ n \in nudgeJobs
        \/ n[2] \in NudgeType /\ WaitsOn(n[2], thread') /\ NudgeDue(n[2].day) > clock

LEMMA DueStep ==
    ASSUME IInv, NEW p \in Workers, Beside(p), JobsCalm, UNCHANGED clock,
           Grows, Follows(p), w'[p].pc = "n_state" => NudgeDue(w'[p].job.day) > clock
    PROVE  Due'
<1>1. \A job : WaitsOn(job, thread) => WaitsOn(job, thread')
  <2>1. Len(thread) \in Nat /\ Len(thread') \in Nat /\ Len(thread) <= Len(thread')
    BY DEF IInv, ThreadOK, Grows
  <2>2. QED
    BY <2>1 DEF WaitsOn
<1>2. \A n \in nudgeJobs' : WaitsOn(n[2], thread')
  BY <1>1 DEF IInv, Due, JobsCalm
<1>3. ASSUME NEW q \in Workers
      PROVE  /\ w'[q].pc \in Holding =>
                   WaitsOn(w'[q].job, thread') /\ NudgeDue(w'[q].job.day) <= clock
             /\ w'[q].pc = "n_state" => NudgeDue(w'[q].job.day) > clock
  <2>1. CASE q = p
    <3>1. ASSUME w'[p].pc \in Holding
          PROVE  WaitsOn(w'[p].job, thread) /\ NudgeDue(w'[p].job.day) <= clock
      BY <3>1 DEF Follows, IInv, Due
    <3>2. QED
      BY <1>1, <2>1, <3>1
  <2>2. CASE q # p
    BY <1>1, <2>2 DEF Beside, IInv, Due
  <2>3. QED
    BY <2>1, <2>2
<1>4. QED
  BY <1>2, <1>3 DEF Due

\* The slot of the day before a step is the slot after it, or is free.
Slot(p) ==
    /\ \/ row'.nudge = row.nudge \/ row'.nudge.day = 0
       \/ w[p].pc = "n_state" /\ row'.nudge = w[p].job
    /\ w[p].pc \in {"n_clear", "n_count"} =>
          row'.nudge.day = 0 \/ Faults({"write_lost"})' > 0

LEMMA CoveredStays ==
    ASSUME IInv, NEW p \in Workers, Beside(p), Grows, Follows(p),
           JobsCalm, NEW d \in 1 .. MaxClock, NudgeDue(d) <= clock, Covered(d)
    PROVE  Covered(d)'
<1>1. PICK i \in DOMAIN thread :
        /\ thread[i].what = "nudge" /\ thread[i].went = "sent"
        /\ \A n \in nudgeJobs : n[2].day = d => n[2].since < i
        /\ \A q \in Workers : w[q].pc \in Holding /\ w[q].job.day = d => w[q].job.since < i
  BY DEF Covered
<1>2. i \in DOMAIN thread' /\ thread'[i].what = "nudge" /\ thread'[i].went = "sent"
  BY <1>1 DEF Grows
<1>3. ASSUME NEW q \in Workers, w'[q].pc \in Holding, w'[q].job.day = d PROVE w'[q].job.since < i
  <2>1. CASE q = p
    BY <1>1, <1>3, <2>1 DEF Follows
  <2>2. CASE q # p
    BY <1>1, <1>3, <2>2 DEF Beside
  <2>3. QED
    BY <2>1, <2>2
<1>4. ASSUME NEW n \in nudgeJobs', n[2].day = d PROVE n[2].since < i
  <2>1. CASE n \in nudgeJobs
    BY <1>1, <1>4, <2>1
  <2>2. CASE NudgeDue(n[2].day) > clock
    <3>1. clock \in Nat
      BY BoundsAssumption DEF IInv, RestOK
    <3>2. QED
      BY <1>4, <2>2, <3>1 DEF NudgeDue
  <2>3. QED
    BY <2>1, <2>2 DEF JobsCalm
<1>5. QED
  BY <1>1, <1>2, <1>3, <1>4 DEF Covered

LEMMA FreedStays ==
    ASSUME IInv, NEW p \in Workers, Beside(p), SomeFault, Slot(p), NEW d \in 1 .. MaxClock,
           NudgeDue(d) <= clock, w[p].pc = "n_append" => w'[p].pc = "n_count" /\ w'[p].job = w[p].job,
           Freed(d)
    PROVE  Freed(d)'
<1>1. CASE Mate({"n_append", "n_count", "n_clear"}, d)
  <2>1. PICK q \in Workers : w[q].pc \in {"n_append", "n_count", "n_clear"} /\ w[q].job.day = d
    BY <1>1 DEF Mate
  <2>2. CASE q # p
    BY <2>1, <2>2 DEF Beside, Freed, Mate
  <2>3. CASE q = p /\ w[p].pc = "n_append"
    BY <2>1, <2>3 DEF Freed, Mate
  <2>4. CASE q = p /\ w[p].pc # "n_append"
    <3>1. row'.nudge.day = 0 \/ Faults({"write_lost"})' > 0
      BY <2>1, <2>4 DEF Slot
    <3>2. QED
      BY <3>1 DEF Freed
  <2>5. QED
    BY <2>2, <2>3, <2>4
<1>2. CASE row.nudge.day # d
  <2>1. w[p].pc = "n_state" => w[p].job.day # d
    <3>1. ASSUME w[p].pc = "n_state", w[p].job.day = d PROVE FALSE
      <4>1. NudgeDue(d) > clock /\ clock \in Nat
        BY <3>1 DEF IInv, Due, RestOK
      <4>2. QED
        BY <4>1, BoundsAssumption DEF NudgeDue
    <3>2. QED
      BY <3>1
  <2>2. QED
    BY <1>2, <2>1 DEF Slot, Freed
<1>3. CASE Faults({"write_lost"}) > 0
  <2>1. Faults({"write_lost"})' > 0
    BY <1>3, FaultsGrow DEF IInv
  <2>2. QED
    BY <2>1 DEF Freed
<1>4. QED
  BY <1>1, <1>2, <1>3 DEF Freed

\* A nudge that goes is there, and a nudge that comes to the thread ends well.
Nudging(p) ==
    /\ \A d \in 1 .. MaxClock : mail'.nudge[d] > 0 =>
          mail.nudge[d] > 0 \/ (NudgeDue(d) <= clock /\ Said(d)' /\ Freed(d)')
    /\ w[p].pc = "n_append" => /\ w'[p].pc = "n_count" /\ w'[p].job = w[p].job
                              /\ \A d \in 1 .. MaxClock : Said(d)'

LEMMA SlotsStep ==
    ASSUME IInv, NEW p \in Workers, Beside(p), JobsCalm, UNCHANGED clock,
           Grows, Follows(p), SomeFault, Slot(p), Nudging(p)
    PROVE  Slots'
<1>1. ASSUME NEW d \in 1 .. MaxClock, mail.nudge[d] > 0
      PROVE  NudgeDue(d) <= clock' /\ (Faults({"kill"})' > 0 \/ (Said(d)' /\ Freed(d)'))
  <2>1. Faults({"kill"}) > 0 => Faults({"kill"})' > 0
    BY FaultsGrow DEF IInv
  <2>2. NudgeDue(d) <= clock /\ (Faults({"kill"}) > 0 \/ (Said(d) /\ Freed(d)))
    BY <1>1 DEF IInv, Slots
  <2>3. Said(d) => Said(d)'
    <3>1. CASE w[p].pc = "n_append"
      BY <3>1 DEF Nudging
    <3>2. CASE Mate({"n_append"}, d) /\ w[p].pc # "n_append"
      BY <3>2 DEF Mate, Said, Beside
    <3>3. CASE Covered(d)
      BY <2>2, <3>3, CoveredStays DEF Said
    <3>4. CASE Faults({"append_lost", "answer_lost"}) > 0
      <4>1. Faults({"append_lost", "answer_lost"})' > 0
        BY <3>4, FaultsGrow DEF IInv
      <4>2. QED
        BY <4>1 DEF Said
    <3>5. QED
      BY <3>1, <3>2, <3>3, <3>4 DEF Said
  <2>4. Freed(d) => Freed(d)'
    BY <2>2, FreedStays DEF Nudging
  <2>5. QED
    BY <2>1, <2>2, <2>3, <2>4
<1>2. ASSUME NEW d \in 1 .. MaxClock, mail'.nudge[d] > 0
      PROVE  NudgeDue(d) <= clock' /\ (Faults({"kill"})' > 0 \/ (Said(d)' /\ Freed(d)'))
  BY <1>1, <1>2 DEF Nudging
<1>3. QED
  BY <1>2 DEF Slots

----------------------------------------------------------------------------
(* Steps that touch no account.                                              *)

\* Nothing is put on the thread, or a line that is no follow-up we sent.
Adds ==
    \/ UNCHANGED thread
    \/ \E m \in MessageType : /\ thread' = Append(thread, m)
                              /\ m.went = "pending" => m.what = "followup"
                              /\ ~(m.what = "followup" /\ m.went = "sent")

LEMMA AddsOK ==
    ASSUME ThreadOK, Adds PROVE ThreadOK' /\ Kept /\ Grows /\ Lines(thread') = Lines(thread)
<1>1. CASE UNCHANGED thread
  BY <1>1 DEF ThreadOK, Kept, Grows
<1>2. ASSUME NEW m \in MessageType, thread' = Append(thread, m),
             m.went = "pending" => m.what = "followup",
             ~(m.what = "followup" /\ m.went = "sent")
      PROVE  ThreadOK' /\ Kept /\ Grows /\ Lines(thread') = Lines(thread)
  BY <1>2, Appended
<1>3. QED
  BY <1>1, <1>2 DEF Adds

LEMMA Line ==
    ASSUME NEW from \in {"matchy", "expert"},
           NEW what \in {"note", "reply", "auto", "followup", "rate", "times", "nudge"},
           NEW went \in {"sent", "pending", "held"}, Append1(from, what, went),
           IF what = "followup" THEN went # "sent" ELSE went # "pending"
    PROVE  Adds
<1> DEFINE m == [from |-> from, what |-> what, went |-> went]
<1>1. m \in MessageType /\ m.what = what /\ m.went = went
  BY DEF MessageType
<1>2. thread' = Append(thread, m)
  BY DEF Append1
<1> HIDE DEF m
<1>3. QED
  BY <1>1, <1>2 DEF Adds

\* A line is put on the thread, or the thread refuses it.
LEMMA StoredLine ==
    ASSUME NEW from \in {"matchy", "expert"},
           NEW what \in {"note", "reply", "auto", "followup", "rate", "times", "nudge"},
           NEW went \in {"sent", "pending", "held"}, Stores(from, what, went),
           IF what = "followup" THEN went # "sent" ELSE went # "pending"
    PROVE  Adds /\ SomeFault
<1>1. CASE Append1(from, what, went) /\ UNCHANGED faults
  BY <1>1, Line DEF SomeFault
<1>2. CASE Fault("append_lost") /\ UNCHANGED thread
  BY <1>2 DEF Adds, SomeFault, Fault
<1>3. QED
  BY <1>1, <1>2 DEF Stores

MailCalm == MailOK' /\ mail'.followup = mail.followup /\ mail'.nudge = mail.nudge

LEMMA MailSame == ASSUME MailOK, UNCHANGED mail PROVE MailCalm
  BY DEF MailOK, MailCalm

\* One more message for x; no message is counted for who is not in S.
LEMMA OneMore ==
    ASSUME NEW S, NEW f \in [S -> Nat], NEW x
    PROVE  [f EXCEPT ![x] = f[x] + 1] \in [S -> Nat]
<1>1. CASE x \in S
  BY <1>1
<1>2. CASE x \notin S
  BY <1>2
<1>3. QED
  BY <1>1, <1>2

\* One field of the account changes, whatever is counted in it.
LEMMA OneField ==
    ASSUME NEW counts, NEW days, NEW sets, NEW m \in MailType(counts, days, sets),
           NEW n \in Nat, NEW l \in counts, NEW d \in days
    PROVE  /\ [m EXCEPT !.terms = n] \in MailType(counts, days, sets)
           /\ [m EXCEPT !.terms = n].followup = m.followup
           /\ [m EXCEPT !.terms = n].nudge = m.nudge
           /\ [m EXCEPT !.followup = n] \in MailType(counts, days, sets)
           /\ [m EXCEPT !.followup = n].followup = n
           /\ [m EXCEPT !.followup = n].nudge = m.nudge
           /\ [m EXCEPT !.nudge = d] \in MailType(counts, days, sets)
           /\ [m EXCEPT !.nudge = d].followup = m.followup
           /\ [m EXCEPT !.nudge = d].nudge = d
           /\ [m EXCEPT !.later = l] \in MailType(counts, days, sets)
           /\ [m EXCEPT !.later = l].followup = m.followup
           /\ [m EXCEPT !.later = l].nudge = m.nudge
           /\ [m EXCEPT !.later = l].later = l
  BY DEF MailType

\* The account after a mail of any kind: m has the kind's own count.
LEMMA MailCounted ==
    ASSUME MailOK, NEW x,
           NEW m \in MailType([Addresses -> Nat], [1 .. MaxClock -> Nat], SUBSET Addresses),
           m.later = mail.later, mail' = [m EXCEPT !.later = [mail.later EXCEPT ![x] = @ + 1]]
    PROVE  /\ MailOK' /\ mail'.followup = m.followup /\ mail'.nudge = m.nudge
           /\ mail'.later = [mail.later EXCEPT ![x] = @ + 1]
<1> DEFINE later == [mail.later EXCEPT ![x] = @ + 1]
           A == [Addresses -> Nat]
           D == [1 .. MaxClock -> Nat]
           S == SUBSET Addresses
<1>1. mail.later \in A
  BY DEF MailOK, MailType
<1>2. later \in A
  BY <1>1, OneMore
<1>3. m \in MailType(A, D, S) /\ m.nudge \in D /\ m.terms \in Nat /\ mail' = [m EXCEPT !.later = later]
  BY DEF MailType
<1> HIDE DEF later, A, D, S
<1>4. /\ mail' \in MailType(A, D, S)
      /\ mail'.followup = m.followup /\ mail'.nudge = m.nudge /\ mail'.later = later
  BY <1>2, <1>3 DEF MailType
<1>5. QED
  BY <1>4 DEF MailOK, A, D, S, later

\* One message more for x.
Wrote(x) == mail'.later = [mail.later EXCEPT ![x] = @ + 1]

LEMMA MailTerms == ASSUME MailOK, NEW p \in Workers, TermsMailed(p) PROVE MailCalm /\ Wrote(w[p].addr)
<1> DEFINE m == [mail EXCEPT !.terms = @ + 1]
           A == [Addresses -> Nat]
           D == [1 .. MaxClock -> Nat]
           S == SUBSET Addresses
<1>1. mail \in MailType(A, D, S) /\ mail.nudge \in D /\ mail.later \in A /\ mail.terms + 1 \in Nat
  BY DEF MailOK, MailType
<1>2. mail' = [m EXCEPT !.later = [mail.later EXCEPT ![w[p].addr] = @ + 1]]
  BY DEF TermsMailed
<1> HIDE DEF A, D, S
<1>3. /\ m \in MailType(A, D, S) /\ m.later = mail.later
      /\ m.followup = mail.followup /\ m.nudge = mail.nudge
  BY <1>1, OneField DEF MailType
<1> HIDE DEF m
<1>4. QED
  BY <1>2, <1>3, MailCounted DEF MailCalm, Wrote, A, D, S

\* The row keeps that terms were asked for, and its slot unless that is freed.
RowCalm == /\ RowOK' /\ (row.followed => row'.followed)
           /\ row'.nudge = row.nudge \/ row'.nudge.day = 0

RestCalm == RestOK' /\ UNCHANGED clock /\ SomeFault

LEMMA RestSame ==
    ASSUME RestOK, SomeFault, UNCHANGED <<clock, starts, locks, mode>>,
           suppressed' \subseteq Addresses, events' \subseteq events
    PROVE  RestCalm
<1>1. faults' \in Seq(Ops) /\ Len(faults') <= MaxFaults
  BY FaultsGrow
<1>2. QED
  BY <1>1 DEF RestOK, RestCalm

\* Handler p takes up h, and what it releases stays what it was.
LEMMA HandlersKept ==
    ASSUME IInv, NEW p \in Workers, NEW h, w' = [w EXCEPT ![p] = h], HandlerOK(h, thread), Kept,
           h.pc \in Flagless => w[p].pc \in Flagless /\ h.at = w[p].at
    PROVE  HandlersOK' /\ w'[p] = h /\ Beside(p)
<1>1. h \in Handlers /\ HandlerOK(h, thread')
  BY StillOK DEF HandlerOK
<1>2. \A q \in Workers : HandlerOK(w[q], thread')
  BY StillOK DEF IInv, HandlersOK
<1>3. h.pc \in Flagless => \A q \in Workers \ {p} : w[q].pc \in Flagless => w[q].at # h.at
  BY DEF IInv, HandlersOK
<1>4. HandlersOK'
  BY <1>1, <1>2, <1>3, HandlersStep DEF IInv
<1>5. QED
  BY <1>1, <1>4, Task DEF IInv

LEMMA LinesUntouched ==
    ASSUME IInv, NEW p \in Workers, Beside(p), ThreadOK', MailOK', SomeFault,
           mail'.followup = mail.followup, Lines(thread') = Lines(thread),
           w'[p].pc \in Flagless <=> w[p].pc \in Flagless,
           w'[p].pc = "r_append" <=> w[p].pc = "r_append",
           row.followed => row'.followed, w[p].pc = "r_mark" => row'.followed
    PROVE  FollowUps'
<1>1. Cardinality(Lines(thread')) = Cardinality(Lines(thread)) /\ Cardinality(Lines(thread)) \in Nat
  BY LinesFinite DEF IInv, ThreadOK
<1>2. /\ Faults(Hides) \in Nat /\ Faults(Hides)' \in Nat /\ Faults(Hides) <= Faults(Hides)'
      /\ Faults(Shows) \in Nat /\ Faults(Shows)' \in Nat /\ Faults(Shows) <= Faults(Shows)'
      /\ Faults({"append_lost"}) \in Nat /\ Faults({"append_lost"})' \in Nat
      /\ Faults({"append_lost"}) <= Faults({"append_lost"})'
  <2>1. \A kinds : /\ Faults(kinds) \in Nat /\ Faults(kinds)' \in Nat
                   /\ Faults(kinds) <= Faults(kinds)'
    BY FaultsGrow DEF IInv
  <2>2. QED
    BY <2>1 DEF Hides, Shows
<1>3. /\ mail.followup \in Nat
      /\ Bit(w[p].pc \in Flagless) = Bit(w'[p].pc \in Flagless)
      /\ Bit(w[p].pc = "r_append") = Bit(w'[p].pc = "r_append")
      /\ Bit(w[p].pc \in Flagless) \in Nat /\ Bit(w[p].pc = "r_append") \in Nat
      /\ Bit(w'[p].pc = "r_mark") \in Nat /\ Bit(w[p].pc = "r_mark") \in Nat
      /\ ~row'.followed => ~row.followed /\ Bit(w[p].pc = "r_mark") = 0
  BY DEF IInv, MailOK, MailType, Bit
<1>4. PaysForLines(p)
  BY <1>1, <1>2, <1>3 DEF PaysForLines
<1>5. QED
  BY <1>4, FollowUpsStep DEF IInv

\* A step of handler p that leaves the account of the follow-ups alone.
LEMMA OneStep ==
    ASSUME IInv, NEW p \in Workers, NEW h, w' = [w EXCEPT ![p] = h], HandlerOK(h, thread),
           h.pc \in Flagless <=> w[p].pc \in Flagless,
           h.pc \in Flagless => h.at = w[p].at,
           h.pc = "r_append" <=> w[p].pc = "r_append",
           w[p].pc = "r_mark" => row'.followed,
           h.pc = "n_state" => NudgeDue(h.job.day) > clock,
           h.pc \in Holding =>
               \/ w[p].pc \in Holding /\ h.job = w[p].job
               \/ \E n \in nudgeJobs : h.job = n[2] /\ NudgeDue(n[2].day) <= clock,
           RowOK', row.followed => row'.followed, Slot(p),
           Adds, MailOK', mail'.followup = mail.followup, Nudging(p), JobsCalm, RestCalm
    PROVE  IInv'
<1>1. ThreadOK' /\ Kept /\ Grows /\ Lines(thread') = Lines(thread)
  BY AddsOK DEF IInv
<1>2. HandlersOK' /\ w'[p] = h /\ Beside(p)
  BY <1>1, HandlersKept
<1>3. FollowUps'
  BY <1>1, <1>2, LinesUntouched DEF RestCalm
<1>4. JobsOK'
  BY DEF IInv, JobsOK, JobsCalm
<1>5. Follows(p)
  BY <1>2 DEF Follows
<1>6. Due'
  BY <1>1, <1>2, <1>5, DueStep DEF RestCalm
<1>7. Slots'
  BY <1>1, <1>2, <1>5, SlotsStep DEF RestCalm
<1>8. QED
  BY <1>1, <1>2, <1>3, <1>4, <1>6, <1>7 DEF IInv, RestCalm

LEMMA PlainStep ==
    ASSUME IInv, NEW p \in Workers, NEW h, w' = [w EXCEPT ![p] = h], HandlerOK(h, thread),
           h.pc \in Flagless <=> w[p].pc \in Flagless,
           h.pc \in Flagless => h.at = w[p].at,
           h.pc = "r_append" <=> w[p].pc = "r_append",
           w[p].pc = "r_mark" => row'.followed,
           h.pc # "n_state", w[p].pc # "n_append",
           h.pc \in Holding =>
               \/ w[p].pc \in Holding /\ h.job = w[p].job
               \/ \E n \in nudgeJobs : h.job = n[2] /\ NudgeDue(n[2].day) <= clock,
           RowOK', row.followed => row'.followed, Slot(p),
           Adds, MailCalm, nudgeJobs' \subseteq nudgeJobs, RestCalm
    PROVE  IInv'
<1>1. JobsCalm
  BY DEF JobsCalm
<1>2. Nudging(p)
  BY DEF Nudging, MailCalm
<1>3. QED
  BY <1>1, <1>2, OneStep DEF MailCalm

\* Where a handler has something to leave behind.
Owing == {"r_append", "r_mark", "n_append", "n_clear", "n_count"}

\* Handler p ends.
LEMMA PlainFinish ==
    ASSUME IInv, NEW p \in Workers, Finish(p),
           w[p].pc \notin Flagless, w[p].pc \notin Owing,
           RowCalm, Adds, MailCalm, UNCHANGED nudgeJobs, RestCalm
    PROVE  IInv'
<1>1. w' = [w EXCEPT ![p] = Idle]
  BY DEF Finish
<1>2. HandlerOK(Idle, thread) /\ Idle.pc = "idle"
  BY IdleOK DEF Idle
<1>3. /\ Idle.pc \notin Flagless /\ Idle.pc \notin Holding /\ Idle.pc # "r_append"
      /\ w[p].pc # "r_append" /\ w[p].pc # "r_mark" /\ w[p].pc # "n_append"
  BY <1>2 DEF Flagless, Holding, Checked, Owing
<1>4. Slot(p)
  BY DEF Slot, RowCalm, Owing
<1>5. QED
  BY <1>1, <1>2, <1>3, <1>4, PlainStep DEF RowCalm

\* Handler p goes on to x.
GoesTo(p, x) ==
    /\ x \in Points /\ x \notin {"n_state", "n_check"}
    /\ x \in Addressed => w[p].addr \in Addresses
    /\ x \in Checked => w[p].row.nudge.count < MaxNudges
    /\ x \in {"d_list", "d_row"} => w[p].kind = "complaint"
    /\ x \in Drafted => w[p].pc \in Drafted
    /\ x \in Holding => w[p].pc \in Holding

LEMMA Gone ==
    ASSUME HandlersOK, NEW p \in Workers, NEW x, Goto(p, x), GoesTo(p, x),
           x \in Flagless => w[p].pc \in Flagless
    PROVE  \E h : /\ w' = [w EXCEPT ![p] = h] /\ HandlerOK(h, thread)
                  /\ h = [w[p] EXCEPT !.pc = x]
                  /\ h.pc = x /\ h.at = w[p].at /\ h.job = w[p].job
<1> DEFINE h == [w[p] EXCEPT !.pc = x]
<1>1. w' = [w EXCEPT ![p] = h]
  BY DEF Goto
<1>2. w[p] \in Handlers /\ HandlerOK(w[p], thread)
  BY DEF HandlersOK
<1>3. /\ h \in Handlers /\ h.pc = x /\ h.at = w[p].at /\ h.job = w[p].job
      /\ h.addr = w[p].addr /\ h.row = w[p].row /\ h.kind = w[p].kind
  BY <1>2 DEF Handlers, GoesTo
<1>4. h = [w[p] EXCEPT !.pc = x]
  OBVIOUS
<1> HIDE DEF h
<1>5. HandlerOK(h, thread)
  BY <1>2, <1>3 DEF HandlerOK, GoesTo
<1>6. QED
  BY <1>1, <1>3, <1>4, <1>5

LEMMA PlainGoto ==
    ASSUME IInv, NEW p \in Workers, NEW x, Goto(p, x), GoesTo(p, x),
           x \in Flagless <=> w[p].pc \in Flagless,
           x # "r_append", w[p].pc \notin Owing,
           RowCalm, Adds, MailCalm, UNCHANGED nudgeJobs, RestCalm
    PROVE  IInv'
<1>1. PICK h : /\ w' = [w EXCEPT ![p] = h] /\ HandlerOK(h, thread)
               /\ h.pc = x /\ h.at = w[p].at /\ h.job = w[p].job
  BY Gone DEF IInv
<1>2. /\ h.pc \in Flagless <=> w[p].pc \in Flagless
      /\ h.pc \in Flagless => h.at = w[p].at
      /\ h.pc # "r_append" /\ h.pc # "n_state"
      /\ w[p].pc # "r_append" /\ w[p].pc # "r_mark" /\ w[p].pc # "n_append"
      /\ h.pc \in Holding => w[p].pc \in Holding /\ h.job = w[p].job
  BY <1>1 DEF GoesTo, Owing
<1>3. Slot(p)
  BY DEF Slot, RowCalm, Owing
<1>4. QED
  BY <1>1, <1>2, <1>3, PlainStep DEF RowCalm

\* Handler p takes up h, and nothing is left behind.
LEMMA CalmStep ==
    ASSUME IInv, NEW p \in Workers, NEW h, w' = [w EXCEPT ![p] = h], HandlerOK(h, thread),
           h.pc \notin Flagless, h.pc \notin Holding, h.pc # "r_append", h.pc # "n_state",
           w[p].pc \notin Flagless, w[p].pc \notin Owing,
           RowCalm, Adds, MailCalm, UNCHANGED nudgeJobs, RestCalm
    PROVE  IInv'
<1>1. w[p].pc # "r_append" /\ w[p].pc # "r_mark" /\ w[p].pc # "n_append" /\ Slot(p)
  BY DEF Slot, RowCalm, Owing
<1>2. QED
  BY <1>1, PlainStep DEF RowCalm

----------------------------------------------------------------------------
(* The nudge handlers' plain steps.                                          *)

\* What most steps leave alone.
LEMMA RecordSame == ASSUME RowOK, UNCHANGED Record PROVE RowCalm /\ Adds
  BY DEF RowOK, RowCalm, Adds, Record

LEMMA NudgeTyped ==
    ASSUME NEW n \in NudgeType, NEW count \in 0 .. MaxNudges
    PROVE  /\ [n EXCEPT !.day = 0] \in NudgeType
           /\ [n EXCEPT !.count = count, !.day = 0] \in NudgeType
<1> DEFINE m == [n EXCEPT !.count = count]
<1>1. m \in NudgeType /\ [n EXCEPT !.count = count, !.day = 0] = [m EXCEPT !.day = 0]
  BY DEF NudgeType
<1>2. \A x \in NudgeType : [x EXCEPT !.day = 0] \in NudgeType
  BY DEF NudgeType
<1> HIDE DEF m
<1>3. QED
  BY <1>1, <1>2

\* A handler's own copies are of their types.
LEMMA Copies ==
    ASSUME HandlersOK, NEW p \in Workers
    PROVE  /\ w[p] \in Handlers /\ w[p].row \in RowType /\ w[p].job \in NudgeType
           /\ w[p].row.nudge \in NudgeType /\ w[p].at \in Nat /\ w[p].mode \in Modes
           /\ w[p].addr \in Addresses \cup {NoAddress}
  BY DEF HandlersOK, Handlers, RowType

LEMMA RowNudge == ASSUME RowOK, NEW n \in NudgeType, row' = [row EXCEPT !.nudge = n] 
    PROVE  RowOK' /\ row'.followed = row.followed /\ row'.nudge = n
  BY DEF RowOK, RowType

\* What most steps leave alone, besides.
Still ==
    /\ UNCHANGED <<locks, nudgeJobs, clock, starts, mode>>
    /\ events' \subseteq events /\ suppressed' \subseteq Addresses /\ SomeFault

LEMMA StillCalm == ASSUME RestOK, Still PROVE RestCalm /\ UNCHANGED nudgeJobs
  BY RestSame DEF Still

\* The planner decides against a nudge, or a write fails.
LEMMA PlanGivenUp ==
    ASSUME IInv, NEW p \in Workers, PlanNothing(p) \/ PlanFails(p) PROVE IInv'
<1>1. /\ Finish(p) /\ w[p].pc \in {"n_plan", "n_state"} /\ Still
      /\ UNCHANGED <<Record, mail>>
  BY DEF PlanNothing, PlanFails, At, Uncounted, Unlisted, SomeFault, Fault, Still, Vendors,
         IInv, RestOK
<1>2. QED
  BY <1>1, RecordSame, MailSame, StillCalm, PlainFinish DEF IInv, Flagless, Owing

LEMMA PlanStateOK == ASSUME IInv, NEW p \in Workers, PlanState(p) PROVE IInv'
<1>1. /\ w' = [w EXCEPT ![p] = Idle] /\ w[p].pc = "n_state"
      /\ row' = [row EXCEPT !.nudge = w[p].job] /\ Still /\ UNCHANGED <<thread, mail>>
  BY DEF PlanState, Finish, At, Uncounted, Unlisted, SomeFault, Still, Vendors, IInv, RestOK
<1>2. RowOK' /\ Adds /\ row'.followed = row.followed /\ Slot(p)
  BY <1>1, Copies, RowNudge DEF IInv, Adds, Slot
<1>3. HandlerOK(Idle, thread) /\ Idle.pc = "idle"
  BY IdleOK DEF Idle
<1>4. Idle.pc \notin Flagless /\ Idle.pc \notin Holding /\ w[p].pc \notin Flagless
  BY <1>1, <1>3 DEF Flagless, Holding, Checked
<1>5. MailCalm /\ RestCalm /\ UNCHANGED nudgeJobs
  BY <1>1, MailSame, StillCalm DEF IInv
<1>6. QED
  BY <1>1, <1>2, <1>3, <1>4, <1>5, PlainStep

LEMMA NudgeCheckOK == ASSUME IInv, NEW p \in Workers, NudgeCheck(p) PROVE IInv'
<1>1. /\ w[p].pc = "n_check" /\ Still /\ UNCHANGED <<Record, mail>>
      /\ (StillWanted(p) /\ Goto(p, "n_list")) \/ Finish(p)
  BY DEF NudgeCheck, At, Uncounted, Unlisted, SomeFault, Still, Vendors, IInv, RestOK
<1>2. /\ RowCalm /\ Adds /\ MailCalm /\ RestCalm /\ UNCHANGED nudgeJobs
  BY <1>1, RecordSame, MailSame, StillCalm DEF IInv
<1>3. CASE Finish(p)
  BY <1>1, <1>2, <1>3, PlainFinish DEF Flagless, Owing
<1>4. CASE StillWanted(p) /\ Goto(p, "n_list")
  <2>1. w[p].addr \in Addresses /\ w[p].row.nudge.count < MaxNudges
    BY <1>1, <1>4, Copies DEF IInv, HandlersOK, HandlerOK, StillWanted
  <2>2. GoesTo(p, "n_list")
    BY <1>1, <2>1 DEF GoesTo, Points, Drafted, Flagless, Holding
  <2>3. QED
    BY <1>1, <1>2, <1>4, <2>2, PlainGoto DEF Flagless, Owing
<1>5. QED
  BY <1>1, <1>3, <1>4

\* The state of the nudges is written, or the write fails; the handler ends.
LEMMA NudgeWritten ==
    ASSUME IInv, NEW p \in Workers, NudgeRetire(p) \/ NudgeClear(p) \/ NudgeCount(p)
    PROVE  IInv'
<1> DEFINE n == w[p].row.nudge
<1>1. /\ w[p].pc \in {"n_list", "n_clear", "n_count"} /\ w' = [w EXCEPT ![p] = Idle]
      /\ UNCHANGED <<thread, mail>>
  BY DEF NudgeRetire, NudgeClear, NudgeCount, WritesNudge, Finish, At, Vendors
<1>2. Still
  BY DEF NudgeRetire, NudgeClear, NudgeCount, WritesNudge, Fault, SomeFault, Unlisted, Still,
         Vendors, IInv, RestOK
<1>3. n \in NudgeType /\ n.count \in 0 .. MaxNudges /\ n.count < MaxNudges /\ MaxNudges \in Nat
  BY <1>1, Copies, MaxNudgesAssumption DEF IInv, HandlersOK, HandlerOK, Checked, NudgeType
<1>4. n.count + 1 \in 0 .. MaxNudges /\ MaxNudges \in 0 .. MaxNudges
  BY <1>3
<1>5. \/ Fault("write_lost") /\ UNCHANGED row
      \/ row' = [row EXCEPT !.nudge = [n EXCEPT !.count = MaxNudges, !.day = 0]]
      \/ row' = [row EXCEPT !.nudge = [n EXCEPT !.day = 0]]
      \/ row' = [row EXCEPT !.nudge = [n EXCEPT !.count = n.count + 1, !.day = 0]]
  BY DEF NudgeRetire, NudgeClear, NudgeCount, WritesNudge
<1> HIDE DEF n
<1>6. /\ RowOK' /\ row'.followed = row.followed
      /\ row'.nudge.day = 0 \/ (row'.nudge = row.nudge /\ Faults({"write_lost"})' > 0)
  <2>1. CASE Fault("write_lost") /\ UNCHANGED row
    <3>1. /\ Faults({"write_lost"}) \in Nat
          /\ Faults({"write_lost"})' = Faults({"write_lost"}) + Bit("write_lost" \in {"write_lost"})
      BY <2>1, FaultCounted DEF IInv
    <3>2. Faults({"write_lost"})' > 0
      BY <3>1 DEF Bit
    <3>3. QED
      BY <2>1, <3>2 DEF IInv, RowOK
  <2>2. ASSUME NEW m \in NudgeType, m.day = 0, row' = [row EXCEPT !.nudge = m]
        PROVE  RowOK' /\ row'.followed = row.followed /\ row'.nudge.day = 0
    BY <2>2, RowNudge DEF IInv
  <2>3. /\ [n EXCEPT !.day = 0] \in NudgeType /\ [n EXCEPT !.day = 0].day = 0
        /\ \A count \in 0 .. MaxNudges : /\ [n EXCEPT !.count = count, !.day = 0] \in NudgeType
                                          /\ [n EXCEPT !.count = count, !.day = 0].day = 0
    BY <1>3, NudgeTyped DEF NudgeType
  <2>4. QED
    BY <1>4, <1>5, <2>1, <2>2, <2>3
<1>7. Slot(p)
  BY <1>6 DEF Slot
<1>8. HandlerOK(Idle, thread) /\ Idle.pc = "idle"
  BY IdleOK DEF Idle
<1>9. Idle.pc \notin Flagless /\ Idle.pc \notin Holding /\ w[p].pc \notin Flagless
  BY <1>1, <1>8 DEF Flagless, Holding, Checked
<1>10. MailCalm /\ RestCalm /\ UNCHANGED nudgeJobs /\ Adds
  BY <1>1, <1>2, MailSame, StillCalm DEF IInv, Adds
<1>11. QED
  BY <1>1, <1>6, <1>7, <1>8, <1>9, <1>10, PlainStep

LEMMA NudgeGateOK == ASSUME IInv, NEW p \in Workers, NudgeGate(p) PROVE IInv'
<1>1. /\ w[p].pc = "n_list" /\ Still /\ UNCHANGED <<Record, mail>>
      /\ Goto(p, "n_send") \/ Goto(p, "n_clear")
  BY DEF NudgeGate, At, Uncounted, Unlisted, SomeFault, Still, Vendors, IInv, RestOK
<1>2. w[p].addr \in Addresses /\ w[p].row.nudge.count < MaxNudges
  BY <1>1 DEF IInv, HandlersOK, HandlerOK, Addressed, Checked
<1>3. GoesTo(p, "n_send") /\ GoesTo(p, "n_clear")
  BY <1>1, <1>2 DEF GoesTo, Points, Drafted, Flagless, Holding, Checked
<1>4. QED
  BY <1>1, <1>3, RecordSame, MailSame, StillCalm, PlainGoto DEF IInv, Flagless, Owing

----------------------------------------------------------------------------
(* The nudge handlers' steps that move a slot.                               *)

\* Among the places in a thread there is a last one.
LEMMA LastPlace ==
    ASSUME NEW n \in Nat, NEW S \in SUBSET (1 .. n), S # {}
    PROVE  \E i \in S : \A j \in S : j <= i
<1> DEFINE R == OpToRel(<, Nat)
           T == {n - i : i \in S}
<1>1. T \subseteq Nat /\ T # {}
  <2>1. \A i \in S : n - i \in Nat
    OBVIOUS
  <2>2. PICK i \in S : TRUE
    OBVIOUS
  <2>3. n - i \in T
    OBVIOUS
  <2>4. QED
    BY <2>1, <2>3, Zenon
<1>2. IsWellFoundedOn(R, Nat)
  BY NatLessThanWellFounded
<1>3. \A x, y \in Nat : x < y => <<x, y>> \in R
  BY DEF OpToRel
<1> HIDE DEF R, T
<1>4. PICK x \in T : \A y \in T : ~(<<y, x>> \in R)
  BY <1>1, <1>2, WFMin
<1>5. \A y \in T : ~(y < x)
  BY <1>1, <1>3, <1>4
<1>6. PICK i \in S : x = n - i
  BY <1>4 DEF T
<1>7. ASSUME NEW j \in S PROVE j <= i
  <2>1. n - j \in T /\ i \in Nat /\ j \in Nat
    BY DEF T
  <2>2. QED
    BY <1>5, <1>6, <2>1
<1>8. QED
  BY <1>7

LEMMA WaitingTyped == ASSUME ThreadOK PROVE WaitingSince(thread) \in 0 .. Len(thread)
<1>1. Spoken(thread) \in SUBSET (1 .. Len(thread)) /\ Len(thread) \in Nat
  BY DEF ThreadOK, Spoken
<1>2. CASE Spoken(thread) = {}
  BY <1>1, <1>2 DEF WaitingSince
<1>3. CASE Spoken(thread) # {}
  <2> DEFINE last == CHOOSE i \in Spoken(thread) : \A j \in Spoken(thread) : j <= i
  <2>1. \E i \in Spoken(thread) : \A j \in Spoken(thread) : j <= i
    BY <1>1, <1>3, LastPlace
  <2>2. last \in Spoken(thread)
    BY <2>1
  <2>3. last \in 1 .. Len(thread)
    BY <1>1, <2>2
  <2>4. WaitingSince(thread) = IF thread[last].from = "expert" THEN 0 ELSE last
    BY <1>3 DEF WaitingSince
  <2> HIDE DEF last
  <2>5. QED
    BY <1>1, <2>3, <2>4
<1>4. QED
  BY <1>2, <1>3

\* A nudge is in the account, on its day.
LEMMA MailNudged ==
    ASSUME MailOK, NEW p \in Workers, Nudged(p)
    PROVE  /\ MailOK' /\ mail'.followup = mail.followup
           /\ \A d \in 1 .. MaxClock : mail'.nudge[d] = mail.nudge[d] + Bit(d = w[p].job.day)
           /\ Wrote(w[p].addr)
<1> DEFINE day == w[p].job.day
           days == [mail.nudge EXCEPT ![day] = mail.nudge[day] + 1]
           m == [mail EXCEPT !.nudge = days]
           A == [Addresses -> Nat]
           D == [1 .. MaxClock -> Nat]
           S == SUBSET Addresses
<1>1. mail \in MailType(A, D, S) /\ mail.nudge \in D /\ mail.later \in A
  BY DEF MailOK, MailType
<1>2. mail' = [m EXCEPT !.later = [mail.later EXCEPT ![w[p].addr] = @ + 1]]
  BY DEF Nudged
<1>3. days \in D
  BY <1>1, OneMore
<1>4. ASSUME NEW d \in 1 .. MaxClock PROVE days[d] = mail.nudge[d] + Bit(d = day)
  <2>1. mail.nudge \in [1 .. MaxClock -> Nat] /\ mail.nudge[d] \in Nat
    BY <1>1
  <2>2. CASE d = day
    BY <2>1, <2>2 DEF Bit
  <2>3. CASE d # day
    BY <2>1, <2>3 DEF Bit
  <2>4. QED
    BY <2>2, <2>3
<1> HIDE DEF A, D, S, days, day
<1>5. /\ m \in MailType(A, D, S) /\ m.later = mail.later
      /\ m.followup = mail.followup /\ m.nudge = days
  BY <1>1, <1>3 DEF MailType
<1> HIDE DEF m
<1>6. MailOK' /\ mail'.followup = mail.followup /\ mail'.nudge = days /\ Wrote(w[p].addr)
  BY <1>2, <1>5, MailCounted DEF Wrote, A, D, S
<1>7. QED
  BY <1>4, <1>6 DEF day

LEMMA NudgedStep ==
    ASSUME IInv, NEW p \in Workers, w[p].pc = "n_send", Nudged(p),
           NEW x \in {"n_append", "n_clear"}, Goto(p, x), UNCHANGED Record, Still,
           x = "n_clear" => Faults({"append_lost", "answer_lost"})' > 0
    PROVE  IInv'
<1>1. w[p].addr \in Addresses /\ w[p].row.nudge.count < MaxNudges
  BY DEF IInv, HandlersOK, HandlerOK, Addressed, Checked
<1>2. GoesTo(p, x) /\ x \notin Flagless /\ x # "r_append" /\ w[p].pc \notin Flagless
  BY <1>1 DEF GoesTo, Points, Drafted, Flagless, Holding, Checked
<1>3. PICK h : /\ w' = [w EXCEPT ![p] = h] /\ HandlerOK(h, thread)
               /\ h.pc = x /\ h.job = w[p].job
  BY <1>2, Gone DEF IInv
<1>4. RowCalm /\ Adds
  BY RecordSame DEF IInv
<1>5. w'[p] = h /\ Beside(p)
  BY <1>3, Task DEF IInv, HandlerOK
<1>6. RestCalm /\ UNCHANGED nudgeJobs
  BY StillCalm DEF IInv
<1>7. MailOK' /\ mail'.followup = mail.followup
  BY MailNudged DEF IInv
<1>8. w[p].pc \in Holding
  BY DEF Holding, Checked
<1>9. ASSUME NEW d \in 1 .. MaxClock, mail'.nudge[d] > 0
      PROVE  mail.nudge[d] > 0 \/ (NudgeDue(d) <= clock /\ Said(d)' /\ Freed(d)')
  <2>1. CASE d = w[p].job.day
    <3>1. NudgeDue(d) <= clock
      BY <1>8, <2>1 DEF IInv, Due
    <3>2. Mate({x}, d)'
      BY <1>3, <1>5, <2>1 DEF Mate
    <3>3. Said(d)'
      BY <3>2 DEF Said
    <3>4. Mate({"n_append", "n_count", "n_clear"}, d)'
      BY <1>3, <1>5, <2>1 DEF Mate
    <3>5. QED
      BY <3>1, <3>3, <3>4 DEF Freed
  <2>2. CASE d # w[p].job.day
    <3>1. mail'.nudge[d] = mail.nudge[d] + 0 /\ mail.nudge[d] \in Nat
      BY <2>2, MailNudged DEF IInv, MailOK, MailType, Bit
    <3>2. QED
      BY <1>9, <3>1
  <2>3. QED
    BY <2>1, <2>2
<1>10. Nudging(p)
  BY <1>9 DEF Nudging
<1>11. JobsCalm
  BY <1>6 DEF JobsCalm
<1>12. Slot(p)
  BY <1>4 DEF Slot, RowCalm
<1>13. QED
  BY <1>2, <1>3, <1>4, <1>6, <1>7, <1>8, <1>10, <1>11, <1>12, OneStep DEF RowCalm

LEMMA NudgeSentOK == ASSUME IInv, NEW p \in Workers, NudgeSent(p) PROVE IInv'
<1>1. /\ w[p].pc = "n_send" /\ Nudged(p) /\ Goto(p, "n_append") /\ UNCHANGED Record /\ Still
  BY DEF NudgeSent, At, Unlisted, Uncounted, SomeFault, Still, IInv, RestOK
<1>2. QED
  BY <1>1, NudgedStep

LEMMA NudgeRefusedOK == ASSUME IInv, NEW p \in Workers, NudgeRefused(p) PROVE IInv'
<1>1. /\ w[p].pc = "n_send" /\ Goto(p, "n_clear") /\ UNCHANGED Record /\ Still
      /\ UNCHANGED mail \/ (Nudged(p) /\ Fault("answer_lost"))
  BY DEF NudgeRefused, At, Unlisted, Uncounted, SomeFault, Fault, Still, IInv, RestOK
<1>2. CASE Nudged(p) /\ Fault("answer_lost")
  <2> DEFINE kinds == {"append_lost", "answer_lost"}
  <2>1. /\ Faults(kinds) \in Nat
        /\ Faults(kinds)' = Faults(kinds) + Bit("answer_lost" \in kinds)
    BY <1>2, FaultCounted DEF IInv
  <2>2. Faults(kinds)' > 0
    BY <2>1 DEF Bit
  <2>3. QED
    BY <1>1, <1>2, <2>2, NudgedStep
<1>3. CASE UNCHANGED mail
  <2>1. w[p].addr \in Addresses /\ w[p].row.nudge.count < MaxNudges
    BY <1>1 DEF IInv, HandlersOK, HandlerOK, Addressed, Checked
  <2>2. GoesTo(p, "n_clear")
    BY <1>1, <2>1 DEF GoesTo, Points, Drafted, Flagless, Holding, Checked
  <2>3. QED
    BY <1>1, <1>3, <2>2, RecordSame, MailSame, StillCalm, PlainGoto DEF IInv, Flagless, Owing
<1>4. QED
  BY <1>1, <1>2, <1>3

\* The line is on the thread after all that is waited on, or it is lost.
LEMMA NudgeAppendOK == ASSUME IInv, NEW p \in Workers, NudgeAppend(p) PROVE IInv'
<1>1. /\ w[p].pc = "n_append" /\ Goto(p, "n_count") /\ Stores("matchy", "nudge", "sent")
      /\ UNCHANGED <<row, mail, nudgeJobs>>
  BY DEF NudgeAppend, At, Vendors
<1>2. Adds /\ SomeFault
  BY <1>1, StoredLine
<1>3. Still
  BY <1>2 DEF NudgeAppend, Unlisted, Still, Vendors, IInv, RestOK
<1>4. w[p].addr \in Addresses /\ w[p].row.nudge.count < MaxNudges
  BY <1>1 DEF IInv, HandlersOK, HandlerOK, Addressed, Checked
<1>5. GoesTo(p, "n_count") /\ "n_count" \notin Flagless /\ w[p].pc \notin Flagless
  BY <1>1, <1>4 DEF GoesTo, Points, Drafted, Flagless, Holding, Checked
<1>6. PICK h : /\ w' = [w EXCEPT ![p] = h] /\ HandlerOK(h, thread)
               /\ h.pc = "n_count" /\ h.job = w[p].job
  BY <1>1, <1>5, Gone DEF IInv
<1>7. w'[p] = h /\ Beside(p)
  BY <1>6, Task DEF IInv, HandlerOK
<1>8. w[p].pc \in Holding
  BY <1>1 DEF Holding, Checked
<1>9. ASSUME NEW d \in 1 .. MaxClock PROVE Said(d)'
  <2>1. CASE Append1("matchy", "nudge", "sent")
    <3> DEFINE i == Len(thread) + 1
    <3>1. /\ i \in DOMAIN thread' /\ thread'[i].what = "nudge" /\ thread'[i].went = "sent"
          /\ Len(thread) \in Nat
      BY <2>1 DEF Append1, IInv, ThreadOK
    <3>2. \A job : WaitsOn(job, thread) => job.since < i
      BY <3>1 DEF WaitsOn
    <3>3. \A n \in nudgeJobs' : n[2].since < i
      BY <1>1, <3>2 DEF IInv, Due
    <3>4. ASSUME NEW q \in Workers, w'[q].pc \in Holding PROVE w'[q].job.since < i
      <4>1. w[q].pc \in Holding /\ w'[q].job = w[q].job
        BY <1>6, <1>7, <1>8, <3>4 DEF Beside
      <4>2. QED
        BY <3>2, <4>1 DEF IInv, Due
    <3> HIDE DEF i
    <3>5. Covered(d)'
      BY <3>1, <3>3, <3>4 DEF Covered
    <3>6. QED
      BY <3>5 DEF Said
  <2>2. CASE Fault("append_lost")
    <3> DEFINE kinds == {"append_lost", "answer_lost"}
    <3>1. /\ Faults(kinds) \in Nat
          /\ Faults(kinds)' = Faults(kinds) + Bit("append_lost" \in kinds)
      BY <2>2, FaultCounted DEF IInv
    <3>2. Faults(kinds)' > 0
      BY <3>1 DEF Bit
    <3>3. QED
      BY <3>2 DEF Said
  <2>3. QED
    BY <1>1, <2>1, <2>2 DEF Stores
<1>10. Nudging(p)
  BY <1>1, <1>6, <1>7, <1>9 DEF Nudging
<1>11. JobsCalm /\ Slot(p)
  BY <1>1 DEF JobsCalm, Slot
<1>12. RowOK' /\ MailCalm /\ RestCalm
  BY <1>1, <1>3, MailSame, StillCalm DEF IInv, RowOK
<1>13. QED
  BY <1>1, <1>2, <1>5, <1>6, <1>8, <1>10, <1>11, <1>12, OneStep DEF MailCalm

LEMMA PlannedTyped ==
    ASSUME RowOK, ThreadOK, RestOK, NEW r \in RowType
    PROVE  [stage |-> NudgeStage(r.status), since |-> WaitingSince(thread),
            count |-> NudgesCounted(r, thread), day |-> NextNudgeDay(clock)] \in NudgeType
<1>1. NudgeStage(r.status) \in Stages \cup {"none"}
  BY DEF NudgeStage, Stages
<1>2. WaitingSince(thread) \in Nat
  BY WaitingTyped DEF ThreadOK
<1>3. NudgesCounted(r, thread) \in 0 .. MaxNudges
  BY MaxNudgesAssumption DEF NudgesCounted, RowType, NudgeType
<1>4. NextNudgeDay(clock) \in Nat
  BY BoundsAssumption DEF NextNudgeDay, RestOK
<1>5. QED
  BY <1>1, <1>2, <1>3, <1>4 DEF NudgeType

LEMMA PlanOK == ASSUME IInv, NEW p \in Workers, Plan(p) PROVE IInv'
<1> DEFINE nudge == [stage |-> NudgeStage(w[p].row.status), since |-> WaitingSince(thread),
                     count |-> NudgesCounted(w[p].row, thread), day |-> NextNudgeDay(clock)]
           copy == CHOOSE k \in 0 .. Cardinality(nudgeJobs) : <<k, nudge>> \notin nudgeJobs
           n == <<copy, nudge>>
           g == [w[p] EXCEPT !.job = nudge]
           h == [g EXCEPT !.pc = "n_state"]
<1>1. /\ w[p].pc = "n_plan" /\ nudgeJobs' = nudgeJobs \cup {n}
      /\ UNCHANGED <<Record, mail, locks, events>> /\ Unlisted /\ Uncounted
      /\ w' = [w EXCEPT ![p] = h]
  BY DEF Plan, At
<1>2. nudge \in NudgeType
  BY PlannedTyped, Copies DEF IInv
<1>3. nudge.day = NextNudgeDay(clock) /\ nudge.since = WaitingSince(thread)
  OBVIOUS
<1>4. n[2] = nudge
  OBVIOUS
<1> HIDE DEF nudge, n
<1>5. w[p] \in Handlers /\ HandlerOK(w[p], thread)
  BY DEF IInv, HandlersOK
<1>6. g \in Handlers /\ g.pc = w[p].pc /\ g.job = nudge
  BY <1>2, <1>5 DEF Handlers
<1> HIDE DEF g
<1>7. h \in Handlers /\ h.pc = "n_state" /\ h.job = nudge
  BY <1>6 DEF Handlers, Points
<1> HIDE DEF h
<1>8. /\ HandlerOK(h, thread) /\ h.pc \notin Flagless /\ w[p].pc \notin Flagless
      /\ h.pc \notin Holding
  BY <1>1, <1>7 DEF HandlerOK, Addressed, Checked, Drafted, Flagless, Holding
<1>9. RowCalm /\ Adds
  BY <1>1, RecordSame DEF IInv
<1>10. MailCalm
  BY <1>1, MailSame DEF IInv
<1>11. RestCalm
  BY <1>1 DEF IInv, RestOK, RestCalm, Unlisted, Uncounted, SomeFault
<1>12. NudgeDue(nudge.day) > clock /\ nudge.day # 0
  <2>1. clock \in Nat /\ clock >= 1
    BY BoundsAssumption DEF IInv, RestOK
  <2>2. QED
    BY <1>3, <2>1 DEF NudgeDue, NextNudgeDay
<1>13. WaitsOn(nudge, thread')
  <2>1. WaitingSince(thread) # 0
    BY DEF Plan, Plausible, ShouldSchedule
  <2>2. WaitingSince(thread) \in 1 .. Len(thread)
    BY <2>1, WaitingTyped DEF IInv, ThreadOK
  <2>3. QED
    BY <1>1, <1>3, <1>12, <2>2 DEF WaitsOn, Record
<1>14. JobsCalm
  BY <1>1, <1>2, <1>4, <1>12, <1>13 DEF JobsCalm
<1>15. Nudging(p)
  BY <1>1 DEF Nudging
<1>16. Slot(p)
  BY <1>1, <1>9 DEF Slot, RowCalm
<1>17. QED
  BY <1>1, <1>7, <1>8, <1>9, <1>10, <1>11, <1>12, <1>14, <1>15, <1>16, OneStep
     DEF RowCalm, MailCalm

\* A job is delivered, or delivered again.
LEMMA TakesNudgeOK ==
    ASSUME IInv, NEW p \in Workers, NEW n \in nudgeJobs, TakesNudge(p, n),
           nudgeJobs' \subseteq nudgeJobs, UNCHANGED <<clock, faults>>, starts' \in 0 .. MaxStarts
    PROVE  IInv'
<1> DEFINE h == [Idle EXCEPT !.kind = "nudge", !.row = row, !.mode = mode,
                             !.job = n[2], !.addr = row.address, !.pc = "n_check"]
<1>1. /\ w[p] = Idle /\ NudgeDue(n[2].day) <= clock
      /\ UNCHANGED <<Record, mail, locks, events>> /\ Unlisted
      /\ w' = [w EXCEPT ![p] = h]
  BY DEF TakesNudge
<1>2. n[2] \in NudgeType /\ row \in RowType /\ mode \in Modes
  BY DEF IInv, JobsOK, RowOK, RestOK
<1>3. row.address \in Addresses \cup {NoAddress}
  BY <1>2 DEF RowType
<1>4. /\ h \in Handlers /\ h.pc = "n_check" /\ h.job = n[2]
      /\ h.row = row /\ h.addr = row.address
  BY <1>2, <1>3, IdleOK DEF HandlerOK, Handlers, Points, Kinds
<1> HIDE DEF h
<1>5. w[p].pc = "idle"
  BY <1>1 DEF Idle
<1>6. HandlerOK(h, thread) /\ h.pc \notin Flagless /\ w[p].pc \notin Flagless
  BY <1>4, <1>5 DEF HandlerOK, Addressed, Checked, Drafted, Flagless
<1>7. RowCalm /\ Adds /\ MailCalm
  BY <1>1, RecordSame, MailSame DEF IInv
<1>8. RestCalm
  BY <1>1 DEF IInv, RestOK, RestCalm, Unlisted, SomeFault
<1>9. Slot(p)
  BY <1>5, <1>7 DEF Slot, RowCalm
<1>10. QED
  BY <1>1, <1>4, <1>5, <1>6, <1>7, <1>8, <1>9, PlainStep DEF RowCalm

LEMMA NudgeJobOK == ASSUME IInv, NEW p \in Workers, NEW n \in nudgeJobs, NudgeJob(p, n) PROVE IInv'
<1>1. /\ TakesNudge(p, n) /\ nudgeJobs' \subseteq nudgeJobs
      /\ UNCHANGED <<clock, faults>> /\ starts' \in 0 .. MaxStarts
  BY DEF NudgeJob, Uncounted, IInv, RestOK
<1>2. QED
  BY <1>1, TakesNudgeOK

LEMMA NudgeAgainOK ==
    ASSUME IInv, NEW p \in Workers, NEW n \in nudgeJobs, NudgeAgain(p, n) PROVE IInv'
<1>1. /\ TakesNudge(p, n) /\ nudgeJobs' \subseteq nudgeJobs
      /\ UNCHANGED <<clock, faults>> /\ starts' \in 0 .. MaxStarts
  BY BoundsAssumption DEF NudgeAgain, IInv, RestOK
<1>2. QED
  BY <1>1, TakesNudgeOK

\* A planner that reads the row has taken nothing yet.
LEMMA Reads ==
    ASSUME IInv, NEW p \in Workers, w[p] = Idle, PlannerReads(p), UNCHANGED <<Record, mail>>,
           RestOK', SomeFault
    PROVE  /\ RowOK' /\ ThreadOK' /\ MailOK' /\ HandlersOK' /\ FollowUps'
           /\ Beside(p) /\ w[p].pc = "idle" /\ w'[p].pc = "n_plan"
<1> DEFINE h == [Idle EXCEPT !.kind = "planner", !.row = row, !.pc = "n_plan"]
<1>1. w' = [w EXCEPT ![p] = h]
  BY DEF PlannerReads
<1>2. h \in Handlers /\ h.pc = "n_plan"
  BY IdleOK DEF HandlerOK, Handlers, Points, Kinds, IInv, RowOK
<1> HIDE DEF h
<1>3. w[p].pc = "idle"
  BY DEF Idle
<1>4. HandlerOK(h, thread) /\ h.pc \notin Flagless /\ w[p].pc \notin Flagless
  BY <1>2, <1>3 DEF HandlerOK, Addressed, Checked, Drafted, Flagless
<1>5. /\ RowOK' /\ row' = row /\ ThreadOK' /\ Kept
      /\ Lines(thread') = Lines(thread)
  BY RecordSame, AddsOK DEF IInv, RowCalm, Record
<1>6. HandlersOK' /\ w'[p] = h /\ Beside(p)
  BY <1>1, <1>4, <1>5, HandlersKept
<1>7. MailOK'
  BY DEF IInv, MailOK
<1>8. FollowUps'
  BY <1>2, <1>3, <1>4, <1>5, <1>6, <1>7, LinesUntouched
<1>9. QED
  BY <1>2, <1>3, <1>5, <1>6, <1>7, <1>8

LEMMA CronTwiceOK == ASSUME IInv, NEW p \in Workers, CronTwice(p) PROVE IInv'
<1> DEFINE h == [Idle EXCEPT !.kind = "planner", !.row = row, !.pc = "n_plan"]
<1>1. w[p] = Idle /\ w' = [w EXCEPT ![p] = h] /\ Still /\ UNCHANGED <<Record, mail>>
  BY DEF CronTwice, PlannerReads, Fault, SomeFault, Unlisted, Still, Vendors, IInv, RestOK
<1>2. h \in Handlers /\ h.pc = "n_plan"
  BY IdleOK DEF HandlerOK, Handlers, Points, Kinds, IInv, RowOK
<1> HIDE DEF h
<1>3. w[p].pc = "idle"
  BY <1>1 DEF Idle
<1>4. /\ HandlerOK(h, thread) /\ h.pc \notin Flagless /\ w[p].pc \notin Flagless
      /\ h.pc \notin Holding
  BY <1>2, <1>3 DEF HandlerOK, Addressed, Checked, Drafted, Flagless, Holding
<1>5. RowCalm /\ Adds /\ MailCalm /\ RestCalm /\ UNCHANGED nudgeJobs
  BY <1>1, RecordSame, MailSame, StillCalm DEF IInv
<1>6. Slot(p)
  BY <1>3, <1>5 DEF Slot, RowCalm
<1>7. QED
  BY <1>1, <1>2, <1>3, <1>4, <1>5, <1>6, PlainStep DEF RowCalm

----------------------------------------------------------------------------
(* Steps no handler takes.                                                   *)

LEMMA Waits ==
    ASSUME IInv, UNCHANGED <<Record, mail, nudgeJobs, w, faults>>, RestOK'
    PROVE  /\ RowOK' /\ ThreadOK' /\ MailOK' /\ JobsOK' /\ HandlersOK' /\ FollowUps'
           /\ UNCHANGED clock => Due' /\ Slots'
<1>1. RowOK' /\ ThreadOK' /\ MailOK' /\ JobsOK'
  BY DEF IInv, RowOK, ThreadOK, MailOK, JobsOK, Record
<1>2. HandlersOK'
  BY DEF IInv, HandlersOK, Record
<1>3. FollowUps'
  BY DEF IInv, FollowUps, Faults, Releasing, Unwritten, Unmarked, Record
<1>4. UNCHANGED clock => Due'
  BY DEF IInv, Due, Record
<1>5. UNCHANGED clock => Slots'
  BY DEF IInv, Slots, Said, Freed, Covered, Mate, Faults, Record
<1>6. QED
  BY <1>1, <1>2, <1>3, <1>4, <1>5

\* The clock moves with nobody at work.
LEMMA Ticks ==
    ASSUME IInv, \A q \in Workers : w[q] = Idle, \A q \in Workers : w'[q].pc \in {"idle", "n_plan"},
           clock < MaxClock, clock' = clock + 1,
           UNCHANGED <<Record, Vendors, starts, faults>>, Unlisted
    PROVE  RestOK' /\ SomeFault /\ JobsOK' /\ Due' /\ Slots'
<1>1. RestOK' /\ SomeFault
  BY BoundsAssumption DEF IInv, RestOK, Vendors, Unlisted, SomeFault
<1>2. JobsOK'
  BY DEF IInv, JobsOK, Vendors
<1>3. /\ \A q \in Workers : w[q].pc = "idle"
      /\ \A q \in Workers : w'[q].pc \notin Holding /\ w'[q].pc # "n_state"
  <2>1. Idle.pc = "idle"
    BY DEF Idle
  <2>2. QED
    BY <2>1 DEF Holding, Checked
<1>4. Due'
  BY <1>3 DEF IInv, Due, Vendors, Record
<1>5. /\ UNCHANGED <<row, thread, nudgeJobs, mail, faults>>
      /\ \A kinds : Faults(kinds)' = Faults(kinds)
  BY DEF Record, Vendors, Faults
<1>6. ASSUME NEW d \in 1 .. MaxClock, mail'.nudge[d] > 0
      PROVE  NudgeDue(d) <= clock' /\ (Faults({"kill"})' > 0 \/ (Said(d)' /\ Freed(d)'))
  <2>1. NudgeDue(d) <= clock /\ (Faults({"kill"}) > 0 \/ (Said(d) /\ Freed(d)))
    BY <1>5, <1>6 DEF IInv, Slots
  <2>2. NudgeDue(d) <= clock'
    <3>1. clock \in Nat
      BY BoundsAssumption DEF IInv, RestOK
    <3>2. QED
      BY <2>1, <3>1 DEF NudgeDue
  <2>3. Said(d) => Said(d)'
    <3>1. ~Mate({"n_append"}, d)
      BY <1>3 DEF Mate
    <3>2. Covered(d) => Covered(d)'
      BY <1>3, <1>5 DEF Covered
    <3>3. QED
      BY <1>5, <3>1, <3>2 DEF Said
  <2>4. Freed(d) => Freed(d)'
    <3>1. ~Mate({"n_append", "n_count", "n_clear"}, d)
      BY <1>3 DEF Mate
    <3>2. QED
      BY <1>5, <3>1 DEF Freed
  <2>5. QED
    BY <1>5, <2>1, <2>2, <2>3, <2>4
<1>7. Slots'
  BY <1>6 DEF Slots
<1>8. QED
  BY <1>1, <1>2, <1>4, <1>7

LEMMA MorningOK == ASSUME IInv, NEW p \in Workers, Morning(p) PROVE IInv'
<1>1. /\ \A q \in Workers : w[q] = Idle
      /\ clock < MaxClock /\ clock' = clock + 1
      /\ UNCHANGED <<Record, Vendors, starts, faults>> /\ Unlisted
      /\ UNCHANGED w \/ PlannerReads(p)
  BY DEF Morning
<1>2. Idle.pc = "idle"
  BY DEF Idle
<1>3. RestOK' /\ SomeFault
  BY <1>1, BoundsAssumption DEF IInv, RestOK, Vendors, Unlisted, SomeFault
<1>4. CASE UNCHANGED w
  <2>1. \A q \in Workers : w'[q].pc \in {"idle", "n_plan"}
    BY <1>1, <1>2, <1>4
  <2>2. QED
    BY <1>1, <1>3, <1>4, <2>1, Ticks, Waits DEF IInv, Vendors
<1>5. CASE PlannerReads(p)
  <2>1. /\ RowOK' /\ ThreadOK' /\ MailOK' /\ HandlersOK' /\ FollowUps'
        /\ Beside(p) /\ w'[p].pc = "n_plan"
    BY <1>1, <1>3, <1>5, Reads DEF Vendors
  <2>2. \A q \in Workers : w'[q].pc \in {"idle", "n_plan"}
    BY <1>1, <1>2, <2>1 DEF Beside
  <2>3. QED
    BY <1>1, <2>1, <2>2, Ticks DEF IInv
<1>6. QED
  BY <1>1, <1>4, <1>5

LEMMA EightOK == ASSUME IInv, Eight PROVE IInv'
<1>1. /\ \A q \in Workers : w[q] = Idle
      /\ clock < MaxClock /\ clock' = clock + 1
      /\ UNCHANGED <<Record, Vendors, w, starts, faults>> /\ Unlisted
  BY DEF Eight
<1>2. \A q \in Workers : w'[q].pc \in {"idle", "n_plan"}
  <2>1. Idle.pc = "idle"
    BY DEF Idle
  <2>2. QED
    BY <1>1, <2>1
<1>3. RestOK' /\ JobsOK' /\ Due' /\ Slots'
  BY <1>1, <1>2, Ticks
<1>4. QED
  BY <1>1, <1>3, Waits DEF IInv, Vendors

LEMMA SetModeOK == ASSUME IInv, NEW m \in Modes, SetMode(m) PROVE IInv'
<1>1. RestOK'
  BY BoundsAssumption DEF IInv, RestOK, SetMode, Vendors
<1>2. UNCHANGED <<Record, mail, nudgeJobs, w, faults, clock>>
  BY DEF SetMode, Vendors
<1>3. QED
  BY <1>1, <1>2, Waits DEF IInv

\* A reply, a complaint or an opt-out of the person with address a.
LEMMA PersonOK ==
    ASSUME IInv, NEW a \in Addresses, Replies(a) \/ Complains(a) \/ Unsubscribe(a)
    PROVE  IInv'
<1>1. starts' \in 0 .. MaxStarts /\ UNCHANGED <<Record, mail, nudgeJobs, w, faults, clock, locks, mode>>
  BY BoundsAssumption DEF IInv, RestOK, Replies, Complains, Unsubscribe, Vendors
<1>2. events' \subseteq EventType /\ suppressed' \subseteq Addresses
  <2>1. starts' \in Nat
    BY <1>1
  <2>2. Event("reply", a, starts') \in EventType /\ Event("complaint", a, starts') \in EventType
    BY <2>1 DEF Event, EventType
  <2>3. QED
    BY <2>2 DEF IInv, RestOK, Replies, Complains, Unsubscribe, Vendors
<1>3. RestOK'
  BY <1>1, <1>2 DEF IInv, RestOK
<1>4. QED
  BY <1>1, <1>3, Waits DEF IInv

\* An event that matches nothing is answered.
LEMMA UnmatchedOK == ASSUME IInv, NEW e, Unmatched(e) PROVE IInv'
<1>1. /\ UNCHANGED <<Record, mail, nudgeJobs, w, faults, clock, locks, mode, starts, suppressed>>
      /\ events' \subseteq events
  BY DEF Unmatched, Unlisted, Uncounted
<1>2. RestOK'
  BY <1>1 DEF IInv, RestOK
<1>3. QED
  BY <1>1, <1>2, Waits DEF IInv

----------------------------------------------------------------------------
(* Events taken, and what they do to the row.                                *)

LEMMA TakesEventOK ==
    ASSUME IInv, NEW p \in Workers, NEW e \in events, NEW x \in {"r_store", "d_list"},
           TakesEvent(p, e, x), x = "d_list" => e.kind = "complaint"
    PROVE  IInv'
<1> DEFINE h == [Idle EXCEPT !.pc = x, !.kind = e.kind, !.at = e.no,
                             !.addr = e.address, !.row = row, !.mode = mode]
<1>1. w[p] = Idle /\ w' = [w EXCEPT ![p] = h] /\ Still /\ UNCHANGED <<Record, mail>>
  BY DEF TakesEvent, Unlisted, Uncounted, SomeFault, Still, Vendors, IInv, RestOK
<1>2. e \in EventType /\ row \in RowType /\ mode \in Modes
  BY DEF IInv, RestOK, RowOK
<1>3. e.kind \in {"reply", "complaint"} /\ e.address \in Addresses /\ e.no \in Nat
  BY <1>2 DEF EventType
<1>4. /\ h \in Handlers /\ h.pc = x /\ h.kind = e.kind /\ h.addr = e.address
  BY <1>2, <1>3, IdleOK DEF HandlerOK, Handlers, Points, Kinds
<1> HIDE DEF h
<1>5. w[p].pc = "idle"
  <2>1. Idle.pc = "idle"
    BY DEF Idle
  <2>2. QED
    BY <1>1, <2>1
<1>6. HandlerOK(h, thread)
  BY <1>3, <1>4 DEF HandlerOK, Checked, Drafted, Flagless
<1>7. QED
  BY <1>1, <1>4, <1>5, <1>6, RecordSame, MailSame, StillCalm, CalmStep
     DEF IInv, Flagless, Holding, Checked, Owing

LEMMA EventTaken ==
    ASSUME IInv, NEW p \in Workers, NEW e \in events, ReplyEvent(p, e) \/ DeliveryEvent(p, e)
    PROVE  IInv'
<1>1. CASE ReplyEvent(p, e)
  BY <1>1, TakesEventOK DEF ReplyEvent
<1>2. CASE DeliveryEvent(p, e)
  <2>1. e.kind = "complaint"
    BY <1>2 DEF DeliveryEvent, IInv, RestOK, EventType
  <2>2. QED
    BY <1>2, <2>1, TakesEventOK DEF DeliveryEvent
<1>3. QED
  BY <1>1, <1>2

LEMMA DeliveryListsOK == ASSUME IInv, NEW p \in Workers, DeliveryLists(p) PROVE IInv'
<1> DEFINE g == [w[p] EXCEPT !.mode = mode]
           h == [g EXCEPT !.pc = "d_row"]
<1>1. /\ w[p].pc = "d_list" /\ w' = [w EXCEPT ![p] = h]
      /\ UNCHANGED <<Record, mail>>
  BY DEF DeliveryLists, At, Vendors
<1>2. w[p] \in Handlers /\ HandlerOK(w[p], thread) /\ mode \in Modes
  BY DEF IInv, HandlersOK, RestOK
<1>3. w[p].addr \in Addresses /\ w[p].kind = "complaint"
  BY <1>1, <1>2 DEF HandlerOK, Addressed
<1>4. Still
  BY <1>3 DEF DeliveryLists, Uncounted, SomeFault, Still, Vendors, IInv, RestOK
<1>5. g \in Handlers /\ g.addr = w[p].addr /\ g.kind = w[p].kind
  BY <1>2 DEF Handlers
<1> HIDE DEF g
<1>6. h \in Handlers /\ h.pc = "d_row" /\ h.addr = g.addr /\ h.kind = g.kind
  BY <1>5 DEF Handlers, Points
<1> HIDE DEF h
<1>7. HandlerOK(h, thread)
  BY <1>3, <1>5, <1>6 DEF HandlerOK, Checked, Drafted, Flagless
<1>8. QED
  BY <1>1, <1>4, <1>6, <1>7, RecordSame, MailSame, StillCalm, CalmStep
     DEF IInv, Flagless, Holding, Checked, Owing

LEMMA RowSame == ASSUME RowOK, UNCHANGED row PROVE RowCalm
  BY DEF RowOK, RowCalm

LEMMA RowStatus ==
    ASSUME RowOK, NEW s \in Statuses,
           \/ row' = [row EXCEPT !.status = s]
           \/ row' = [row EXCEPT !.status = s, !.followed = TRUE]
           \/ \E n \in Nat : row' = [row EXCEPT !.status = s, !.counter = n]
           \/ \E b \in BOOLEAN : row' = [row EXCEPT !.status = s, !.agreed = b]
    PROVE  RowCalm
  BY DEF RowOK, RowCalm, RowType

\* Ends of a handler: with an answer to its event, or without.
LEMMA EndsOK == ASSUME NEW p \in Workers, Acknowledge(p) \/ Ends(p)
                PROVE  Finish(p) /\ events' \subseteq events
  BY DEF Acknowledge, Ends

LEMMA ComplaintTyped ==
    ASSUME RowOK
    PROVE  /\ PlanComplaint(row) \in RowType
           /\ PlanComplaint(row).followed = row.followed
           /\ \/ PlanComplaint(row).nudge = row.nudge
              \/ PlanComplaint(row).nudge.day = 0
<1>1. NoNudge \in NudgeType /\ NoNudge.day = 0
  BY MaxNudgesAssumption DEF NoNudge, NudgeType
<1>2. "rejected_after_outreach" \in Statuses /\ "contact_stopped" \in ContactStatuses
  BY DEF Statuses, Withdrawn, ContactStatuses
<1> HIDE DEF NoNudge
<1>3. QED
  BY <1>1, <1>2 DEF RowOK, RowType, PlanComplaint

LEMMA ComplaintRowOK == ASSUME IInv, NEW p \in Workers, ComplaintRow(p) PROVE IInv'
<1>1. /\ w[p].pc = "d_row" /\ Acknowledge(p) /\ UNCHANGED <<mail, locks, jobs, nudgeJobs>>
      /\ Unlisted /\ Uncounted
      /\ UNCHANGED row \/ row' = PlanComplaint(row)
      /\ UNCHANGED thread \/ Append1("matchy", "note", "sent")
  BY DEF ComplaintRow, At, Record
<1>2. Finish(p) /\ Still
  BY <1>1, EndsOK DEF Unlisted, Uncounted, SomeFault, Still, IInv, RestOK
<1>3. RowCalm
  BY <1>1, ComplaintTyped DEF IInv, RowOK, RowCalm
<1>4. Adds
  BY <1>1, Line DEF Adds
<1>5. QED
  BY <1>1, <1>2, <1>3, <1>4, MailSame, StillCalm, PlainFinish DEF IInv, Flagless, Owing

\* An event whose project could not be read is answered.
LEMMA UnreadOK == ASSUME IInv, NEW p \in Workers, Unread(p) PROVE IInv'
<1>1. /\ w[p].pc \in {"d_row", "r_store"} /\ UNCHANGED <<Record, mail>> /\ Finish(p) /\ Still
  BY EndsOK DEF Unread, Unlisted, SomeFault, Fault, Still, IInv, RestOK
<1>2. QED
  BY <1>1, RecordSame, MailSame, StillCalm, PlainFinish DEF IInv, Flagless, Owing

LEMMA Impossible ==
    ASSUME IInv, NEW p \in Workers,
           BounceRow(p) \/ BounceSearch(p) \/ BounceSearchFailed(p) \/ BounceSearchNotStarted(p)
    PROVE  FALSE
<1>1. w[p].pc \in Points /\ (w[p].pc = "d_row" => w[p].kind = "complaint")
  BY DEF IInv, HandlersOK, HandlerOK, Handlers
<1>2. \/ w[p].pc = "d_row" /\ w[p].kind = "bounce"
      \/ w[p].pc = "d_search" \/ w[p].pc = "d_failed"
  BY DEF BounceRow, BounceSearch, BounceSearchFailed, BounceSearchNotStarted, At
<1>3. QED
  BY <1>1, <1>2 DEF Points

----------------------------------------------------------------------------
(* Replies.                                                                  *)

LEMMA Address == ASSUME IInv, NEW p \in Workers, w[p].pc \in Addressed PROVE w[p].addr \in Addresses
  BY DEF IInv, HandlersOK, HandlerOK

LEMMA ReplyStoredOK == ASSUME IInv, NEW p \in Workers, ReplyStored(p) PROVE IInv'
<1>1. /\ w[p].pc = "r_store" /\ UNCHANGED <<row, mail, locks, jobs, nudgeJobs>>
      /\ Unlisted /\ Uncounted
      /\ \/ Acknowledge(p) /\ Append1("expert", "auto", "sent")
         \/ Goto(p, "r_read") /\ UNCHANGED events /\ Append1("expert", "reply", "sent")
  BY DEF ReplyStored, At
<1>2. Still
  BY <1>1, EndsOK DEF Unlisted, Uncounted, SomeFault, Still, IInv, RestOK
<1>3. RowCalm /\ Adds
  BY <1>1, Line, RowSame DEF IInv
<1>4. GoesTo(p, "r_read")
  BY <1>1, Address DEF GoesTo, Points, Addressed, Checked, Holding, Drafted, Flagless
<1>5. CASE Acknowledge(p)
  BY <1>1, <1>2, <1>3, <1>5, EndsOK, MailSame, StillCalm, PlainFinish DEF IInv, Flagless, Owing
<1>6. CASE Goto(p, "r_read")
  BY <1>1, <1>2, <1>3, <1>4, <1>6, MailSame, StillCalm, PlainGoto DEF IInv, Flagless, Owing
<1>7. QED
  BY <1>1, <1>5, <1>6

LEMMA ReplyNotStoredOK == ASSUME IInv, NEW p \in Workers, ReplyNotStored(p) PROVE IInv'
<1>1. /\ w[p].pc = "r_store" /\ UNCHANGED <<Record, mail>> /\ Still /\ Goto(p, "r_read")
  BY DEF ReplyNotStored, At, Vendors, Unlisted, SomeFault, Fault, Still, IInv, RestOK
<1>2. GoesTo(p, "r_read")
  BY <1>1, Address DEF GoesTo, Points, Addressed, Checked, Holding, Drafted, Flagless
<1>3. QED
  BY <1>1, <1>2, RecordSame, MailSame, StillCalm, PlainGoto DEF IInv, Flagless, Owing

LEMMA ReplyScheduledOK == ASSUME IInv, NEW p \in Workers, ReplyScheduled(p) PROVE IInv'
<1>1. /\ w[p].pc = "r_read" /\ UNCHANGED <<Record, mail, nudgeJobs>> /\ Finish(p) /\ Still
  BY EndsOK DEF ReplyScheduled, At, Unlisted, Uncounted, SomeFault, Still, IInv, RestOK
<1>2. QED
  BY <1>1, RecordSame, MailSame, StillCalm, PlainFinish DEF IInv, Flagless, Owing

\* What the reply was read as moves the stage.
LEMMA ReplyMovesOK ==
    ASSUME IInv, NEW p \in Workers, NEW intent, ReplyMoves(p, intent), RowCalm,
           \/ Acknowledge(p)
           \/ \E x \in {"r_list", "t_gate", "r_follow"} : Goto(p, x) /\ UNCHANGED events
    PROVE  IInv'
<1>1. w[p].pc = "r_read" /\ UNCHANGED <<thread, mail, nudgeJobs>> /\ Still /\ Adds
  BY EndsOK DEF ReplyMoves, At, Unlisted, Uncounted, SomeFault, Still, IInv, RestOK, Adds
<1>2. CASE Acknowledge(p)
  BY <1>1, <1>2, EndsOK, MailSame, StillCalm, PlainFinish DEF IInv, Flagless, Owing
<1>3. ASSUME NEW x \in {"r_list", "t_gate", "r_follow"}, Goto(p, x) PROVE IInv'
  <2>1. GoesTo(p, x)
    BY <1>1, Address DEF GoesTo, Points, Addressed, Checked, Holding, Drafted, Flagless
  <2>2. QED
    BY <1>1, <1>3, <2>1, MailSame, StillCalm, PlainGoto DEF IInv, Flagless, Owing
<1>4. QED
  BY <1>2, <1>3

LEMMA ReplyReadOK ==
    ASSUME IInv, NEW p \in Workers, Declined(p) \/ Countered(p) \/ Flagged(p) \/ Interested(p)
    PROVE  IInv'
<1>1. /\ "rejected_after_outreach" \in Statuses /\ "rate_negotiation" \in Statuses
      /\ "conflict_flagged" \in Statuses /\ "replied" \in Statuses
  BY DEF Statuses, AfterReplyStage, Withdrawn
<1>2. CASE Declined(p)
  <2>1. RowCalm
    BY <1>1, <1>2, RowStatus DEF Declined, IInv
  <2>2. QED
    BY <1>2, <2>1, ReplyMovesOK DEF Declined
<1>3. CASE Countered(p)
  <2>1. w[p].at \in Nat /\ row.counter \in Nat
    BY Copies DEF IInv, RowOK, RowType
  <2>2. RowCalm
    BY <1>1, <1>3, <2>1, RowStatus DEF Countered, IInv
  <2>3. QED
    BY <1>3, <2>2, ReplyMovesOK DEF Countered
<1>4. CASE Flagged(p)
  <2>1. RowCalm
    BY <1>1, <1>4, RowStatus DEF Flagged, IInv
  <2>2. QED
    BY <1>4, <2>1, ReplyMovesOK DEF Flagged
<1>5. CASE Interested(p)
  <2> DEFINE b == row.agreed \/ w[p].row.status = "followup_sent"
  <2>1. row' = [row EXCEPT !.status = "replied", !.agreed = b] /\ b \in BOOLEAN
    BY <1>5 DEF Interested
  <2> HIDE DEF b
  <2>2. RowCalm
    BY <1>1, <2>1, RowStatus DEF IInv
  <2>3. ReplyMoves(p, "interested")
    BY <1>5 DEF Interested
  <2>4. \/ Acknowledge(p)
        \/ \E x \in {"r_list", "t_gate", "r_follow"} : Goto(p, x) /\ UNCHANGED events
    BY <1>5 DEF Interested
  <2>5. QED
    BY <2>2, <2>3, <2>4, ReplyMovesOK
<1>6. QED
  BY <1>2, <1>3, <1>4, <1>5

LEMMA DeclineListedOK == ASSUME IInv, NEW p \in Workers, DeclineListed(p) PROVE IInv'
<1>1. w[p].pc = "r_list" /\ UNCHANGED <<Record, mail, nudgeJobs>> /\ Finish(p)
  BY EndsOK DEF DeclineListed, At
<1>2. w[p].addr \in Addresses
  BY <1>1, Address DEF Addressed
<1>3. Still
  BY <1>2, EndsOK DEF DeclineListed, SomeFault, Fault, Still, IInv, RestOK
<1>4. QED
  BY <1>1, <1>3, RecordSame, MailSame, StillCalm, PlainFinish DEF IInv, Flagless, Owing

----------------------------------------------------------------------------
(* The follow-up.                                                            *)

LEMMA AskedOK == ASSUME RowOK, row' = Asked(row) PROVE RowCalm /\ row'.followed
<1>1. "followup_sent" \in Statuses
  BY DEF Statuses, AfterReplyStage
<1>2. QED
  BY <1>1, RowStatus DEF Asked, RowOK, RowType

\* A follow-up is kept, as a draft or as a line; or the chokepoint lets it go.
LEMMA FollowUpKeptOK ==
    ASSUME IInv, NEW p \in Workers, FollowUpKept(p) \/ FollowUpGate(p) PROVE IInv'
<1>1. /\ w[p].pc = "r_follow" /\ UNCHANGED <<row, mail, locks, jobs, nudgeJobs>>
      /\ Unlisted /\ UNCHANGED <<clock, starts>>
      /\ \/ \E went \in {"pending", "held"} : FollowUpNotSent(p, went)
         \/ Goto(p, "r_send") /\ UNCHANGED <<thread, events, faults>>
  BY DEF FollowUpKept, FollowUpGate, At
<1>2. ASSUME NEW went \in {"pending", "held"}, FollowUpNotSent(p, went) PROVE IInv'
  <2>1. Acknowledge(p) /\ Adds /\ SomeFault /\ RowCalm
    BY <1>1, <1>2, StoredLine, RowSame DEF FollowUpNotSent, IInv
  <2>2. Finish(p) /\ Still
    BY <1>1, <2>1, EndsOK DEF Unlisted, Still, IInv, RestOK
  <2>3. QED
    BY <1>1, <2>1, <2>2, MailSame, StillCalm, PlainFinish DEF IInv, Flagless, Owing
<1>3. CASE Goto(p, "r_send") /\ UNCHANGED <<thread, events, faults>>
  <2>1. Adds /\ RowCalm /\ Still
    BY <1>1, <1>3, RowSame DEF Adds, Unlisted, SomeFault, Still, IInv, RestOK
  <2>2. GoesTo(p, "r_send")
    BY <1>1, Address DEF GoesTo, Points, Addressed, Checked, Holding, Drafted, Flagless
  <2>3. QED
    BY <1>1, <1>3, <2>1, <2>2, MailSame, StillCalm, PlainGoto DEF IInv, Flagless, Owing
<1>4. QED
  BY <1>1, <1>2, <1>3

\* The row of a follow-up that went.
LEMMA MarkedOK ==
    ASSUME IInv, NEW p \in Workers, FollowUpMarked(p) \/ ReleaseMarked(p) PROVE IInv'
<1>1. /\ w[p].pc \in {"r_mark", "m_mark"} /\ UNCHANGED <<thread, mail>> /\ Finish(p)
      /\ row' = Asked(row) /\ Still
  BY EndsOK DEF FollowUpMarked, ReleaseMarked, At, Vendors, Unlisted, Uncounted, SomeFault,
                Still, IInv, RestOK
<1>2. RowCalm /\ row'.followed /\ Adds
  BY <1>1, AskedOK DEF IInv, Adds
<1>3. w' = [w EXCEPT ![p] = Idle] /\ HandlerOK(Idle, thread) /\ Idle.pc = "idle"
  BY <1>1, IdleOK DEF Finish, Idle
<1>4. /\ Idle.pc \notin Flagless /\ Idle.pc \notin Holding /\ w[p].pc \notin Flagless
      /\ Slot(p)
  BY <1>1, <1>2, <1>3 DEF Flagless, Holding, Checked, Slot, RowCalm
<1>5. MailCalm /\ RestCalm /\ UNCHANGED nudgeJobs
  BY <1>1, MailSame, StillCalm DEF IInv
<1>6. QED
  BY <1>1, <1>2, <1>3, <1>4, <1>5, PlainStep DEF RowCalm

LEMMA MailFollowUp ==
    ASSUME MailOK, NEW p \in Workers, FollowUpMailed(p)
    PROVE  /\ MailOK' /\ mail'.followup = mail.followup + 1 /\ mail'.nudge = mail.nudge
           /\ Wrote(w[p].addr)
<1> DEFINE m == [mail EXCEPT !.followup = @ + 1]
           A == [Addresses -> Nat]
           D == [1 .. MaxClock -> Nat]
           S == SUBSET Addresses
<1>1. mail \in MailType(A, D, S) /\ mail.nudge \in D /\ mail.later \in A /\ mail.followup + 1 \in Nat
  BY DEF MailOK, MailType
<1>2. mail' = [m EXCEPT !.later = [mail.later EXCEPT ![w[p].addr] = @ + 1]]
  BY DEF FollowUpMailed
<1> HIDE DEF A, D, S
<1>3. /\ m \in MailType(A, D, S) /\ m.later = mail.later
      /\ m.followup = mail.followup + 1 /\ m.nudge = mail.nudge
  BY <1>1, OneField DEF MailType
<1> HIDE DEF m
<1>4. QED
  BY <1>2, <1>3, MailCounted DEF Wrote, A, D, S

\* A step that moves the account of the follow-ups only.
LEMMA AccountStep ==
    ASSUME IInv, NEW p \in Workers, HandlersOK', Beside(p),
           w[p].pc \notin Holding, w'[p].pc \notin Holding, w'[p].pc # "n_state",
           RowCalm, ThreadOK', Grows, MailOK', mail'.nudge = mail.nudge,
           UNCHANGED nudgeJobs, RestCalm, PaysForLines(p)
    PROVE  IInv'
<1>1. FollowUps'
  BY FollowUpsStep DEF IInv, RestCalm
<1>2. JobsOK' /\ JobsCalm /\ Follows(p)
  BY DEF IInv, JobsOK, JobsCalm, Follows
<1>3. Due'
  BY <1>2, DueStep DEF RestCalm
<1>4. Slot(p) /\ Nudging(p)
  BY DEF Slot, Nudging, RowCalm, Holding, Checked
<1>5. Slots'
  BY <1>2, <1>4, SlotsStep DEF RestCalm
<1>6. QED
  BY <1>1, <1>2, <1>3, <1>5 DEF IInv, RestCalm, RowCalm

\* Numbers of the account, for the arithmetic of a step.
Counted == /\ mail.followup \in Nat /\ Cardinality(Lines(thread)) \in Nat
           /\ Faults(Hides) \in Nat /\ Faults(Hides)' \in Nat
           /\ Faults(Shows) \in Nat /\ Faults(Shows)' \in Nat
           /\ Faults({"append_lost"}) \in Nat /\ Faults({"append_lost"})' \in Nat
           /\ Faults(Hides) <= Faults(Hides)' /\ Faults(Shows) <= Faults(Shows)'
           /\ Faults({"append_lost"}) <= Faults({"append_lost"})'

LEMMA CountedOK == ASSUME IInv, SomeFault PROVE Counted
<1>1. \A kinds : /\ Faults(kinds) \in Nat /\ Faults(kinds)' \in Nat
                 /\ Faults(kinds) <= Faults(kinds)'
  BY FaultsGrow DEF IInv
<1>2. Cardinality(Lines(thread)) \in Nat /\ mail.followup \in Nat
  BY LinesFinite DEF IInv, MailOK, MailType, ThreadOK
<1>3. QED
  BY <1>1, <1>2 DEF Counted, Hides, Shows

\* A fault of a kind that the account excuses.
LEMMA Excused ==
    ASSUME IInv, NEW op, Fault(op)
    PROVE  /\ op \in Hides => Faults(Hides)' = Faults(Hides) + 1
           /\ op \in Shows => Faults(Shows)' = Faults(Shows) + 1
           /\ op = "append_lost" => Faults({"append_lost"})' = Faults({"append_lost"}) + 1
<1>1. \A kinds : Faults(kinds)' = Faults(kinds) + Bit(op \in kinds)
  BY FaultCounted DEF IInv
<1>2. QED
  BY <1>1 DEF Bit

LEMMA FollowUpSentOK == ASSUME IInv, NEW p \in Workers, FollowUpSent(p) PROVE IInv'
<1>1. /\ w[p].pc = "r_send" /\ FollowUpMailed(p) /\ Goto(p, "r_append")
      /\ UNCHANGED <<Record, nudgeJobs, faults>> /\ Still
  BY DEF FollowUpSent, At, Unlisted, Uncounted, SomeFault, Still, IInv, RestOK
<1>2. GoesTo(p, "r_append")
  BY <1>1, Address DEF GoesTo, Points, Addressed, Checked, Holding, Drafted, Flagless
<1>3. PICK h : w' = [w EXCEPT ![p] = h] /\ HandlerOK(h, thread) /\ h.pc = "r_append"
  BY <1>1, <1>2, Gone DEF IInv, Flagless
<1>4. RowCalm /\ ThreadOK' /\ Kept /\ Grows /\ RestCalm
  BY <1>1, RecordSame, AddsOK, StillCalm DEF IInv
<1>5. HandlersOK' /\ w'[p] = h /\ Beside(p)
  BY <1>3, <1>4, HandlersKept DEF Flagless
<1>6. MailOK' /\ mail'.followup = mail.followup + 1 /\ mail'.nudge = mail.nudge
  BY <1>1, MailFollowUp DEF IInv
<1>7. /\ Bit(w[p].pc \in Flagless) = 0 /\ Bit(w'[p].pc \in Flagless) = 0
      /\ Bit(w[p].pc = "r_append") = 0 /\ Bit(w'[p].pc = "r_append") = 1
      /\ Bit(w[p].pc = "r_mark") = 0 /\ Bit(w'[p].pc = "r_mark") = 0
  BY <1>1, <1>3, <1>5 DEF Bit, Flagless
<1>8. Counted /\ thread' = thread /\ row' = row
  BY <1>1, CountedOK DEF Record, Still
<1>9. PaysForLines(p)
  BY <1>6, <1>7, <1>8 DEF PaysForLines, Counted
<1>10. QED
  BY <1>1, <1>3, <1>4, <1>5, <1>6, <1>9, AccountStep DEF Holding, Checked

\* A follow-up whose answer was lost has gone, and nothing says so.
LEMMA FollowUpRefusedOK == ASSUME IInv, NEW p \in Workers, FollowUpRefused(p) PROVE IInv'
<1>1. /\ w[p].pc = "r_send" /\ Finish(p) /\ UNCHANGED <<Record, nudgeJobs>> /\ Still
      /\ UNCHANGED mail \/ (Fault("answer_lost") /\ FollowUpMailed(p))
  BY DEF FollowUpRefused, At, Unlisted, SomeFault, Fault, Still, IInv, RestOK
<1>2. CASE UNCHANGED mail
  BY <1>1, <1>2, RecordSame, MailSame, StillCalm, PlainFinish DEF IInv, Flagless, Owing
<1>3. CASE Fault("answer_lost") /\ FollowUpMailed(p)
  <2>1. RowCalm /\ ThreadOK' /\ Kept /\ Grows /\ RestCalm
    BY <1>1, RecordSame, AddsOK, StillCalm DEF IInv
  <2>2. Idle.pc = "idle"
    BY DEF Idle
  <2>3. HandlersOK' /\ w'[p] = Idle /\ Beside(p)
    BY <1>1, <2>1, <2>2, IdleOK, HandlersKept DEF Flagless, Finish
  <2>4. MailOK' /\ mail'.followup = mail.followup + 1 /\ mail'.nudge = mail.nudge
    BY <1>3, MailFollowUp DEF IInv
  <2>5. /\ Bit(w[p].pc \in Flagless) = 0 /\ Bit(w'[p].pc \in Flagless) = 0
        /\ Bit(w[p].pc = "r_append") = 0 /\ Bit(w'[p].pc = "r_append") = 0
        /\ Bit(w[p].pc = "r_mark") = 0 /\ Bit(w'[p].pc = "r_mark") = 0
    BY <1>1, <2>2, <2>3 DEF Bit, Flagless
  <2>6. Faults(Hides)' = Faults(Hides) + 1
    BY <1>3, Excused DEF Hides
  <2>7. Counted /\ thread' = thread /\ row' = row
    BY <1>1, CountedOK DEF Record, Still
  <2>8. PaysForLines(p)
    BY <2>4, <2>5, <2>6, <2>7 DEF PaysForLines, Counted
  <2>9. QED
    BY <1>1, <2>1, <2>2, <2>3, <2>4, <2>8, AccountStep DEF Holding, Checked
<1>4. QED
  BY <1>1, <1>2, <1>3

\* The line is on the thread, or is refused; the row is marked all the same.
LEMMA FollowUpAppendOK == ASSUME IInv, NEW p \in Workers, FollowUpAppend(p) PROVE IInv'
<1> DEFINE m == [from |-> "matchy", what |-> "followup", went |-> "sent"]
<1>1. /\ w[p].pc = "r_append" /\ Goto(p, "r_mark") /\ UNCHANGED <<row, mail, nudgeJobs>>
      /\ \/ thread' = Append(thread, m) /\ UNCHANGED faults
         \/ UNCHANGED thread /\ Fault("append_lost")
  BY DEF FollowUpAppend, Stores, Append1, At, Vendors
<1>2. Still
  BY <1>1 DEF FollowUpAppend, Vendors, Unlisted, Fault, SomeFault, Still, IInv, RestOK
<1>3. m \in MessageType /\ m.what = "followup" /\ m.went = "sent"
  BY DEF MessageType
<1> HIDE DEF m
<1>4. /\ ThreadOK' /\ Kept /\ Grows
      /\ \/ Cardinality(Lines(thread')) = Cardinality(Lines(thread)) + 1
         \/ /\ thread' = thread
            /\ Faults({"append_lost"})' = Faults({"append_lost"}) + 1
  <2>1. CASE thread' = Append(thread, m)
    BY <1>3, <2>1, Appended DEF IInv
  <2>2. CASE UNCHANGED thread /\ Fault("append_lost")
    <3>1. ThreadOK' /\ Kept /\ Grows
      BY <2>2, AddsOK DEF IInv, Adds
    <3>2. QED
      BY <2>2, <3>1, Excused
  <2>3. QED
    BY <1>1, <2>1, <2>2
<1>5. GoesTo(p, "r_mark")
  BY <1>1, Address DEF GoesTo, Points, Addressed, Checked, Holding, Drafted, Flagless
<1>6. PICK h : w' = [w EXCEPT ![p] = h] /\ HandlerOK(h, thread) /\ h.pc = "r_mark"
  BY <1>1, <1>5, Gone DEF IInv, Flagless
<1>7. HandlersOK' /\ w'[p] = h /\ Beside(p)
  BY <1>4, <1>6, HandlersKept DEF Flagless
<1>8. RowCalm /\ MailCalm /\ RestCalm
  BY <1>1, <1>2, RowSame, MailSame, StillCalm DEF IInv
<1>9. /\ Bit(w[p].pc \in Flagless) = 0 /\ Bit(w'[p].pc \in Flagless) = 0
      /\ Bit(w[p].pc = "r_append") = 1 /\ Bit(w'[p].pc = "r_append") = 0
      /\ Bit(w[p].pc = "r_mark") = 0 /\ Bit(w'[p].pc = "r_mark") = 1
  BY <1>1, <1>6, <1>7 DEF Bit, Flagless
<1>10. Counted /\ row' = row
  BY <1>1, <1>2, CountedOK DEF Still
<1>11. PaysForLines(p)
  BY <1>4, <1>8, <1>9, <1>10 DEF PaysForLines, Counted, MailCalm
<1>12. QED
  BY <1>1, <1>4, <1>6, <1>7, <1>8, <1>11, AccountStep DEF MailCalm, Holding, Checked

----------------------------------------------------------------------------
(* Drafts released.                                                          *)

LEMMA ReleaseOK ==
    ASSUME IInv, NEW p \in Workers, NEW i \in DOMAIN thread, Release(p, i) PROVE IInv'
<1> DEFINE h == [Idle EXCEPT !.kind = "release", !.addr = row.address, !.at = i, !.pc = "m_clear"]
<1>1. /\ w[p] = Idle /\ w' = [w EXCEPT ![p] = h] /\ UNCHANGED <<Record, mail, nudgeJobs>>
      /\ thread[i].went = "pending" /\ row.address # NoAddress
  BY DEF Release, Request, Vendors
<1>2. RestCalm
  <2>1. starts' \in 0 .. MaxStarts
    BY BoundsAssumption DEF Release, Request, IInv, RestOK
  <2>2. QED
    BY <2>1 DEF Release, Request, Vendors, Unlisted, SomeFault, IInv, RestOK, RestCalm
<1>3. row.address \in Addresses /\ thread[i].what = "followup" /\ i \in Nat
  BY <1>1 DEF IInv, RowOK, RowType, ThreadOK
<1>4. h \in Handlers /\ h.pc = "m_clear" /\ h.addr = row.address /\ h.at = i
  BY <1>3, IdleOK DEF HandlerOK, Handlers, Points, Kinds
<1> HIDE DEF h
<1>5. w[p].pc = "idle"
  <2>1. Idle.pc = "idle"
    BY DEF Idle
  <2>2. QED
    BY <1>1, <2>1
<1>6. HandlerOK(h, thread)
  BY <1>3, <1>4 DEF HandlerOK, Checked, Drafted, Flagless
<1>7. QED
  BY <1>1, <1>2, <1>4, <1>5, <1>6, RecordSame, MailSame, CalmStep
     DEF IInv, Flagless, Holding, Checked, Owing

\* The draft handler p releases gets its flag back, or loses it.
LEMMA HandlersRestamped ==
    ASSUME IInv, NEW p \in Workers, w[p].pc \in Drafted, NEW went \in {"sent", "pending"},
           Restamp(p, went), NEW h, w' = [w EXCEPT ![p] = h], HandlerOK(h, thread'),
           IF went = "sent" THEN /\ thread[w[p].at].went = "pending"
                                 /\ h.pc \in Flagless => h.at = w[p].at
                            ELSE w[p].pc \in Flagless /\ h.pc \notin Flagless
    PROVE  HandlersOK' /\ w'[p] = h /\ Beside(p)
<1> DEFINE i == w[p].at
<1>1. HandlerOK(w[p], thread) /\ i \in DOMAIN thread /\ thread[i].what = "followup"
  BY DEF IInv, HandlersOK, HandlerOK
<1>2. thread' = [thread EXCEPT ![i].went = went]
  BY DEF Restamp
<1>3. /\ DOMAIN thread' = DOMAIN thread
      /\ \A j \in DOMAIN thread \ {i} : thread'[j] = thread[j]
      /\ thread'[i].what = "followup" /\ thread'[i].went = went
  <2> HIDE DEF i
  <2>1. QED
    BY <1>1, <1>2, Restamped DEF IInv
<1>4. ASSUME NEW q \in Workers \ {p}
      PROVE  HandlerOK(w[q], thread') /\ (w[q].pc \in Flagless => w[q].at # i)
  <2>1. HandlerOK(w[q], thread)
    BY DEF IInv, HandlersOK
  <2>2. w[q].pc \in Flagless => w[q].at # i
    <3>1. CASE went = "sent"
      BY <2>1, <3>1 DEF HandlerOK
    <3>2. CASE went # "sent"
      BY <3>2 DEF IInv, HandlersOK
    <3>3. QED
      BY <3>1, <3>2
  <2>3. w[q].pc \in Drafted => w[q].at \in DOMAIN thread' /\ thread'[w[q].at].what = "followup"
    BY <1>3, <2>1 DEF HandlerOK
  <2>4. w[q].pc \in Flagless => thread'[w[q].at].went = "sent"
    BY <1>3, <2>1, <2>2 DEF HandlerOK, Drafted
  <2>5. QED
    BY <2>1, <2>2, <2>3, <2>4 DEF HandlerOK
<1>5. h \in Handlers
  BY DEF HandlerOK
<1>6. h.pc \in Flagless => h.at = i
  OBVIOUS
<1> HIDE DEF i
<1>7. HandlersOK'
  BY <1>4, <1>6, HandlersStep DEF IInv
<1>8. QED
  BY <1>5, <1>7, Task DEF IInv

\* The flag of a draft is cleared, and either handler p goes on with it or the
\* flag is lost.
LEMMA ClearedOK ==
    ASSUME IInv, NEW p \in Workers, w[p].pc = "m_clear", thread[w[p].at].went = "pending",
           Restamp(p, "sent"), Still, RowCalm, MailCalm, UNCHANGED <<row, nudgeJobs>>,
           NEW h, w' = [w EXCEPT ![p] = h],
           \/ h = [w[p] EXCEPT !.pc = "m_gate"]
           \/ h = Idle /\ Fault("clear_lost")
    PROVE  IInv'
<1> DEFINE i == w[p].at
<1>1. /\ w[p] \in Handlers /\ w[p].addr \in Addresses
      /\ i \in DOMAIN thread /\ thread[i].what = "followup"
  BY Address DEF IInv, HandlersOK, HandlerOK, Drafted, Addressed
<1>2. thread' = [thread EXCEPT ![i].went = "sent"] /\ thread[i].went = "pending"
  BY DEF Restamp
<1> HIDE DEF i
<1>3. /\ ThreadOK' /\ Grows /\ DOMAIN thread' = DOMAIN thread
      /\ thread'[i].what = "followup" /\ thread'[i].went = "sent"
      /\ Cardinality(Lines(thread)) \in Nat /\ Cardinality(Lines(thread')) \in Nat
      /\ Cardinality(Lines(thread')) = Cardinality(Lines(thread)) + 1
  <2>1. /\ ThreadOK' /\ Grows /\ DOMAIN thread' = DOMAIN thread
        /\ thread'[i].what = "followup" /\ thread'[i].went = "sent"
        /\ Cardinality(Lines(thread)) \in Nat /\ Cardinality(Lines(thread')) \in Nat
        /\ Cardinality(Lines(thread')) + Bit(thread[i].went = "sent")
             = Cardinality(Lines(thread)) + Bit("sent" = "sent")
    BY <1>1, <1>2, Restamped DEF IInv
  <2>2. QED
    BY <1>2, <2>1 DEF Bit
<1>4. /\ HandlerOK(h, thread') /\ h.pc \in {"m_gate", "idle"} /\ (h.pc = "m_gate" => h.at = i)
      /\ h.pc = "idle" => Fault("clear_lost")
  <2>1. CASE h = [w[p] EXCEPT !.pc = "m_gate"]
    <3>1. h \in Handlers /\ h.pc = "m_gate" /\ h.addr = w[p].addr /\ h.at = i
      BY <1>1, <2>1 DEF Handlers, Points, i
    <3>2. QED
      BY <1>1, <1>3, <3>1 DEF HandlerOK, Checked
  <2>2. CASE h = Idle /\ Fault("clear_lost")
    <3>1. Idle.pc = "idle"
      BY DEF Idle
    <3>2. QED
      BY <2>2, <3>1, IdleOK
  <2>3. QED
    BY <2>1, <2>2
<1>5. HandlersOK' /\ w'[p] = h /\ Beside(p)
  BY <1>2, <1>4, HandlersRestamped DEF Drafted, Flagless, i
<1>6. /\ Bit(w[p].pc \in Flagless) = 0 /\ Bit(w'[p].pc \in Flagless) = Bit(h.pc = "m_gate")
      /\ Bit(w[p].pc = "r_append") = 0 /\ Bit(w'[p].pc = "r_append") = 0
      /\ Bit(w[p].pc = "r_mark") = 0 /\ Bit(w'[p].pc = "r_mark") = 0
  BY <1>4, <1>5 DEF Bit, Flagless
<1>7. Counted /\ RestCalm
  BY CountedOK, StillCalm DEF Still, IInv
<1>8. /\ Bit(h.pc = "m_gate") \in {0, 1}
      /\ Bit(h.pc = "m_gate") = 0 => Faults(Shows)' = Faults(Shows) + 1
  <2>1. CASE h.pc = "m_gate"
    BY <2>1 DEF Bit
  <2>2. CASE h.pc = "idle"
    BY <1>4, <2>2, Excused DEF Bit, Shows
  <2>3. QED
    BY <1>4, <2>1, <2>2
<1>9. PaysForLines(p)
  BY <1>3, <1>6, <1>7, <1>8 DEF PaysForLines, Counted, MailCalm
<1>10. QED
  BY <1>3, <1>4, <1>5, <1>7, <1>9, AccountStep DEF MailCalm, Holding, Checked

LEMMA ReleaseClearsOK == ASSUME IInv, NEW p \in Workers, ReleaseClears(p) PROVE IInv'
<1>1. /\ w[p].pc = "m_clear" /\ UNCHANGED <<row, mail, nudgeJobs>> /\ Still
      /\ \/ Finish(p) /\ UNCHANGED thread
         \/ /\ thread[w[p].at].went = "pending" /\ Restamp(p, "sent")
            /\ Goto(p, "m_gate") \/ (Finish(p) /\ Fault("clear_lost"))
  BY DEF ReleaseClears, At, Vendors, Unlisted, Fault, SomeFault, Still, IInv, RestOK
<1>2. RowCalm /\ MailCalm /\ RestCalm
  BY <1>1, RowSame, MailSame, StillCalm DEF IInv
<1>3. CASE Finish(p) /\ UNCHANGED thread
  BY <1>1, <1>2, <1>3, PlainFinish DEF Flagless, Owing, Adds
<1>4. CASE /\ thread[w[p].at].went = "pending" /\ Restamp(p, "sent")
           /\ Goto(p, "m_gate") \/ (Finish(p) /\ Fault("clear_lost"))
  <2>1. CASE Goto(p, "m_gate")
    BY <1>1, <1>2, <1>4, <2>1, ClearedOK DEF Goto
  <2>2. CASE Finish(p) /\ Fault("clear_lost")
    BY <1>1, <1>2, <1>4, <2>2, ClearedOK DEF Finish
  <2>3. QED
    BY <1>4, <2>1, <2>2
<1>5. QED
  BY <1>1, <1>3, <1>4

\* The draft waits again; or the flag is lost with the write that puts it back.
LEMMA ReleaseRestoresOK == ASSUME IInv, NEW p \in Workers, ReleaseRestores(p) PROVE IInv'
<1> DEFINE i == w[p].at
<1>1. /\ w[p].pc = "m_restore" /\ Finish(p) /\ UNCHANGED <<row, mail, nudgeJobs>> /\ Still
      /\ \/ Restamp(p, "pending") /\ UNCHANGED faults
         \/ Fault("restore_lost") /\ UNCHANGED thread
  BY DEF ReleaseRestores, At, Vendors, Unlisted, Fault, SomeFault, Still, IInv, RestOK
<1>2. i \in DOMAIN thread /\ thread[i].what = "followup" /\ thread[i].went = "sent"
  BY <1>1 DEF IInv, HandlersOK, HandlerOK, Drafted, Flagless
<1>3. Idle.pc = "idle" /\ \A t : HandlerOK(Idle, t)
  BY IdleOK DEF Idle
<1>4. w' = [w EXCEPT ![p] = Idle]
  BY <1>1 DEF Finish
<1>5. RowCalm /\ MailCalm /\ RestCalm /\ Counted
  BY <1>1, RowSame, MailSame, StillCalm, CountedOK DEF IInv, Still
<1>6. /\ HandlersOK' /\ w'[p] = Idle /\ Beside(p) /\ ThreadOK' /\ Grows
      /\ Cardinality(Lines(thread')) \in Nat
      /\ \/ Cardinality(Lines(thread')) + 1 = Cardinality(Lines(thread))
         \/ /\ Cardinality(Lines(thread')) = Cardinality(Lines(thread))
            /\ Faults(Shows)' = Faults(Shows) + 1
  <2>1. CASE Restamp(p, "pending") /\ UNCHANGED faults
    <3>1. thread' = [thread EXCEPT ![i].went = "pending"]
      BY <2>1 DEF Restamp
    <3>2. HandlersOK' /\ w'[p] = Idle /\ Beside(p)
      BY <1>1, <1>3, <1>4, <2>1, HandlersRestamped DEF Drafted, Flagless
    <3> HIDE DEF i
    <3>3. /\ ThreadOK' /\ Grows
          /\ Cardinality(Lines(thread)) \in Nat /\ Cardinality(Lines(thread')) \in Nat
          /\ Cardinality(Lines(thread')) + Bit(thread[i].went = "sent")
               = Cardinality(Lines(thread)) + Bit("pending" = "sent")
      BY <1>2, <3>1, Restamped DEF IInv
    <3>4. QED
      BY <1>2, <3>2, <3>3 DEF Bit
  <2>2. CASE Fault("restore_lost") /\ UNCHANGED thread
    <3>1. ThreadOK' /\ Kept /\ Grows
      BY <2>2, AddsOK DEF IInv, Adds
    <3>2. HandlersOK' /\ w'[p] = Idle /\ Beside(p)
      BY <1>3, <1>4, <3>1, HandlersKept DEF Flagless
    <3>3. Faults(Shows)' = Faults(Shows) + 1
      BY <2>2, Excused DEF Shows
    <3>4. QED
      BY <1>5, <2>2, <3>1, <3>2, <3>3 DEF Counted
  <2>3. QED
    BY <1>1, <2>1, <2>2
<1>7. /\ Bit(w[p].pc \in Flagless) = 1 /\ Bit(w'[p].pc \in Flagless) = 0
      /\ Bit(w[p].pc = "r_append") = 0 /\ Bit(w'[p].pc = "r_append") = 0
      /\ Bit(w[p].pc = "r_mark") = 0 /\ Bit(w'[p].pc = "r_mark") = 0
  BY <1>1, <1>3, <1>6 DEF Bit, Flagless
<1>8. PaysForLines(p)
  BY <1>1, <1>5, <1>6, <1>7 DEF PaysForLines, Counted, MailCalm
<1>9. QED
  BY <1>1, <1>3, <1>5, <1>6, <1>8, AccountStep DEF MailCalm, Holding, Checked

LEMMA ReleaseGateOK == ASSUME IInv, NEW p \in Workers, ReleaseGate(p) PROVE IInv'
<1>1. /\ w[p].pc = "m_gate" /\ UNCHANGED <<Record, mail, nudgeJobs>> /\ Still
      /\ Goto(p, "m_send") \/ Goto(p, "m_restore")
  BY DEF ReleaseGate, At, Vendors, Unlisted, Uncounted, SomeFault, Still, IInv, RestOK
<1>2. GoesTo(p, "m_send") /\ GoesTo(p, "m_restore")
  BY <1>1, Address DEF GoesTo, Points, Addressed, Checked, Holding, Drafted, Flagless
<1>3. QED
  BY <1>1, <1>2, RecordSame, MailSame, StillCalm, PlainGoto DEF IInv, Flagless, Owing

LEMMA ReleaseRefusedOK == ASSUME IInv, NEW p \in Workers, ReleaseRefused(p) PROVE IInv'
<1>1. /\ w[p].pc = "m_send" /\ Goto(p, "m_restore") /\ UNCHANGED <<Record, nudgeJobs>> /\ Still
      /\ UNCHANGED mail \/ (Fault("answer_lost") /\ FollowUpMailed(p))
  BY DEF ReleaseRefused, At, Unlisted, SomeFault, Fault, Still, IInv, RestOK
<1>2. GoesTo(p, "m_restore")
  BY <1>1 DEF GoesTo, Points, Addressed, Checked, Holding, Drafted, Flagless
<1>3. CASE UNCHANGED mail
  BY <1>1, <1>2, <1>3, RecordSame, MailSame, StillCalm, PlainGoto DEF IInv, Flagless, Owing
<1>4. CASE Fault("answer_lost") /\ FollowUpMailed(p)
  <2>1. PICK h : /\ w' = [w EXCEPT ![p] = h] /\ HandlerOK(h, thread)
                 /\ h.pc = "m_restore" /\ h.at = w[p].at
    BY <1>1, <1>2, Gone DEF IInv, Flagless
  <2>2. RowCalm /\ ThreadOK' /\ Kept /\ Grows /\ RestCalm
    BY <1>1, RecordSame, AddsOK, StillCalm DEF IInv
  <2>3. HandlersOK' /\ w'[p] = h /\ Beside(p)
    BY <1>1, <2>1, <2>2, HandlersKept DEF Flagless
  <2>4. MailOK' /\ mail'.followup = mail.followup + 1 /\ mail'.nudge = mail.nudge
    BY <1>4, MailFollowUp DEF IInv
  <2>5. /\ Bit(w[p].pc \in Flagless) = 1 /\ Bit(w'[p].pc \in Flagless) = 1
        /\ Bit(w[p].pc = "r_append") = 0 /\ Bit(w'[p].pc = "r_append") = 0
        /\ Bit(w[p].pc = "r_mark") = 0 /\ Bit(w'[p].pc = "r_mark") = 0
    BY <1>1, <2>1, <2>3 DEF Bit, Flagless
  <2>6. Faults(Hides)' = Faults(Hides) + 1
    BY <1>4, Excused DEF Hides
  <2>7. Counted /\ thread' = thread /\ row' = row
    BY <1>1, CountedOK DEF Record, Still
  <2>8. PaysForLines(p)
    BY <2>4, <2>5, <2>6, <2>7 DEF PaysForLines, Counted
  <2>9. QED
    BY <1>1, <2>1, <2>2, <2>3, <2>4, <2>8, AccountStep DEF Holding, Checked
<1>5. QED
  BY <1>1, <1>3, <1>4

LEMMA ReleaseSentOK == ASSUME IInv, NEW p \in Workers, ReleaseSent(p) PROVE IInv'
<1>1. /\ w[p].pc = "m_send" /\ FollowUpMailed(p) /\ Goto(p, "m_mark")
      /\ UNCHANGED <<Record, nudgeJobs, faults>> /\ Still
  BY DEF ReleaseSent, At, Unlisted, Uncounted, SomeFault, Still, IInv, RestOK
<1>2. GoesTo(p, "m_mark")
  BY <1>1, Address DEF GoesTo, Points, Addressed, Checked, Holding, Drafted, Flagless
<1>3. PICK h : w' = [w EXCEPT ![p] = h] /\ HandlerOK(h, thread) /\ h.pc = "m_mark"
  BY <1>1, <1>2, Gone DEF IInv, Flagless
<1>4. RowCalm /\ ThreadOK' /\ Kept /\ Grows /\ RestCalm
  BY <1>1, RecordSame, AddsOK, StillCalm DEF IInv
<1>5. HandlersOK' /\ w'[p] = h /\ Beside(p)
  BY <1>3, <1>4, HandlersKept DEF Flagless
<1>6. MailOK' /\ mail'.followup = mail.followup + 1 /\ mail'.nudge = mail.nudge
  BY <1>1, MailFollowUp DEF IInv
<1>7. /\ Bit(w[p].pc \in Flagless) = 1 /\ Bit(w'[p].pc \in Flagless) = 0
      /\ Bit(w[p].pc = "r_append") = 0 /\ Bit(w'[p].pc = "r_append") = 0
      /\ Bit(w[p].pc = "r_mark") = 0 /\ Bit(w'[p].pc = "r_mark") = 0
  BY <1>1, <1>3, <1>5 DEF Bit, Flagless
<1>8. Counted /\ thread' = thread /\ row' = row
  BY <1>1, CountedOK DEF Record, Still
<1>9. PaysForLines(p)
  BY <1>6, <1>7, <1>8 DEF PaysForLines, Counted
<1>10. QED
  BY <1>1, <1>3, <1>4, <1>5, <1>6, <1>9, AccountStep DEF Holding, Checked

----------------------------------------------------------------------------
(* Decisions and times.                                                      *)

LEMMA DecideOK ==
    ASSUME IInv, NEW p \in Workers, NEW accept \in BOOLEAN, Decide(p, accept) PROVE IInv'
<1> DEFINE at == IF accept THEN row.counter ELSE 0
           pc == IF mode = "walkthrough" \/ row.address = NoAddress \/ ~row.token
                 THEN "q_write" ELSE "q_gate"
           h == [Idle EXCEPT !.kind = "decide", !.row = row, !.mode = mode,
                             !.addr = row.address, !.at = at, !.pc = pc]
<1>1. w[p] = Idle /\ w' = [w EXCEPT ![p] = h] /\ UNCHANGED <<Record, mail, nudgeJobs>>
  BY DEF Decide, Request, Vendors
<1>2. RestCalm
  <2>1. starts' \in 0 .. MaxStarts
    BY BoundsAssumption DEF Decide, Request, IInv, RestOK
  <2>2. QED
    BY <2>1 DEF Decide, Request, Vendors, Unlisted, SomeFault, IInv, RestOK, RestCalm
<1>3. /\ row \in RowType /\ mode \in Modes /\ row.address \in Addresses \cup {NoAddress}
      /\ at \in Nat /\ pc \in {"q_write", "q_gate"}
      /\ pc = "q_gate" => row.address \in Addresses
  BY DEF IInv, RowOK, RowType, RestOK
<1> HIDE DEF at, pc
<1>4. h \in Handlers /\ h.pc = pc /\ h.addr = row.address
  BY <1>3, IdleOK DEF HandlerOK, Handlers, Points, Kinds
<1> HIDE DEF h
<1>5. w[p].pc = "idle"
  <2>1. Idle.pc = "idle"
    BY DEF Idle
  <2>2. QED
    BY <1>1, <2>1
<1>6. HandlerOK(h, thread)
  BY <1>3, <1>4 DEF HandlerOK, Checked, Drafted, Flagless, Addressed
<1>7. QED
  BY <1>1, <1>2, <1>3, <1>4, <1>5, <1>6, RecordSame, MailSame, CalmStep
     DEF IInv, Flagless, Holding, Checked, Owing

LEMMA DecisionGateOK == ASSUME IInv, NEW p \in Workers, DecisionGate(p) PROVE IInv'
<1>1. /\ w[p].pc = "q_gate" /\ UNCHANGED <<row, mail, nudgeJobs>>
      /\ Unlisted /\ UNCHANGED <<clock, starts, events>>
      /\ \/ Goto(p, "q_send") /\ UNCHANGED <<thread, faults>>
         \/ Stores("matchy", "rate", "held") /\ Finish(p)
  BY DEF DecisionGate, At, Vendors
<1>2. Adds /\ SomeFault
  BY <1>1, StoredLine DEF Adds, SomeFault
<1>3. Still
  BY <1>1, <1>2 DEF DecisionGate, Vendors, Unlisted, Still, IInv, RestOK
<1>4. RowCalm /\ MailCalm /\ RestCalm
  BY <1>1, <1>3, RowSame, MailSame, StillCalm DEF IInv
<1>5. GoesTo(p, "q_send")
  BY <1>1, Address DEF GoesTo, Points, Addressed, Checked, Holding, Drafted, Flagless
<1>6. QED
  BY <1>1, <1>2, <1>4, <1>5, PlainGoto, PlainFinish DEF Flagless, Owing

LEMMA DecisionSentOK == ASSUME IInv, NEW p \in Workers, DecisionSent(p) PROVE IInv'
<1>1. /\ w[p].pc = "q_send" /\ TermsMailed(p) /\ Goto(p, "q_write")
      /\ UNCHANGED <<Record, nudgeJobs>> /\ Still
  BY DEF DecisionSent, At, Unlisted, Uncounted, SomeFault, Still, IInv, RestOK
<1>2. GoesTo(p, "q_write")
  BY <1>1 DEF GoesTo, Points, Addressed, Checked, Holding, Drafted, Flagless
<1>3. QED
  BY <1>1, <1>2, RecordSame, MailTerms, StillCalm, PlainGoto DEF IInv, Flagless, Owing

LEMMA DecisionRefusedOK == ASSUME IInv, NEW p \in Workers, DecisionRefused(p) PROVE IInv'
<1>1. /\ w[p].pc = "q_send" /\ Finish(p) /\ UNCHANGED <<Record, nudgeJobs>> /\ Still
      /\ UNCHANGED mail \/ TermsMailed(p)
  BY DEF DecisionRefused, At, Unlisted, SomeFault, Fault, Still, IInv, RestOK
<1>2. MailCalm
  BY <1>1, MailSame, MailTerms DEF IInv
<1>3. QED
  BY <1>1, <1>2, RecordSame, StillCalm, PlainFinish DEF IInv, Flagless, Owing

LEMMA DecisionWrittenOK == ASSUME IInv, NEW p \in Workers, DecisionWritten(p) PROVE IInv'
<1> DEFINE b == row.agreed \/ w[p].at # 0
<1>1. /\ w[p].pc = "q_write" /\ Goto(p, "q_append") /\ UNCHANGED <<thread, mail, nudgeJobs>> /\ Still
      /\ row' = [row EXCEPT !.counter = 0, !.agreed = b]
  BY DEF DecisionWritten, At, Vendors, Unlisted, Uncounted, SomeFault, Still, IInv, RestOK
<1>2. b \in BOOLEAN
  OBVIOUS
<1> HIDE DEF b
<1>3. RowCalm
  BY <1>1, <1>2 DEF IInv, RowOK, RowCalm, RowType
<1>4. GoesTo(p, "q_append")
  BY <1>1 DEF GoesTo, Points, Addressed, Checked, Holding, Drafted, Flagless
<1>5. QED
  BY <1>1, <1>3, <1>4, MailSame, StillCalm, PlainGoto DEF IInv, Flagless, Owing, Adds

LEMMA DecisionAppendOK == ASSUME IInv, NEW p \in Workers, DecisionAppend(p) PROVE IInv'
<1>1. /\ w[p].pc = "q_append" /\ UNCHANGED <<row, mail, nudgeJobs>>
      /\ Stores("matchy", "rate", "held") \/ Stores("matchy", "rate", "sent")
      /\ Goto(p, "t_gate") \/ Finish(p)
  BY DEF DecisionAppend, At, Vendors
<1>2. Adds /\ SomeFault
  BY <1>1, StoredLine
<1>3. Still
  BY <1>2 DEF DecisionAppend, Vendors, Unlisted, Still, IInv, RestOK
<1>4. RowCalm /\ MailCalm /\ RestCalm
  BY <1>1, <1>3, RowSame, MailSame, StillCalm DEF IInv
<1>5. GoesTo(p, "t_gate")
  BY <1>1 DEF GoesTo, Points, Addressed, Checked, Holding, Drafted, Flagless
<1>6. QED
  BY <1>1, <1>2, <1>4, <1>5, PlainGoto, PlainFinish DEF Flagless, Owing

LEMMA TimesGateOK == ASSUME IInv, NEW p \in Workers, TimesGate(p) PROVE IInv'
<1>1. /\ w[p].pc = "t_gate" /\ w[p].addr # NoAddress /\ Goto(p, "t_send")
      /\ UNCHANGED <<Record, mail>> /\ Still
  BY DEF TimesGate, At, Vendors, Unlisted, Uncounted, SomeFault, Still, IInv, RestOK
<1>2. w[p].addr \in Addresses
  BY <1>1, Copies DEF IInv
<1>3. GoesTo(p, "t_send")
  BY <1>1, <1>2 DEF GoesTo, Points, Checked, Holding, Drafted, Flagless
<1>4. QED
  BY <1>1, <1>3, RecordSame, MailSame, StillCalm, PlainGoto DEF IInv, Flagless, Owing

LEMMA TimesSentOK == ASSUME IInv, NEW p \in Workers, TimesSent(p) PROVE IInv'
<1>1. /\ w[p].pc = "t_send" /\ TermsMailed(p) /\ Goto(p, "t_append")
      /\ UNCHANGED <<Record, nudgeJobs>> /\ Still
  BY DEF TimesSent, At, Unlisted, Uncounted, SomeFault, Still, IInv, RestOK
<1>2. GoesTo(p, "t_append")
  BY <1>1 DEF GoesTo, Points, Addressed, Checked, Holding, Drafted, Flagless
<1>3. QED
  BY <1>1, <1>2, RecordSame, MailTerms, StillCalm, PlainGoto DEF IInv, Flagless, Owing

LEMMA TimesEndOK ==
    ASSUME IInv, NEW p \in Workers, TimesNotSent(p) \/ TimesRefused(p) PROVE IInv'
<1>1. /\ w[p].pc \in {"t_gate", "t_send"} /\ Finish(p) /\ events' \subseteq events
      /\ UNCHANGED <<row, locks, jobs, nudgeJobs, clock, starts>> /\ Unlisted
      /\ UNCHANGED mail \/ TermsMailed(p)
  BY EndsOK DEF TimesNotSent, TimesRefused, At, Record
<1>2. Adds /\ SomeFault
  BY StoredLine DEF TimesNotSent, TimesRefused, Record, Adds, Fault, SomeFault
<1>3. Still
  BY <1>1, <1>2 DEF Unlisted, Still, IInv, RestOK
<1>4. MailCalm
  BY <1>1, MailSame, MailTerms DEF IInv
<1>5. QED
  BY <1>1, <1>2, <1>3, <1>4, RowSame, StillCalm, PlainFinish DEF IInv, Flagless, Owing

LEMMA TimesAppendOK == ASSUME IInv, NEW p \in Workers, TimesAppend(p) PROVE IInv'
<1>1. /\ w[p].pc = "t_append" /\ Goto(p, "t_status") /\ UNCHANGED <<row, mail, nudgeJobs>>
      /\ Stores("matchy", "times", "sent")
  BY DEF TimesAppend, At, Vendors
<1>2. Adds /\ SomeFault
  BY <1>1, StoredLine
<1>3. Still
  BY <1>2 DEF TimesAppend, Vendors, Unlisted, Still, IInv, RestOK
<1>4. GoesTo(p, "t_status")
  BY <1>1 DEF GoesTo, Points, Addressed, Checked, Holding, Drafted, Flagless
<1>5. QED
  BY <1>1, <1>2, <1>3, <1>4, RowSame, MailSame, StillCalm, PlainGoto DEF IInv, Flagless, Owing

LEMMA TimesStatusOK == ASSUME IInv, NEW p \in Workers, TimesStatus(p) PROVE IInv'
<1>1. /\ w[p].pc = "t_status" /\ Finish(p) /\ UNCHANGED <<thread, mail, nudgeJobs>> /\ Still
      /\ row' = [row EXCEPT !.status = "scheduling_sent"]
  BY EndsOK DEF TimesStatus, At, Unlisted, Uncounted, SomeFault, Still, IInv, RestOK
<1>2. "scheduling_sent" \in Statuses
  BY DEF Statuses, AfterReplyStage
<1>3. QED
  BY <1>1, <1>2, RowStatus, MailSame, StillCalm, PlainFinish DEF IInv, Flagless, Owing, Adds

\* A handler dies: what it owed is not counted any more, and the kill is.
LEMMA KillOK == ASSUME IInv, NEW p \in Workers, Kill(p) PROVE IInv'
<1>1. Finish(p) /\ Fault("kill") /\ UNCHANGED <<Record, mail, nudgeJobs>> /\ Still
  BY DEF Kill, Vendors, Fault, SomeFault, Still, IInv, RestOK
<1>2. RowCalm /\ ThreadOK' /\ Kept /\ Grows /\ RestCalm /\ MailCalm
  BY <1>1, RecordSame, AddsOK, MailSame, StillCalm DEF IInv
<1>3. Idle.pc = "idle" /\ HandlerOK(Idle, thread)
  BY IdleOK DEF Idle
<1>4. HandlersOK' /\ w'[p] = Idle /\ Beside(p)
  BY <1>1, <1>2, <1>3, HandlersKept DEF Flagless, Finish
<1>5. /\ Bit(w[p].pc \in Flagless) \in {0, 1} /\ Bit(w'[p].pc \in Flagless) = 0
      /\ Bit(w[p].pc = "r_append") \in {0, 1} /\ Bit(w'[p].pc = "r_append") = 0
      /\ Bit(w[p].pc = "r_mark") \in {0, 1} /\ Bit(w'[p].pc = "r_mark") = 0
      /\ Bit(w[p].pc = "r_append") + Bit(w[p].pc = "r_mark") <= 1
      /\ Bit(w[p].pc = "r_append") + Bit(w[p].pc \in Flagless) <= 1
  BY <1>3, <1>4 DEF Bit, Flagless
<1>6. Faults(Hides)' = Faults(Hides) + 1 /\ Faults(Shows)' = Faults(Shows) + 1
  BY <1>1, Excused DEF Hides, Shows
<1>7. Counted /\ thread' = thread /\ row' = row
  BY <1>1, CountedOK DEF Record, Still
<1>8. PaysForLines(p)
  BY <1>2, <1>5, <1>6, <1>7 DEF PaysForLines, Counted, MailCalm
<1>9. FollowUps'
  BY <1>2, <1>4, <1>8, FollowUpsStep DEF IInv, MailCalm, RestCalm
<1>10. JobsOK' /\ JobsCalm /\ Follows(p)
  BY <1>1, <1>3, <1>4 DEF IInv, JobsOK, JobsCalm, Follows, Holding, Checked
<1>11. Due'
  BY <1>2, <1>3, <1>4, <1>10, DueStep DEF RestCalm
<1>12. Faults({"kill"})' > 0
  <2>1. Faults({"kill"})' = Faults({"kill"}) + 1 /\ Faults({"kill"}) \in Nat
    BY <1>1, FaultCounted DEF IInv, Bit
  <2>2. QED
    BY <2>1
<1>13. Slots'
  BY <1>1, <1>2, <1>12 DEF IInv, Slots, MailCalm, RestCalm
<1>14. QED
  BY <1>2, <1>4, <1>9, <1>10, <1>11, <1>13 DEF IInv, RestCalm, RowCalm, MailCalm

----------------------------------------------------------------------------
(* The invariant.                                                            *)

LEMMA InitOK == ASSUME OutreachInit PROVE IInv
<1>1. PICK first \in FirstRecords : row = first.row /\ thread = first.thread
  BY DEF OutreachInit
<1>2. RowOK /\ ThreadOK
  BY <1>1, FirstRecordsAssumption, FirstThreadsAssumption DEF RowOK, ThreadOK
<1>3. Lines(thread) = {}
  BY <1>1, FirstThreadsAssumption DEF Lines
<1>4. MailOK /\ mail.followup = 0 /\ \A d \in 1 .. MaxClock : mail.nudge[d] = 0
  <2> DEFINE intros == [a \in Addresses |-> IF row.claim = "fresh" /\ row.address = a THEN 1 ELSE 0]
             none == [a \in Addresses |-> 0]
             days == [d \in 1 .. MaxClock |-> 0]
             A == [Addresses -> Nat]
             D == [1 .. MaxClock -> Nat]
             S == SUBSET Addresses
  <2>1. intros \in A /\ none \in A /\ days \in D /\ {} \in S
    OBVIOUS
  <2>2. \A d \in 1 .. MaxClock : days[d] = 0
    OBVIOUS
  <2>3. mail = [intro |-> intros, later |-> none, followup |-> 0, terms |-> 0,
                nudge |-> days, bounced |-> {}]
    BY DEF OutreachInit
  <2> HIDE DEF intros, none, days, A, D, S
  <2>4. mail \in MailType(A, D, S) /\ mail.followup = 0 /\ mail.nudge = days
    BY <2>1, <2>3 DEF MailType
  <2>5. QED
    BY <2>2, <2>4 DEF MailOK, A, D, S
<1>5. JobsOK /\ nudgeJobs = {}
  BY FS_EmptySet DEF OutreachInit, JobsOK
<1>6. RestOK /\ faults = <<>>
  BY BoundsAssumption, FirstModesAssumption DEF OutreachInit, RestOK
<1>7. Idle.pc = "idle" /\ HandlerOK(Idle, thread) /\ Idle \in Handlers
  BY IdleOK DEF Idle, HandlerOK
<1>8. HandlersOK /\ \A p \in Workers : w[p].pc = "idle"
  <2>1. w = [p \in Workers |-> Idle]
    BY DEF OutreachInit
  <2>2. QED
    BY <1>7, <2>1 DEF HandlersOK, Flagless
<1>9. ASSUME NEW kinds PROVE Faults(kinds) = 0
  <2>1. {i \in DOMAIN faults : faults[i] \in kinds} = {}
    BY <1>6
  <2>2. QED
    BY <2>1, FS_EmptySet DEF Faults
<1>10. FollowUps
  <2>1. Releasing = {} /\ Unwritten = {} /\ Unmarked = {}
    BY <1>8 DEF Releasing, Unwritten, Unmarked, Flagless
  <2>2. /\ Cardinality(Releasing) = 0 /\ Cardinality(Unwritten) = 0
        /\ Cardinality(Unmarked) = 0 /\ Cardinality(Lines(thread)) = 0
    BY <1>3, <2>1, FS_EmptySet
  <2>3. QED
    BY <1>4, <1>9, <2>2 DEF FollowUps
<1>11. Due /\ Slots
  BY <1>4, <1>5, <1>8 DEF Due, Slots, Holding, Checked
<1>12. QED
  BY <1>2, <1>4, <1>5, <1>6, <1>8, <1>10, <1>11 DEF IInv

LEMMA NudgeStepOK == ASSUME IInv, NEW p \in Workers, NudgeStep(p) PROVE IInv'
<1>1. CASE Plan(p) \/ PlanNothing(p) \/ PlanState(p) \/ PlanFails(p)
  BY <1>1, PlanOK, PlanGivenUp, PlanStateOK
<1>2. CASE \E n \in nudgeJobs : NudgeJob(p, n)
  BY <1>2, NudgeJobOK
<1>3. CASE NudgeCheck(p) \/ NudgeRetire(p) \/ NudgeGate(p) \/ NudgeSent(p)
  BY <1>3, NudgeCheckOK, NudgeWritten, NudgeGateOK, NudgeSentOK
<1>4. CASE NudgeRefused(p) \/ NudgeClear(p) \/ NudgeAppend(p) \/ NudgeCount(p)
  BY <1>4, NudgeRefusedOK, NudgeWritten, NudgeAppendOK
<1>5. QED
  BY <1>1, <1>2, <1>3, <1>4 DEF NudgeStep

LEMMA DeliveryStepOK == ASSUME IInv, NEW p \in Workers, DeliveryStep(p) PROVE IInv'
  BY EventTaken, UnmatchedOK, DeliveryListsOK, ComplaintRowOK, UnreadOK, Impossible DEF DeliveryStep

LEMMA ReplyStepOK == ASSUME IInv, NEW p \in Workers, ReplyStep(p) PROVE IInv'
<1>1. CASE \/ \E e \in events : ReplyEvent(p, e)
           \/ ReplyStored(p) \/ ReplyNotStored(p) \/ ReplyScheduled(p)
           \/ Declined(p) \/ Countered(p) \/ Flagged(p) \/ Interested(p) \/ DeclineListed(p)
  BY <1>1, EventTaken, ReplyStoredOK, ReplyNotStoredOK, ReplyScheduledOK, ReplyReadOK, DeclineListedOK
<1>2. CASE \/ FollowUpKept(p) \/ FollowUpGate(p) \/ FollowUpSent(p) \/ FollowUpRefused(p)
           \/ FollowUpAppend(p) \/ FollowUpMarked(p)
  BY <1>2, FollowUpKeptOK, FollowUpSentOK, FollowUpRefusedOK, FollowUpAppendOK, MarkedOK
<1>3. CASE \/ ReleaseClears(p) \/ ReleaseGate(p) \/ ReleaseSent(p) \/ ReleaseRefused(p)
           \/ ReleaseRestores(p) \/ ReleaseMarked(p)
  BY <1>3, ReleaseClearsOK, ReleaseGateOK, ReleaseSentOK, ReleaseRefusedOK, ReleaseRestoresOK,
     MarkedOK
<1>4. CASE \/ DecisionGate(p) \/ DecisionSent(p) \/ DecisionRefused(p)
           \/ DecisionWritten(p) \/ DecisionAppend(p)
  BY <1>4, DecisionGateOK, DecisionSentOK, DecisionRefusedOK, DecisionWrittenOK, DecisionAppendOK
<1>5. CASE \/ TimesGate(p) \/ TimesSent(p) \/ TimesNotSent(p) \/ TimesRefused(p)
           \/ TimesAppend(p) \/ TimesStatus(p)
  BY <1>5, TimesGateOK, TimesSentOK, TimesEndOK, TimesAppendOK, TimesStatusOK
<1>6. QED
  BY <1>1, <1>2, <1>3, <1>4, <1>5 DEF ReplyStep

LEMMA NextOK == ASSUME IInv, [Next]_outreachVars PROVE IInv'
<1>1. CASE UNCHANGED outreachVars
  <2>1. UNCHANGED <<Record, mail, nudgeJobs, w, faults, clock>> /\ RestOK'
    BY <1>1 DEF outreachVars, Record, IInv, RestOK
  <2>2. QED
    BY <2>1, Waits DEF IInv
<1>2. ASSUME NEW p \in Workers,
             OwnerRequest(p) \/ Morning(p) \/ CronTwice(p) \/ HandlerStep(p) \/ Kill(p)
      PROVE  IInv'
  <2>1. CASE OwnerRequest(p)
    BY <2>1, ReleaseOK, DecideOK DEF OwnerRequest
  <2>2. CASE Morning(p) \/ CronTwice(p) \/ Kill(p)
    BY <2>2, MorningOK, CronTwiceOK, KillOK
  <2>3. CASE HandlerStep(p)
    BY <2>3, NudgeStepOK, ReplyStepOK, DeliveryStepOK DEF HandlerStep
  <2>4. QED
    BY <1>2, <2>1, <2>2, <2>3
<1>3. CASE Eight \/ \E m \in Modes : SetMode(m)
  BY <1>3, EightOK, SetModeOK
<1>4. ASSUME NEW a \in Addresses, Replies(a) \/ Complains(a) \/ Unsubscribe(a) PROVE IInv'
  BY <1>4, PersonOK
<1>5. ASSUME NEW p \in Workers, NEW n \in nudgeJobs, NudgeAgain(p, n) PROVE IInv'
  BY <1>5, NudgeAgainOK
<1>6. QED
  BY <1>1, <1>2, <1>3, <1>4, <1>5 DEF Next

LEMMA Invariance == Spec => []IInv
<1>1. OutreachInit => IInv
  BY InitOK
<1>2. IInv /\ [Next]_outreachVars => IInv'
  BY NextOK
<1>3. QED
  BY <1>1, <1>2, PTL DEF Spec

----------------------------------------------------------------------------
(* Theorems.                                                                 *)

\* Handler q ends, or moves from a point that is not the check of a nudge.
Elsewhere(q) ==
    \/ Finish(q)
    \/ w[q].pc # "n_check" /\ ((\E x : Goto(q, x)) \/ \E h : w' = [w EXCEPT ![q] = h])

Passes(p) == w[p].pc = "n_check" /\ w'[p].pc = "n_list"

LEMMA NonePasses ==
    ASSUME HandlersOK, NEW p \in Workers, NEW q \in Workers, Elsewhere(q)
    PROVE  ~Passes(p)
<1>1. Idle.pc # "n_list"
  BY DEF Idle
<1>2. CASE Finish(q)
  BY <1>1, <1>2 DEF HandlersOK, Finish, Passes
<1>3. ASSUME w[q].pc # "n_check", NEW x, Goto(q, x) PROVE ~Passes(p)
  BY <1>3 DEF HandlersOK, Goto, Passes
<1>4. ASSUME w[q].pc # "n_check", NEW h, w' = [w EXCEPT ![q] = h] PROVE ~Passes(p)
  BY <1>4 DEF HandlersOK, Passes
<1>5. QED
  BY <1>2, <1>3, <1>4 DEF Elsewhere

LEMMA NudgeElsewhere ==
    ASSUME HandlersOK, NEW q \in Workers, NudgeStep(q)
    PROVE  NudgeCheck(q) \/ Elsewhere(q)
<1>1. Idle.pc = "idle"
  BY DEF Idle
<1>2. CASE Plan(q)
  <2> DEFINE nudge == [stage |-> NudgeStage(w[q].row.status), since |-> WaitingSince(thread),
                       count |-> NudgesCounted(w[q].row, thread), day |-> NextNudgeDay(clock)]
             g == [[w[q] EXCEPT !.job = nudge] EXCEPT !.pc = "n_state"]
  <2>1. w[q].pc = "n_plan" /\ w' = [w EXCEPT ![q] = g]
    BY <1>2 DEF Plan, At
  <2> HIDE DEF g, nudge
  <2>2. QED
    BY <2>1 DEF Elsewhere
<1>3. ASSUME NEW n \in nudgeJobs, NudgeJob(q, n) PROVE Elsewhere(q)
  BY <1>1, <1>3 DEF NudgeJob, TakesNudge, Elsewhere
<1>4. CASE PlanNothing(q) \/ PlanState(q) \/ PlanFails(q)
  BY <1>4 DEF PlanNothing, PlanState, PlanFails, Elsewhere
<1>5. CASE NudgeRetire(q) \/ NudgeClear(q) \/ NudgeCount(q)
  BY <1>5 DEF NudgeRetire, NudgeClear, NudgeCount, WritesNudge, Elsewhere
<1>6. CASE NudgeGate(q) \/ NudgeSent(q) \/ NudgeRefused(q) \/ NudgeAppend(q)
  BY <1>6 DEF NudgeGate, NudgeSent, NudgeRefused, NudgeAppend, At, Elsewhere
<1>7. QED
  BY <1>2, <1>3, <1>4, <1>5, <1>6 DEF NudgeStep

LEMMA EventElsewhere ==
    ASSUME HandlersOK, NEW q \in Workers, NEW e, NEW x, TakesEvent(q, e, x)
    PROVE  Elsewhere(q)
<1>1. Idle.pc = "idle"
  BY DEF Idle
<1>2. QED
  BY <1>1 DEF TakesEvent, Elsewhere

LEMMA ReplyElsewhere ==
    ASSUME HandlersOK, NEW q \in Workers, ReplyStep(q) PROVE Elsewhere(q)
<1>1. ASSUME NEW e \in events, ReplyEvent(q, e) PROVE Elsewhere(q)
  BY <1>1, EventElsewhere DEF ReplyEvent
<1>2. CASE \/ ReplyStored(q) \/ ReplyNotStored(q) \/ ReplyScheduled(q)
           \/ Declined(q) \/ Countered(q) \/ Flagged(q) \/ Interested(q) \/ DeclineListed(q)
  BY <1>2, EndsOK DEF ReplyStored, ReplyNotStored, ReplyScheduled, Declined, Countered, Flagged,
     Interested, ReplyMoves, DeclineListed, At, Elsewhere
<1>3. CASE \/ FollowUpKept(q) \/ FollowUpGate(q) \/ FollowUpSent(q) \/ FollowUpRefused(q)
           \/ FollowUpAppend(q) \/ FollowUpMarked(q)
  BY <1>3, EndsOK DEF FollowUpKept, FollowUpGate, FollowUpNotSent, FollowUpSent, FollowUpRefused,
     FollowUpAppend, FollowUpMarked, At, Elsewhere
<1>4. CASE \/ ReleaseClears(q) \/ ReleaseGate(q) \/ ReleaseSent(q) \/ ReleaseRefused(q)
           \/ ReleaseRestores(q) \/ ReleaseMarked(q)
  BY <1>4 DEF ReleaseClears, ReleaseGate, ReleaseSent, ReleaseRefused, ReleaseRestores,
     ReleaseMarked, At, Elsewhere
<1>5. CASE \/ DecisionGate(q) \/ DecisionSent(q) \/ DecisionRefused(q)
           \/ DecisionWritten(q) \/ DecisionAppend(q)
  BY <1>5 DEF DecisionGate, DecisionSent, DecisionRefused, DecisionWritten, DecisionAppend, At,
     Elsewhere
<1>6. CASE \/ TimesGate(q) \/ TimesSent(q) \/ TimesNotSent(q) \/ TimesRefused(q)
           \/ TimesAppend(q) \/ TimesStatus(q)
  BY <1>6, EndsOK DEF TimesGate, TimesSent, TimesNotSent, TimesRefused, TimesAppend, TimesStatus,
     At, Elsewhere
<1>7. QED
  BY <1>1, <1>2, <1>3, <1>4, <1>5, <1>6 DEF ReplyStep

LEMMA DeliveryElsewhere ==
    ASSUME IInv, NEW q \in Workers, DeliveryStep(q) PROVE Elsewhere(q) \/ UNCHANGED w
<1>1. ASSUME NEW e \in events, DeliveryEvent(q, e) PROVE Elsewhere(q)
  BY <1>1, EventElsewhere DEF DeliveryEvent, IInv
<1>2. ASSUME NEW e \in events, Unmatched(e) PROVE UNCHANGED w
  BY <1>2 DEF Unmatched
<1>3. CASE DeliveryLists(q)
  <2> DEFINE h == [[w[q] EXCEPT !.mode = mode] EXCEPT !.pc = "d_row"]
  <2>1. w[q].pc = "d_list" /\ w' = [w EXCEPT ![q] = h]
    BY <1>3 DEF DeliveryLists, At
  <2> HIDE DEF h
  <2>2. QED
    BY <2>1 DEF Elsewhere
<1>4. CASE ComplaintRow(q) \/ Unread(q)
  BY <1>4, EndsOK DEF ComplaintRow, Unread, Elsewhere
<1>5. QED
  BY <1>1, <1>2, <1>3, <1>4, Impossible DEF DeliveryStep

\* A nudge passes its check, and so was still wanted, in no other step.
LEMMA StillWantedThen ==
    ASSUME IInv, Next, NEW p \in Workers, Passes(p)
    PROVE  StillWanted(p)
<1>1. HandlersOK /\ Idle.pc = "idle"
  BY DEF IInv, Idle
<1>2. CASE Eight \/ (\E m \in Modes : SetMode(m))
           \/ \E a \in Addresses : Replies(a) \/ Complains(a) \/ Unsubscribe(a)
  BY <1>2 DEF Eight, SetMode, Replies, Complains, Unsubscribe, Passes
<1>3. ASSUME NEW q \in Workers,
             \/ OwnerRequest(q) \/ Morning(q) \/ CronTwice(q) \/ Kill(q)
             \/ \E n \in nudgeJobs : NudgeAgain(q, n)
      PROVE  Elsewhere(q) \/ UNCHANGED w
  <2>1. CASE \/ \E i \in DOMAIN thread : Release(q, i)
             \/ \E accept \in BOOLEAN : Decide(q, accept)
    BY <1>1, <2>1 DEF Release, Decide, Request, Elsewhere
  <2>2. CASE Morning(q) \/ CronTwice(q)
    BY <1>1, <2>2 DEF Morning, CronTwice, PlannerReads, Elsewhere
  <2>3. CASE Kill(q) \/ \E n \in nudgeJobs : NudgeAgain(q, n)
    BY <1>1, <2>3 DEF Kill, NudgeAgain, TakesNudge, Elsewhere
  <2>4. QED
    BY <1>3, <2>1, <2>2, <2>3 DEF OwnerRequest
<1>4. ASSUME NEW q \in Workers, HandlerStep(q)
      PROVE  NudgeCheck(q) \/ Elsewhere(q) \/ UNCHANGED w
  BY <1>1, <1>4, NudgeElsewhere, ReplyElsewhere, DeliveryElsewhere DEF HandlerStep
<1>5. ASSUME NEW q \in Workers, NudgeCheck(q) PROVE StillWanted(p)
  <2>1. q = p
    BY <1>1, <1>5 DEF HandlersOK, NudgeCheck, Goto, Finish, Passes
  <2>2. ~Finish(p)
    BY <1>1 DEF HandlersOK, Finish, Passes
  <2>3. QED
    BY <1>5, <2>1, <2>2 DEF NudgeCheck
<1>6. CASE UNCHANGED w
  BY <1>6 DEF Passes
<1>7. QED
  BY <1>1, <1>2, <1>3, <1>4, <1>5, <1>6, NonePasses DEF Next, Passes

\* Who waits on a line that a nudge has followed is not wanted any more.
LEMMA NotCovered ==
    ASSUME IInv, NEW p \in Workers, w[p].pc = "n_check", StillWanted(p),
           Covered(w[p].job.day)
    PROVE  FALSE
<1> DEFINE since == w[p].job.since
<1>1. PICK i \in DOMAIN thread :
        thread[i].what = "nudge" /\ thread[i].went = "sent" /\ since < i
  BY DEF Covered, Holding
<1>2. since \in 1 .. Len(thread) /\ WaitingSince(thread) = since
  BY DEF IInv, Due, WaitsOn, Holding, StillWanted
<1>3. /\ Spoken(thread) \in SUBSET (1 .. Len(thread)) /\ Len(thread) \in Nat
      /\ i \in Spoken(thread)
  BY <1>1 DEF IInv, ThreadOK, Spoken
<1> DEFINE last == CHOOSE k \in Spoken(thread) : \A j \in Spoken(thread) : j <= k
<1> HIDE DEF since
<1>4. \E k \in Spoken(thread) : \A j \in Spoken(thread) : j <= k
  BY <1>3, LastPlace
<1>5. last \in Spoken(thread) /\ \A j \in Spoken(thread) : j <= last
  BY <1>4
<1>6. WaitingSince(thread) = IF thread[last].from = "expert" THEN 0 ELSE last
  BY <1>3 DEF WaitingSince
<1> HIDE DEF last
<1>7. i <= last /\ last \in 1 .. Len(thread) /\ i \in 1 .. Len(thread)
  BY <1>3, <1>5
<1>8. since = 0 \/ since = last
  BY <1>2, <1>6
<1>9. QED
  BY <1>1, <1>2, <1>3, <1>7, <1>8

\* Of the jobs for one morning the first to finish wins, however many planners
\* published one and however often QStash delivered it: the others find the
\* thread moved on or the slot of the state gone - unless a line, an answer or
\* a handler was lost.
THEOREM FirstNudgeWins == Spec => FirstFinisherWins
<1> DEFINE Won(p) ==
             \/ Mate({"n_append"}, w[p].job.day)
             \/ /\ Faults({"append_lost", "answer_lost"}) > 0
                /\ \/ row.nudge # w[p].row.nudge \/ Mate({"n_count", "n_clear"}, w[p].job.day)
                   \/ Faults({"write_lost"}) > 0
             \/ Faults({"kill"}) > 0
<1>1. ASSUME IInv, Next, NEW p \in Workers, Passes(p), mail.nudge[w[p].job.day] > 0
      PROVE  Won(p)
  <2> DEFINE d == w[p].job.day
  <2>1. w[p].pc = "n_check" /\ StillWanted(p)
    BY <1>1, StillWantedThen DEF Passes
  <2>2. d \in 1 .. MaxClock
    <3>1. d \in Nat /\ d # 0 /\ 2 * d + 1 <= clock
      BY <1>1, <2>1 DEF IInv, HandlersOK, Handlers, NudgeType, Due, WaitsOn, Holding, NudgeDue
    <3>2. clock \in 1 .. MaxClock + 1 /\ MaxClock \in Nat
      BY <1>1, BoundsAssumption DEF IInv, RestOK
    <3>3. QED
      BY <3>1, <3>2
  <2>3. Faults({"kill"}) > 0 \/ (Said(d) /\ Freed(d))
    BY <1>1, <2>2 DEF IInv, Slots
  <2>4. ~Covered(d)
    BY <1>1, <2>1, NotCovered
  <2>5. row.nudge.day # d => row.nudge # w[p].row.nudge
    BY <2>1 DEF StillWanted
  <2>6. Freed(d) => \/ Mate({"n_append"}, d) \/ Mate({"n_count", "n_clear"}, d)
                    \/ row.nudge # w[p].row.nudge \/ Faults({"write_lost"}) > 0
    BY <2>5 DEF Freed, Mate
  <2>7. QED
    BY <2>3, <2>4, <2>6 DEF Said
<1>2. IInv /\ [Next]_outreachVars =>
        [\A p \in Workers : Passes(p) /\ mail.nudge[w[p].job.day] > 0 => Won(p)]_outreachVars
  BY <1>1
<1>3. Spec => [][\A p \in Workers : Passes(p) /\ mail.nudge[w[p].job.day] > 0
                                     => Won(p)]_outreachVars
  BY <1>2, Invariance, PTL DEF Spec
<1>4. QED
  BY <1>3 DEF FirstFinisherWins, Passes, Mate, At

\* A follow-up that was mailed is on the thread as sent once nothing is in
\* flight, unless a kill or a lost answer hid it, or a line that was refused;
\* and then the row has it that terms were asked for.
THEOREM MailIsOnThread == Spec => []FollowUpsOnThread
<1>1. ASSUME IInv PROVE FollowUpsOnThread
  <2> SUFFICES ASSUME \A p \in Workers : w[p] = Idle
               PROVE  mail.followup <= Cardinality(Lines(thread)) + Faults(Hides)
                         + IF row.followed THEN Faults({"append_lost"}) ELSE 0
    BY DEF FollowUpsOnThread, Lines, Hides
  <2>1. Idle.pc = "idle"
    BY DEF Idle
  <2>2. Releasing = {} /\ Unwritten = {} /\ Unmarked = {}
    BY <2>1 DEF Releasing, Unwritten, Unmarked, Flagless
  <2>3. Cardinality(Releasing) = 0 /\ Cardinality(Unwritten) = 0 /\ Cardinality(Unmarked) = 0
    BY <2>2, FS_EmptySet
  <2>4. /\ mail.followup \in Nat /\ Cardinality(Lines(thread)) \in Nat
        /\ Faults(Hides) \in Nat /\ Faults({"append_lost"}) \in Nat
    BY <1>1, LinesFinite, FaultsFinite
       DEF IInv, MailOK, MailType, ThreadOK, RestOK, Faults, Hides
  <2>5. QED
    BY <1>1, <2>3, <2>4 DEF IInv, FollowUps
<1>2. QED
  BY <1>1, Invariance, PTL

\* A follow-up that the nudge code takes for said was mailed, or its release is
\* under way, or its flag was lost for nothing.
THEOREM LinesWereMailed == Spec => []SpokenWasMailed
<1>1. ASSUME IInv PROVE SpokenWasMailed
  <2>1. {i \in Spoken(thread) : thread[i].what = "followup"} = Lines(thread)
    BY DEF Spoken, Lines
  <2>2. {p \in Workers : w[p].pc \in {"m_gate", "m_send", "m_restore"}} = Releasing
    BY DEF Releasing, Flagless
  <2>3. /\ mail.followup \in Nat /\ Cardinality(Lines(thread)) \in Nat /\ Faults(Shows) \in Nat
    BY <1>1, LinesFinite, FaultsFinite
       DEF IInv, MailOK, MailType, ThreadOK, RestOK, Faults, Shows
  <2>4. Cardinality(Releasing) \in Nat /\ Cardinality(Unwritten) \in Nat
    <3>1. Releasing \subseteq Workers /\ Unwritten \subseteq Workers
      BY DEF Releasing, Unwritten
    <3>2. QED
      BY <3>1, WorkersAssumption, FS_Subset, FS_CardinalityType
  <2>5. Cardinality(Lines(thread)) <= mail.followup + Cardinality(Releasing) + Faults(Shows)
    BY <1>1, <2>3, <2>4 DEF IInv, FollowUps
  <2>6. QED
    BY <2>1, <2>2, <2>5, Zenon DEF SpokenWasMailed, Shows
<1>2. QED
  BY <1>1, Invariance, PTL

----------------------------------------------------------------------------
(* Nothing to an address that was listed before its message was cleared.     *)

Cleared == {w[p].addr : p \in {q \in Workers : w[q].pc \in SendingPoints}}
QuietStep == [Quiet!Next]_(Quiet!vars)

\* The steps of ColdMail.
LEMMA Clears ==
    ASSUME NEW a \in Addresses \ suppressed, Cleared' = Cleared \cup {a},
           mail'.later = mail.later, UNCHANGED <<suppressed, faults>>
    PROVE  QuietStep
<1>1. Quiet!Clear(a)
  BY DEF Quiet!Clear, Cleared
<1>2. QED
  BY <1>1 DEF QuietStep, Quiet!Next

LEMMA WritesOrDrops ==
    ASSUME RestOK, NEW a \in Addresses, a \in Cleared, Cleared' \in {Cleared, Cleared \ {a}},
           \/ Wrote(a)
           \/ mail'.later = mail.later,
           UNCHANGED suppressed, SomeFault
    PROVE  QuietStep
<1>1. Len(faults') \in {Len(faults), Len(faults) + 1}
  BY DEF RestOK, SomeFault, Fault
<1>2. CASE Wrote(a)
  <2>1. Quiet!Write(a)
    BY <1>1, <1>2 DEF Quiet!Write, Cleared, Wrote
  <2>2. QED
    BY <2>1 DEF QuietStep, Quiet!Next
<1>3. CASE mail'.later = mail.later /\ Cleared' = Cleared \ {a}
  <2>1. Quiet!Drop(a)
    BY <1>1, <1>3 DEF Quiet!Drop, Cleared
  <2>2. QED
    BY <2>1 DEF QuietStep, Quiet!Next
<1>4. CASE mail'.later = mail.later /\ Cleared' = Cleared
  BY <1>1, <1>4 DEF QuietStep, Quiet!Next, Quiet!Doubt, Quiet!vars, Cleared
<1>5. QED
  BY <1>2, <1>3, <1>4

LEMMA Lists ==
    ASSUME NEW a \in Addresses, suppressed' = suppressed \cup {a},
           mail'.later = mail.later, UNCHANGED <<Cleared, faults>>
    PROVE  QuietStep
<1>1. Quiet!List(a)
  BY DEF Quiet!List, Cleared
<1>2. QED
  BY <1>1 DEF QuietStep, Quiet!Next

LEMMA Idles ==
    ASSUME RestOK, SomeFault, mail'.later = mail.later, UNCHANGED <<Cleared, suppressed>>
    PROVE  QuietStep
<1>1. Len(faults') \in {Len(faults), Len(faults) + 1}
  BY DEF RestOK, SomeFault, Fault
<1>2. QED
  BY <1>1 DEF QuietStep, Quiet!Next, Quiet!Doubt, Quiet!vars, Cleared

\* What a step of handler p does to the cleared addresses.
LEMMA ClearedBy ==
    ASSUME HandlersOK, NEW p \in Workers, NEW h, w' = [w EXCEPT ![p] = h]
    PROVE  /\ w[p].pc \notin SendingPoints /\ h.pc \notin SendingPoints => Cleared' = Cleared
           /\ w[p].pc \notin SendingPoints /\ h.pc \in SendingPoints
                => Cleared' = Cleared \cup {h.addr}
           /\ w[p].pc \in SendingPoints /\ h.pc \notin SendingPoints
                => w[p].addr \in Cleared /\ Cleared' \in {Cleared, Cleared \ {w[p].addr}}
<1> DEFINE S == {q \in Workers : w[q].pc \in SendingPoints}
           T == {q \in Workers : w'[q].pc \in SendingPoints}
<1>1. w'[p] = h /\ \A q \in Workers \ {p} : w'[q] = w[q]
  BY DEF HandlersOK
<1>2. /\ Cleared = {w[q].addr : q \in S} /\ Cleared' = {w'[q].addr : q \in T}
      /\ S \ {p} = T \ {p} /\ S \subseteq Workers /\ T \subseteq Workers
      /\ (p \in S <=> w[p].pc \in SendingPoints) /\ (p \in T <=> h.pc \in SendingPoints)
  BY <1>1 DEF Cleared
<1> HIDE DEF S, T
<1>3. CASE p \notin S /\ p \notin T
  <2>1. S = T
    <3>1. S \ {p} = S /\ T \ {p} = T
      BY <1>3
    <3>2. QED
      BY <1>2, <3>1
  <2>2. \A q \in S : w'[q] = w[q]
    BY <1>1, <1>2, <1>3
  <2>3. QED
    BY <1>2, <1>3, <2>1, <2>2
<1>4. CASE p \notin S /\ p \in T
  <2>1. T = S \cup {p} /\ \A q \in S : w'[q] = w[q]
    BY <1>1, <1>2, <1>4
  <2>2. QED
    BY <1>1, <1>2, <1>4, <2>1
<1>5. CASE p \in S /\ p \notin T
  <2>1. S = T \cup {p} /\ \A q \in T : w'[q] = w[q]
    BY <1>1, <1>2, <1>5
  <2>2. Cleared = Cleared' \cup {w[p].addr}
    BY <1>2, <2>1
  <2>3. QED
    BY <1>2, <1>5, <2>2
<1>6. QED
  BY <1>2, <1>3, <1>4, <1>5

\* Handler p moves, away from the mail.
Aside(p) == Finish(p) \/ \E x \in Points \ SendingPoints : Goto(p, x)

LEMMA AsideTask ==
    ASSUME HandlersOK, NEW p \in Workers, Aside(p)
    PROVE  \E h : w' = [w EXCEPT ![p] = h] /\ h.pc \notin SendingPoints
<1>1. CASE Finish(p)
  <2>1. Idle.pc \notin SendingPoints
    BY DEF Idle, SendingPoints
  <2>2. QED
    BY <1>1, <2>1 DEF Finish
<1>2. ASSUME NEW x \in Points \ SendingPoints, Goto(p, x)
      PROVE  \E h : w' = [w EXCEPT ![p] = h] /\ h.pc \notin SendingPoints
  <2> DEFINE h == [w[p] EXCEPT !.pc = x]
  <2>1. w[p] \in Handlers
    BY DEF HandlersOK
  <2>2. w' = [w EXCEPT ![p] = h] /\ h.pc = x
    BY <1>2, <2>1 DEF Goto, Handlers
  <2> HIDE DEF h
  <2>3. QED
    BY <2>2
<1>3. QED
  BY <1>1, <1>2 DEF Aside

LEMMA QuietAside ==
    ASSUME IInv, NEW p \in Workers, Aside(p), w[p].pc \notin SendingPoints,
           UNCHANGED mail, SomeFault,
           \/ UNCHANGED suppressed
           \/ UNCHANGED faults /\ \E a \in Addresses : suppressed' = suppressed \cup {a}
    PROVE  QuietStep
<1>1. PICK h : w' = [w EXCEPT ![p] = h] /\ h.pc \notin SendingPoints
  BY AsideTask DEF IInv
<1>2. Cleared' = Cleared /\ mail'.later = mail.later
  BY <1>1, ClearedBy DEF IInv
<1>3. QED
  BY <1>2, Idles, Lists DEF IInv

\* A handler at the mail.
LEMMA QuietMail ==
    ASSUME IInv, NEW p \in Workers, Aside(p), w[p].pc \in SendingPoints,
           UNCHANGED mail \/ Wrote(w[p].addr), SomeFault, UNCHANGED suppressed
    PROVE  QuietStep
<1>1. PICK h : w' = [w EXCEPT ![p] = h] /\ h.pc \notin SendingPoints
  BY AsideTask DEF IInv
<1>2. w[p].addr \in Cleared /\ Cleared' \in {Cleared, Cleared \ {w[p].addr}}
  BY <1>1, ClearedBy DEF IInv
<1>3. w[p].addr \in Addresses
  BY Address DEF SendingPoints, Addressed, Checked
<1>4. QED
  BY <1>2, <1>3, WritesOrDrops DEF IInv

\* A handler that is let through.
LEMMA QuietGate ==
    ASSUME IInv, NEW p \in Workers, NEW x \in SendingPoints, Goto(p, x),
           w[p].pc \notin SendingPoints, w[p].addr \in Addresses, GateOpens(w[p].addr),
           UNCHANGED <<mail, suppressed, faults>>
    PROVE  QuietStep
<1> DEFINE h == [w[p] EXCEPT !.pc = x]
<1>1. w[p] \in Handlers
  BY DEF IInv, HandlersOK
<1>2. w' = [w EXCEPT ![p] = h] /\ h.pc = x /\ h.addr = w[p].addr
  BY <1>1 DEF Goto, Handlers
<1> HIDE DEF h
<1>3. Cleared' = Cleared \cup {w[p].addr}
  BY <1>2, ClearedBy DEF IInv
<1>4. w[p].addr \in Addresses \ suppressed /\ mail'.later = mail.later
  BY DEF GateOpens, Suppressed
<1>5. QED
  BY <1>3, <1>4, Clears

\* A handler that starts.
LEMMA QuietStart ==
    ASSUME IInv, NEW p \in Workers, w[p] = Idle, NEW h, w' = [w EXCEPT ![p] = h],
           h.pc \notin SendingPoints, UNCHANGED <<mail, suppressed>>, SomeFault
    PROVE  QuietStep
<1>1. Idle.pc \notin SendingPoints
  BY DEF Idle, SendingPoints
<1>2. Cleared' = Cleared /\ mail'.later = mail.later
  BY <1>1, ClearedBy DEF IInv
<1>3. QED
  BY <1>2, Idles DEF IInv

\* Nobody at work moves.
LEMMA QuietWorld ==
    ASSUME IInv, UNCHANGED <<w, mail, faults>>,
           UNCHANGED suppressed \/ \E a \in Addresses : suppressed' = suppressed \cup {a}
    PROVE  QuietStep
<1>1. Cleared' = Cleared /\ mail'.later = mail.later
  BY DEF Cleared
<1>2. QED
  BY <1>1, Idles, Lists DEF IInv, SomeFault

----------------------------------------------------------------------------
(* Each step of the conversation is one of those.                            *)

\* A job that is delivered, once or again.
LEMMA QuietTaken ==
    ASSUME IInv, NEW p \in Workers, NEW n, TakesNudge(p, n), UNCHANGED faults
    PROVE  QuietStep
<1> DEFINE h == [Idle EXCEPT !.kind = "nudge", !.row = row, !.mode = mode,
                             !.job = n[2], !.addr = row.address, !.pc = "n_check"]
<1>1. w[p] = Idle /\ w' = [w EXCEPT ![p] = h] /\ UNCHANGED <<mail, suppressed>> /\ SomeFault
  BY DEF TakesNudge, Unlisted, SomeFault
<1>2. h.pc = "n_check"
  BY IdleOK DEF HandlerOK, Handlers
<1> HIDE DEF h
<1>3. QED
  BY <1>1, <1>2, QuietStart DEF SendingPoints

LEMMA QuietNudge == ASSUME IInv, NEW p \in Workers, NudgeStep(p) PROVE QuietStep
<1>1. CASE Plan(p)
  <2> DEFINE h == [w'[p] EXCEPT !.pc = "n_state"]
             nudge == [stage |-> NudgeStage(w[p].row.status), since |-> WaitingSince(thread),
                       count |-> NudgesCounted(w[p].row, thread), day |-> NextNudgeDay(clock)]
             g == [[w[p] EXCEPT !.job = nudge] EXCEPT !.pc = "n_state"]
  <2>1. /\ w[p].pc = "n_plan" /\ w' = [w EXCEPT ![p] = g]
        /\ UNCHANGED <<mail, suppressed>> /\ SomeFault
    BY <1>1 DEF Plan, At, Unlisted, Uncounted, SomeFault
  <2>2. w[p] \in Handlers
    BY DEF IInv, HandlersOK
  <2> HIDE DEF nudge
  <2>3. g.pc = "n_state"
    BY <2>2 DEF Handlers
  <2> HIDE DEF g
  <2>4. Cleared' = Cleared /\ mail'.later = mail.later
    BY <2>1, <2>3, ClearedBy DEF IInv, SendingPoints
  <2>5. QED
    BY <2>1, <2>4, Idles DEF IInv
<1>2. CASE PlanNothing(p) \/ PlanState(p) \/ PlanFails(p)
  <2>1. /\ w[p].pc \notin SendingPoints /\ Finish(p)
        /\ UNCHANGED <<mail, suppressed>> /\ SomeFault
    BY <1>2 DEF PlanNothing, PlanState, PlanFails, At, Vendors, Unlisted, Uncounted, SomeFault,
                Fault, SendingPoints
  <2>2. QED
    BY <2>1, QuietAside DEF Aside
<1>3. ASSUME NEW n \in nudgeJobs, NudgeJob(p, n) PROVE QuietStep
  BY <1>3, QuietTaken DEF NudgeJob, Uncounted
<1>4. CASE NudgeCheck(p) \/ NudgeRetire(p) \/ NudgeClear(p) \/ NudgeAppend(p) \/ NudgeCount(p)
  <2>1. /\ w[p].pc \notin SendingPoints
        /\ Finish(p) \/ Goto(p, "n_list") \/ Goto(p, "n_count")
        /\ UNCHANGED <<mail, suppressed>> /\ SomeFault
    BY <1>4 DEF NudgeCheck, NudgeRetire, NudgeClear, NudgeAppend, NudgeCount, WritesNudge, Stores,
                At, Vendors, Unlisted, Uncounted, Fault, SomeFault, SendingPoints
  <2>2. Aside(p)
    BY <2>1 DEF Aside, Points, SendingPoints
  <2>3. QED
    BY <2>1, <2>2, QuietAside
<1>5. CASE NudgeGate(p)
  <2>1. /\ w[p].pc = "n_list" /\ UNCHANGED <<mail, suppressed, faults>>
        /\ (GateOpens(w[p].addr) /\ Goto(p, "n_send")) \/ Goto(p, "n_clear")
    BY <1>5 DEF NudgeGate, At, Vendors, Unlisted, Uncounted
  <2>2. w[p].addr \in Addresses /\ w[p].pc \notin SendingPoints
    BY <2>1, Address DEF Addressed, Checked, SendingPoints
  <2>3. CASE GateOpens(w[p].addr) /\ Goto(p, "n_send")
    BY <2>1, <2>2, <2>3, QuietGate DEF SendingPoints
  <2>4. CASE Goto(p, "n_clear")
    BY <2>1, <2>2, <2>4, QuietAside DEF SomeFault, Aside, Points, SendingPoints
  <2>5. QED
    BY <2>1, <2>3, <2>4
<1>6. CASE NudgeSent(p) \/ NudgeRefused(p)
  <2>1. /\ w[p].pc = "n_send"
        /\ UNCHANGED mail \/ Nudged(p)
        /\ Goto(p, "n_append") \/ Goto(p, "n_clear")
        /\ UNCHANGED suppressed /\ SomeFault
    BY <1>6 DEF NudgeSent, NudgeRefused, At, Unlisted, Uncounted, SomeFault, Fault
  <2>2. UNCHANGED mail \/ Wrote(w[p].addr)
    BY <2>1, MailNudged DEF IInv
  <2>3. Aside(p)
    BY <2>1 DEF Aside, Points, SendingPoints
  <2>4. QED
    BY <2>1, <2>2, <2>3, QuietMail DEF SendingPoints
<1>7. QED
  BY <1>1, <1>2, <1>3, <1>4, <1>5, <1>6 DEF NudgeStep

LEMMA QuietEvent ==
    ASSUME IInv, NEW p \in Workers, NEW e, NEW x \in {"r_store", "d_list"}, TakesEvent(p, e, x)
    PROVE  QuietStep
<1> DEFINE h == [Idle EXCEPT !.pc = x, !.kind = e.kind, !.at = e.no,
                             !.addr = e.address, !.row = row, !.mode = mode]
<1>1. w[p] = Idle /\ w' = [w EXCEPT ![p] = h] /\ UNCHANGED <<mail, suppressed>> /\ SomeFault
  BY DEF TakesEvent, Vendors, Unlisted, Uncounted, SomeFault
<1>2. h.pc = x
  BY IdleOK DEF HandlerOK, Handlers
<1> HIDE DEF h
<1>3. QED
  BY <1>1, <1>2, QuietStart DEF SendingPoints

LEMMA QuietDelivery == ASSUME IInv, NEW p \in Workers, DeliveryStep(p) PROVE QuietStep
<1>1. ASSUME NEW e \in events, DeliveryEvent(p, e) PROVE QuietStep
  BY <1>1, QuietEvent DEF DeliveryEvent
<1>2. ASSUME NEW e \in events, Unmatched(e) PROVE QuietStep
  <2>1. UNCHANGED <<w, mail, faults, suppressed>>
    BY <1>2 DEF Unmatched, Unlisted, Uncounted
  <2>2. QED
    BY <2>1, QuietWorld
<1>3. CASE DeliveryLists(p)
  <2> DEFINE h == [[w[p] EXCEPT !.mode = mode] EXCEPT !.pc = "d_row"]
  <2>1. /\ w[p].pc = "d_list" /\ w' = [w EXCEPT ![p] = h] /\ UNCHANGED <<mail, faults>>
        /\ suppressed' = suppressed \cup {w[p].addr}
    BY <1>3 DEF DeliveryLists, At, Vendors, Uncounted
  <2>2. w[p] \in Handlers
    BY DEF IInv, HandlersOK
  <2>3. h.pc = "d_row"
    BY <2>2 DEF Handlers
  <2> HIDE DEF h
  <2>4. w[p].addr \in Addresses
    BY <2>1, Address DEF Addressed
  <2>5. Cleared' = Cleared /\ mail'.later = mail.later
    BY <2>1, <2>3, ClearedBy DEF IInv, SendingPoints
  <2>6. QED
    BY <2>1, <2>4, <2>5, Lists
<1>4. CASE ComplaintRow(p) \/ Unread(p)
  <2>1. /\ w[p].pc \notin SendingPoints /\ Finish(p) /\ UNCHANGED <<mail, suppressed>> /\ SomeFault
    BY <1>4, EndsOK DEF ComplaintRow, Unread, At, Unlisted, Uncounted, Fault, SomeFault,
                         SendingPoints
  <2>2. QED
    BY <2>1, QuietAside DEF Aside
<1>5. QED
  BY <1>1, <1>2, <1>3, <1>4, Impossible DEF DeliveryStep

LEMMA QuietReply == ASSUME IInv, NEW p \in Workers, ReplyStep(p) PROVE QuietStep
<1>1. ASSUME NEW e \in events, ReplyEvent(p, e) PROVE QuietStep
  BY <1>1, QuietEvent DEF ReplyEvent
<1>2. CASE \/ ReplyStored(p) \/ ReplyNotStored(p) \/ ReplyScheduled(p)
           \/ Declined(p) \/ Countered(p) \/ Flagged(p) \/ Interested(p)
  <2>1. /\ w[p].pc \in {"r_store", "r_read"} /\ UNCHANGED <<mail, suppressed>> /\ SomeFault
        /\ Finish(p) \/ \E x \in {"r_read", "r_list", "t_gate", "r_follow"} : Goto(p, x)
    BY <1>2, EndsOK DEF ReplyStored, ReplyNotStored, ReplyScheduled, Declined, Countered,
       Flagged, Interested, ReplyMoves, At, Vendors, Unlisted, Uncounted, SomeFault, Fault
  <2>2. Aside(p) /\ w[p].pc \notin SendingPoints
    BY <2>1 DEF Aside, Points, SendingPoints
  <2>3. QED
    BY <2>1, <2>2, QuietAside
<1>3. CASE DeclineListed(p)
  <2>1. /\ w[p].pc = "r_list" /\ Finish(p) /\ UNCHANGED mail /\ SomeFault
        /\ \/ suppressed' = suppressed \cup {w[p].addr} /\ UNCHANGED faults
           \/ UNCHANGED suppressed
    BY <1>3, EndsOK DEF DeclineListed, At, SomeFault, Fault
  <2>2. w[p].addr \in Addresses /\ w[p].pc \notin SendingPoints
    BY <2>1, Address DEF Addressed, SendingPoints
  <2>3. QED
    BY <2>1, <2>2, QuietAside DEF Aside
<1>4. CASE FollowUpKept(p) \/ FollowUpAppend(p) \/ FollowUpMarked(p)
  <2>1. /\ w[p].pc \in {"r_follow", "r_append", "r_mark"}
        /\ UNCHANGED <<mail, suppressed>> /\ SomeFault
        /\ Finish(p) \/ Goto(p, "r_mark")
    BY <1>4, EndsOK DEF FollowUpKept, FollowUpNotSent, FollowUpAppend, FollowUpMarked, Stores, At,
       Vendors, Unlisted, Uncounted, Fault, SomeFault
  <2>2. Aside(p) /\ w[p].pc \notin SendingPoints
    BY <2>1 DEF Aside, Points, SendingPoints
  <2>3. QED
    BY <2>1, <2>2, QuietAside
<1>5. CASE \/ ReleaseClears(p) \/ ReleaseRestores(p) \/ ReleaseMarked(p)
           \/ DecisionWritten(p) \/ DecisionAppend(p)
  <2>1. /\ w[p].pc \in {"m_clear", "m_restore", "m_mark", "q_write", "q_append"}
        /\ UNCHANGED <<mail, suppressed>> /\ SomeFault
        /\ Finish(p) \/ Goto(p, "m_gate") \/ Goto(p, "q_append") \/ Goto(p, "t_gate")
    BY <1>5 DEF ReleaseClears, ReleaseRestores, ReleaseMarked, DecisionWritten, DecisionAppend,
       Stores, At, Vendors, Unlisted, Uncounted, Fault, SomeFault
  <2>2. Aside(p) /\ w[p].pc \notin SendingPoints
    BY <2>1 DEF Aside, Points, SendingPoints
  <2>3. QED
    BY <2>1, <2>2, QuietAside
<1>6. CASE TimesNotSent(p) \/ TimesAppend(p) \/ TimesStatus(p)
  <2>1. /\ w[p].pc \in {"t_gate", "t_append", "t_status"}
        /\ UNCHANGED <<mail, suppressed>> /\ SomeFault
        /\ Finish(p) \/ Goto(p, "t_status")
    BY <1>6, EndsOK DEF TimesNotSent, TimesAppend, TimesStatus, Stores, At, Vendors, Unlisted,
       Uncounted, Fault, SomeFault
  <2>2. Aside(p) /\ w[p].pc \notin SendingPoints
    BY <2>1 DEF Aside, Points, SendingPoints
  <2>3. QED
    BY <2>1, <2>2, QuietAside
<1>7. CASE FollowUpGate(p) \/ ReleaseGate(p) \/ DecisionGate(p) \/ TimesGate(p)
  <2>1. /\ w[p].pc \in {"r_follow", "m_gate", "q_gate", "t_gate"}
        /\ w[p].pc = "t_gate" => w[p].addr # NoAddress
        /\ UNCHANGED <<mail, suppressed>> /\ SomeFault
        /\ \/ /\ GateOpens(w[p].addr) /\ UNCHANGED faults
              /\ \E x \in {"r_send", "m_send", "q_send", "t_send"} : Goto(p, x)
           \/ Finish(p) \/ Goto(p, "m_restore")
    BY <1>7, EndsOK DEF FollowUpGate, FollowUpNotSent, ReleaseGate, DecisionGate, TimesGate,
       Stores, At, Vendors, Unlisted, Uncounted, Fault, SomeFault
  <2>2. w[p].addr \in Addresses /\ w[p].pc \notin SendingPoints
    BY <2>1, Address, Copies DEF IInv, Addressed, SendingPoints
  <2>3. CASE /\ GateOpens(w[p].addr) /\ UNCHANGED faults
             /\ \E x \in {"r_send", "m_send", "q_send", "t_send"} : Goto(p, x)
    BY <2>1, <2>2, <2>3, QuietGate DEF SendingPoints
  <2>4. CASE Finish(p) \/ Goto(p, "m_restore")
    BY <2>1, <2>2, <2>4, QuietAside DEF Aside, Points, SendingPoints
  <2>5. QED
    BY <2>1, <2>3, <2>4
<1>8. CASE FollowUpSent(p) \/ FollowUpRefused(p) \/ ReleaseSent(p) \/ ReleaseRefused(p)
  <2>1. /\ w[p].pc \in {"r_send", "m_send"} /\ UNCHANGED suppressed /\ SomeFault
        /\ UNCHANGED mail \/ FollowUpMailed(p)
        /\ Finish(p) \/ Goto(p, "r_append") \/ Goto(p, "m_mark") \/ Goto(p, "m_restore")
    BY <1>8 DEF FollowUpSent, FollowUpRefused, ReleaseSent, ReleaseRefused, At, Unlisted,
       Uncounted, SomeFault, Fault
  <2>2. UNCHANGED mail \/ Wrote(w[p].addr)
    BY <2>1, MailFollowUp DEF IInv
  <2>3. Aside(p) /\ w[p].pc \in SendingPoints
    BY <2>1 DEF Aside, Points, SendingPoints
  <2>4. QED
    BY <2>1, <2>2, <2>3, QuietMail
<1>9. CASE DecisionSent(p) \/ DecisionRefused(p) \/ TimesSent(p) \/ TimesRefused(p)
  <2>1. /\ w[p].pc \in {"q_send", "t_send"} /\ UNCHANGED suppressed /\ SomeFault
        /\ UNCHANGED mail \/ TermsMailed(p)
        /\ Finish(p) \/ Goto(p, "q_write") \/ Goto(p, "t_append")
    BY <1>9, EndsOK DEF DecisionSent, DecisionRefused, TimesSent, TimesRefused, At, Unlisted,
       Uncounted, SomeFault, Fault
  <2>2. UNCHANGED mail \/ Wrote(w[p].addr)
    BY <2>1, MailTerms DEF IInv
  <2>3. Aside(p) /\ w[p].pc \in SendingPoints
    BY <2>1 DEF Aside, Points, SendingPoints
  <2>4. QED
    BY <2>1, <2>2, <2>3, QuietMail
<1>10. QED
  BY <1>1, <1>2, <1>3, <1>4, <1>5, <1>6, <1>7, <1>8, <1>9 DEF ReplyStep

LEMMA QuietRequest ==
    ASSUME IInv, NEW p \in Workers, OwnerRequest(p) \/ Morning(p) \/ CronTwice(p) PROVE QuietStep
<1>1. ASSUME NEW i \in DOMAIN thread, Release(p, i) PROVE QuietStep
  <2> DEFINE h == [Idle EXCEPT !.kind = "release", !.addr = row.address, !.at = i, !.pc = "m_clear"]
  <2>1. w[p] = Idle /\ w' = [w EXCEPT ![p] = h] /\ UNCHANGED <<mail, suppressed>> /\ SomeFault
    BY <1>1 DEF Release, Request, Vendors, Unlisted, SomeFault
  <2>2. h.pc = "m_clear"
    BY IdleOK DEF HandlerOK, Handlers
  <2> HIDE DEF h
  <2>3. QED
    BY <2>1, <2>2, QuietStart DEF SendingPoints
<1>2. ASSUME NEW accept \in BOOLEAN, Decide(p, accept) PROVE QuietStep
  <2> DEFINE pc == IF mode = "walkthrough" \/ row.address = NoAddress \/ ~row.token
                   THEN "q_write" ELSE "q_gate"
             h == [Idle EXCEPT !.kind = "decide", !.row = row, !.mode = mode, !.addr = row.address,
                               !.at = IF accept THEN row.counter ELSE 0, !.pc = pc]
  <2>1. w[p] = Idle /\ w' = [w EXCEPT ![p] = h] /\ UNCHANGED <<mail, suppressed>> /\ SomeFault
    BY <1>2 DEF Decide, Request, Vendors, Unlisted, SomeFault
  <2>2. h.pc = pc /\ pc \notin SendingPoints
    BY IdleOK DEF HandlerOK, Handlers, SendingPoints
  <2> HIDE DEF h, pc
  <2>3. QED
    BY <2>1, <2>2, QuietStart
<1>3. CASE Morning(p) \/ CronTwice(p)
  <2> DEFINE h == [Idle EXCEPT !.kind = "planner", !.row = row, !.pc = "n_plan"]
  <2>1. /\ w[p] = Idle /\ UNCHANGED <<mail, suppressed>> /\ SomeFault
        /\ (UNCHANGED w /\ UNCHANGED faults) \/ w' = [w EXCEPT ![p] = h]
    BY <1>3 DEF Morning, CronTwice, PlannerReads, Vendors, Unlisted, SomeFault, Fault
  <2>2. h.pc = "n_plan"
    BY IdleOK DEF HandlerOK, Handlers
  <2> HIDE DEF h
  <2>3. QED
    BY <2>1, <2>2, QuietStart, QuietWorld DEF SendingPoints
<1>4. QED
  BY <1>1, <1>2, <1>3 DEF OwnerRequest

LEMMA QuietKill == ASSUME IInv, NEW p \in Workers, Kill(p) PROVE QuietStep
<1>1. Aside(p) /\ UNCHANGED <<mail, suppressed>> /\ SomeFault
  BY DEF Kill, Vendors, Fault, SomeFault, Aside
<1>2. QED
  BY <1>1, QuietAside, QuietMail

\* ColdMail's promise, for every handler that mails the expert after the intro.
THEOREM QuietImplemented == Spec => QuietHolds
<1>1. OutreachInit => Quiet!Init
  <2> SUFFICES ASSUME OutreachInit PROVE Quiet!Init
    OBVIOUS
  <2>1. Idle.pc \notin SendingPoints
    BY DEF Idle, SendingPoints
  <2>2. {w[p].addr : p \in {q \in Workers : w[q].pc \in SendingPoints}} = {}
    BY <2>1 DEF OutreachInit
  <2>3. mail.later = [a \in Addresses |-> 0] /\ suppressed = {} /\ Len(faults) = 0
    BY DEF OutreachInit
  <2>4. QED
    BY <2>2, <2>3 DEF Quiet!Init
<1>2. IInv /\ [Next]_outreachVars => [Quiet!Next]_(Quiet!vars)
  <2> SUFFICES ASSUME IInv, [Next]_outreachVars PROVE QuietStep
    BY DEF QuietStep
  <2>1. CASE UNCHANGED outreachVars
    BY <2>1, QuietWorld DEF outreachVars
  <2>2. CASE Eight \/ \E m \in Modes : SetMode(m)
    BY <2>2, QuietWorld DEF Eight, SetMode, Vendors, Unlisted
  <2>3. ASSUME NEW a \in Addresses, Replies(a) \/ Complains(a) \/ Unsubscribe(a)
        PROVE  QuietStep
    BY <2>3, QuietWorld DEF Replies, Complains, Unsubscribe, Vendors
  <2>4. ASSUME NEW p \in Workers,
               OwnerRequest(p) \/ Morning(p) \/ CronTwice(p) \/ HandlerStep(p) \/ Kill(p)
        PROVE  QuietStep
    BY <2>4, QuietRequest, QuietKill, QuietNudge, QuietReply, QuietDelivery DEF HandlerStep
  <2>5. ASSUME NEW p \in Workers, NEW n \in nudgeJobs, NudgeAgain(p, n) PROVE QuietStep
    BY <2>5, QuietTaken DEF NudgeAgain
  <2>6. QED
    BY <2>1, <2>2, <2>3, <2>4, <2>5 DEF Next
<1>3. QED
  BY <1>1, <1>2, Invariance, PTL DEF Spec, QuietHolds, Quiet!Spec

\* What the handlers of the conversation share keeps its types.
THEOREM TypesHold == Spec => []TypeOK
<1>1. ASSUME IInv PROVE TypeOK
  <2>1. row \in RowType /\ \A i \in DOMAIN thread : thread[i] \in MessageType
    BY <1>1 DEF IInv, RowOK, ThreadOK
  <2>2. mail \in [intro : [Addresses -> Nat], later : [Addresses -> Nat],
                  followup : Nat, terms : Nat, nudge : [1 .. MaxClock -> Nat],
                  bounced : SUBSET Addresses]
    BY <1>1, Zenon DEF IInv, MailOK, MailType
  <2>3. /\ mode \in Modes /\ suppressed \subseteq Addresses /\ locks = {}
        /\ clock \in 1 .. MaxClock + 1 /\ starts \in 0 .. MaxStarts /\ Len(faults) <= MaxFaults
    BY <1>1 DEF IInv, RestOK
  <2>4. \A n \in nudgeJobs : n[2] \in NudgeType
    BY <1>1 DEF IInv, JobsOK
  <2>5. \A p \in Workers : w[p].row \in RowType /\ w[p].job \in NudgeType
    BY <1>1, Copies DEF IInv
  <2>6. QED
    BY <2>1, <2>2, <2>3, <2>4, <2>5 DEF TypeOK
<1>2. QED
  BY <1>1, Invariance, PTL

=============================================================================
