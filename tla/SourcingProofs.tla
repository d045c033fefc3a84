--------------------------- MODULE SourcingProofs ----------------------------
(* Proofs about Sourcing: two starts never both win, the two conditional     *)
(* writers lose nothing, and a run's candidates are added once - for any     *)
(* number of handlers, starts, saves, faults and candidates.                 *)
EXTENDS Sourcing, FiniteSetTheorems, TLAPS

Steps == {"idle", "claim_read", "claim", "publish", "enqueue_failed", "generate",
          "second_gate", "add", "finish_gate", "fields_read", "fields_write",
          "save_read", "save", "add_one"}
Patches == {"completed", "failed", "abandoned", "customer"}
Results == [core : SUBSET Candidates, adjacent : SUBSET Candidates]

Rows == [save : Nat, status : Statuses, run : Nat, adjacent : SUBSET Candidates,
         customer : BOOLEAN]

Handlers == [pc : Steps, copy : Rows, fresh : BOOLEAN, run : Nat, room : Nat,
             found : Results, patch : Patches \cup {"none"}, job : BOOLEAN]

\* The row is live under the number h works with.
LiveUnder(h, row, old) == row.status = "running" /\ row.run = h.run /\ row.run \notin old

\* What is true of each handler h, for a row, n runs claimed, the runs that
\* are old, and b customers made. A copy that is still current is the row; who
\* claims has seen the row, under its number, not live; and the one patch that
\* may bring back a status is a billing handler's.
HandlerOK(h, row, n, old, b) ==
    /\ h \in Handlers
    /\ h.run <= n /\ h.copy.run <= n
    /\ h.pc \in {"claim", "save"} /\ h.fresh => h.copy = row
    /\ h.pc = "claim" => h.copy.run = h.run
    /\ h.pc \in {"claim_read", "claim"} /\ b = 0 => ~LiveUnder(h, row, old)
    /\ h.pc \in {"fields_read", "fields_write"} => h.patch \in Patches
    /\ h.patch = "customer" => b > 0

\* What is true of the rest.
RowOK ==
    /\ brief \in Rows /\ runs \in Nat /\ brief.run <= runs
    /\ pool \subseteq Candidates /\ queue \subseteq 0 .. runs /\ billed \in Nat

\* The inductive invariant.
IInv ==
    /\ RowOK
    /\ w \in [Workers -> Handlers]
    /\ \A p \in Workers : HandlerOK(w[p], brief, runs, aged, billed)

----------------------------------------------------------------------------
\* Nobody is at work in the beginning.
LEMMA IdleOK ==
    ASSUME NEW row \in Rows, NEW n \in Nat, NEW old, NEW b \in Nat
    PROVE  HandlerOK(Idle, row, n, old, b)
  BY DEF HandlerOK, Idle, NewBrief, Handlers, Rows, Steps, Patches, Results, Statuses

LEMMA InitIInv == Init => IInv
<1> SUFFICES ASSUME Init PROVE IInv
  OBVIOUS
<1>1. RowOK
  BY DEF Init, RowInit, RowOK, NewBrief, Rows, Statuses
<1>2. HandlerOK(Idle, brief, runs, aged, billed)
  BY <1>1, IdleOK DEF RowOK
<1>3. QED
  BY <1>1, <1>2 DEF Init, RowInit, IInv, HandlerOK

\* A step of handler p that writes no row.
LEMMA RowUntouched ==
    ASSUME IInv, NEW p \in Workers, RowOK', brief' = brief, runs' = runs,
           aged \subseteq aged', billed' >= billed, DOMAIN w' = Workers,
           w' = [q \in Workers |-> w'[q]],
           \A q \in Workers \ {p} : w'[q] = w[q],
           HandlerOK(w'[p], brief', runs', aged', billed')
    PROVE  IInv'
<1>1. ASSUME NEW q \in Workers PROVE HandlerOK(w'[q], brief', runs', aged', billed')
  <2>1. CASE q = p
    BY <2>1
  <2>2. CASE q # p
    BY <2>2 DEF IInv, RowOK, HandlerOK, LiveUnder
  <2>3. QED
    BY <2>1, <2>2
<1>2. w' \in [Workers -> Handlers]
  BY <1>1 DEF HandlerOK
<1>3. QED
  BY <1>1, <1>2 DEF IInv

\* A step of handler p that writes the row, and so makes every other copy
\* stale; it must not bring a live run under the number of one who claims.
LEMMA RowWritten ==
    ASSUME IInv, NEW p \in Workers, NEW mine, RowOK', runs' >= runs,
           aged' = aged, billed' = billed, Bump(p, mine),
           HandlerOK(mine, brief', runs', aged', billed'),
           \A q \in Workers \ {p} :
              LiveUnder(w[q], brief', aged) /\ billed = 0 =>
                 LiveUnder(w[q], brief, aged) \/ w[q].run > runs
    PROVE  IInv'
<1>1. ASSUME NEW q \in Workers PROVE HandlerOK(w'[q], brief', runs', aged', billed')
  <2>1. CASE q = p
    BY <2>1 DEF Bump
  <2>2. CASE q # p
    <3>1. w'[q] = [w[q] EXCEPT !.fresh = FALSE]
      BY <2>2 DEF Bump
    <3>2. w[q] \in Handlers /\ HandlerOK(w[q], brief, runs, aged, billed)
      BY DEF IInv, HandlerOK
    <3>3. w'[q] \in Handlers
      BY <3>1, <3>2 DEF Handlers
    <3>4. /\ w'[q].run = w[q].run /\ w'[q].copy = w[q].copy /\ w'[q].pc = w[q].pc
          /\ w'[q].patch = w[q].patch /\ ~w'[q].fresh
      BY <3>1, <3>2 DEF Handlers
    <3>5. w[q].run \in Nat /\ w[q].copy.run \in Nat /\ runs \in Nat /\ runs' \in Nat
      BY <3>2 DEF Handlers, Rows, IInv, RowOK
    <3>6. LiveUnder(w'[q], brief', aged') /\ billed = 0 => LiveUnder(w[q], brief, aged)
      BY <2>2, <3>2, <3>4, <3>5 DEF LiveUnder, HandlerOK
    <3>7. QED
      BY <3>2, <3>3, <3>4, <3>5, <3>6 DEF HandlerOK
  <2>3. QED
    BY <2>1, <2>2
<1>2. w' \in [Workers -> Handlers]
  BY <1>1 DEF HandlerOK, Bump
<1>3. QED
  BY <1>1, <1>2 DEF IInv
\* A step of handler p that changes nothing but its frame, the pool and what
\* is queued.
LEMMA FrameSet ==
    ASSUME IInv, NEW p \in Workers, NEW h, w' = [w EXCEPT ![p] = h],
           UNCHANGED <<brief, runs, aged, billed>>,
           pool' \subseteq Candidates, queue' \subseteq 0 .. runs,
           HandlerOK(h, brief, runs, aged, billed)
    PROVE  IInv'
<1>1. RowOK'
  BY DEF IInv, RowOK
<1>2. w'[p] = h /\ (\A q \in Workers \ {p} : w'[q] = w[q])
  BY DEF IInv
<1>3. DOMAIN w' = Workers /\ w' = [q \in Workers |-> w'[q]]
  BY DEF IInv
<1>4. billed' >= billed
  BY DEF IInv, RowOK
<1>5. QED
  BY <1>1, <1>2, <1>3, <1>4, RowUntouched

\* A handler that goes where nothing is asked of it.
LEMMA MovedOn ==
    ASSUME NEW h, NEW row, NEW n \in Nat, NEW old, NEW b \in Nat,
           HandlerOK(h, row, n, old, b),
           NEW pc \in Steps \ {"claim_read", "claim", "save", "fields_read", "fields_write"}
    PROVE  HandlerOK([h EXCEPT !.pc = pc], row, n, old, b)
  BY DEF HandlerOK, Handlers

\* A handler that will write an outcome.
LEMMA OutcomeChosen ==
    ASSUME NEW h, NEW row, NEW n \in Nat, NEW old, NEW b \in Nat,
           HandlerOK(h, row, n, old, b), NEW patch \in Patches \ {"customer"}
    PROVE  HandlerOK([h EXCEPT !.pc = "fields_read", !.patch = patch], row, n, old, b)
<1> DEFINE k == [h EXCEPT !.pc = "fields_read", !.patch = patch]
<1>1. /\ k \in Handlers /\ k.run = h.run /\ k.copy = h.copy
      /\ k.pc = "fields_read" /\ k.patch = patch
  BY DEF HandlerOK, Handlers, Steps
<1>2. QED
  BY <1>1 DEF HandlerOK, Patches

----------------------------------------------------------------------------
\* Steps that only move a handler.

LEMMA PlainSteps ==
    ASSUME IInv, NEW p \in Workers,
           \/ Finish(p)
           \/ \E pc \in {"publish", "enqueue_failed", "add", "finish_gate"} : Goto(p, pc)
           \/ \E patch \in Patches \ {"customer"} : StartFields(p, patch),
           UNCHANGED <<brief, pool, runs, aged, billed>>, queue' \subseteq 0 .. runs
    PROVE  IInv'
<1>1. /\ brief \in Rows /\ runs \in Nat /\ billed \in Nat
      /\ pool' \subseteq Candidates
      /\ HandlerOK(w[p], brief, runs, aged, billed)
  BY DEF IInv, RowOK
<1>2. CASE Finish(p)
  BY <1>1, <1>2, IdleOK, FrameSet DEF Finish
<1>3. ASSUME NEW pc \in {"publish", "enqueue_failed", "add", "finish_gate"}, Goto(p, pc)
      PROVE  IInv'
  <2>1. HandlerOK([w[p] EXCEPT !.pc = pc], brief, runs, aged, billed)
    BY <1>1, MovedOn DEF Steps
  <2>2. QED
    BY <1>1, <1>3, <2>1, FrameSet DEF Goto
<1>4. ASSUME NEW patch \in Patches \ {"customer"}, StartFields(p, patch) PROVE IInv'
  <2>1. HandlerOK([w[p] EXCEPT !.pc = "fields_read", !.patch = patch],
                  brief, runs, aged, billed)
    BY <1>1, OutcomeChosen
  <2>2. w' = [w EXCEPT ![p] = [w[p] EXCEPT !.pc = "fields_read", !.patch = patch]]
    BY <1>4 DEF StartFields, IInv
  <2>3. QED
    BY <1>1, <2>1, <2>2, FrameSet
<1>5. QED
  BY <1>2, <1>3, <1>4
\* What is known of handler p in a state of the invariant.
LEMMA Facts ==
    ASSUME IInv, NEW p \in Workers
    PROVE  /\ brief \in Rows /\ runs \in Nat /\ billed \in Nat /\ brief.run <= runs
           /\ pool \subseteq Candidates /\ queue \subseteq 0 .. runs
           /\ w[p] \in Handlers /\ HandlerOK(w[p], brief, runs, aged, billed)
           /\ Cardinality(pool) \in Nat
<1>1. IsFiniteSet(pool)
  BY CandidatesAssumption, FS_Subset DEF IInv, RowOK
<1>2. QED
  BY <1>1, FS_CardinalityType DEF IInv, RowOK

----------------------------------------------------------------------------
\* The start route.

LEMMA StartSteps ==
    ASSUME IInv, NEW p \in Workers,
           StartLoad(p) \/ ClaimRead(p) \/ Publish(p) \/ EnqueueFailed(p)
    PROVE  IInv'
<1> USE DEF rowVars, qVars
<1>1. CASE StartLoad(p)
  <2>1. CASE Running(brief)
    BY <1>1, <2>1, Facts, IdleOK, FrameSet DEF StartLoad
  <2>2. CASE ~Running(brief)
    <3> DEFINE h == [Idle EXCEPT !.pc = "claim_read", !.run = brief.run]
    <3>1. /\ h \in Handlers /\ h.run = brief.run /\ h.copy.run = 0 /\ ~h.fresh
          /\ h.pc = "claim_read" /\ h.patch = "none"
      BY Facts DEF Idle, NewBrief, Handlers, Rows, Steps, Results, Statuses
    <3>2. ~LiveUnder(h, brief, aged)
      BY <2>2, <3>1 DEF LiveUnder, Running
    <3>3. HandlerOK(h, brief, runs, aged, billed)
      BY <3>1, <3>2, Facts DEF HandlerOK
    <3>4. QED
      BY <1>1, <2>2, <3>3, Facts, FrameSet DEF StartLoad
  <2>3. QED
    BY <2>1, <2>2
<1>2. CASE ClaimRead(p)
  <2>1. CASE brief.run = w[p].run
    <3> DEFINE h == [w[p] EXCEPT !.copy = brief, !.fresh = TRUE, !.pc = "claim"]
    <3>1. w' = [w EXCEPT ![p] = h]
      BY <1>2, <2>1 DEF ClaimRead, ReadRow, IInv
    <3>2. /\ h \in Handlers /\ h.copy = brief /\ h.run = w[p].run
          /\ h.patch = w[p].patch /\ h.pc = "claim"
      BY Facts DEF Handlers, Steps
    <3>3. billed = 0 => ~LiveUnder(h, brief, aged)
      BY <1>2, <3>2, Facts DEF ClaimRead, At, HandlerOK, LiveUnder
    <3>4. HandlerOK(h, brief, runs, aged, billed)
      BY <2>1, <3>2, <3>3, Facts DEF HandlerOK
    <3>5. QED
      BY <1>2, <3>1, <3>4, Facts, FrameSet DEF ClaimRead
  <2>2. CASE brief.run # w[p].run
    BY <1>2, <2>2, Facts, PlainSteps DEF ClaimRead
  <2>3. QED
    BY <2>1, <2>2
<1>3. CASE Publish(p)
  <2>1. queue' \subseteq 0 .. runs
    BY <1>3, Facts DEF Publish, HandlerOK, Handlers
  <2>2. QED
    BY <1>3, <2>1, PlainSteps DEF Publish
<1>4. CASE EnqueueFailed(p)
  BY <1>4, Facts, PlainSteps DEF EnqueueFailed, Patches
<1>5. QED
  BY <1>1, <1>2, <1>3, <1>4

\* A claim that lands puts the row under a number nobody has yet.
LEMMA ClaimWriteStep == ASSUME IInv, NEW p \in Workers, ClaimWrite(p) PROVE IInv'
<1> DEFINE mine == [Idle EXCEPT !.pc = "publish", !.run = runs + 1]
<1>1. CASE Unmoved(p)
  <2>1. /\ brief' = [w[p].copy EXCEPT !.status = "running", !.run = runs + 1]
        /\ Bump(p, mine) /\ runs' = runs + 1
        /\ UNCHANGED <<pool, aged, queue, billed>>
    BY <1>1 DEF ClaimWrite, Guarded
  <2>2. brief' \in Rows /\ brief'.run = runs + 1
    <3>1. w[p].copy \in Rows /\ runs + 1 \in Nat
      BY Facts DEF Handlers
    <3>2. QED
      BY <2>1, <3>1 DEF Rows, Statuses
  <2>3. RowOK'
    BY <2>1, <2>2, Facts DEF RowOK
  <2>4. /\ mine \in Handlers /\ mine.run = runs + 1 /\ mine.copy.run = 0
        /\ mine.pc = "publish" /\ mine.patch = "none"
    <3>1. runs + 1 \in Nat
      BY Facts
    <3>2. QED
      BY <3>1 DEF Idle, NewBrief, Handlers, Rows, Steps, Results, Statuses
  <2>5. HandlerOK(mine, brief', runs', aged', billed')
    BY <2>1, <2>4, Facts DEF HandlerOK
  <2>6. \A q \in Workers \ {p} : LiveUnder(w[q], brief', aged) => w[q].run > runs
    BY <2>2, Facts DEF LiveUnder
  <2>7. runs' >= runs
    BY <2>1, Facts
  <2>8. QED
    BY <2>1, <2>3, <2>5, <2>6, <2>7, RowWritten
<1>2. CASE ~Unmoved(p)
  BY <1>2, Facts, PlainSteps DEF ClaimWrite, Guarded
<1>3. QED
  BY <1>1, <1>2
----------------------------------------------------------------------------
\* The job.

LEMMA DeliverStep == ASSUME IInv, NEW p \in Workers, Deliver(p) PROVE IInv'
<1> PICK r \in queue :
        /\ queue' = queue \ {r}
        /\ \/ w' = [w EXCEPT ![p] = [Idle EXCEPT !.pc = "generate", !.run = r, !.job = TRUE,
                               !.room = IF Cardinality(pool) < Cap
                                        THEN Cap - Cardinality(pool) ELSE 0]]
           \/ UNCHANGED w
  BY DEF Deliver
<1>1. UNCHANGED <<brief, pool, runs, aged, billed>>
  BY DEF Deliver, rowVars
<1>2. r \in Nat /\ r <= runs /\ queue' \subseteq 0 .. runs
  BY Facts
<1>3. CASE UNCHANGED w
  <2>1. w' = [w EXCEPT ![p] = w[p]]
    BY <1>3 DEF IInv
  <2>2. QED
    BY <1>1, <1>2, <2>1, Facts, FrameSet
<1>4. ASSUME NEW room \in Nat,
             w' = [w EXCEPT ![p] = [Idle EXCEPT !.pc = "generate", !.run = r, !.job = TRUE,
                                                !.room = room]]
      PROVE  IInv'
  <2> DEFINE h == [Idle EXCEPT !.pc = "generate", !.run = r, !.job = TRUE, !.room = room]
  <2>1. /\ h \in Handlers /\ h.run = r /\ h.copy.run = 0 /\ h.pc = "generate"
        /\ h.patch = "none"
    BY <1>2 DEF Idle, NewBrief, Handlers, Rows, Steps, Results, Statuses
  <2>2. HandlerOK(h, brief, runs, aged, billed)
    BY <1>2, <2>1, Facts DEF HandlerOK
  <2>3. QED
    BY <1>1, <1>2, <1>4, <2>2, Facts, FrameSet
<1>5. (IF Cardinality(pool) < Cap THEN Cap - Cardinality(pool) ELSE 0) \in Nat
  BY Facts, CapAssumption
<1>6. QED
  BY <1>3, <1>4, <1>5

LEMMA JobSteps ==
    ASSUME IInv, NEW p \in Workers, Generate(p) \/ SecondGate(p) \/ FinishGate(p)
    PROVE  IInv'
<1> USE DEF rowVars, qVars
<1>1. CASE Generate(p)
  <2>1. CASE Goto(p, "finish_gate")
    BY <1>1, <2>1, Facts, PlainSteps DEF Generate
  <2>2. ASSUME NEW found \in Passes,
               w' = [w EXCEPT ![p].found = found, ![p].pc = "second_gate"]
        PROVE  IInv'
    <3> DEFINE h == [w[p] EXCEPT !.found = found, !.pc = "second_gate"]
    <3>1. w' = [w EXCEPT ![p] = h]
      BY <2>2 DEF IInv
    <3>2. found \in Results
      BY PassesAssumption DEF Results
    <3>3. /\ h \in Handlers /\ h.run = w[p].run /\ h.copy = w[p].copy
          /\ h.pc = "second_gate" /\ h.patch = w[p].patch
      BY <3>2, Facts DEF Handlers, Steps
    <3>4. HandlerOK(h, brief, runs, aged, billed)
      BY <3>3, Facts DEF HandlerOK
    <3>5. QED
      BY <1>1, <3>1, <3>4, Facts, FrameSet DEF Generate
  <2>3. QED
    BY <1>1, <2>1, <2>2 DEF Generate
<1>2. CASE SecondGate(p)
  BY <1>2, Facts, PlainSteps DEF SecondGate
<1>3. CASE FinishGate(p)
  BY <1>3, Facts, PlainSteps DEF FinishGate, Patches
<1>4. QED
  BY <1>1, <1>2, <1>3

\* A pool that changes makes every copy of the row stale, and leaves the row.
LEMMA PoolTouched ==
    ASSUME IInv, NEW p \in Workers, NEW mine, Bump(p, mine), pool' \subseteq Candidates,
           UNCHANGED <<brief, runs, aged, queue, billed>>,
           HandlerOK(mine, brief, runs, aged, billed)
    PROVE  IInv'
<1>1. RowOK'
  BY Facts DEF RowOK
<1>2. runs' >= runs
  BY Facts
<1>3. \A q \in Workers : LiveUnder(w[q], brief', aged) => LiveUnder(w[q], brief, aged)
  BY DEF LiveUnder
<1>4. QED
  BY <1>1, <1>2, <1>3, RowWritten

LEMMA JobAddStep == ASSUME IInv, NEW p \in Workers, JobAdd(p) PROVE IInv'
<1> DEFINE next == [w[p] EXCEPT !.pc = "fields_read", !.patch = "completed",
                               !.room = 0, !.found.core = {}]
<1>1. UNCHANGED <<brief, runs, aged, queue, billed>>
  BY DEF JobAdd
<1>2. CASE Goto(p, "finish_gate") /\ UNCHANGED pool
  BY <1>1, <1>2, Facts, PlainSteps
<1>3. ASSUME NEW ids \in Fitting(p),
             \/ w' = [w EXCEPT ![p] = next] /\ UNCHANGED pool
             \/ Append1(p, ids, next)
      PROVE  IInv'
  <2>1. w[p].found.core \subseteq Candidates /\ w[p].found \in Results
    BY Facts DEF Handlers, Results
  <2>2. ids \subseteq Candidates
    BY <2>1 DEF Fitting
  <2>3. [w[p].found EXCEPT !.core = {}] \in Results
    BY <2>1 DEF Results
  <2>4. /\ next \in Handlers /\ next.run = w[p].run /\ next.copy = w[p].copy
        /\ next.pc = "fields_read" /\ next.patch = "completed"
    BY <2>3, Facts DEF Handlers, Steps, Patches
  <2>5. HandlerOK(next, brief, runs, aged, billed)
    BY <2>4, Facts DEF HandlerOK, Patches
  <2>6. CASE w' = [w EXCEPT ![p] = next] /\ UNCHANGED pool
    BY <1>1, <2>5, <2>6, Facts, FrameSet
  <2>7. CASE Append1(p, ids, next)
    <3>1. pool' \subseteq Candidates /\ Bump(p, next)
      BY <2>2, <2>7, Facts DEF Append1
    <3>2. QED
      BY <1>1, <2>5, <3>1, PoolTouched
  <2>8. QED
    BY <1>3, <2>6, <2>7
<1>4. QED
  BY <1>2, <1>3 DEF JobAdd

----------------------------------------------------------------------------
\* updateProjectFields, whose write takes the whole row from a copy.

LEMMA FieldsReadStep ==
    ASSUME IInv, NEW p \in Workers, FieldsRead(p), UNCHANGED qVars PROVE IInv'
<1> DEFINE h == [w[p] EXCEPT !.copy = brief, !.pc = "fields_write"]
<1>1. w' = [w EXCEPT ![p] = h]
  BY DEF FieldsRead, IInv
<1>2. /\ h \in Handlers /\ h.copy = brief /\ h.run = w[p].run
      /\ h.patch = w[p].patch /\ h.pc = "fields_write"
  BY Facts DEF Handlers, Steps
<1>3. HandlerOK(h, brief, runs, aged, billed)
  BY <1>2, Facts DEF FieldsRead, At, HandlerOK
<1>4. QED
  BY <1>1, <1>3, Facts, FrameSet DEF FieldsRead, rowVars, qVars

LEMMA FieldsWriteStep ==
    ASSUME IInv, NEW p \in Workers, FieldsWrite(p), UNCHANGED qVars PROVE IInv'
<1>1. /\ brief' = Patched(w[p].copy, w[p]) /\ Bump(p, Idle)
      /\ UNCHANGED <<pool, runs, aged, queue, billed>>
  BY DEF FieldsWrite, qVars
<1>2. /\ w[p].copy \in Rows /\ w[p].copy.run <= runs /\ w[p].found \in Results
      /\ w[p].patch \in Patches /\ (w[p].patch = "customer" => billed > 0)
  BY Facts DEF FieldsWrite, At, HandlerOK, Handlers
<1>3. /\ brief' \in Rows /\ brief'.run <= runs
      /\ w[p].patch # "customer" => brief'.status # "running"
  <2>1. w[p].found.adjacent \in SUBSET Candidates
    BY <1>2 DEF Results
  <2>2. runs \in Nat
    BY Facts
  <2>3. CASE w[p].patch = "completed"
    <3>1. brief' = [w[p].copy EXCEPT !.status = "completed", !.run = 0,
                                          !.adjacent = w[p].found.adjacent]
      BY <1>1, <2>3 DEF Patched
    <3>2. "completed" \in Statuses /\ "completed" # "running" /\ 0 \in Nat
      BY DEF Statuses
    <3>3. brief' \in Rows /\ brief'.status = "completed" /\ brief'.run = 0
      BY <1>2, <2>1, <3>1, <3>2 DEF Rows
    <3>4. QED
      BY <2>2, <3>2, <3>3
  <2>4. CASE w[p].patch = "failed"
    <3>1. brief' = [w[p].copy EXCEPT !.status = "failed", !.run = 0]
      BY <1>1, <2>4 DEF Patched
    <3>2. "failed" \in Statuses /\ "failed" # "running" /\ 0 \in Nat
      BY DEF Statuses
    <3>3. brief' \in Rows /\ brief'.status = "failed" /\ brief'.run = 0
      BY <1>2, <2>1, <3>1, <3>2 DEF Rows
    <3>4. QED
      BY <2>2, <3>2, <3>3
  <2>5. CASE w[p].patch = "abandoned"
    <3>1. brief' = [w[p].copy EXCEPT !.status = "failed"]
      BY <1>1, <2>5 DEF Patched
    <3>2. QED
      BY <1>2, <2>2, <2>5, <3>1 DEF Rows, Statuses
  <2>6. CASE w[p].patch = "customer"
    <3>1. brief' = [w[p].copy EXCEPT !.customer = TRUE]
      BY <1>1, <2>6 DEF Patched
    <3>2. QED
      BY <1>2, <2>2, <2>6, <3>1 DEF Rows, Statuses
  <2>7. QED
    BY <1>2, <2>3, <2>4, <2>5, <2>6 DEF Patches
<1>4. RowOK'
  BY <1>1, <1>3, Facts DEF RowOK
<1>5. \A q \in Workers : ~(LiveUnder(w[q], brief', aged) /\ billed = 0)
  BY <1>2, <1>3, Facts DEF LiveUnder
<1>6. HandlerOK(Idle, brief', runs', aged', billed')
  BY <1>4, IdleOK DEF RowOK
<1>7. runs' >= runs
  BY <1>1, Facts
<1>8. QED
  BY <1>1, <1>4, <1>5, <1>6, <1>7, RowWritten
----------------------------------------------------------------------------
\* The other requests.

LEMMA SaveSteps ==
    ASSUME IInv, NEW p \in Workers, SaveLoad(p) \/ SaveRead(p) \/ SaveWrite(p)
    PROVE  IInv'
<1> USE DEF rowVars, qVars
<1>1. CASE SaveLoad(p)
  <2> DEFINE h == [Idle EXCEPT !.pc = "save_read", !.fresh = TRUE]
  <2>1. /\ h \in Handlers /\ h.run = 0 /\ h.copy.run = 0 /\ h.pc = "save_read"
        /\ h.patch = "none"
    BY DEF Idle, NewBrief, Handlers, Rows, Steps, Results, Statuses
  <2>2. HandlerOK(h, brief, runs, aged, billed)
    BY <2>1, Facts DEF HandlerOK
  <2>3. QED
    BY <1>1, <2>2, Facts, FrameSet DEF SaveLoad
<1>2. CASE SaveRead(p)
  <2> DEFINE h == [w[p] EXCEPT !.copy = brief, !.fresh = TRUE, !.pc = "save"]
  <2>1. /\ h \in Handlers /\ h.copy = brief /\ h.run = w[p].run
        /\ h.patch = w[p].patch /\ h.pc = "save"
    BY Facts DEF Handlers, Steps
  <2>2. HandlerOK(h, brief, runs, aged, billed)
    BY <2>1, Facts DEF HandlerOK
  <2>3. CASE Unmoved(p)
    <3>1. w' = [w EXCEPT ![p] = h]
      BY <1>2, <2>3 DEF SaveRead, ReadRow, IInv
    <3>2. QED
      BY <1>2, <2>2, <3>1, Facts, FrameSet DEF SaveRead
  <2>4. CASE ~Unmoved(p)
    BY <1>2, <2>4, Facts, PlainSteps DEF SaveRead
  <2>5. QED
    BY <2>3, <2>4
<1>3. CASE SaveWrite(p)
  <2>1. CASE Unmoved(p)
    <3>1. /\ brief' = [w[p].copy EXCEPT !.save = @ + 1] /\ Bump(p, Idle)
          /\ UNCHANGED <<pool, runs, aged, queue, billed>>
      BY <1>3, <2>1 DEF SaveWrite, Guarded
    <3>2. w[p].copy = brief
      BY <1>3, <2>1, Facts DEF SaveWrite, At, Unmoved, HandlerOK
    <3>3. /\ brief' \in Rows /\ brief'.run = brief.run
          /\ brief'.status = brief.status
      BY <3>1, <3>2, Facts DEF Rows
    <3>4. RowOK'
      BY <3>1, <3>3, Facts DEF RowOK
    <3>5. HandlerOK(Idle, brief', runs', aged', billed')
      BY <3>4, IdleOK DEF RowOK
    <3>6. \A q \in Workers : LiveUnder(w[q], brief', aged) => LiveUnder(w[q], brief, aged)
      BY <3>3 DEF LiveUnder
    <3>7. runs' >= runs
      BY <3>1, Facts
    <3>8. QED
      BY <3>1, <3>4, <3>5, <3>6, <3>7, RowWritten
  <2>2. CASE ~Unmoved(p)
    BY <1>3, <2>2, Facts, PlainSteps DEF SaveWrite, Guarded
  <2>3. QED
    BY <2>1, <2>2
<1>4. QED
  BY <1>1, <1>2, <1>3

LEMMA PoolSteps ==
    ASSUME IInv, NEW p \in Workers,
           AddLoad(p) \/ AddOne(p) \/ NothingToAdd(p) \/ RemoveOne(p)
    PROVE  IInv'
<1> USE DEF rowVars, qVars
<1>1. CASE AddLoad(p)
  <2>1. ASSUME NEW some \in Results,
               w' = [w EXCEPT ![p] = [Idle EXCEPT !.pc = "add_one", !.found = some]]
        PROVE  IInv'
    <3> DEFINE h == [Idle EXCEPT !.pc = "add_one", !.found = some]
    <3>1. /\ h \in Handlers /\ h.run = 0 /\ h.copy.run = 0 /\ h.pc = "add_one"
          /\ h.patch = "none"
      BY DEF Idle, NewBrief, Handlers, Rows, Steps, Results, Statuses
    <3>2. HandlerOK(h, brief, runs, aged, billed)
      BY <3>1, Facts DEF HandlerOK
    <3>3. QED
      BY <1>1, <2>1, <3>2, Facts, FrameSet DEF AddLoad
  <2>2. CASE w' = [w EXCEPT ![p] = Idle]
    BY <1>1, <2>2, Facts, IdleOK, FrameSet DEF AddLoad
  <2>3. CASE w' = [w EXCEPT ![p] = [Idle EXCEPT !.pc = "add_one",
                                                !.found.adjacent = brief.adjacent]]
    <3> DEFINE some == [Idle.found EXCEPT !.adjacent = brief.adjacent]
    <3>1. some \in Results
      BY Facts DEF Idle, Results, Rows
    <3>2. w' = [w EXCEPT ![p] = [Idle EXCEPT !.pc = "add_one", !.found = some]]
      BY <2>3 DEF Idle
    <3>3. QED
      BY <2>1, <3>1, <3>2
  <2>4. QED
    BY <1>1, <2>2, <2>3 DEF AddLoad
<1>2. CASE AddOne(p)
  <2> PICK c \in w[p].found.adjacent : Append1(p, {c}, Idle)
    BY <1>2 DEF AddOne
  <2>1. c \in Candidates
    BY Facts DEF Handlers, Results
  <2>2. pool' \subseteq Candidates /\ Bump(p, Idle)
    BY <2>1, Facts DEF Append1
  <2>3. QED
    BY <1>2, <2>2, Facts, IdleOK, PoolTouched DEF AddOne
<1>3. CASE NothingToAdd(p)
  BY <1>3, Facts, PlainSteps DEF NothingToAdd
<1>4. CASE RemoveOne(p)
  <2>1. pool' \subseteq Candidates
    BY <1>4, Facts DEF RemoveOne
  <2>2. QED
    BY <1>4, <2>1, Facts, IdleOK, PoolTouched DEF RemoveOne
<1>5. QED
  BY <1>1, <1>2, <1>3, <1>4

LEMMA BillStep == ASSUME IInv, NEW p \in Workers, Bill(p) PROVE IInv'
<1> DEFINE h == [Idle EXCEPT !.pc = "fields_read", !.patch = "customer"]
<1>1. /\ UNCHANGED <<brief, pool, runs, aged, queue>> /\ billed' = billed + 1
      /\ w' = [w EXCEPT ![p] = h]
  BY DEF Bill, rowVars
<1>2. /\ h \in Handlers /\ h.run = 0 /\ h.copy.run = 0 /\ h.pc = "fields_read"
      /\ h.patch = "customer"
  BY DEF Idle, NewBrief, Handlers, Rows, Steps, Results, Statuses, Patches
<1>3. billed' \in Nat /\ billed' > 0 /\ billed' >= billed /\ RowOK'
  BY <1>1, Facts DEF RowOK
<1>4. HandlerOK(h, brief', runs', aged', billed')
  BY <1>1, <1>2, <1>3, Facts DEF HandlerOK, Patches
<1>5. w'[p] = h /\ (\A q \in Workers \ {p} : w'[q] = w[q])
  BY <1>1 DEF IInv
<1>6. DOMAIN w' = Workers /\ w' = [q \in Workers |-> w'[q]]
  BY <1>1 DEF IInv
<1>7. QED
  BY <1>1, <1>3, <1>4, <1>5, <1>6, RowUntouched

----------------------------------------------------------------------------
\* The sweep, time, and what goes wrong.

LEMMA SweepStep == ASSUME IInv, NEW p \in Workers, Sweep(p) PROVE IInv'
<1> DEFINE h == [Idle EXCEPT !.pc = "fields_read", !.patch = "abandoned"]
<1>1. /\ h \in Handlers /\ h.run = 0 /\ h.copy.run = 0 /\ h.pc = "fields_read"
      /\ h.patch = "abandoned"
  BY DEF Idle, NewBrief, Handlers, Rows, Steps, Results, Statuses, Patches
<1>2. HandlerOK(h, brief, runs, aged, billed)
  BY <1>1, Facts DEF HandlerOK, Patches
<1>3. QED
  BY <1>2, Facts, FrameSet DEF Sweep, rowVars, qVars

LEMMA FaultSteps ==
    ASSUME IInv, NEW p \in Workers, FieldsFail(p) \/ Kill(p) PROVE IInv'
<1>1. CASE FieldsFail(p)
  BY <1>1, Facts, PlainSteps DEF FieldsFail, rowVars, qVars
<1>2. CASE Kill(p)
  <2>1. w[p].run \in 0 .. runs
    BY Facts DEF HandlerOK, Handlers
  <2>2. queue' \subseteq 0 .. runs
    <3>1. queue \subseteq 0 .. runs
      BY Facts
    <3>2. queue' = queue \cup {w[p].run} \/ queue' = queue
      BY <1>2 DEF Kill
    <3>3. QED
      BY <2>1, <3>1, <3>2
  <2>3. QED
    BY <1>2, <2>2, PlainSteps DEF Kill, Die, rowVars
<1>3. QED
  BY <1>1, <1>2

LEMMA WorldSteps == ASSUME IInv, Age \/ Redeliver PROVE IInv'
<1>1. UNCHANGED <<brief, pool, w, runs, billed>> /\ aged \subseteq aged'
  BY DEF Age, Redeliver, rowVars
<1>2. queue' \subseteq 0 .. runs
  <2>1. queue \subseteq 0 .. runs /\ runs \in Nat
    BY DEF IInv, RowOK
  <2>2. CASE Age
    BY <2>1, <2>2 DEF Age
  <2>3. CASE Redeliver
    <3>1. PICK r \in 1 .. runs : queue' = queue \cup {r}
      BY <2>3 DEF Redeliver
    <3>2. r \in 0 .. runs
      BY <2>1
    <3>3. QED
      BY <2>1, <3>1, <3>2
  <2>4. QED
    BY <2>2, <2>3
<1>3. RowOK'
  BY <1>1, <1>2 DEF IInv, RowOK
<1>4. ASSUME NEW p \in Workers PROVE HandlerOK(w'[p], brief', runs', aged', billed')
  BY <1>1, Facts DEF HandlerOK, LiveUnder
<1>5. QED
  BY <1>1, <1>3, <1>4 DEF IInv

LEMMA NextIInv == IInv /\ [Next]_vars => IInv'
<1> SUFFICES ASSUME IInv, [Next]_vars PROVE IInv'
  OBVIOUS
<1>1. ASSUME NEW p \in Workers, Work(p) \/ Sweep(p) \/ FieldsFail(p) \/ Kill(p)
      PROVE  IInv'
  BY <1>1, StartSteps, ClaimWriteStep, DeliverStep, JobSteps, JobAddStep,
     FieldsReadStep, FieldsWriteStep, SaveSteps, PoolSteps, BillStep, SweepStep,
     FaultSteps DEF Work, Start, Job, Fields, Others
<1>2. CASE UNCHANGED vars
  <2>1. UNCHANGED <<brief, pool, w, runs, aged, queue, billed>>
    BY <1>2 DEF vars
  <2>2. QED
    BY <2>1 DEF IInv, RowOK
<1>3. QED
  BY <1>1, <1>2, WorldSteps DEF Next

\* The inductive invariant holds in every reachable state.
LEMMA Invariant == Spec => []IInv
  BY InitIInv, NextIInv, PTL DEF Spec

\* The variables of ProjectRow and Sourcing keep their types: the row, every
\* handler and every queued job name runs that were started.
THEOREM TypesHold == Spec => []TypeOK
<1>1. IInv => TypeOK
  <2> SUFFICES ASSUME IInv PROVE TypeOK
    OBVIOUS
  <2>1. /\ brief \in Rows /\ runs \in Nat /\ brief.run <= runs
        /\ pool \subseteq Candidates /\ queue \subseteq 0 .. runs /\ billed \in Nat
    BY DEF IInv, RowOK
  <2>2. ASSUME NEW p \in Workers PROVE w[p].run \in 0 .. runs /\ w[p].room \in Nat
    BY <2>1, Facts DEF HandlerOK, Handlers
  <2>3. QED
    BY <2>1, <2>2 DEF TypeOK, Rows
<1>2. QED
  BY <1>1, Invariant, PTL

----------------------------------------------------------------------------
\* Two starts never both win (startSourcingRun): until a customer is billed, a
\* claim lands only on a row without a live run, for any number of handlers,
\* starts, jobs, sweeps and faults.
THEOREM RunsDoNotOverlap == Spec => OneLiveRun
<1>1. IInv /\ [Next]_vars => [runs' # runs /\ billed = 0 => ~Running(brief)]_vars
  <2> SUFFICES ASSUME IInv, Next, runs' # runs, billed = 0 PROVE ~Running(brief)
    OBVIOUS
  <2>1. PICK p \in Workers : ClaimWrite(p)
    BY DEF Next, Age, Redeliver, Work, Start, Job, Fields, Others, StartLoad, ClaimRead,
           Publish, EnqueueFailed, Deliver, Generate, SecondGate, JobAdd, FinishGate,
           SaveLoad, SaveRead, SaveWrite, AddLoad, AddOne, NothingToAdd, RemoveOne,
           Bill, Sweep, FieldsFail, Kill, qVars
  <2>2. At(p, "claim") /\ Unmoved(p)
    BY <2>1 DEF ClaimWrite
  <2>3. w[p].copy = brief /\ brief.run = w[p].run /\ ~LiveUnder(w[p], brief, aged)
    BY <2>2, Facts DEF HandlerOK, At, Unmoved
  <2>4. QED
    BY <2>3 DEF LiveUnder, Running
<1>2. QED
  BY <1>1, Invariant, PTL DEF Spec, OneLiveRun
\* A step that changes the row is one handler's write, and every other handler
\* stays where it was.
LEMMA OneWriter ==
    ASSUME IInv, Next, brief' # brief
    PROVE  \E q \in Workers :
              /\ \/ ClaimWrite(q) /\ Unmoved(q)
                 \/ SaveWrite(q) /\ Unmoved(q)
                 \/ At(q, "fields_write")
              /\ \A p \in Workers \ {q} : w'[p].pc = w[p].pc
<1>1. PICK q \in Workers : ClaimWrite(q) \/ SaveWrite(q) \/ FieldsWrite(q)
  BY DEF Next, Age, Redeliver, Work, Start, Job, Fields, Others, StartLoad, ClaimRead,
         Publish, EnqueueFailed, Deliver, Generate, SecondGate, JobAdd, FinishGate,
         FieldsRead, SaveLoad, SaveRead, AddLoad, AddOne, NothingToAdd, RemoveOne,
         Bill, Sweep, FieldsFail, Kill, Die, rowVars
<1>2. /\ \/ ClaimWrite(q) /\ Unmoved(q)
         \/ SaveWrite(q) /\ Unmoved(q)
         \/ At(q, "fields_write")
      /\ \E mine : Bump(q, mine)
  BY <1>1 DEF ClaimWrite, SaveWrite, FieldsWrite, Guarded
<1>3. ASSUME NEW p \in Workers \ {q} PROVE w'[p].pc = w[p].pc
  <2>1. w'[p] = [w[p] EXCEPT !.fresh = FALSE]
    BY <1>2 DEF Bump
  <2>2. QED
    BY <2>1, Facts DEF Handlers
<1>4. QED
  BY <1>2, <1>3

\* A save that is answered 200 and a claim that wins change their own keys of
\* the row as it is at that moment (mergeProjectBrief, updateProject,
\* startSourcingRun), whatever else was written since the handler began.
THEOREM NothingOverwritten == Spec => GuardedWritesMerge
<1>1. IInv /\ [Next]_vars =>
        [\A p \in Workers : brief' # brief /\ w'[p].pc # w[p].pc =>
            /\ At(p, "save") => brief' = [brief EXCEPT !.save = @ + 1]
            /\ At(p, "claim") =>
                  brief' = [brief EXCEPT !.status = "running", !.run = runs + 1]]_vars
  <2> SUFFICES ASSUME IInv, Next, NEW p \in Workers, brief' # brief, w'[p].pc # w[p].pc
               PROVE  /\ At(p, "save") => brief' = [brief EXCEPT !.save = @ + 1]
                      /\ At(p, "claim") =>
                            brief' = [brief EXCEPT !.status = "running", !.run = runs + 1]
    OBVIOUS
  <2>1. \/ ClaimWrite(p) /\ Unmoved(p)
        \/ SaveWrite(p) /\ Unmoved(p)
        \/ At(p, "fields_write")
    BY OneWriter
  <2>2. CASE ClaimWrite(p) /\ Unmoved(p)
    <3>1. At(p, "claim") /\ w[p].copy = brief
      BY <2>2, Facts DEF ClaimWrite, At, Unmoved, HandlerOK
    <3>2. QED
      BY <2>2, <3>1 DEF ClaimWrite, Guarded, At
  <2>3. CASE SaveWrite(p) /\ Unmoved(p)
    <3>1. At(p, "save") /\ w[p].copy = brief
      BY <2>3, Facts DEF SaveWrite, At, Unmoved, HandlerOK
    <3>2. QED
      BY <2>3, <3>1 DEF SaveWrite, Guarded, At
  <2>4. CASE At(p, "fields_write")
    BY <2>4 DEF At
  <2>5. QED
    BY <2>1, <2>2, <2>3, <2>4
<1>2. QED
  BY <1>1, Invariant, PTL DEF Spec, GuardedWritesMerge
----------------------------------------------------------------------------
(* A run's candidates go into the pool once.                                 *)

JobPcs == {"generate", "second_gate", "add", "finish_gate", "fields_read", "fields_write"}

\* Handler h is the job, and works for run r: it has not passed the second gate
\* yet, or is about to add what it found.
Does(h, r) == h.job /\ h.run = r
Looking(h, r) == Does(h, r) /\ h.pc \in {"generate", "second_gate"}
Putting(h, r) == Does(h, r) /\ h.pc = "add"

Searching(r) == {p \in Workers : Looking(w[p], r)}
Adding(r) == {p \in Workers : Putting(w[p], r)}
Billing == {p \in Workers : w[p].patch = "customer"}

\* A pass that reaches the second gate would go on: the run is live, or not
\* claimed yet.
Open(r) == r > runs \/ ShouldPersistRun(r)

Bit(b) == IF b THEN 1 ELSE 0

\* How many more passes may add for a run without a further fault or bill, of
\* "a" passes about to add and "m" deliveries before the second gate. While the
\* run is open and nobody works at it, QStash may deliver it once more, and
\* whoever works at it will close it; once it is closed, all but one of "m" were
\* paid for by a fault, since a bill may open it again.
Worth(open, working, a, m) ==
    IF open THEN (IF working THEN a + m ELSE 1)
            ELSE a + (IF m > 0 THEN m - 1 ELSE 0)

Ahead(r) == Cardinality(Searching(r)) + Bit(r \in queue)
Chances(r) == Worth(Open(r), Working(r), Cardinality(Adding(r)), Ahead(r))

\* What has been spent on second passes.
Costly == {"kill", "drop", "outage"}
Spent == Faults(Costly) + billed

\* Passes done and still to come are paid for; each bill on its way may open a
\* run once more.
Counted == \A r \in Run : added[r] + Chances(r) + Cardinality(Billing) <= 1 + Spent

\* The job stays on its way, which nobody else takes before the status, and a
\* run that is being handed to QStash is nowhere else.
Fits(h) ==
    /\ h.job => h.pc \in JobPcs
    /\ h.pc \in {"generate", "second_gate", "add"} => h.job
JobsOK == \A p \in Workers : Fits(w[p])
PublishOK ==
    \A p \in Workers : At(p, "publish") =>
        /\ w[p].run \notin queue /\ ~Working(w[p].run)
        /\ \A q \in Workers \ {p} : At(q, "publish") => w[q].run # w[p].run

TalliesOK == faults \in Seq(Ops) /\ added \in [Run -> Nat]

\* The inductive invariant of AddedOnce, beside IInv.
Once == TalliesOK /\ JobsOK /\ PublishOK /\ Counted

\* The faults of some kinds are a finite set.
LEMMA FaultsFinite ==
    ASSUME NEW f \in Seq(Ops), NEW kinds
    PROVE  /\ IsFiniteSet({i \in DOMAIN f : f[i] \in kinds})
           /\ Cardinality({i \in DOMAIN f : f[i] \in kinds}) \in Nat
<1>1. DOMAIN f = 1 .. Len(f) /\ Len(f) \in Nat
  OBVIOUS
<1>2. IsFiniteSet(1 .. Len(f))
  BY <1>1, FS_Interval
<1>3. QED
  BY <1>1, <1>2, FS_Subset, FS_CardinalityType

\* A fault is counted when it happens, among its kind.
LEMMA FaultCounted ==
    ASSUME faults \in Seq(Ops), NEW kinds, NEW op, Fault(op)
    PROVE  /\ op \in kinds => Faults(kinds)' = Faults(kinds) + 1
           /\ op \notin kinds => Faults(kinds)' = Faults(kinds)
           /\ faults' \in Seq(Ops)
<1> DEFINE S == {i \in DOMAIN faults : faults[i] \in kinds}
           T == {i \in DOMAIN faults' : faults'[i] \in kinds}
           n == Len(faults) + 1
<1>1. DOMAIN faults = 1 .. Len(faults) /\ Len(faults) \in Nat
  OBVIOUS
<1>2. faults' = Append(faults, op) /\ op \in Ops
  BY DEF Fault
<1>3. /\ faults' \in Seq(Ops) /\ DOMAIN faults' = 1 .. n
      /\ \A i \in 1 .. Len(faults) : faults'[i] = faults[i]
      /\ faults'[n] = op
  BY <1>2
<1>4. n \notin S
  BY <1>1
<1>5. IsFiniteSet(S)
  BY FaultsFinite
<1>6. Faults(kinds) = Cardinality(S) /\ Faults(kinds)' = Cardinality(T)
  BY DEF Faults
<1>7. CASE op \in kinds
  <2>1. T = S \cup {n}
    BY <1>1, <1>3, <1>7
  <2> HIDE DEF S, T, n
  <2>2. Cardinality(S \cup {n}) = Cardinality(S) + 1
    BY <1>4, <1>5, FS_AddElement
  <2>3. QED
    BY <1>3, <1>6, <1>7, <2>1, <2>2
<1>8. CASE op \notin kinds
  <2>1. T = S
    BY <1>1, <1>3, <1>8
  <2> HIDE DEF S, T, n
  <2>2. QED
    BY <1>3, <1>6, <1>8, <2>1
<1>9. QED
  BY <1>7, <1>8

\* Whether one element is in a set, and how many others are.
LEMMA OneApart ==
    ASSUME NEW S, IsFiniteSet(S), NEW x
    PROVE  Cardinality(S) = Cardinality(S \ {x}) + Bit(x \in S) /\ Cardinality(S \ {x}) \in Nat
<1>1. IsFiniteSet(S \ {x})
  BY FS_Subset
<1>2. Cardinality(S \ {x}) \in Nat /\ Cardinality(S) \in Nat
  BY <1>1, FS_CardinalityType
<1>3. CASE x \in S
  <2>1. Cardinality(S \ {x}) = Cardinality(S) - 1
    BY <1>3, FS_RemoveElement
  <2>2. QED
    BY <1>2, <1>3, <2>1 DEF Bit
<1>4. CASE x \notin S
  <2>1. S \ {x} = S
    BY <1>4
  <2>2. Cardinality(S \ {x}) = Cardinality(S)
    BY <2>1, Zenon
  <2>3. QED
    BY <1>2, <1>4, <2>2 DEF Bit
<1>5. QED
  BY <1>3, <1>4
----------------------------------------------------------------------------
\* A step of handler p leaves the others' tasks alone.
Beside(p) ==
    \A q \in Workers \ {p} :
        /\ w'[q].job = w[q].job /\ w'[q].run = w[q].run
        /\ w'[q].pc = w[q].pc /\ w'[q].patch = w[q].patch

\* What handler h adds to what others (o, s, a) may still do for run r.
Owes(h, r, open, queued, o, s, a) ==
    Worth(open, o \/ Does(h, r), a + Bit(Putting(h, r)), s + Bit(Looking(h, r)) + Bit(queued))
    + Bit(h.patch = "customer")

OthersDo(p, r) == \E q \in Workers \ {p} : Does(w[q], r)

\* A step of handler p pays for what it makes possible, however many of the
\* others are where.
Balanced(p, r) ==
    \A s \in Nat, a \in Nat : (~OthersDo(p, r) => s = 0 /\ a = 0) =>
        added'[r] + Owes(w'[p], r, Open(r)', (r \in queue)', OthersDo(p, r), s, a) + Spent
          <= added[r] + Owes(w[p], r, Open(r), r \in queue, OthersDo(p, r), s, a) + Spent'

LEMMA CountedStep ==
    ASSUME TalliesOK, TalliesOK', billed \in Nat, billed' \in Nat,
           Counted, NEW p \in Workers, Beside(p),
           \A r \in Run : Balanced(p, r)
    PROVE  Counted'
<1> SUFFICES ASSUME NEW r \in Run
             PROVE  added'[r] + Chances(r)' + Cardinality(Billing)' <= 1 + Spent'
  BY DEF Counted
<1> DEFINE o == OthersDo(p, r)
           S == Searching(r) \ {p}
           A == Adding(r) \ {p}
           B == Billing \ {p}
           s == Cardinality(S)
           a == Cardinality(A)
           b == Cardinality(B)
<1>1. /\ IsFiniteSet(Searching(r)) /\ IsFiniteSet(Adding(r)) /\ IsFiniteSet(Billing)
      /\ IsFiniteSet(Searching(r)') /\ IsFiniteSet(Adding(r)') /\ IsFiniteSet(Billing')
  BY WorkersAssumption, FS_Subset DEF Searching, Adding, Billing
<1>2. /\ Searching(r)' \ {p} = S /\ Adding(r)' \ {p} = A /\ Billing' \ {p} = B
  BY DEF Beside, Searching, Adding, Billing, Looking, Putting, Does
<1>3. /\ p \in Searching(r) <=> Looking(w[p], r)
      /\ p \in Adding(r) <=> Putting(w[p], r)
      /\ p \in Billing <=> w[p].patch = "customer"
      /\ p \in Searching(r)' <=> Looking(w'[p], r)
      /\ p \in Adding(r)' <=> Putting(w'[p], r)
      /\ p \in Billing' <=> w'[p].patch = "customer"
  BY DEF Searching, Adding, Billing, Looking, Putting, Does
<1>4. /\ Working(r) <=> o \/ Does(w[p], r)
      /\ Working(r)' <=> o \/ Does(w'[p], r)
  BY DEF Beside, Working, Does, OthersDo
<1>5. ~o => S = {} /\ A = {}
  BY DEF Searching, Adding, Looking, Putting, OthersDo
<1> HIDE DEF S, A, B
<1>6. /\ s \in Nat /\ a \in Nat /\ b \in Nat
      /\ Cardinality(Searching(r)) = s + Bit(Looking(w[p], r))
      /\ Cardinality(Adding(r)) = a + Bit(Putting(w[p], r))
      /\ Cardinality(Billing) = b + Bit(w[p].patch = "customer")
  <2>1. s \in Nat /\ Cardinality(Searching(r)) = s + Bit(p \in Searching(r))
    BY <1>1, OneApart DEF S
  <2>2. a \in Nat /\ Cardinality(Adding(r)) = a + Bit(p \in Adding(r))
    BY <1>1, OneApart DEF A
  <2>3. b \in Nat /\ Cardinality(Billing) = b + Bit(p \in Billing)
    BY <1>1, OneApart DEF B
  <2> HIDE DEF s, a, b
  <2>4. QED
    BY <1>3, <2>1, <2>2, <2>3 DEF Bit
<1>7. /\ Cardinality(Searching(r))' = s + Bit(Looking(w'[p], r))
      /\ Cardinality(Adding(r))' = a + Bit(Putting(w'[p], r))
      /\ Cardinality(Billing)' = b + Bit(w'[p].patch = "customer")
  <2>1. Cardinality(Searching(r)') = s + Bit(p \in Searching(r)')
    BY <1>1, <1>2, OneApart
  <2>2. Cardinality(Adding(r)') = a + Bit(p \in Adding(r)')
    BY <1>1, <1>2, OneApart
  <2>3. Cardinality(Billing') = b + Bit(p \in Billing')
    BY <1>1, <1>2, OneApart
  <2> HIDE DEF s, a, b
  <2>4. QED
    BY <1>3, <2>1, <2>2, <2>3 DEF Bit
<1>8. ~o => s = 0 /\ a = 0
  BY <1>5, FS_EmptySet
<1>9. o \in BOOLEAN
  BY DEF OthersDo
<1> HIDE DEF o, s, a, b
<1>10. added[r] \in Nat /\ added'[r] \in Nat /\ Spent \in Nat /\ Spent' \in Nat
  <2>1. Faults(Costly) \in Nat /\ Faults(Costly)' \in Nat
    BY FaultsFinite DEF Faults, TalliesOK
  <2>2. QED
    BY <2>1 DEF TalliesOK, Spent
<1>11. Chances(r) = Worth(Open(r), o \/ Does(w[p], r), a + Bit(Putting(w[p], r)),
                          s + Bit(Looking(w[p], r)) + Bit(r \in queue))
  BY <1>4, <1>6 DEF Chances, Ahead, Worth
<1>12. Chances(r)' = Worth(Open(r)', o \/ Does(w'[p], r), a + Bit(Putting(w'[p], r)),
                           s + Bit(Looking(w'[p], r)) + Bit((r \in queue)'))
  BY <1>4, <1>7 DEF Chances, Ahead, Worth
<1>13. Chances(r) \in Nat /\ Chances(r)' \in Nat
  BY <1>6, <1>11, <1>12 DEF Worth, Bit
<1>14. added'[r] + Owes(w'[p], r, Open(r)', (r \in queue)', o, s, a) + Spent
          <= added[r] + Owes(w[p], r, Open(r), r \in queue, o, s, a) + Spent'
  BY <1>6, <1>8, <1>9 DEF Balanced, o
<1>15. /\ Owes(w[p], r, Open(r), r \in queue, o, s, a) = Chances(r) + Bit(w[p].patch = "customer")
       /\ Owes(w'[p], r, Open(r)', (r \in queue)', o, s, a)
             = Chances(r)' + Bit(w'[p].patch = "customer")
  BY <1>11, <1>12 DEF Owes
<1>16. added[r] + Chances(r) + Cardinality(Billing) <= 1 + Spent
  BY DEF Counted
<1>17. /\ Bit(w[p].patch = "customer") \in Nat /\ Bit(w'[p].patch = "customer") \in Nat
  BY DEF Bit
<1>18. QED
  BY <1>6, <1>7, <1>10, <1>13, <1>14, <1>15, <1>16, <1>17

----------------------------------------------------------------------------
(* The ways in which a step of handler p is balanced for run r.              *)

\* The counts and the spending of a state.
LEMMA Tallies ==
    ASSUME TalliesOK, billed \in Nat, NEW r \in Run
    PROVE  Spent \in Nat /\ added[r] \in Nat
<1>1. Faults(Costly) \in Nat
  BY FaultsFinite DEF Faults, TalliesOK
<1>2. QED
  BY <1>1 DEF TalliesOK, Spent

\* What is spent is never got back; a costly fault is spent.
LEMMA Spending ==
    ASSUME TalliesOK, billed \in Nat, billed' = billed
    PROVE  /\ UNCHANGED faults => Spent' = Spent /\ faults' \in Seq(Ops)
           /\ \A op : Fault(op) => /\ faults' \in Seq(Ops)
                                   /\ op \in Costly => Spent' = Spent + 1
                                   /\ op \notin Costly => Spent' = Spent
<1>1. Faults(Costly) \in Nat
  BY FaultsFinite DEF Faults, TalliesOK
<1>2. ASSUME NEW op, Fault(op)
      PROVE  /\ faults' \in Seq(Ops)
             /\ op \in Costly => Spent' = Spent + 1
             /\ op \notin Costly => Spent' = Spent
  BY <1>1, <1>2, FaultCounted DEF TalliesOK, Spent
<1>3. ASSUME UNCHANGED faults PROVE Spent' = Spent /\ faults' \in Seq(Ops)
  BY <1>3 DEF Spent, Faults, TalliesOK
<1>4. QED
  BY <1>2, <1>3

\* Nothing opens; p stays with the run or without it, and passes the second
\* gate only of an open run.
LEMMA Keeps ==
    ASSUME NEW p, NEW r, added[r] \in Nat, Spent \in Nat, Spent' \in Nat,
           added'[r] = added[r], Spent' >= Spent, Open(r)' => Open(r),
           w'[p].patch = "customer" => w[p].patch = "customer",
           Does(w'[p], r) <=> Does(w[p], r),
           Looking(w'[p], r) => Looking(w[p], r),
           Putting(w'[p], r) => \/ Putting(w[p], r)
                                \/ Looking(w[p], r) /\ Open(r),
           \/ r \in queue' <=> r \in queue
           \/ ~Open(r) /\ (r \in queue' => r \in queue)
    PROVE  Balanced(p, r)
  BY DEF Balanced, Owes, Worth, Bit, Looking, Putting

\* The run is closed, and p leaves it.
LEMMA Closes ==
    ASSUME NEW p, NEW r, added[r] \in Nat, Spent \in Nat, Spent' \in Nat,
           added'[r] = added[r], Spent' >= Spent, ~Open(r)',
           w'[p].patch = "customer" => w[p].patch = "customer",
           ~Does(w'[p], r), r \in queue' <=> r \in queue
    PROVE  Balanced(p, r)
<1> SUFFICES ASSUME NEW s \in Nat, NEW a \in Nat, ~OthersDo(p, r) => s = 0 /\ a = 0
             PROVE  added'[r] + Owes(w'[p], r, Open(r)', (r \in queue)', OthersDo(p, r), s, a)
                       + Spent
                      <= added[r]
                         + Owes(w[p], r, Open(r), r \in queue, OthersDo(p, r), s, a) + Spent'
  BY DEF Balanced
<1> DEFINE later == s + Bit((r \in queue)')
           ahead == s + Bit(Looking(w[p], r)) + Bit(r \in queue)
<1>1. Bit(w'[p].patch = "customer") <= Bit(w[p].patch = "customer")
  BY DEF Bit
<1>2. Worth(Open(r)', OthersDo(p, r) \/ Does(w'[p], r), a + Bit(Putting(w'[p], r)),
            s + Bit(Looking(w'[p], r)) + Bit((r \in queue)'))
        = a + (IF later > 0 THEN later - 1 ELSE 0)
  BY DEF Worth, Bit, Looking, Putting
<1>3. later \in Nat /\ ahead \in Nat /\ later <= ahead
  BY DEF Bit
<1>4. a + (IF later > 0 THEN later - 1 ELSE 0)
        <= Worth(Open(r), OthersDo(p, r) \/ Does(w[p], r), a + Bit(Putting(w[p], r)), ahead)
  <2>1. CASE ~Open(r)
    BY <1>3, <2>1 DEF Worth, Bit
  <2>2. CASE Open(r) /\ (OthersDo(p, r) \/ Does(w[p], r))
    BY <1>3, <2>2 DEF Worth, Bit
  <2>3. CASE Open(r) /\ ~(OthersDo(p, r) \/ Does(w[p], r))
    BY <1>3, <2>3 DEF Worth, Bit
  <2>4. QED
    BY <2>1, <2>2, <2>3
<1>5. /\ Bit(w'[p].patch = "customer") \in Nat /\ Bit(w[p].patch = "customer") \in Nat
      /\ Worth(Open(r), OthersDo(p, r) \/ Does(w[p], r), a + Bit(Putting(w[p], r)), ahead) \in Nat
  BY <1>3 DEF Worth, Bit
<1> HIDE DEF later
<1>6. QED
  BY <1>1, <1>2, <1>3, <1>4, <1>5 DEF Owes

\* A costly fault pays for one more delivery, or for a pass that leaves an open
\* run.
LEMMA Costs ==
    ASSUME NEW p, NEW r, added[r] \in Nat, Spent \in Nat,
           added'[r] = added[r], Spent' = Spent + 1, Open(r)' => Open(r),
           w'[p].patch = "customer" => w[p].patch = "customer",
           Does(w'[p], r) => Does(w[p], r),
           Looking(w'[p], r) => Looking(w[p], r),
           Putting(w'[p], r) => Putting(w[p], r)
    PROVE  Balanced(p, r)
  BY DEF Balanced, Owes, Worth, Bit, Looking, Putting

\* A bill's write may open the run again: the bill pays.
LEMMA Reopens ==
    ASSUME NEW p, NEW r, added[r] \in Nat, Spent \in Nat,
           added'[r] = added[r], Spent' = Spent,
           w[p].patch = "customer", w'[p].patch # "customer",
           ~Looking(w[p], r), ~Putting(w[p], r), ~Does(w'[p], r),
           r \in queue' <=> r \in queue
    PROVE  Balanced(p, r)
  BY DEF Balanced, Owes, Worth, Bit, Looking, Putting

\* A run nobody works at is queued.
LEMMA Queued ==
    ASSUME NEW p, NEW r, added[r] \in Nat, Spent \in Nat,
           added'[r] = added[r], Spent' = Spent, Open(r)' => Open(r),
           w'[p].patch = "customer" => w[p].patch = "customer",
           ~OthersDo(p, r), ~Does(w[p], r), ~Does(w'[p], r), r \notin queue
    PROVE  Balanced(p, r)
  BY DEF Balanced, Owes, Worth, Bit, Looking, Putting

\* A bill begins.
LEMMA Bills ==
    ASSUME NEW p, NEW r, added[r] \in Nat, Spent \in Nat,
           added'[r] = added[r], Spent' = Spent + 1, Open(r)' => Open(r),
           ~Does(w[p], r), ~Does(w'[p], r), r \in queue' <=> r \in queue
    PROVE  Balanced(p, r)
  BY DEF Balanced, Owes, Worth, Bit, Looking, Putting

\* An open run leaves the queue for a handler.
LEMMA Delivered ==
    ASSUME NEW p, NEW r, added[r] \in Nat, Spent \in Nat,
           added'[r] = added[r], Spent' = Spent, Open(r)' => Open(r), Open(r),
           w'[p].patch = "customer" => w[p].patch = "customer",
           ~Does(w[p], r), Looking(w'[p], r), r \in queue, r \notin queue'
    PROVE  Balanced(p, r)
  BY DEF Balanced, Owes, Worth, Bit, Looking, Putting

\* A pass adds what it found.
LEMMA Adds ==
    ASSUME NEW p, NEW r, added[r] \in Nat, Spent \in Nat,
           added'[r] = added[r] + 1, Spent' = Spent, Open(r)' => Open(r),
           w'[p].patch = "customer" => w[p].patch = "customer",
           Putting(w[p], r), ~Putting(w'[p], r), ~Looking(w'[p], r), Does(w'[p], r),
           r \in queue' <=> r \in queue
    PROVE  Balanced(p, r)
  BY DEF Balanced, Owes, Worth, Bit, Looking, Putting

----------------------------------------------------------------------------
(* What a step of handler p leaves of the invariant, apart from the balance. *)

\* What p does next is what the step says; the others do what they did.
LEMMA TaskSet ==
    ASSUME IInv, NEW p \in Workers, NEW h, w' = [w EXCEPT ![p] = h] \/ Bump(p, h)
    PROVE  w'[p] = h /\ Beside(p)
<1>1. CASE w' = [w EXCEPT ![p] = h]
  BY <1>1 DEF IInv, Beside
<1>2. CASE Bump(p, h)
  <2>1. w'[p] = h
    BY <1>2 DEF Bump
  <2>2. ASSUME NEW q \in Workers \ {p}
        PROVE  /\ w'[q].job = w[q].job /\ w'[q].run = w[q].run
               /\ w'[q].pc = w[q].pc /\ w'[q].patch = w[q].patch
    <3>1. w'[q] = [w[q] EXCEPT !.fresh = FALSE]
      BY <1>2 DEF Bump
    <3>2. QED
      BY <3>1, Facts DEF Handlers
  <2>3. QED
    BY <2>1, <2>2 DEF Beside
<1>3. QED
  BY <1>1, <1>2

\* A handler that ends has no task.
LEMMA Ended ==
    ASSUME IInv, NEW p \in Workers, Finish(p) \/ Bump(p, Idle)
    PROVE  /\ w'[p] = Idle /\ Beside(p)
           /\ ~w'[p].job /\ w'[p].pc = "idle" /\ w'[p].patch = "none"
<1>1. w'[p] = Idle /\ Beside(p)
  BY TaskSet DEF Finish
<1>2. QED
  BY <1>1 DEF Idle

\* A handler that goes on keeps its task.
LEMMA Gone ==
    ASSUME IInv, NEW p \in Workers, NEW pc, Goto(p, pc)
    PROVE  /\ Beside(p) /\ w'[p].pc = pc /\ w'[p].job = w[p].job
           /\ w'[p].run = w[p].run /\ w'[p].patch = w[p].patch
<1> DEFINE h == [w[p] EXCEPT !.pc = pc]
<1>1. w' = [w EXCEPT ![p] = h]
  BY DEF Goto, IInv
<1>2. w'[p] = h /\ Beside(p)
  BY <1>1, TaskSet
<1>3. QED
  BY <1>2, Facts DEF Handlers

\* So does one that will write an outcome.
LEMMA Reporting ==
    ASSUME IInv, NEW p \in Workers, NEW patch, StartFields(p, patch)
    PROVE  /\ Beside(p) /\ w'[p].pc = "fields_read" /\ w'[p].job = w[p].job
           /\ w'[p].run = w[p].run /\ w'[p].patch = patch
<1> DEFINE h == [w[p] EXCEPT !.pc = "fields_read", !.patch = patch]
<1>1. w' = [w EXCEPT ![p] = h]
  BY DEF StartFields, IInv
<1>2. w'[p] = h /\ Beside(p)
  BY <1>1, TaskSet
<1>3. QED
  BY <1>2, Facts DEF Handlers

LEMMA PublishKept ==
    ASSUME IInv, PublishOK, NEW p \in Workers, Beside(p), w'[p].pc # "publish",
           \A q \in Workers \ {p} : At(q, "publish") => w[q].run \notin queue',
           w'[p].job => \/ w[p].job /\ w'[p].run = w[p].run
                        \/ w'[p].run \in queue
    PROVE  PublishOK'
<1> SUFFICES ASSUME NEW q \in Workers, w'[q].pc = "publish"
             PROVE  /\ w'[q].run \notin queue'
                    /\ \A k \in Workers : ~(w'[k].job /\ w'[k].run = w'[q].run)
                    /\ \A k \in Workers \ {q} : w'[k].pc = "publish" => w'[k].run # w'[q].run
  BY DEF PublishOK, At, Working
<1>1. q # p /\ w[q].pc = "publish" /\ w'[q].run = w[q].run
  BY DEF Beside
<1>2. ~Working(w[q].run) /\ w[q].run \notin queue
  BY <1>1 DEF PublishOK, At
<1>3. ASSUME NEW k \in Workers, w'[k].job PROVE w'[k].run # w[q].run
  <2>1. CASE k = p
    BY <1>2, <1>3, <2>1 DEF Working
  <2>2. CASE k # p
    BY <1>2, <1>3, <2>2 DEF Working, Beside
  <2>3. QED
    BY <2>1, <2>2
<1>4. ASSUME NEW k \in Workers \ {q}, w'[k].pc = "publish" PROVE w'[k].run # w[q].run
  <2>1. k # p
    BY <1>4
  <2>2. w[k].pc = "publish" /\ w'[k].run = w[k].run
    BY <1>4, <2>1 DEF Beside
  <2>3. QED
    BY <1>1, <1>4, <2>2 DEF PublishOK, At
<1>5. QED
  BY <1>1, <1>3, <1>4 DEF At

LEMMA OnceStep ==
    ASSUME IInv, IInv', Once, NEW p \in Workers, Beside(p), faults' \in Seq(Ops),
           added' \in [Run -> Nat], PublishOK', Fits(w'[p]),
           \A r \in Run : Balanced(p, r)
    PROVE  Once'
<1>1. TalliesOK'
  BY DEF TalliesOK
<1>2. JobsOK'
  <2> SUFFICES ASSUME NEW q \in Workers PROVE Fits(w'[q])
    BY DEF JobsOK, Fits
  <2>1. CASE q = p
    BY <2>1
  <2>2. CASE q # p
    BY <2>2 DEF Once, JobsOK, Beside, Fits
  <2>3. QED
    BY <2>1, <2>2
<1>3. billed \in Nat /\ billed' \in Nat
  BY DEF IInv, RowOK
<1>4. Counted'
  BY <1>1, <1>3, CountedStep DEF Once
<1>5. QED
  BY <1>1, <1>2, <1>4 DEF Once

\* A row and a number of runs that stay open no run.
LEMMA RowStays ==
    ASSUME brief' = brief, runs' = runs, NEW r PROVE Open(r)' <=> Open(r)
  BY DEF Open, ShouldPersistRun

\* What a handler in no other's way may do that is not the job: anything but
\* open a run, queue one or begin a bill.
LEMMA Unhired ==
    ASSUME IInv, IInv', Once, NEW p \in Workers, Beside(p), ~w[p].job, ~w'[p].job,
           w'[p].pc # "publish", Fits(w'[p]),
           w'[p].patch = "customer" => w[p].patch = "customer",
           UNCHANGED <<queue, added, billed>>,
           UNCHANGED faults \/ (\E op : Fault(op)),
           \A r \in Run : Open(r)' => Open(r)
    PROVE  Once'
<1>1. TalliesOK /\ PublishOK /\ billed \in Nat
  BY DEF Once, IInv, RowOK
<1>2. faults' \in Seq(Ops) /\ Spent' >= Spent /\ Spent \in Nat /\ Spent' \in Nat
  <2>1. Faults(Costly) \in Nat
    BY <1>1, FaultsFinite DEF Faults, TalliesOK
  <2>2. Spent \in Nat
    BY <1>1, <2>1 DEF Spent
  <2>3. QED
    BY <1>1, <2>2, Spending
<1>3. PublishOK'
  BY <1>1, PublishKept DEF PublishOK
<1>4. ASSUME NEW r \in Run PROVE Balanced(p, r)
  <2>1. ~Does(w[p], r) /\ ~Does(w'[p], r)
    BY DEF Does
  <2>2. ~Looking(w'[p], r) /\ ~Putting(w'[p], r)
    BY <2>1 DEF Looking, Putting
  <2>3. added[r] \in Nat
    BY <1>1, Tallies
  <2>4. QED
    BY <1>2, <2>1, <2>2, <2>3, Keeps
<1>5. added' \in [Run -> Nat]
  BY <1>1 DEF TalliesOK
<1>6. QED
  BY <1>2, <1>3, <1>4, <1>5, OnceStep

----------------------------------------------------------------------------
(* The steps, one by one.                                                    *)

\* A handler at a place where the job never is.
LEMMA NotTheJob ==
    ASSUME Once, NEW p \in Workers, w[p] = Idle \/ w[p].pc \notin JobPcs
    PROVE  ~w[p].job
  BY DEF Once, JobsOK, Idle, Fits

LEMMA StartOnce ==
    ASSUME IInv, IInv', Once, NEW p \in Workers,
           StartLoad(p) \/ ClaimRead(p) \/ EnqueueFailed(p)
    PROVE  Once'
<1>1. /\ UNCHANGED <<brief, runs, queue, added, billed>>
      /\ UNCHANGED faults \/ (\E op : Fault(op))
  BY DEF StartLoad, ClaimRead, EnqueueFailed, rowVars, qVars
<1>2. \A r \in Run : Open(r)' => Open(r)
  BY <1>1, RowStays
<1>3. ~w[p].job
  BY NotTheJob DEF StartLoad, ClaimRead, EnqueueFailed, Request, At, JobPcs
<1>4. CASE Finish(p)
  BY <1>1, <1>2, <1>3, <1>4, Ended, Unhired DEF Fits
<1>5. CASE StartLoad(p) /\ ~Finish(p)
  <2> DEFINE h == [Idle EXCEPT !.pc = "claim_read", !.run = brief.run]
  <2>1. w' = [w EXCEPT ![p] = h]
    BY <1>5 DEF StartLoad, Finish
  <2>2. w'[p] = h /\ Beside(p)
    BY <2>1, TaskSet
  <2>3. ~w'[p].job /\ w'[p].pc = "claim_read" /\ w'[p].patch = "none"
    BY <2>2 DEF Idle
  <2>4. QED
    BY <1>1, <1>2, <1>3, <2>2, <2>3, Unhired DEF Fits
<1>6. CASE ClaimRead(p) /\ ~Finish(p)
  <2> DEFINE h == [w[p] EXCEPT !.copy = brief, !.fresh = TRUE, !.pc = "claim"]
  <2>1. w' = [w EXCEPT ![p] = h]
    BY <1>6 DEF ClaimRead, ReadRow, IInv
  <2>2. w'[p] = h /\ Beside(p)
    BY <2>1, TaskSet
  <2>3. w'[p].job = w[p].job /\ w'[p].pc = "claim" /\ w'[p].patch = w[p].patch
    BY <2>2, Facts DEF Handlers
  <2>4. QED
    BY <1>1, <1>2, <1>3, <2>2, <2>3, Unhired DEF Fits
<1>7. CASE EnqueueFailed(p) /\ ~Finish(p)
  <2>1. StartFields(p, "failed")
    BY <1>7 DEF EnqueueFailed
  <2>2. QED
    BY <1>1, <1>2, <1>3, <2>1, Reporting, Unhired DEF Fits
<1>8. QED
  BY <1>4, <1>5, <1>6, <1>7

LEMMA ClaimOnce == ASSUME IInv, IInv', Once, NEW p \in Workers, ClaimWrite(p) PROVE Once'
<1>1. UNCHANGED <<faults, queue, added, billed>>
  BY DEF ClaimWrite
<1>2. ~w[p].job
  BY NotTheJob DEF ClaimWrite, At, JobPcs
<1>3. CASE ~Unmoved(p)
  <2>1. Finish(p) /\ UNCHANGED <<brief, runs>>
    BY <1>3 DEF ClaimWrite, Guarded
  <2>2. \A r \in Run : Open(r)' => Open(r)
    BY <2>1, RowStays
  <2>3. QED
    BY <1>1, <1>2, <2>1, <2>2, Ended, Unhired DEF Fits
<1>4. CASE Unmoved(p)
  <2> DEFINE mine == [Idle EXCEPT !.pc = "publish", !.run = runs + 1]
  <2>1. /\ brief' = [w[p].copy EXCEPT !.status = "running", !.run = runs + 1]
        /\ Bump(p, mine) /\ runs' = runs + 1
    BY <1>4 DEF ClaimWrite, Guarded
  <2>2. w'[p] = mine /\ Beside(p)
    BY <2>1, TaskSet
  <2>3. /\ ~w'[p].job /\ w'[p].pc = "publish" /\ w'[p].patch = "none"
        /\ w'[p].run = runs + 1
    BY <2>2 DEF Idle
  <2>4. brief'.run = runs + 1
    BY <2>1, Facts DEF Handlers, Rows
  <2>5. runs \in Nat /\ queue \subseteq 0 .. runs /\ billed \in Nat
    BY Facts
  <2>6. \A q \in Workers : w[q].run <= runs /\ w[q].run \in Nat
    BY Facts DEF HandlerOK, Handlers
  <2>7. ASSUME NEW r \in Run PROVE Balanced(p, r)
    <3>1. r \in Nat
      BY BoundsAssumption DEF Run
    <3>2. Open(r)' => Open(r)
      BY <2>1, <2>4, <2>5, <3>1 DEF Open, ShouldPersistRun
    <3>3. ~Does(w[p], r) /\ ~Does(w'[p], r)
      BY <1>2, <2>3 DEF Does
    <3>4. ~Looking(w'[p], r) /\ ~Putting(w'[p], r)
      BY <3>3 DEF Looking, Putting
    <3>5. added[r] \in Nat /\ Spent \in Nat /\ Spent' = Spent
      BY <1>1, <2>5, Tallies, Spending DEF Once
    <3>6. QED
      BY <1>1, <2>3, <3>2, <3>3, <3>4, <3>5, Keeps
  <2>8. PublishOK'
    <3> SUFFICES ASSUME NEW q \in Workers, w'[q].pc = "publish"
                 PROVE  /\ w'[q].run \notin queue
                        /\ \A k \in Workers : ~(w'[k].job /\ w'[k].run = w'[q].run)
                        /\ \A k \in Workers \ {q} :
                              w'[k].pc = "publish" => w'[k].run # w'[q].run
      BY <1>1 DEF PublishOK, At, Working
    <3>1. CASE q = p
      <4>1. ASSUME NEW k \in Workers \ {p} PROVE w'[k].run # runs + 1
        BY <2>2, <2>5, <2>6, <4>1 DEF Beside
      <4>2. runs + 1 \notin queue
        BY <2>5
      <4>3. QED
        BY <2>3, <3>1, <4>1, <4>2
    <3>2. CASE q # p
      <4>1. /\ w[q].pc = "publish" /\ w'[q].run = w[q].run
            /\ w[q].run # runs + 1 /\ w[q].run \notin queue /\ ~Working(w[q].run)
        BY <2>2, <2>5, <2>6, <3>2 DEF Beside, Once, PublishOK, At
      <4>2. ASSUME NEW k \in Workers PROVE ~(w'[k].job /\ w'[k].run = w[q].run)
        BY <2>2, <2>3, <4>1 DEF Beside, Working
      <4>3. ASSUME NEW k \in Workers \ {q}, w'[k].pc = "publish"
            PROVE  w'[k].run # w[q].run
        <5>1. CASE k = p
          BY <2>3, <4>1, <5>1
        <5>2. CASE k # p
          <6>1. w[k].pc = "publish" /\ w'[k].run = w[k].run
            BY <2>2, <4>3, <5>2 DEF Beside
          <6>2. QED
            BY <4>1, <4>3, <6>1 DEF Once, PublishOK, At
        <5>3. QED
          BY <5>1, <5>2
      <4>4. QED
        BY <4>1, <4>2, <4>3
    <3>3. QED
      BY <3>1, <3>2
  <2>9. faults' \in Seq(Ops) /\ added' \in [Run -> Nat]
    BY <1>1 DEF Once, TalliesOK
  <2>10. QED
    BY <2>2, <2>3, <2>7, <2>8, <2>9, OnceStep DEF Fits
<1>5. QED
  BY <1>3, <1>4

\* The one delivery of a run just claimed, which nobody works at yet.
LEMMA PublishOnce == ASSUME IInv, IInv', Once, NEW p \in Workers, Publish(p) PROVE Once'
<1>1. /\ UNCHANGED <<brief, runs, added, billed>>
      /\ queue' = queue \/ queue' = queue \cup {w[p].run}
      /\ Finish(p) \/ Goto(p, "enqueue_failed")
      /\ UNCHANGED faults \/ Fault("publish")
  BY DEF Publish, rowVars
<1>2. ~w[p].job /\ At(p, "publish")
  BY NotTheJob DEF Publish, At, JobPcs
<1>3. /\ Beside(p) /\ ~w'[p].job /\ w'[p].pc \in {"idle", "enqueue_failed"}
      /\ w'[p].patch = "customer" => w[p].patch = "customer"
  BY <1>1, <1>2, Ended, Gone
<1>4. /\ w[p].run \notin queue /\ ~Working(w[p].run)
      /\ \A q \in Workers \ {p} : At(q, "publish") =>
            w[q].run # w[p].run /\ w[q].run \notin queue
  BY <1>2 DEF Once, PublishOK
<1>5. billed \in Nat /\ TalliesOK /\ PublishOK
  BY Facts DEF Once
<1>6. Spent' = Spent /\ faults' \in Seq(Ops)
  BY <1>1, <1>5, Spending DEF Costly
<1>7. PublishOK'
  BY <1>1, <1>3, <1>4, <1>5, PublishKept
<1>8. ASSUME NEW r \in Run PROVE Balanced(p, r)
  <2>1. ~Does(w[p], r) /\ ~Does(w'[p], r)
    BY <1>2, <1>3 DEF Does
  <2>2. ~Looking(w'[p], r) /\ ~Putting(w'[p], r)
    BY <2>1 DEF Looking, Putting
  <2>3. added[r] \in Nat /\ Spent \in Nat /\ (Open(r)' => Open(r))
    BY <1>1, <1>5, Tallies, RowStays
  <2>4. CASE r \in queue' <=> r \in queue
    BY <1>1, <1>3, <1>6, <2>1, <2>2, <2>3, <2>4, Keeps
  <2>5. CASE ~(r \in queue' <=> r \in queue)
    <3>1. r = w[p].run /\ r \notin queue
      BY <1>1, <2>5
    <3>2. ~OthersDo(p, r)
      BY <1>4, <3>1 DEF OthersDo, Working, Does
    <3>3. QED
      BY <1>1, <1>3, <1>6, <2>1, <2>3, <3>1, <3>2, Queued
  <2>6. QED
    BY <2>4, <2>5
<1>9. added' \in [Run -> Nat]
  BY <1>1, <1>5 DEF TalliesOK
<1>10. QED
  BY <1>3, <1>6, <1>7, <1>8, <1>9, OnceStep DEF Fits

\* A step of p that queues nothing and takes nothing from the queue.
LEMMA QueueStays ==
    ASSUME IInv, IInv', Once, NEW p \in Workers, Beside(p), w'[p].pc # "publish",
           w'[p].job => w[p].job /\ w'[p].run = w[p].run, Fits(w'[p]),
           queue' = queue, faults' \in Seq(Ops), added' \in [Run -> Nat],
           \A r \in Run : Balanced(p, r)
    PROVE  Once'
<1>1. PublishOK'
  BY PublishKept DEF Once, PublishOK
<1>2. QED
  BY <1>1, OnceStep

LEMMA DeliverOnce == ASSUME IInv, IInv', Once, NEW p \in Workers, Deliver(p) PROVE Once'
<1>1. /\ UNCHANGED <<brief, runs, added, billed>> /\ w[p] = Idle
  BY DEF Deliver, rowVars
<1>2. PICK d \in queue :
        /\ queue' = queue \ {d}
        /\ \/ /\ ShouldPersistRun(d)
              /\ w' = [w EXCEPT ![p] = [Idle EXCEPT !.pc = "generate", !.run = d, !.job = TRUE,
                             !.room = IF Cardinality(pool) < Cap
                                      THEN Cap - Cardinality(pool) ELSE 0]]
              /\ UNCHANGED faults
           \/ ~ShouldPersistRun(d) /\ UNCHANGED <<w, faults>>
           \/ Fault("outage") /\ UNCHANGED w
  BY DEF Deliver
<1>3. billed \in Nat /\ TalliesOK /\ PublishOK /\ runs \in Nat /\ queue \subseteq 0 .. runs
  BY Facts DEF Once
<1>4. ~w[p].job /\ w[p].pc = "idle" /\ w[p].patch = "none"
  BY <1>1 DEF Idle
<1>5. ASSUME NEW r \in Run
      PROVE  /\ ~Does(w[p], r) /\ added[r] \in Nat /\ Spent \in Nat
             /\ Open(r)' => Open(r)
  BY <1>1, <1>3, <1>4, Tallies, RowStays DEF Does
<1>6. added' \in [Run -> Nat]
  BY <1>1, <1>3 DEF TalliesOK
<1>7. \A q \in Workers \ {p} : At(q, "publish") => w[q].run \notin queue'
  BY <1>2, <1>3 DEF PublishOK
<1>8. CASE UNCHANGED w
  <2>1. Beside(p) /\ w'[p] = w[p]
    BY <1>8 DEF Beside
  <2>2. PublishOK'
    BY <1>3, <1>4, <1>7, <2>1, PublishKept
  <2>3. ASSUME NEW r \in Run PROVE ~Does(w'[p], r) /\ ~Looking(w'[p], r) /\ ~Putting(w'[p], r)
    BY <1>5, <2>1, <2>3 DEF Looking, Putting
  <2>4. CASE Fault("outage")
    <3>1. Spent' = Spent + 1 /\ faults' \in Seq(Ops)
      BY <1>1, <1>3, <2>4, Spending DEF Costly
    <3>2. ASSUME NEW r \in Run PROVE Balanced(p, r)
      BY <1>1, <1>4, <1>5, <2>1, <2>3, <3>1, Costs
    <3>3. QED
      BY <1>4, <1>6, <2>1, <2>2, <3>1, <3>2, OnceStep DEF Fits
  <2>5. CASE ~ShouldPersistRun(d) /\ UNCHANGED faults
    <3>1. Spent' = Spent /\ faults' \in Seq(Ops)
      BY <1>1, <1>3, <2>5, Spending
    <3>2. ASSUME NEW r \in Run PROVE Balanced(p, r)
      <4>1. (r \in queue' <=> r \in queue) \/ (~Open(r) /\ (r \in queue' => r \in queue))
        BY <1>2, <1>3, <2>5 DEF Open
      <4>2. QED
        BY <1>1, <1>4, <1>5, <2>1, <2>3, <3>1, <4>1, Keeps
    <3>3. QED
      BY <1>4, <1>6, <2>1, <2>2, <3>1, <3>2, OnceStep DEF Fits
  <2>6. CASE ShouldPersistRun(d) /\ ~Fault("outage")
    <3> DEFINE room == IF Cardinality(pool) < Cap THEN Cap - Cardinality(pool) ELSE 0
               h == [Idle EXCEPT !.pc = "generate", !.run = d, !.job = TRUE, !.room = room]
    <3>1. w' = [w EXCEPT ![p] = h]
      BY <1>2, <2>6
    <3>2. w'[p] = h
      BY <3>1, TaskSet
    <3>3. w'[p].job
      BY <3>2 DEF Idle
    <3>4. QED
      BY <1>4, <2>1, <3>3
  <2>7. QED
    BY <1>2, <2>4, <2>5, <2>6
<1>9. ASSUME ShouldPersistRun(d), UNCHANGED faults, NEW room,
             w' = [w EXCEPT ![p] = [Idle EXCEPT !.pc = "generate", !.run = d, !.job = TRUE,
                                                !.room = room]]
      PROVE  Once'
  <2> DEFINE h == [Idle EXCEPT !.pc = "generate", !.run = d, !.job = TRUE, !.room = room]
  <2>1. w'[p] = h /\ Beside(p)
    BY <1>9, TaskSet
  <2>2. /\ w'[p].job /\ w'[p].pc = "generate" /\ w'[p].patch = "none"
        /\ w'[p].run = d
    BY <2>1 DEF Idle
  <2>3. PublishOK'
    BY <1>3, <1>7, <2>1, <2>2, PublishKept
  <2>4. Spent' = Spent /\ faults' \in Seq(Ops)
    BY <1>1, <1>3, <1>9, Spending
  <2>5. ASSUME NEW r \in Run PROVE Balanced(p, r)
    <3>1. CASE r = d
      <4>1. Looking(w'[p], r) /\ Open(r) /\ r \in queue /\ r \notin queue'
        BY <1>2, <1>9, <2>2, <3>1 DEF Looking, Does, Open
      <4>2. QED
        BY <1>1, <1>5, <2>2, <2>4, <4>1, Delivered
    <3>2. CASE r # d
      <4>1. ~Does(w'[p], r) /\ ~Looking(w'[p], r) /\ ~Putting(w'[p], r)
        BY <2>2, <3>2 DEF Looking, Putting, Does
      <4>2. r \in queue' <=> r \in queue
        BY <1>2, <3>2
      <4>3. QED
        BY <1>1, <1>5, <2>2, <2>4, <4>1, <4>2, Keeps
    <3>3. QED
      BY <3>1, <3>2
  <2>6. QED
    BY <1>6, <2>1, <2>2, <2>3, <2>4, <2>5, OnceStep DEF JobPcs, Fits
<1>10. QED
  BY <1>2, <1>8, <1>9

\* What the job's steps have in common.
LEMMA AtWork ==
    ASSUME IInv, Once, NEW p \in Workers, NEW r \in Run,
           UNCHANGED <<brief, runs, billed>>
    PROVE  /\ added[r] \in Nat /\ Spent \in Nat /\ (Open(r)' => Open(r))
           /\ UNCHANGED faults => Spent' = Spent
           /\ Fault("outage") \/ Fault("kill") => Spent' = Spent + 1
<1>1. billed \in Nat /\ TalliesOK
  BY Facts DEF Once
<1>2. QED
  BY <1>1, Tallies, RowStays, Spending DEF Costly

\* A handler that goes on, or ends, with what it had to do.
LEMMA GoesOn ==
    ASSUME IInv, IInv', Once, NEW p \in Workers, Beside(p), w'[p].pc # "publish",
           w'[p].job => w[p].job /\ w'[p].run = w[p].run, Fits(w'[p]),
           UNCHANGED <<brief, runs, queue, added, billed>>,
           w'[p].patch = "customer" => w[p].patch = "customer",
           \/ /\ UNCHANGED faults
              /\ \A r \in Run :
                    /\ Does(w'[p], r) <=> Does(w[p], r)
                    /\ Looking(w'[p], r) => Looking(w[p], r)
                    /\ Putting(w'[p], r) => \/ Putting(w[p], r)
                                            \/ Looking(w[p], r) /\ Open(r)
           \/ /\ Fault("outage")
              /\ \A r \in Run :
                    /\ Does(w'[p], r) => Does(w[p], r)
                    /\ Looking(w'[p], r) => Looking(w[p], r)
                    /\ Putting(w'[p], r) => Putting(w[p], r)
           \/ /\ UNCHANGED faults
              /\ \A r \in Run : ~Does(w'[p], r)
              /\ ~ShouldPersistRun(w[p].run)
    PROVE  Once'
<1>1. billed \in Nat /\ TalliesOK /\ runs \in Nat /\ w[p].run <= runs /\ w[p].run \in Nat
  BY Facts DEF Once, HandlerOK, Handlers
<1>2. faults' \in Seq(Ops) /\ added' \in [Run -> Nat]
  BY <1>1, Spending DEF TalliesOK
<1>3. ASSUME NEW r \in Run PROVE Balanced(p, r)
  <2>1. /\ added[r] \in Nat /\ Spent \in Nat /\ (Open(r)' => Open(r))
        /\ UNCHANGED faults => Spent' = Spent
        /\ Fault("outage") => Spent' = Spent + 1
    BY AtWork
  <2>2. CASE /\ UNCHANGED faults
             /\ Does(w'[p], r) <=> Does(w[p], r)
             /\ Looking(w'[p], r) => Looking(w[p], r)
             /\ Putting(w'[p], r) => \/ Putting(w[p], r)
                                     \/ Looking(w[p], r) /\ Open(r)
    BY <2>1, <2>2, Keeps
  <2>3. CASE /\ Fault("outage")
             /\ Does(w'[p], r) => Does(w[p], r)
             /\ Looking(w'[p], r) => Looking(w[p], r)
             /\ Putting(w'[p], r) => Putting(w[p], r)
    BY <2>1, <2>3, Costs
  <2>4. CASE UNCHANGED faults /\ ~Does(w'[p], r) /\ ~ShouldPersistRun(w[p].run)
    <3>1. CASE Does(w[p], r)
      <4>1. r = w[p].run /\ ~Open(r)
        BY <1>1, <2>4, <3>1 DEF Does, Open
      <4>2. ~Open(r)'
        BY <2>1, <4>1
      <4>3. QED
        BY <2>1, <2>4, <4>2, Closes
    <3>2. CASE ~Does(w[p], r)
      BY <2>1, <2>4, <3>2, Keeps DEF Looking, Putting
    <3>3. QED
      BY <3>1, <3>2
  <2>5. QED
    BY <2>2, <2>3, <2>4
<1>4. QED
  BY <1>2, <1>3, QueueStays

LEMMA GateOnce ==
    ASSUME IInv, IInv', Once, NEW p \in Workers,
           Generate(p) \/ SecondGate(p) \/ FinishGate(p)
    PROVE  Once'
<1>1. UNCHANGED <<brief, runs, queue, added, billed>>
  BY DEF Generate, SecondGate, FinishGate, rowVars, qVars
<1>2. Fits(w[p])
  BY DEF Once, JobsOK
<1>3. CASE Generate(p)
  <2>1. /\ Beside(p) /\ w'[p].pc \in {"second_gate", "finish_gate"}
        /\ w'[p].job = w[p].job /\ w'[p].run = w[p].run /\ w'[p].patch = w[p].patch
    <3>1. CASE Goto(p, "finish_gate")
      BY <3>1, Gone
    <3>2. ASSUME NEW found \in Passes,
                 w' = [w EXCEPT ![p].found = found, ![p].pc = "second_gate"]
          PROVE  /\ Beside(p) /\ w'[p].pc = "second_gate"
                 /\ w'[p].job = w[p].job /\ w'[p].run = w[p].run
                 /\ w'[p].patch = w[p].patch
      <4> DEFINE h == [w[p] EXCEPT !.found = found, !.pc = "second_gate"]
      <4>1. w' = [w EXCEPT ![p] = h]
        BY <3>2 DEF IInv
      <4>2. w'[p] = h /\ Beside(p)
        BY <4>1, TaskSet
      <4>3. QED
        BY <4>2, Facts DEF Handlers
    <3>3. QED
      BY <1>3, <3>1, <3>2 DEF Generate
  <2>2. ASSUME NEW r \in Run
        PROVE  /\ Does(w'[p], r) <=> Does(w[p], r)
               /\ Looking(w'[p], r) => Looking(w[p], r)
               /\ ~Putting(w'[p], r)
    BY <1>3, <2>1 DEF Generate, At, Does, Looking, Putting
  <2>3. UNCHANGED faults
    BY <1>3 DEF Generate
  <2>4. QED
    BY <1>1, <1>2, <1>3, <2>1, <2>2, <2>3, GoesOn DEF JobPcs, Fits, Generate, At
<1>4. CASE SecondGate(p) /\ Goto(p, "add") /\ ShouldPersistRun(w[p].run) /\ UNCHANGED faults
  <2>1. /\ Beside(p) /\ w'[p].pc = "add" /\ w'[p].job = w[p].job
        /\ w'[p].run = w[p].run /\ w'[p].patch = w[p].patch
    BY <1>4, Gone
  <2>2. ASSUME NEW r \in Run
        PROVE  /\ Does(w'[p], r) <=> Does(w[p], r)
               /\ ~Looking(w'[p], r)
               /\ Putting(w'[p], r) => Looking(w[p], r) /\ Open(r)
    BY <1>4, <2>1 DEF SecondGate, At, Does, Looking, Putting, Open
  <2>3. QED
    BY <1>1, <1>2, <1>4, <2>1, <2>2, GoesOn DEF JobPcs, Fits, SecondGate, At
<1>5. CASE Finish(p) /\ (Fault("outage") \/ (UNCHANGED faults /\ ~ShouldPersistRun(w[p].run)))
  <2>1. /\ Beside(p) /\ ~w'[p].job /\ w'[p].pc = "idle" /\ w'[p].patch = "none"
    BY <1>5, Ended
  <2>2. ASSUME NEW r \in Run
        PROVE  ~Does(w'[p], r) /\ ~Looking(w'[p], r) /\ ~Putting(w'[p], r)
    BY <2>1 DEF Does, Looking, Putting
  <2>3. QED
    BY <1>1, <1>5, <2>1, <2>2, GoesOn DEF Fits
<1>6. CASE FinishGate(p) /\ StartFields(p, "failed") /\ (UNCHANGED faults \/ Fault("outage"))
  <2>1. /\ Beside(p) /\ w'[p].pc = "fields_read" /\ w'[p].job = w[p].job
        /\ w'[p].run = w[p].run /\ w'[p].patch = "failed"
    BY <1>6, Reporting
  <2>2. ASSUME NEW r \in Run
        PROVE  /\ Does(w'[p], r) <=> Does(w[p], r)
               /\ ~Looking(w'[p], r) /\ ~Putting(w'[p], r)
    BY <2>1 DEF Does, Looking, Putting
  <2>3. QED
    BY <1>1, <1>6, <2>1, <2>2, GoesOn DEF JobPcs, Fits
<1>7. QED
  BY <1>3, <1>4, <1>5, <1>6 DEF SecondGate, FinishGate

\* The add: one more pass, of a run that will be closed.
LEMMA JobAddOnce == ASSUME IInv, IInv', Once, NEW p \in Workers, JobAdd(p) PROVE Once'
<1> DEFINE next == [w[p] EXCEPT !.pc = "fields_read", !.patch = "completed",
                               !.room = 0, !.found.core = {}]
           d == w[p].run
<1>1. UNCHANGED <<brief, runs, queue, billed>> /\ w[p].pc = "add"
  BY DEF JobAdd, At
<1>2. Fits(w[p])
  BY DEF Once, JobsOK
<1>3. CASE Fault("outage") /\ Goto(p, "finish_gate") /\ UNCHANGED added
  <2>1. /\ Beside(p) /\ w'[p].pc = "finish_gate" /\ w'[p].job = w[p].job
        /\ w'[p].run = w[p].run /\ w'[p].patch = w[p].patch
    BY <1>3, Gone
  <2>2. ASSUME NEW r \in Run
        PROVE  /\ Does(w'[p], r) => Does(w[p], r)
               /\ ~Looking(w'[p], r) /\ ~Putting(w'[p], r)
    BY <2>1 DEF Does, Looking, Putting
  <2>3. QED
    BY <1>1, <1>3, <2>1, <2>2, GoesOn DEF JobPcs, Fits
<1>4. ASSUME UNCHANGED faults,
             \/ w' = [w EXCEPT ![p] = next] /\ UNCHANGED added
             \/ Bump(p, next) /\ added' = [added EXCEPT ![d] = @ + 1]
      PROVE  Once'
  <2>1. w'[p] = next /\ Beside(p)
    BY <1>4, TaskSet
  <2>2. /\ w'[p].pc = "fields_read" /\ w'[p].job = w[p].job
        /\ w'[p].run = w[p].run /\ w'[p].patch = "completed"
    BY <2>1, Facts DEF Handlers
  <2>3. billed \in Nat /\ TalliesOK
    BY Facts DEF Once
  <2>4. added' \in [Run -> Nat] /\ faults' \in Seq(Ops)
    BY <1>1, <1>4, <2>3, Spending DEF TalliesOK
  <2>5. ASSUME NEW r \in Run PROVE Balanced(p, r)
    <3>1. /\ added[r] \in Nat /\ Spent \in Nat /\ Spent' = Spent
          /\ Open(r)' => Open(r)
      BY <1>1, <1>4, AtWork
    <3>2. /\ Does(w'[p], r) <=> Does(w[p], r)
          /\ ~Looking(w'[p], r) /\ ~Putting(w'[p], r)
      BY <2>2 DEF Does, Looking, Putting
    <3>3. CASE added'[r] = added[r]
      BY <1>1, <2>2, <3>1, <3>2, <3>3, Keeps
    <3>4. CASE added'[r] # added[r]
      <4>1. r = d /\ added'[r] = added[r] + 1
        BY <1>4, <2>3, <3>4 DEF TalliesOK
      <4>2. Putting(w[p], r)
        BY <1>1, <1>2, <4>1 DEF Putting, Does, Fits
      <4>3. Does(w'[p], r)
        BY <3>2, <4>2 DEF Putting
      <4>4. QED
        BY <1>1, <2>2, <3>1, <3>2, <4>1, <4>2, <4>3, Adds
    <3>5. QED
      BY <3>3, <3>4
  <2>6. QED
    BY <1>1, <1>2, <2>1, <2>2, <2>4, <2>5, QueueStays DEF JobPcs, Fits
<1>5. QED
  BY <1>3, <1>4 DEF JobAdd, Append1

\* updateProjectFields reads; its write closes whatever run the row names,
\* unless it is a bill's.
LEMMA FieldsOnce ==
    ASSUME IInv, IInv', Once, NEW p \in Workers,
           Fields(p) \/ FieldsFail(p)
    PROVE  Once'
<1>1. UNCHANGED <<runs, queue, added, billed>> /\ Fits(w[p])
  BY DEF Fields, FieldsFail, qVars, Once, JobsOK
<1>2. CASE FieldsRead(p) /\ UNCHANGED qVars
  <2> DEFINE h == [w[p] EXCEPT !.copy = brief, !.pc = "fields_write"]
  <2>1. w' = [w EXCEPT ![p] = h] /\ UNCHANGED <<brief, faults>>
    BY <1>2 DEF FieldsRead, IInv, rowVars
  <2>2. w'[p] = h /\ Beside(p)
    BY <2>1, TaskSet
  <2>3. /\ w'[p].pc = "fields_write" /\ w'[p].job = w[p].job
        /\ w'[p].run = w[p].run /\ w'[p].patch = w[p].patch
    BY <2>2, Facts DEF Handlers
  <2>4. ASSUME NEW r \in Run
        PROVE  /\ Does(w'[p], r) <=> Does(w[p], r)
               /\ ~Looking(w'[p], r) /\ ~Putting(w'[p], r)
    BY <2>3 DEF Does, Looking, Putting
  <2>5. QED
    BY <1>1, <2>1, <2>2, <2>3, <2>4, GoesOn DEF Fits, JobPcs
<1>3. CASE FieldsFail(p)
  <2>1. Fault("outage") /\ UNCHANGED brief
    BY <1>3 DEF FieldsFail, rowVars
  <2>2. CASE Goto(p, "finish_gate")
    <3>1. /\ Beside(p) /\ w'[p].pc = "finish_gate" /\ w'[p].job = w[p].job
          /\ w'[p].run = w[p].run /\ w'[p].patch = w[p].patch
      BY <2>2, Gone
    <3>2. ASSUME NEW r \in Run
          PROVE  /\ Does(w'[p], r) => Does(w[p], r)
                 /\ ~Looking(w'[p], r) /\ ~Putting(w'[p], r)
      BY <3>1 DEF Does, Looking, Putting
    <3>3. QED
      BY <1>1, <2>1, <3>1, <3>2, GoesOn DEF Fits, JobPcs
  <2>3. CASE Finish(p)
    <3>1. /\ Beside(p) /\ ~w'[p].job /\ w'[p].pc = "idle" /\ w'[p].patch = "none"
      BY <2>3, Ended
    <3>2. ASSUME NEW r \in Run
          PROVE  ~Does(w'[p], r) /\ ~Looking(w'[p], r) /\ ~Putting(w'[p], r)
      BY <3>1 DEF Does, Looking, Putting
    <3>3. QED
      BY <1>1, <2>1, <3>1, <3>2, GoesOn DEF Fits
  <2>4. QED
    BY <1>3, <2>2, <2>3 DEF FieldsFail
<1>4. CASE FieldsWrite(p) /\ UNCHANGED qVars
  <2>1. /\ brief' = Patched(w[p].copy, w[p]) /\ Bump(p, Idle) /\ UNCHANGED faults
        /\ w[p].pc = "fields_write"
    BY <1>4 DEF FieldsWrite, At
  <2>2. /\ Beside(p) /\ ~w'[p].job /\ w'[p].pc = "idle" /\ w'[p].patch = "none"
    BY <2>1, Ended
  <2>3. /\ w[p].copy \in Rows /\ w[p].patch \in Patches /\ billed \in Nat /\ TalliesOK
        /\ runs \in Nat /\ w[p].run <= runs /\ w[p].run \in Nat
    BY <2>1, Facts DEF HandlerOK, Handlers, Once
  <2>4. w[p].patch # "customer" => brief'.status # "running"
    BY <2>1, <2>3 DEF Patched, Rows, Patches
  <2>5. faults' \in Seq(Ops) /\ added' \in [Run -> Nat] /\ Spent' = Spent
    BY <1>1, <2>1, <2>3, Spending DEF TalliesOK
  <2>6. ASSUME NEW r \in Run PROVE Balanced(p, r)
    <3>1. added[r] \in Nat /\ Spent \in Nat
      BY <2>3, Tallies
    <3>2. /\ ~Looking(w[p], r) /\ ~Putting(w[p], r)
          /\ ~Looking(w'[p], r) /\ ~Putting(w'[p], r) /\ ~Does(w'[p], r)
      BY <2>1, <2>2 DEF Does, Looking, Putting
    <3>3. CASE w[p].patch = "customer"
      BY <1>1, <2>2, <2>5, <3>1, <3>2, <3>3, Reopens
    <3>4. CASE w[p].patch # "customer" /\ r <= runs
      <4>1. ~Open(r)'
        <5>1. r \in Nat
          BY DEF Run
        <5>2. QED
          BY <1>1, <2>3, <2>4, <3>4, <5>1 DEF Open, ShouldPersistRun
      <4>2. QED
        BY <1>1, <2>2, <2>5, <3>1, <3>2, <4>1, Closes
    <3>5. CASE r > runs
      <4>1. ~Does(w[p], r)
        BY <2>3, <3>5 DEF Does
      <4>2. Open(r)
        BY <3>5 DEF Open
      <4>3. QED
        BY <1>1, <2>2, <2>5, <3>1, <3>2, <4>1, <4>2, Keeps
    <3>6. r \in Nat
      BY DEF Run
    <3>7. QED
      BY <2>3, <3>3, <3>4, <3>5, <3>6
  <2>7. QED
    BY <1>1, <2>2, <2>5, <2>6, QueueStays DEF Fits
<1>5. QED
  BY <1>2, <1>3, <1>4 DEF Fields

LEMMA SaveOnce ==
    ASSUME IInv, IInv', Once, NEW p \in Workers,
           SaveLoad(p) \/ SaveRead(p) \/ SaveWrite(p)
    PROVE  Once'
<1>1. UNCHANGED <<runs, faults, queue, added, billed>>
  BY DEF SaveLoad, SaveRead, SaveWrite, qVars
<1>2. ~w[p].job
  BY NotTheJob DEF SaveLoad, SaveRead, SaveWrite, Request, At, JobPcs
<1>3. \A r \in Run : Open(r)' => Open(r)
  <2>1. brief'.run = brief.run /\ brief'.status = brief.status
    <3>1. CASE SaveWrite(p) /\ Unmoved(p)
      <4>1. brief' = [w[p].copy EXCEPT !.save = @ + 1]
        BY <3>1 DEF SaveWrite, Guarded
      <4>2. w[p].copy = brief
        BY <3>1, Facts DEF SaveWrite, At, Unmoved, HandlerOK
      <4>3. QED
        BY <4>1, <4>2, Facts DEF Rows
    <3>2. QED
      BY <3>1 DEF SaveLoad, SaveRead, SaveWrite, Guarded, rowVars
  <2>2. QED
    BY <1>1, <2>1 DEF Open, ShouldPersistRun
<1>4. CASE Finish(p) \/ Bump(p, Idle)
  BY <1>1, <1>2, <1>3, <1>4, Ended, Unhired DEF Fits
<1>5. CASE SaveLoad(p)
  <2> DEFINE h == [Idle EXCEPT !.pc = "save_read", !.fresh = TRUE]
  <2>1. w'[p] = h /\ Beside(p)
    BY <1>5, TaskSet DEF SaveLoad
  <2>2. ~w'[p].job /\ w'[p].pc = "save_read" /\ w'[p].patch = "none"
    BY <2>1 DEF Idle
  <2>3. QED
    BY <1>1, <1>2, <1>3, <2>1, <2>2, Unhired DEF Fits
<1>6. CASE SaveRead(p) /\ Unmoved(p)
  <2> DEFINE h == [w[p] EXCEPT !.copy = brief, !.fresh = TRUE, !.pc = "save"]
  <2>1. w' = [w EXCEPT ![p] = h]
    BY <1>6 DEF SaveRead, ReadRow, IInv
  <2>2. w'[p] = h /\ Beside(p)
    BY <2>1, TaskSet
  <2>3. w'[p].job = w[p].job /\ w'[p].pc = "save" /\ w'[p].patch = w[p].patch
    BY <2>2, Facts DEF Handlers
  <2>4. QED
    BY <1>1, <1>2, <1>3, <2>2, <2>3, Unhired DEF Fits
<1>7. QED
  BY <1>4, <1>5, <1>6 DEF SaveRead, SaveWrite, Guarded

LEMMA PoolOnce ==
    ASSUME IInv, IInv', Once, NEW p \in Workers,
           AddLoad(p) \/ AddOne(p) \/ NothingToAdd(p) \/ RemoveOne(p)
    PROVE  Once'
<1>1. UNCHANGED <<brief, runs, faults, queue, added, billed>>
  BY DEF AddLoad, AddOne, NothingToAdd, RemoveOne, rowVars, qVars
<1>2. ~w[p].job
  BY NotTheJob DEF AddLoad, AddOne, NothingToAdd, RemoveOne, Request, At, JobPcs
<1>3. \A r \in Run : Open(r)' => Open(r)
  BY <1>1, RowStays
<1>4. CASE Finish(p) \/ Bump(p, Idle)
  BY <1>1, <1>2, <1>3, <1>4, Ended, Unhired DEF Fits
<1>5. CASE w' = [w EXCEPT ![p] = [Idle EXCEPT !.pc = "add_one",
                                              !.found.adjacent = brief.adjacent]]
  <2> DEFINE h == [Idle EXCEPT !.pc = "add_one", !.found.adjacent = brief.adjacent]
  <2>1. w'[p] = h /\ Beside(p)
    BY <1>5, TaskSet
  <2>2. ~w'[p].job /\ w'[p].pc = "add_one" /\ w'[p].patch = "none"
    BY <2>1 DEF Idle
  <2>3. QED
    BY <1>1, <1>2, <1>3, <2>1, <2>2, Unhired DEF Fits
<1>6. QED
  BY <1>4, <1>5 DEF AddLoad, AddOne, NothingToAdd, RemoveOne, Append1, Finish

LEMMA BillOnce ==
    ASSUME IInv, IInv', Once, NEW p \in Workers, Bill(p) \/ Sweep(p) PROVE Once'
<1>1. UNCHANGED <<brief, runs, faults, queue, added>> /\ w[p] = Idle
  BY DEF Bill, Sweep, Request, rowVars, qVars
<1>2. ~w[p].job
  BY <1>1, NotTheJob
<1>3. \A r \in Run : Open(r)' => Open(r)
  BY <1>1, RowStays
<1>4. ASSUME NEW patch \in {"customer", "abandoned"},
             w' = [w EXCEPT ![p] = [Idle EXCEPT !.pc = "fields_read", !.patch = patch]]
      PROVE  Beside(p) /\ ~w'[p].job /\ w'[p].pc = "fields_read" /\ w'[p].patch = patch
  <2> DEFINE h == [Idle EXCEPT !.pc = "fields_read", !.patch = patch]
  <2>1. w'[p] = h /\ Beside(p)
    BY <1>4, TaskSet
  <2>2. QED
    BY <2>1 DEF Idle
<1>5. CASE Sweep(p)
  <2>1. /\ UNCHANGED billed
        /\ Beside(p) /\ ~w'[p].job /\ w'[p].pc = "fields_read" /\ w'[p].patch = "abandoned"
    BY <1>4, <1>5 DEF Sweep, qVars
  <2>2. QED
    BY <1>1, <1>2, <1>3, <2>1, Unhired DEF Fits
<1>6. CASE Bill(p)
  <2>1. /\ Beside(p) /\ ~w'[p].job /\ w'[p].pc = "fields_read" /\ w'[p].patch = "customer"
        /\ billed' = billed + 1
    BY <1>4, <1>6 DEF Bill
  <2>2. billed \in Nat /\ TalliesOK
    BY Facts DEF Once
  <2>3. Faults(Costly)' = Faults(Costly) /\ Faults(Costly) \in Nat
    BY <1>1, <2>2, FaultsFinite DEF Faults, TalliesOK
  <2>4. Spent' = Spent + 1 /\ faults' \in Seq(Ops) /\ added' \in [Run -> Nat]
    BY <1>1, <2>1, <2>2, <2>3 DEF Spent, TalliesOK
  <2>5. ASSUME NEW r \in Run PROVE Balanced(p, r)
    <3>1. ~Does(w[p], r) /\ ~Does(w'[p], r)
      BY <1>2, <2>1 DEF Does
    <3>2. added[r] \in Nat /\ Spent \in Nat
      BY <2>2, Tallies
    <3>3. QED
      BY <1>1, <1>3, <2>4, <3>1, <3>2, Bills
  <2>6. QED
    BY <1>1, <2>1, <2>4, <2>5, QueueStays DEF Fits
<1>7. QED
  BY <1>5, <1>6

\* A death gives the delivery back.
LEMMA KillOnce == ASSUME IInv, IInv', Once, NEW p \in Workers, Kill(p) PROVE Once'
<1>1. /\ UNCHANGED <<brief, runs, added, billed>> /\ Fault("kill") /\ Finish(p)
      /\ queue' = IF w[p].job THEN queue \cup {w[p].run} ELSE queue
  BY DEF Kill, Die, rowVars
<1>2. /\ Beside(p) /\ ~w'[p].job /\ w'[p].pc = "idle" /\ w'[p].patch = "none"
  BY <1>1, Ended
<1>3. billed \in Nat /\ TalliesOK /\ PublishOK
  BY Facts DEF Once
<1>4. faults' \in Seq(Ops) /\ added' \in [Run -> Nat]
  BY <1>1, <1>3, Spending DEF TalliesOK
<1>5. \A q \in Workers \ {p} : At(q, "publish") => w[q].run \notin queue'
  BY <1>1, <1>3 DEF PublishOK, Working
<1>6. PublishOK'
  BY <1>2, <1>3, <1>5, PublishKept
<1>7. ASSUME NEW r \in Run PROVE Balanced(p, r)
  <2>1. /\ added[r] \in Nat /\ Spent \in Nat /\ Spent' = Spent + 1
        /\ Open(r)' => Open(r)
    BY <1>1, AtWork
  <2>2. ~Does(w'[p], r) /\ ~Looking(w'[p], r) /\ ~Putting(w'[p], r)
    BY <1>2 DEF Does, Looking, Putting
  <2>3. QED
    BY <1>1, <1>2, <2>1, <2>2, Costs
<1>8. QED
  BY <1>2, <1>4, <1>6, <1>7, OnceStep DEF Fits

\* QStash delivers a run again: for nothing while nobody works at it, for a
\* connection that was dropped otherwise.
LEMMA RedeliverOnce == ASSUME IInv, IInv', Once, Redeliver PROVE Once'
<1>1. UNCHANGED <<brief, w, runs, added, billed>>
  BY DEF Redeliver, rowVars
<1>2. PICK d \in 1 .. runs :
        /\ d \notin queue
        /\ \A p \in Workers : ~(At(p, "publish") /\ w[p].run = d)
        /\ Fault(IF Working(d) THEN "drop" ELSE "redeliver")
        /\ queue' = queue \cup {d}
  BY DEF Redeliver
<1>3. billed \in Nat /\ TalliesOK /\ PublishOK /\ JobsOK /\ Counted
  BY DEF Once, IInv, RowOK
<1>4. /\ faults' \in Seq(Ops)
      /\ Working(d) => Spent' = Spent + 1
      /\ ~Working(d) => Spent' = Spent
  BY <1>1, <1>2, <1>3, Spending DEF Costly
<1>5. TalliesOK' /\ JobsOK'
  BY <1>1, <1>3, <1>4 DEF TalliesOK, JobsOK
<1>6. PublishOK'
  BY <1>1, <1>2, <1>3 DEF PublishOK, At, Working
<1>7. ASSUME NEW r \in Run
      PROVE  added'[r] + Chances(r)' + Cardinality(Billing)' <= 1 + Spent'
  <2>1. /\ Searching(r)' = Searching(r) /\ Adding(r)' = Adding(r) /\ Billing' = Billing
        /\ Working(r)' <=> Working(r)
        /\ Open(r)' <=> Open(r)
    BY <1>1, RowStays DEF Searching, Adding, Billing, Working
  <2> DEFINE m == Cardinality(Searching(r))
             a == Cardinality(Adding(r))
             b == Cardinality(Billing)
  <2>2. /\ IsFiniteSet(Searching(r)) /\ IsFiniteSet(Adding(r)) /\ IsFiniteSet(Billing)
    BY WorkersAssumption, FS_Subset DEF Searching, Adding, Billing
  <2>3. m \in Nat /\ a \in Nat /\ b \in Nat
    BY <2>2, FS_CardinalityType
  <2>4. added[r] \in Nat /\ Spent \in Nat
    BY <1>3, Tallies
  <2>5. ~Working(r) => Searching(r) = {} /\ Adding(r) = {}
    BY DEF Working, Searching, Adding, Looking, Putting, Does
  <2>6. ~Working(r) => m = 0 /\ a = 0
    BY <2>5, FS_EmptySet
  <2>7. Cardinality(Searching(r)') = m /\ Cardinality(Adding(r)') = a /\ Cardinality(Billing') = b
    BY <2>1
  <2> HIDE DEF m, a, b
  <2>8. /\ Chances(r) = Worth(Open(r), Working(r), a, m + Bit(r \in queue))
        /\ Chances(r)' = Worth(Open(r), Working(r), a, m + Bit(r \in queue'))
        /\ Cardinality(Billing) = b /\ Cardinality(Billing)' = b
    BY <2>1, <2>7 DEF Chances, Ahead, Worth, m, a, b
  <2>9. added[r] + Worth(Open(r), Working(r), a, m + Bit(r \in queue)) + b <= 1 + Spent
    BY <1>3, <2>8 DEF Counted
  <2>10. added[r] + Worth(Open(r), Working(r), a, m + Bit(r \in queue')) + b <= 1 + Spent'
    <3>1. CASE r = d
      BY <1>2, <1>4, <2>3, <2>4, <2>6, <2>9, <3>1 DEF Worth, Bit
    <3>2. CASE r # d
      <4>1. r \in queue' <=> r \in queue
        BY <1>2, <3>2
      <4>2. Spent' >= Spent
        BY <1>4, <2>4
      <4>3. Spent' \in Nat
        BY <1>4, <2>4
      <4>4. QED
        BY <2>3, <2>4, <2>9, <4>1, <4>2, <4>3 DEF Worth, Bit
    <3>3. QED
      BY <3>1, <3>2
  <2>11. QED
    BY <1>1, <2>8, <2>10
<1>8. QED
  BY <1>5, <1>6, <1>7 DEF Once, Counted

LEMMA NextOnce == IInv /\ IInv' /\ Once /\ [Next]_vars => Once'
<1> SUFFICES ASSUME IInv, IInv', Once, [Next]_vars PROVE Once'
  OBVIOUS
<1>1. ASSUME NEW p \in Workers, Work(p) \/ Sweep(p) \/ FieldsFail(p) \/ Kill(p)
      PROVE  Once'
  <2>1. CASE Start(p)
    BY <2>1, StartOnce, ClaimOnce, PublishOnce DEF Start
  <2>2. CASE Job(p)
    BY <2>2, DeliverOnce, GateOnce, JobAddOnce DEF Job
  <2>3. CASE Others(p)
    BY <2>3, SaveOnce, PoolOnce, BillOnce DEF Others
  <2>4. QED
    BY <1>1, <2>1, <2>2, <2>3, FieldsOnce, BillOnce, KillOnce DEF Work
<1>2. ASSUME UNCHANGED <<brief, w, faults, runs, queue, added, billed>> PROVE Once'
  BY <1>2 DEF Once, TalliesOK, JobsOK, PublishOK, Counted, Chances, Ahead, Searching,
     Adding, Billing, Working, Open, ShouldPersistRun, Spent, Faults, At
<1>3. QED
  BY <1>1, <1>2, RedeliverOnce DEF Next, Age, rowVars, vars

LEMMA InitOnce == Init => Once
<1> SUFFICES ASSUME Init PROVE Once
  OBVIOUS
<1>1. faults = <<>> /\ queue = {} /\ runs = 0 /\ billed = 0
  BY DEF Init, RowInit
<1>2. \A p \in Workers : ~w[p].job /\ w[p].pc = "idle" /\ w[p].patch = "none"
  BY DEF Init, RowInit, Idle
<1>3. TalliesOK
  BY DEF Init, RowInit, TalliesOK
<1>4. JobsOK /\ PublishOK
  BY <1>2 DEF JobsOK, Fits, PublishOK, At
<1>5. ASSUME NEW r \in Run
      PROVE  added[r] + Chances(r) + Cardinality(Billing) <= 1 + Spent
  <2>1. /\ ~Working(r) /\ Billing = {} /\ added[r] = 0
        /\ Open(r)
    BY <1>1, <1>2 DEF Working, Billing, Init, Open, Run
  <2>2. Spent \in Nat
    BY <1>1, <1>3, Tallies
  <2>3. Chances(r) = 1 /\ Cardinality(Billing) = 0
    BY <2>1, FS_EmptySet DEF Chances, Worth
  <2>4. QED
    BY <2>1, <2>2, <2>3
<1>6. QED
  BY <1>3, <1>4, <1>5 DEF Once, Counted

\* A run's candidates go into the pool once (shouldPersistRun's two gates); a
\* second pass is paid for by a death, a dropped connection, an outage or a
\* bill. For any number of handlers, runs, requests, faults and candidates.
THEOREM PassesArePaid == Spec => []AddedOnce
<1>1. IInv /\ Once => AddedOnce
  <2> SUFFICES ASSUME IInv, Once, NEW r \in Run
               PROVE  added[r] <= 1 + Faults(Costly) + billed
    BY DEF AddedOnce, Costly
  <2>1. billed \in Nat /\ TalliesOK /\ Counted
    BY DEF Once, IInv, RowOK
  <2>2. /\ IsFiniteSet(Searching(r)) /\ IsFiniteSet(Adding(r)) /\ IsFiniteSet(Billing)
    BY WorkersAssumption, FS_Subset DEF Searching, Adding, Billing
  <2>3. /\ Cardinality(Searching(r)) \in Nat /\ Cardinality(Adding(r)) \in Nat
        /\ Cardinality(Billing) \in Nat
    BY <2>2, FS_CardinalityType
  <2>4. Chances(r) \in Nat
    BY <2>3 DEF Chances, Worth, Ahead, Bit
  <2>5. added[r] \in Nat /\ Faults(Costly) \in Nat
    BY <2>1, FaultsFinite DEF TalliesOK, Faults
  <2>6. QED
    BY <2>1, <2>3, <2>4, <2>5 DEF Counted, Spent
<1>2. QED
  BY <1>1, Invariant, InitOnce, NextOnce, PTL DEF Spec

=============================================================================
