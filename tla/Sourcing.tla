------------------------------ MODULE Sourcing ------------------------------
(* A project's sourcing runs: the start route that claims a run and queues   *)
(* it, the job that QStash delivers at least once, the nightly sweep of      *)
(* abandoned runs, and the requests that write the same row meanwhile - the  *)
(* brief's save, a candidate added or removed, a billing write.              *)
EXTENDS ProjectRow

CONSTANTS Passes   \* what one pass of generateExperts may find

ASSUME PassesAssumption ==
    Passes \subseteq [core : SUBSET Candidates, adjacent : SUBSET Candidates]

VARIABLES runs,    \* runs claimed so far; a run's number is its runId
          aged,    \* runs claimed fifteen minutes ago or longer
          queue,   \* runs QStash is about to deliver
          added,   \* per run, how many passes put candidates in the pool
          billed   \* customers made at Stripe for the project

qVars == <<runs, aged, queue, added, billed>>
vars == <<brief, pool, w, asked, faults, runs, aged, queue, added,
          billed>>

Statuses == {"none", "running", "completed", "failed"}

Run == 1 .. MaxStarts

Init ==
    /\ RowInit
    /\ runs = 0 /\ aged = {} /\ queue = {} /\ added = [r \in Run |-> 0]
    /\ billed = 0

----------------------------------------------------------------------------
(* The start route.                                                          *)

\* Running, and young enough to be believed (SOURCING_STALE_MS).
Running(row) == row.status = "running" /\ row.run \notin aged

\* The project is loaded; a live run answers 409.
StartLoad(p) ==
    /\ Request(p, "start")
    /\ w' = [w EXCEPT ![p] = IF Running(brief) THEN Idle
                             ELSE [Idle EXCEPT !.pc = "claim_read", !.run = brief.run]]
    /\ UNCHANGED <<rowVars, faults, qVars>>

\* Mutant: the stamp the route saw is not compared.
MutClaimRead(p) ==
    /\ At(p, "claim_read")
    /\ ReadRow(p, "claim")
    /\ UNCHANGED <<rowVars, asked, faults, qVars>>

\* startSourcingRun reads the row and refuses if the stamp is not the one the
\* route saw.
ClaimRead(p) ==
    /\ At(p, "claim_read")
    /\ IF brief.run = w[p].run THEN ReadRow(p, "claim") ELSE Finish(p)
    /\ UNCHANGED <<rowVars, asked, faults, qVars>>

ClaimWrite(p) ==
    /\ At(p, "claim")
    /\ Guarded(p, [w[p].copy EXCEPT !.status = "running", !.run = runs + 1],
               [Idle EXCEPT !.pc = "publish", !.run = runs + 1])
    /\ runs' = IF Unmoved(p) THEN runs + 1 ELSE runs
    /\ UNCHANGED <<pool, asked, faults, aged, queue, added, billed>>

\* The job is handed to QStash. Its answer may be lost after it took the job.
Publish(p) ==
    /\ At(p, "publish")
    /\ \/ /\ queue' = queue \cup {w[p].run}
          /\ Finish(p) /\ UNCHANGED faults
       \/ /\ Fault("publish")
          /\ queue' \in {queue, queue \cup {w[p].run}}
          /\ Goto(p, "enqueue_failed")
    /\ UNCHANGED <<rowVars, asked, runs, aged, added, billed>>

\* The catch: the run is failed if the row still carries its stamp; a project
\* that cannot be read is left alone.
EnqueueFailed(p) ==
    /\ At(p, "enqueue_failed")
    /\ \/ /\ IF brief.run = w[p].run THEN StartFields(p, "failed") ELSE Finish(p)
          /\ UNCHANGED faults
       \/ Fault("outage") /\ Finish(p)
    /\ UNCHANGED <<rowVars, asked, qVars>>

Start(p) ==
    StartLoad(p) \/ ClaimRead(p) \/ ClaimWrite(p) \/ Publish(p) \/ EnqueueFailed(p)

----------------------------------------------------------------------------
(* The job.                                                                  *)

\* Mutant: a row without a stamp is anybody's.
MutShouldPersistRun(r) == brief.run \in {0, r}

ShouldPersistRun(r) == brief.status = "running" /\ brief.run = r

\* QStash delivers a queued run. First gate; the room under the cap is taken
\* from this read. A project that cannot be read looks like none at all, and
\* the job is answered as done.
Deliver(p) ==
    /\ w[p] = Idle
    /\ \E r \in queue :
          /\ queue' = queue \ {r}
          /\ \/ /\ ShouldPersistRun(r)
                /\ w' = [w EXCEPT ![p] = [Idle EXCEPT !.pc = "generate", !.run = r, !.job = TRUE,
                               !.room = IF Cardinality(pool) < Cap
                                        THEN Cap - Cardinality(pool) ELSE 0]]
                /\ UNCHANGED faults
             \/ ~ShouldPersistRun(r) /\ UNCHANGED <<w, faults>>
             \/ Fault("outage") /\ UNCHANGED w
    /\ UNCHANGED <<rowVars, asked, runs, aged, added, billed>>

\* Minutes of searching: candidates, or nothing, or an error.
Generate(p) ==
    /\ At(p, "generate")
    /\ \/ \E found \in Passes :
             w' = [w EXCEPT ![p].found = found, ![p].pc = "second_gate"]
       \/ Goto(p, "finish_gate")
    /\ UNCHANGED <<rowVars, asked, faults, qVars>>

\* Second gate; results nobody waits for, or a read that fails, are dropped.
SecondGate(p) ==
    /\ At(p, "second_gate")
    /\ \/ /\ IF ShouldPersistRun(w[p].run) THEN Goto(p, "add") ELSE Finish(p)
          /\ UNCHANGED faults
       \/ Fault("outage") /\ Finish(p)
    /\ UNCHANGED <<rowVars, asked, qVars>>

\* The first "room" core candidates go into the pool.
Fitting(p) ==
    LET n == IF w[p].room < Cardinality(w[p].found.core) THEN w[p].room
             ELSE Cardinality(w[p].found.core)
    IN {s \in SUBSET w[p].found.core : Cardinality(s) = n}

JobAdd(p) ==
    /\ At(p, "add")
    /\ \/ \E ids \in Fitting(p) :
             LET next == [w[p] EXCEPT !.pc = "fields_read", !.patch = "completed",
                                      !.room = 0, !.found.core = {}]
             IN /\ IF ids = {} THEN w' = [w EXCEPT ![p] = next] /\ UNCHANGED <<pool, added>>
                   ELSE /\ Append1(p, ids, next)
                        /\ added' = [added EXCEPT ![w[p].run] = @ + 1]
                /\ UNCHANGED faults
       \/ Fault("outage") /\ Goto(p, "finish_gate") /\ UNCHANGED <<pool, added>>
    /\ UNCHANGED <<brief, asked, runs, aged, queue, billed>>

\* finish: the status is written unless the row is another run's; a read that
\* fails does not stop it.
FinishGate(p) ==
    /\ At(p, "finish_gate")
    /\ \/ /\ IF ShouldPersistRun(w[p].run) THEN StartFields(p, "failed") ELSE Finish(p)
          /\ UNCHANGED faults
       \/ Fault("outage") /\ StartFields(p, "failed")
    /\ UNCHANGED <<rowVars, asked, qVars>>

\* updateProjectFields fails. The job then tries to say so, once; finish, the
\* sweep and the routes let it be.
FieldsFail(p) ==
    /\ w[p].pc \in {"fields_read", "fields_write"}
    /\ Fault("outage")
    /\ IF w[p].patch = "completed" THEN Goto(p, "finish_gate") ELSE Finish(p)
    /\ UNCHANGED <<rowVars, asked, qVars>>

Job(p) ==
    Deliver(p) \/ Generate(p) \/ SecondGate(p) \/ JobAdd(p) \/ FinishGate(p)

\* updateProjectFields, whoever called it.
Fields(p) == (FieldsRead(p) \/ FieldsWrite(p)) /\ UNCHANGED qVars

----------------------------------------------------------------------------
(* The nightly sweep, and time.                                              *)

\* Mutant: the age is compared the wrong way round.
MutStuck(row) == row.status = "running" /\ row.run \notin aged

Stuck(row) == row.status = "running" /\ row.run \in aged

Sweep(p) ==
    /\ w[p] = Idle /\ Stuck(brief)
    /\ w' = [w EXCEPT ![p] = [Idle EXCEPT !.pc = "fields_read", !.patch = "abandoned"]]
    /\ UNCHANGED <<rowVars, asked, faults, qVars>>

\* Fifteen minutes pass since a run was claimed, and since those before it.
Age ==
    /\ \E r \in 1 .. runs : r \notin aged /\ aged' = aged \cup 1 .. r
    /\ UNCHANGED <<rowVars, w, asked, faults, runs, queue, added, billed>>

----------------------------------------------------------------------------
(* Other requests that write the row.                                        *)

\* PUT .../projects/[id]: the project is loaded, then updateProject reads it
\* again, refuses if it moved, and writes the merged brief.
SaveLoad(p) ==
    /\ Request(p, "save")
    /\ w' = [w EXCEPT ![p] = [Idle EXCEPT !.pc = "save_read", !.fresh = TRUE]]
    /\ UNCHANGED <<rowVars, faults, qVars>>

SaveRead(p) ==
    /\ At(p, "save_read")
    /\ IF Unmoved(p) THEN ReadRow(p, "save") ELSE Finish(p)
    /\ UNCHANGED <<rowVars, asked, faults, qVars>>

SaveWrite(p) ==
    /\ At(p, "save")
    /\ Guarded(p, [w[p].copy EXCEPT !.save = @ + 1], Idle)
    /\ UNCHANGED <<pool, asked, faults, qVars>>

\* POST .../experts: the cap is checked on the load, then the candidate - an
\* adjacent one of the last run - is added.
AddLoad(p) ==
    /\ Request(p, "add")
    /\ w' = [w EXCEPT ![p] = IF Cardinality(pool) < Cap
                             THEN [Idle EXCEPT !.pc = "add_one",
                                               !.found.adjacent = brief.adjacent]
                             ELSE Idle]
    /\ UNCHANGED <<rowVars, faults, qVars>>

AddOne(p) ==
    /\ At(p, "add_one")
    /\ \E c \in w[p].found.adjacent : Append1(p, {c}, Idle)
    /\ UNCHANGED <<brief, asked, faults, qVars>>

NothingToAdd(p) ==
    /\ At(p, "add_one") /\ w[p].found.adjacent = {} /\ Finish(p)
    /\ UNCHANGED <<rowVars, asked, faults, qVars>>

\* DELETE .../experts/[expertId], and with it the touch every write to an
\* expert's row ends in.
RemoveOne(p) ==
    /\ Request(p, "remove")
    /\ \E c \in pool : pool' = pool \ {c}
    /\ Bump(p, Idle)
    /\ UNCHANGED <<brief, faults, qVars>>

\* createAndSendInvoice keeps the Stripe customer it made.
Bill(p) ==
    /\ Request(p, "bill") /\ ~brief.customer
    /\ w' = [w EXCEPT ![p] = [Idle EXCEPT !.pc = "fields_read", !.patch = "customer"]]
    /\ billed' = billed + 1
    /\ UNCHANGED <<rowVars, faults, runs, aged, queue, added>>

Others(p) ==
    \/ SaveLoad(p) \/ SaveRead(p) \/ SaveWrite(p)
    \/ AddLoad(p) \/ AddOne(p) \/ NothingToAdd(p) \/ RemoveOne(p) \/ Bill(p)

----------------------------------------------------------------------------
\* QStash delivers again: after an answer it did not get, or while the first
\* delivery still runs and its connection was dropped.
Working(r) == \E p \in Workers : w[p].job /\ w[p].run = r

Redeliver ==
    /\ \E r \in 1 .. runs :
          /\ r \notin queue
          /\ \A p \in Workers : ~(At(p, "publish") /\ w[p].run = r)
          /\ Fault(IF Working(r) THEN "drop" ELSE "redeliver")
          /\ queue' = queue \cup {r}
    /\ UNCHANGED <<rowVars, w, asked, runs, aged, added, billed>>

\* A handler dies; the job's delivery was not answered, so it comes again.
Kill(p) ==
    /\ Die(p)
    /\ queue' = IF w[p].job THEN queue \cup {w[p].run} ELSE queue
    /\ UNCHANGED <<runs, aged, added, billed>>

\* A handler goes on.
Work(p) == Start(p) \/ Job(p) \/ Fields(p) \/ Others(p)

Next ==
    \/ Age \/ Redeliver
    \/ \E p \in Workers : Work(p) \/ Sweep(p) \/ FieldsFail(p) \/ Kill(p)

Spec == Init /\ [][Next]_vars

\* The steps of a handler in flight, but no new request.
Going(p) == w[p] # Idle /\ Work(p)

\* A handler goes on, time passes, and the cron runs every night on a worker
\* that is free some time.
FairSpec ==
    /\ Spec
    /\ WF_vars(Age)
    /\ \A p \in Workers : WF_vars(Going(p))
    /\ SF_vars(\E p \in Workers : Sweep(p))

----------------------------------------------------------------------------
\* What the variables may hold.
TypeOK ==
    /\ brief \in [save : Nat, status : Statuses, run : 0 .. runs,
                  adjacent : SUBSET Candidates, customer : BOOLEAN]
    /\ pool \subseteq Candidates
    /\ \A p \in Workers : w[p].run \in 0 .. runs /\ w[p].room \in Nat
    /\ runs \in Nat /\ queue \subseteq 0 .. runs /\ billed \in Nat

\* Two starts never both win: a claim lands only while the row names no run
\* that is running and young, however the claims interleave with each other
\* and with the job and the sweep (startSourcingRun's stamp and its updated_at).
\* Only the billing write, which may put back a status it read earlier, can
\* bring a live run under a claim.
OneLiveRun == [][runs' # runs /\ billed = 0 => ~Running(brief)]_vars

\* The conditional writers lose nothing of anybody's: a save that is answered
\* 200 and a claim that wins change their own keys of the row as it is at that
\* moment - no run's status, outcome or stamp, and no save, is put back to what
\* it was when they read (mergeProjectBrief, updateProject).
GuardedWritesMerge ==
    [][\A p \in Workers : brief' # brief /\ w'[p].pc # w[p].pc =>
          /\ At(p, "save") => brief' = [brief EXCEPT !.save = @ + 1]
          /\ At(p, "claim") =>
                brief' = [brief EXCEPT !.status = "running", !.run = runs + 1]]_vars

\* A run's candidates go into the pool once. Delivered again afterwards, the
\* job adds nothing; a second pass needs a death or an outage between the add
\* and the status, a delivery that overlapped the first, or the one write that
\* may put the row's old status back (shouldPersistRun, H-11).
AddedOnce ==
    \A r \in Run :
        added[r] <= 1 + Faults({"kill", "drop", "outage"}) + billed

\* A project does not stay on "running": whatever is lost - the publication,
\* the job, its last write - the sweep ends the run in the end (sweepSourcing,
\* "every exit path leaves sourcingStatus at 'completed' or 'failed'").
RunEnds == brief.status = "running" ~> brief.status # "running"

\* The job respects the cap the experts route enforces (sourcingJob.ts, at the
\* add): the pool never holds more than Cap candidates.
PoolWithinCap == Cardinality(pool) <= Cap
=============================================================================
