----------------------------- MODULE ProjectRow -----------------------------
(* One row of "projects" and the candidates that hang off it, as the methods *)
(* of lib/projectStore.ts write them. The row's JSON brief is written whole  *)
(* every time: updateProject and startSourcingRun write only while           *)
(* updated_at is what they read, updateProjectFields writes regardless.      *)
EXTENDS Naturals, Sequences, FiniteSets

CONSTANTS Workers,     \* handlers that may be in flight at once
          Ops,         \* the requests and faults of a run
          MaxStarts,   \* sourcing runs asked for
          MaxOthers,   \* other requests
          MaxFaults,   \* kills, lost answers, outages and redeliveries in all
          Candidates,  \* ids a candidate may have in this project
          Cap          \* MAX_EXPERTS_PER_PROJECT

ASSUME BoundsAssumption == MaxStarts \in Nat /\ MaxOthers \in Nat /\ MaxFaults \in Nat
ASSUME CapAssumption == Cap \in Nat
ASSUME WorkersAssumption == IsFiniteSet(Workers)
ASSUME CandidatesAssumption == IsFiniteSet(Candidates)

VARIABLES brief,    \* the row: what the client saved, and the sourcing keys
          pool,     \* ids of the project's candidates
          w,        \* the handlers
          asked, faults

rowVars == <<brief, pool>>

\* "save" counts the client's saves and stands for every key they may write;
\* "run" is sourcingStartedAt, 0 for null; "adjacent" is sourcingAdjacent.
NewBrief == [save |-> 0, status |-> "none", run |-> 0, adjacent |-> {},
             customer |-> FALSE]

\* A handler: the copy of the row it read, whether updated_at still is what it
\* read, the run it works for (or the stamp it expects), how many candidates it
\* believes there is room for, what its pass found, the patch it will write, and
\* whether it is the job.
Idle == [pc |-> "idle", copy |-> NewBrief, fresh |-> FALSE, run |-> 0, room |-> 0,
         found |-> [core |-> {}, adjacent |-> {}], patch |-> "none",
         job |-> FALSE]

RowInit ==
    /\ brief = NewBrief /\ pool = {}
    /\ w = [p \in Workers |-> Idle]
    /\ asked = [kind \in {"start", "other"} |-> 0] /\ faults = <<>>

At(p, pc) == w[p].pc = pc
Goto(p, pc) == w' = [w EXCEPT ![p].pc = pc]
Finish(p) == w' = [w EXCEPT ![p] = Idle]

\* Requests are bounded apart: those that start a run, and the others.
Kind(op) == IF op = "start" THEN "start" ELSE "other"
Limit(kind) == IF kind = "start" THEN MaxStarts ELSE MaxOthers

Request(p, op) ==
    /\ op \in Ops /\ w[p] = Idle
    /\ asked[Kind(op)] < Limit(Kind(op))
    /\ asked' = [asked EXCEPT ![Kind(op)] = @ + 1]

Fault(op) == op \in Ops /\ Len(faults) < MaxFaults /\ faults' = Append(faults, op)

Faults(ops) == Cardinality({i \in DOMAIN faults : faults[i] \in ops})

----------------------------------------------------------------------------
\* A write to the row bumps updated_at, so no other handler's read is current;
\* "mine" is what the writing handler does next.
Bump(p, mine) ==
    w' = [q \in Workers |-> IF q = p THEN mine ELSE [w[q] EXCEPT !.fresh = FALSE]]

\* getRow, keeping the row and its updated_at.
ReadRow(p, next) ==
    w' = [w EXCEPT ![p].copy = brief, ![p].fresh = TRUE, ![p].pc = next]

\* Mutant: the update is not pinned to updated_at.
MutUnmoved(p) == TRUE

\* .eq('updated_at', current.updated_at), and projectRowMoved before it.
Unmoved(p) == w[p].fresh

\* A conditional update: written if nobody wrote since the read, else refused.
Guarded(p, row, next) ==
    \/ /\ Unmoved(p)
       /\ brief' = row /\ Bump(p, next)
    \/ /\ ~Unmoved(p)
       /\ Finish(p) /\ UNCHANGED brief

\* The keys a handler hands to updateProjectFields.
Patched(row, me) ==
    CASE me.patch = "completed" ->
           [row EXCEPT !.status = "completed", !.run = 0, !.adjacent = me.found.adjacent]
      [] me.patch = "failed" -> [row EXCEPT !.status = "failed", !.run = 0]
      [] me.patch = "abandoned" -> [row EXCEPT !.status = "failed"]
      [] me.patch = "customer" -> [row EXCEPT !.customer = TRUE]

\* updateProjectFields: read the row, merge, write the merged brief over
\* whatever is there by then.
StartFields(p, patch) == w' = [w EXCEPT ![p].pc = "fields_read", ![p].patch = patch]

FieldsRead(p) ==
    /\ At(p, "fields_read")
    /\ w' = [w EXCEPT ![p].copy = brief, ![p].pc = "fields_write"]
    /\ UNCHANGED <<rowVars, asked, faults>>

FieldsWrite(p) ==
    /\ At(p, "fields_write")
    /\ brief' = Patched(w[p].copy, w[p])
    /\ Bump(p, Idle)
    /\ UNCHANGED <<pool, asked, faults>>

\* addExpertsToProject: an upsert that leaves rows already there alone, then
\* the touch of the project.
Append1(p, ids, next) == pool' = pool \cup ids /\ Bump(p, next)

----------------------------------------------------------------------------
\* The process dies: what it wrote stays.
Die(p) == w[p] # Idle /\ Fault("kill") /\ Finish(p) /\ UNCHANGED <<rowVars, asked>>
=============================================================================
