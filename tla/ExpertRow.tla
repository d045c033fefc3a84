------------------------------ MODULE ExpertRow ------------------------------
(***************************************************************************)
(* One project_experts row and the calls of mutateExpert that race on it.  *)
(* mutateExpert reads the row, applies the caller's mutation to what it    *)
(* read and writes the whole document back on condition that updated_at    *)
(* still holds the value read; a lost race is retried on a fresh read.     *)
(* updateExpertStatus and addExpertNote are mutateExpert with a particular *)
(* mutation, so they need no action of their own.                          *)
(*                                                                         *)
(* `rev` stands for the pair (row id, updated_at): the row's trigger bumps *)
(* updated_at on every write, and a row inserted after a removal has a new *)
(* id.  Reading and writing are separate round trips to the database.      *)
(***************************************************************************)
EXTENDS Naturals, FiniteSets

CONSTANTS
    Writers,      \* calls of mutateExpert, one each
    Docs,         \* values of the row
    Mutate,       \* Mutate[w][d] is what call w makes of the row d
    FreshDoc,     \* the row addExpertsToProject inserts
    Retries,      \* EXPERT_WRITE_RETRIES
    MaxRemovals   \* bound: how often the expert leaves the project

ASSUME MutateAssumption == Mutate \in [Writers -> [Docs -> Docs]]
ASSUME FreshAssumption == FreshDoc \in Docs
ASSUME RetriesAssumption == Retries \in Nat \ {0}
ASSUME RemovalsAssumption == MaxRemovals \in Nat

VARIABLES
    exists,       \* the expert is in the project
    doc,          \* status, contact_email and data of the row
    rev,          \* identity and version of the row
    removals,     \* removals so far
    loc,          \* loc[w]: "start" of an attempt, "read" done, "over"
    began,        \* began[w]: rev when the call's first attempt read it
    seenDoc,      \* seenDoc[w], seenRev[w]: what the attempt's read returned
    seenRev,
    losses,       \* losses[w]: attempts whose UPDATE matched no row
    outcome       \* outcome[w]: what the call told its caller

vars == <<exists, doc, rev, removals, loc, began, seenDoc, seenRev, losses, outcome>>

TypeOK ==
    /\ exists \in BOOLEAN
    /\ doc \in Docs
    /\ rev \in Nat
    /\ removals \in 0 .. MaxRemovals
    /\ loc \in [Writers -> {"start", "read", "over"}]
    /\ began \in [Writers -> Nat]
    /\ seenDoc \in [Writers -> Docs]
    /\ seenRev \in [Writers -> Nat]
    /\ losses \in [Writers -> 0 .. Retries]
    /\ outcome \in [Writers -> {"pending", "ok", "error", "conflict", "missing"}]

Init ==
    /\ exists = TRUE
    /\ doc \in Docs
    /\ rev = 0
    /\ removals = 0
    /\ loc = [w \in Writers |-> "start"]
    /\ began = [w \in Writers |-> 0]
    /\ seenDoc = [w \in Writers |-> FreshDoc]
    /\ seenRev = [w \in Writers |-> 0]
    /\ losses = [w \in Writers |-> 0]
    /\ outcome = [w \in Writers |-> "pending"]

-----------------------------------------------------------------------------
Finish(w, said) ==
    /\ loc' = [loc EXCEPT ![w] = "over"]
    /\ outcome' = [outcome EXCEPT ![w] = said]

\* An attempt selects the row.
Read(w) ==
    /\ loc[w] = "start"
    /\ exists
    /\ seenDoc' = [seenDoc EXCEPT ![w] = doc]
    /\ seenRev' = [seenRev EXCEPT ![w] = rev]
    /\ began' = [began EXCEPT ![w] = IF losses[w] = 0 THEN rev ELSE @]
    /\ loc' = [loc EXCEPT ![w] = "read"]
    /\ UNCHANGED <<exists, doc, rev, removals, losses, outcome>>

\* The project's row or the expert's is not there, and the call
\* throws `Project not found` or `Expert not found`.  Neither read looks at its
\* error, so that a read that failed ends like this too, whatever exists.
ReadMissing(w) ==
    /\ loc[w] = "start"
    /\ Finish(w, "missing")
    /\ UNCHANGED <<exists, doc, rev, removals, began, seenDoc, seenRev, losses>>

\* Mutant: the UPDATE is not conditional on updated_at.
MutUnmatched(w) == FALSE

\* The UPDATE's `updated_at = <what was read>` and `id = <what was read>`.
Unmatched(w) == rev # seenRev[w]

\* The UPDATE matches and the row becomes the mutation of what was read.  The
\* caller learns so, unless the answer, or a read after it, fails.
Update(w) ==
    /\ loc[w] = "read"
    /\ ~Unmatched(w)
    /\ doc' = Mutate[w][seenDoc[w]]
    /\ rev' = rev + 1
    /\ \E said \in {"ok", "error"} : Finish(w, said)
    /\ UNCHANGED <<exists, removals, began, seenDoc, seenRev, losses>>

\* Mutant: gives up one retry early.
MutLoseEarly(w) ==
    /\ loc[w] = "read"
    /\ Unmatched(w)
    /\ losses' = [losses EXCEPT ![w] = @ + 1]
    /\ IF losses[w] + 2 >= Retries
       THEN Finish(w, "conflict")
       ELSE loc' = [loc EXCEPT ![w] = "start"] /\ UNCHANGED outcome
    /\ UNCHANGED <<exists, doc, rev, removals, began, seenDoc, seenRev>>

\* The UPDATE matches no row: try again, or give up after Retries losses.
Lose(w) ==
    /\ loc[w] = "read"
    /\ Unmatched(w)
    /\ losses' = [losses EXCEPT ![w] = @ + 1]
    /\ IF losses[w] + 1 = Retries
       THEN Finish(w, "conflict")
       ELSE loc' = [loc EXCEPT ![w] = "start"] /\ UNCHANGED outcome
    /\ UNCHANGED <<exists, doc, rev, removals, began, seenDoc, seenRev>>

\* The UPDATE fails before it reaches the row, and the call throws.
UpdateError(w) ==
    /\ loc[w] = "read"
    /\ Finish(w, "error")
    /\ UNCHANGED <<exists, doc, rev, removals, began, seenDoc, seenRev, losses>>

\* removeExpertFromProject deletes the row.
Remove ==
    /\ exists
    /\ removals < MaxRemovals
    /\ exists' = FALSE
    /\ rev' = rev + 1
    /\ removals' = removals + 1
    /\ UNCHANGED <<doc, loc, began, seenDoc, seenRev, losses, outcome>>

\* addExpertsToProject upserts and ignores an expert that is already there.
Add ==
    /\ ~exists
    /\ exists' = TRUE
    /\ doc' = FreshDoc
    /\ rev' = rev + 1
    /\ UNCHANGED <<removals, loc, began, seenDoc, seenRev, losses, outcome>>

Next ==
    \/ Remove
    \/ Add
    \/ \E w \in Writers :
          Read(w) \/ ReadMissing(w) \/ Update(w) \/ Lose(w) \/ UpdateError(w)

Spec == Init /\ [][Next]_vars

-----------------------------------------------------------------------------
\* What the calls of mutateExpert implement: the row and the answers given, with
\* the reads, the versions and the retries left out.
Atomic == INSTANCE AtomicRow WITH
    Writers <- Writers, Docs <- Docs, Mutate <- Mutate, FreshDoc <- FreshDoc,
    doc <- doc, outcome <- outcome

\* No write is lost: the calls that report success, and those of the failed
\* ones that landed, took effect one at a time, each on the row the one before
\* it left, although reads and writes of several calls interleave.
SerialWrites == Atomic!Spec

\* A caller is told `expert_update_conflict` only because Retries other
\* changes of the row committed since it first read the row, so a call that meets no
\* contention is never refused, whatever was written before it came.
RefusedByContention ==
    \A w \in Writers : outcome[w] = "conflict" => rev >= began[w] + Retries

\* The part of the state RefusedByContention rests on: every lost attempt was
\* overtaken by a commit of its own, made since the call's first read.
LossesAreCommits ==
    \A w \in Writers :
        /\ loc[w] # "read" => losses[w] = 0 \/ began[w] + losses[w] <= rev
        /\ loc[w] = "read" =>
              began[w] + losses[w] <= seenRev[w] /\ seenRev[w] <= rev
        /\ loc[w] = "over" <=> outcome[w] # "pending"
        /\ outcome[w] = "conflict" => losses[w] = Retries
        /\ loc[w] # "over" => losses[w] < Retries

\* What the read returned is the row itself while the version still matches.
ReadIsCurrent ==
    \A w \in Writers :
        loc[w] = "read" /\ seenRev[w] = rev => exists /\ seenDoc[w] = doc

IInv == TypeOK /\ LossesAreCommits /\ ReadIsCurrent
=============================================================================
