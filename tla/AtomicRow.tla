------------------------------ MODULE AtomicRow ------------------------------
(***************************************************************************)
(* What the store promises about one project_experts row: each call of     *)
(* mutateExpert either applies its mutation to the row in ONE step, on the *)
(* row as it stands at that step, or leaves the row alone and says so.     *)
(* ExpertRow shows that the read / compare / write loop keeps the promise. *)
(***************************************************************************)
EXTENDS Naturals

CONSTANTS
    Writers,   \* calls of mutateExpert, one each
    Docs,      \* values of the row
    Mutate,    \* Mutate[w][d] is what call w makes of the row d
    FreshDoc   \* the row addExpertsToProject inserts

VARIABLES
    doc,       \* the row
    outcome    \* outcome[w]: what call w has told its caller

vars == <<doc, outcome>>

Init ==
    /\ doc \in Docs
    /\ outcome = [w \in Writers |-> "pending"]

\* The mutation lands; the caller learns so, or gets a transport error.
Apply(w) ==
    /\ outcome[w] = "pending"
    /\ doc' = Mutate[w][doc]
    /\ \E said \in {"ok", "error"} : outcome' = [outcome EXCEPT ![w] = said]

\* Nothing is written, and the call throws; it says "missing" also of a row it
\* could not read.
Refuse(w) ==
    /\ outcome[w] = "pending"
    /\ \E said \in {"conflict", "missing", "error"} :
          outcome' = [outcome EXCEPT ![w] = said]
    /\ UNCHANGED doc

\* The expert is dropped from the project and bookmarked again.
Replace ==
    /\ doc' = FreshDoc
    /\ UNCHANGED outcome

Next == Replace \/ \E w \in Writers : Apply(w) \/ Refuse(w)

Spec == Init /\ [][Next]_vars
=============================================================================
