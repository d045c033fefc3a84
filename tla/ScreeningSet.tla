---------------------------- MODULE ScreeningSet ----------------------------
(* A request's screening set: one question per learning objective, drafted   *)
(* by the model, rewritten by the client, and approved once, after which     *)
(* experts read it. The three routes read the request - its row, then its    *)
(* objectives - and write later; no transaction holds them together.         *)
EXTENDS Naturals, FiniteSets

CONSTANTS Objectives,   \* the learning objectives of the request
          Questions,    \* texts the substance check lets through
          Flagged,      \* those the compliance screen blocks
          Naming,       \* of these, what it blocks only knowing the client's name
          Blank,        \* no text yet
          Editors,      \* handlers of the set that may be in flight at once
          Ops,          \* the requests and faults of a run
          MaxStarts,    \* saves, generations and approvals in all
          MaxFaults     \* kills, lost answers, failed reads and writes in all

ASSUME TextsAssumption ==
    Naming \subseteq Flagged /\ Flagged \subseteq Questions /\ Blank \notin Questions
ASSUME BoundsAssumption == MaxStarts \in Nat /\ MaxFaults \in Nat

VARIABLES status,   \* of the request
          items,    \* stem and proof prompt of each objective, as one text
          seal,     \* history: {the set that was approved undisturbed, with the
                    \* reads its approval had failed}, or {}
          ed,       \* the handlers
          starts, faults

setVars == <<status, items, seal, ed, starts>>

Texts == Questions \cup {Blank}

\* A handler: what it wants, the texts it will write and where it has not
\* written yet; of an approval, whether no save was in flight since its read,
\* and which of its reads failed.
Idle == [pc |-> "idle", op |-> "none", text |-> [o \in Objectives |-> Blank],
         left |-> {}, alone |-> FALSE, unread |-> {}]

SetInit ==
    /\ status = "draft" /\ items = [o \in Objectives |-> Blank] /\ seal = {}
    /\ ed = [e \in Editors |-> Idle]
    /\ starts = 0 /\ faults = 0

Fault(op) == op \in Ops /\ faults < MaxFaults /\ faults' = faults + 1

Saves == {"patch", "generate"}
Saving(e) == ed[e].op \in Saves

----------------------------------------------------------------------------
\* Mutant: a save is refused only when it writes nothing.
MutDraftOnly(op) == op = "approve" => status = "draft"

\* Each route's "found.status !== 'draft'" answers 409.
DraftOnly(op) == status = "draft"

\* The route reads the request's row. A save that begins disturbs whoever is
\* approving.
Begin(e, op) ==
    /\ op \in Ops /\ ed[e] = Idle
    /\ starts < MaxStarts /\ starts' = starts + 1
    /\ DraftOnly(op)
    /\ ed' = [x \in Editors |->
                IF x = e THEN [Idle EXCEPT !.pc = "read", !.op = op]
                ELSE [ed[x] EXCEPT !.alone = @ /\ op \notin Saves]]
    /\ UNCHANGED <<status, items, seal, faults>>

\* What a save still has to write; nothing ends it.
Write(e, text, left) ==
    ed' = [ed EXCEPT ![e] =
             IF left = {} THEN Idle ELSE [@ EXCEPT !.pc = "write", !.text = text, !.left = left]]

\* PATCH: the texts the client sends, and of those what differs from the read.
PatchRead(e) ==
    /\ ed[e].pc = "read" /\ ed[e].op = "patch"
    /\ \E sent \in SUBSET Objectives, text \in [Objectives -> Questions] :
          Write(e, text, {o \in sent : text[o] # items[o]})
    /\ UNCHANGED <<status, items, seal, starts, faults>>

\* Generate: minutes of the model, or its fallback, for every objective.
GenerateRead(e) ==
    /\ ed[e].pc = "read" /\ ed[e].op = "generate"
    /\ \E text \in [Objectives -> Questions] : Write(e, text, Objectives)
    /\ UNCHANGED <<status, items, seal, starts, faults>>

\* The texts an approval lets through. Objectives that could not be read are
\* none, and nothing is judged; without the firm the screen cannot tell its name.
Cleared(unread) ==
    CASE "objectives" \in unread -> Texts
      [] unread = {"firm"}       -> Questions \ (Flagged \ Naming)
      [] OTHER                   -> Questions \ Flagged

\* The two gates of an approval: complete, and nothing the screen blocks.
GatesPass(unread) == \A o \in Objectives : items[o] \in Cleared(unread)

\* The approval reads the objectives and then the firm. Neither read looks at its
\* error: the one comes back empty, the other without a firm.
ApproveRead(e) ==
    /\ ed[e].pc = "read" /\ ed[e].op = "approve"
    /\ \E unread \in {{}, {"objectives"}, {"firm"}} :
          /\ \/ unread = {} /\ UNCHANGED faults
             \/ unread # {} /\ Fault("set_read")
          /\ ed' = [ed EXCEPT ![e] =
                      IF GatesPass(unread)
                      THEN [@ EXCEPT !.pc = "stamp", !.unread = unread,
                                     !.alone = \A x \in Editors : ~Saving(x)]
                      ELSE Idle]
    /\ UNCHANGED <<status, items, seal, starts>>

\* updateObjectiveItems: one UPDATE per objective, issued together; each may fail.
WriteItem(e) ==
    /\ ed[e].pc = "write"
    /\ \E o \in ed[e].left :
          /\ Write(e, ed[e].text, ed[e].left \ {o})
          /\ \/ items' = [items EXCEPT ![o] = ed[e].text[o]] /\ UNCHANGED faults
             \/ Fault("set_write") /\ UNCHANGED items
    /\ UNCHANGED <<status, seal, starts>>

\* approveRequest, unconditional. What the first approval let through undisturbed
\* is remembered.
Stamp(e) ==
    /\ ed[e].pc = "stamp"
    /\ status' = "approved"
    /\ seal' = IF status = "draft" /\ ed[e].alone
                THEN {[set |-> items, unread |-> ed[e].unread]} ELSE seal
    /\ ed' = [ed EXCEPT ![e] = Idle]
    /\ UNCHANGED <<items, starts, faults>>

\* The process dies between two steps, or its write is refused.
KillEditor(e) ==
    /\ ed[e] # Idle /\ Fault("kill")
    /\ ed' = [ed EXCEPT ![e] = Idle]
    /\ UNCHANGED <<status, items, seal, starts>>

SetStep(e) ==
    \/ \E op \in Saves \cup {"approve"} : Begin(e, op)
    \/ PatchRead(e) \/ GenerateRead(e) \/ ApproveRead(e)
    \/ WriteItem(e) \/ Stamp(e) \/ KillEditor(e)
=============================================================================
