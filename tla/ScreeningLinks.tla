--------------------------- MODULE ScreeningLinks ---------------------------
(* The links minted on an approved set. An expert opens one, answers every   *)
(* question of the form and sends; the link is claimed, the answers are      *)
(* inserted, and a claim whose insert failed is undone by hand. Staff may    *)
(* revoke, the client asks for a call with somebody who has answered.        *)
EXTENDS ScreeningSet

CONSTANTS Links,     \* rows of screening_tokens
          Posts,     \* POSTs experts may send, two taps of one form being two
          Clients,   \* request-call handlers that may be in flight at once
          None

ASSUME NoneAssumption == None \notin Posts \cup Links

VARIABLES over,      \* the deadline has passed
          link,      \* the rows: claim is the POST submitted_at is from
          answers,   \* per link, the POST whose answers are stored
          post, ask,
          hurt,      \* history: a write of the submission was lost or cut off,
                     \* or its questions could not be read
          refused    \* history: an insert failed, and said so

linkVars == <<over, link, answers, post, ask, hurt, refused>>
vars == <<setVars, faults, linkVars>>

NewLink == [minted |-> FALSE, revoked |-> FALSE, called |-> FALSE, claim |-> None]

\* "form" holds the texts shown, or nothing when they could not be read.
NewPost == [pc |-> "none", link |-> None, form |-> {}]

Init ==
    /\ SetInit
    /\ over = FALSE
    /\ link = [k \in Links |-> NewLink]
    /\ answers = [k \in Links |-> None]
    /\ post = [s \in Posts |-> NewPost]
    /\ ask = [c \in Clients |-> None]
    /\ hurt = {} /\ refused = {}

At(s, pc) == post[s].pc = pc
Goto(s, pc) == post' = [post EXCEPT ![s].pc = pc]

----------------------------------------------------------------------------
\* Staff mint a link. One whose answer is lost is in nobody's hands.
Mint(k) ==
    /\ status = "approved" /\ ~over
    /\ ~link[k].minted
    /\ link' = [link EXCEPT ![k].minted = TRUE]
    /\ UNCHANGED <<setVars, faults, over, answers, post, ask, hurt, refused>>

DeadlinePasses ==
    /\ "deadline" \in Ops /\ ~over /\ over' = TRUE
    /\ UNCHANGED <<setVars, faults, link, answers, post, ask, hurt, refused>>

\* resolveToken, and the check for a used link.
Usable(k) ==
    /\ link[k].minted /\ ~link[k].revoked /\ link[k].claim = None
    /\ status = "approved" /\ ~over

\* GET: the form, or one without questions when the objectives could not be read.
Open(s, k) ==
    /\ At(s, "none") /\ Usable(k)
    /\ \/ post' = [post EXCEPT ![s] = [pc |-> "form", link |-> k, form |-> {items}]]
          /\ UNCHANGED faults
       \/ /\ Fault("set_read")
          /\ post' = [post EXCEPT ![s] = [pc |-> "form", link |-> k, form |-> {}]]
    /\ UNCHANGED <<setVars, over, link, answers, ask, hurt, refused>>

\* POST: looked up again, and every question must have its answer - those of the
\* form, against those of a second read.
Send(s) ==
    /\ At(s, "form") /\ Usable(post[s].link)
    /\ \/ post[s].form # {} /\ UNCHANGED <<faults, hurt>>
       \/ /\ post[s].form = {} /\ Fault("set_read")
          /\ hurt' = hurt \cup {post[s].link}
    /\ Goto(s, "claim")
    /\ UNCHANGED <<setVars, over, link, answers, ask, refused>>

\* Mutant: the link is read, not claimed on condition.
MutUnclaimed(k) == TRUE

\* The filters of the UPDATE.
Unclaimed(k) == link[k].claim = None /\ ~link[k].revoked

\* submitScreening claims the link. Without an answer the expert is told to try
\* again.
Claim(s) ==
    LET k == post[s].link
    IN /\ At(s, "claim")
       /\ \/ /\ Unclaimed(k)
             /\ link' = [link EXCEPT ![k].claim = s]
             /\ \/ Goto(s, "insert") /\ UNCHANGED <<faults, hurt>>
                \/ Goto(s, "failed") /\ Fault("lost") /\ hurt' = hurt \cup {k}
          \/ /\ ~Unclaimed(k) /\ Goto(s, "closed")
             /\ UNCHANGED <<link, faults, hurt>>
       /\ UNCHANGED <<setVars, over, answers, ask, refused>>

\* All answers in one INSERT, refused where the link has answers already.
Insert(s) ==
    LET k == post[s].link
        stored == IF post[s].form = {} THEN answers ELSE [answers EXCEPT ![k] = s]
    IN /\ At(s, "insert")
       /\ \/ /\ post[s].form = {} \/ answers[k] = None
             /\ answers' = stored
             /\ \/ Goto(s, "ok") /\ UNCHANGED <<faults, hurt>>
                \/ Goto(s, "undo") /\ Fault("lost") /\ hurt' = hurt \cup {k}
             /\ UNCHANGED refused
          \/ /\ post[s].form # {} /\ answers[k] # None
             /\ Goto(s, "undo") /\ UNCHANGED <<answers, faults, hurt, refused>>
          \/ /\ Fault("refused") /\ Goto(s, "undo")
             /\ refused' = refused \cup {k}
             /\ UNCHANGED <<answers, hurt>>
       /\ UNCHANGED <<setVars, over, link, ask>>

\* Mutant: the claim is left standing.
MutReopened(row) == row

Reopened(row) == [row EXCEPT !.claim = None]

\* The claim is undone, unconditionally; the UPDATE's error is not looked at.
Undo(s) ==
    LET k == post[s].link
    IN /\ At(s, "undo") /\ Goto(s, "failed")
       /\ \/ link' = [link EXCEPT ![k] = Reopened(@)] /\ UNCHANGED <<faults, hurt>>
          \/ Fault("lost") /\ hurt' = hurt \cup {k} /\ UNCHANGED link
       /\ UNCHANGED <<setVars, over, answers, ask, refused>>

\* The process dies in the middle of a submission.
KillPost(s) ==
    /\ post[s].pc \in {"claim", "insert", "undo"} /\ Fault("kill")
    /\ Goto(s, "failed")
    /\ hurt' = IF At(s, "claim") THEN hurt ELSE hurt \cup {post[s].link}
    /\ UNCHANGED <<setVars, over, link, answers, ask, refused>>

\* The steps of a submission in flight.
Submission(s) == Claim(s) \/ Insert(s) \/ Undo(s)

----------------------------------------------------------------------------
\* revokeCandidate: used or not, once.
Revoke(k) ==
    /\ "revoke" \in Ops
    /\ link[k].minted /\ ~link[k].revoked
    /\ link' = [link EXCEPT ![k].revoked = TRUE]
    /\ UNCHANGED <<setVars, faults, over, answers, post, ask, hurt, refused>>

\* Mutant: any link that is not revoked will do.
MutMayAsk(k) == link[k].minted /\ ~link[k].revoked

\* request-call judges the row: answered, and not revoked.
MayAsk(k) == link[k].claim # None /\ ~link[k].revoked

AskRead(c) ==
    /\ "call" \in Ops /\ ask[c] = None
    /\ \E k \in Links : MayAsk(k) /\ ~link[k].called /\ ask' = [ask EXCEPT ![c] = k]
    /\ UNCHANGED <<setVars, faults, over, link, answers, post, hurt, refused>>

\* requestCall stamps the row if nobody has.
AskWrite(c) ==
    /\ ask[c] # None
    /\ link' = [link EXCEPT ![ask[c]].called = TRUE]
    /\ ask' = [ask EXCEPT ![c] = None]
    /\ UNCHANGED <<setVars, faults, over, answers, post, hurt, refused>>

----------------------------------------------------------------------------
LinkStep ==
    \/ DeadlinePasses
    \/ \E k \in Links : Mint(k) \/ Revoke(k)
    \/ \E s \in Posts : \/ \E k \in Links : Open(s, k)
                        \/ Send(s) \/ Submission(s) \/ KillPost(s)
    \/ \E c \in Clients : AskRead(c) \/ AskWrite(c)

Next == LinkStep \/ \E e \in Editors : SetStep(e) /\ UNCHANGED linkVars

Spec == Init /\ [][Next]_vars

\* A submission that has begun goes on; nobody has to send, and no fault comes.
FairSpec == Spec /\ \A s \in Posts : WF_vars(Submission(s))

----------------------------------------------------------------------------
\* What the variables may hold.
TypeOK ==
    /\ status \in {"draft", "approved"} /\ items \in [Objectives -> Texts]
    /\ seal \subseteq [set : [Objectives -> Texts], unread : SUBSET {"objectives", "firm"}]
    /\ ed \in [Editors -> [pc : {"idle", "read", "write", "stamp"},
                           op : Saves \cup {"none", "approve"},
                           text : [Objectives -> Texts], left : SUBSET Objectives,
                           alone : BOOLEAN, unread : SUBSET {"objectives", "firm"}]]
    /\ over \in BOOLEAN
    /\ link \in [Links -> [minted : BOOLEAN, revoked : BOOLEAN, called : BOOLEAN,
                           claim : Posts \cup {None}]]
    /\ answers \in [Links -> Posts \cup {None}]
    /\ post \in [Posts -> [pc : {"none", "form", "claim", "insert", "undo", "ok",
                                 "failed", "closed"},
                           link : Links \cup {None}, form : SUBSET [Objectives -> Texts]]]
    /\ \A s \in Posts : At(s, "none") <=> post[s].link = None
    /\ ask \in [Clients -> Links \cup {None}]
    /\ hurt \subseteq Links /\ refused \subseteq Links
    /\ starts \in 0 .. MaxStarts /\ faults \in 0 .. MaxFaults

\* What is approved while no save is in flight stays as it was approved, and is
\* what every expert is shown, whatever saves, generations and other approvals
\* follow; and it has passed the gates (approve/route.ts: "everything that has to
\* be true of a question an expert will read is checked HERE"): every text is
\* there and none is blocked, except that a text naming the client is shown if
\* that approval could not read the firm, and any text, or none, if it could not
\* read the objectives.
ShownWasScreened ==
    \A approved \in seal :
        /\ items = approved.set
        /\ \A o \in Objectives : items[o] \in Cleared(approved.unread)
        /\ \A s \in Posts : post[s].form \subseteq {approved.set}

\* An expert who is told that the answers were stored is believed for good: the
\* link stays used by that POST and the answers are that POST's, however many
\* taps overlapped, and whatever failed, was undone or died since
\* (requestStore.ts, "THE SINGLE-USE GATE"). A form without questions has none.
OkIsKept ==
    \A s \in Posts : At(s, "ok") =>
        /\ link[post[s].link].claim = s
        /\ post[s].form # {} => answers[post[s].link] = s

\* A call is only ever asked of an expert whose answers are stored or on their
\* way, unless a write of that link's submission failed or its questions could
\* not be read, so that there was nothing to answer (request-call: "exactly the
\* blind booking this whole flow exists to stop").
CallStandsOnAnswers ==
    \A k \in Links : link[k].called =>
        \/ answers[k] # None \/ k \in hurt \cup refused
        \/ \E s \in Posts : post[s].link = k /\ At(s, "insert")

\* A used link has its answers in the end, or is open again: a failed insert
\* never leaves "already submitted" over answers nobody stored, unless a write
\* of the submission was itself lost or cut off (submitScreening, "the one
\* outcome worth writing code to avoid").
UsedLinkAnswered ==
    \A k \in Links :
        link[k].claim # None ~> answers[k] # None \/ link[k].claim = None \/ k \in hurt

----------------------------------------------------------------------------
\* These do not hold.

\* A screening set is frozen at approval.
FrozenAtApproval == [][status = "approved" => items' = items]_vars

\* Nobody is asked for a call whose answers are neither there nor on their way.
NoBlindCall ==
    \A k \in Links : link[k].called =>
        \/ answers[k] # None \/ k \in hurt
        \/ \E s \in Posts : post[s].link = k /\ At(s, "insert")

\* A link that could not be used is open, and nothing is stored for it.
FailedIsOpen ==
    (\A s \in Posts : post[s].pc \in {"none", "form", "failed", "closed"}) =>
        \A k \in Links : link[k].claim = None /\ answers[k] = None
=============================================================================
