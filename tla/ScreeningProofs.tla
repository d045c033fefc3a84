--------------------------- MODULE ScreeningProofs --------------------------
(* Proofs about ScreeningLinks, for any number of objectives, texts, links,  *)
(* handlers, POSTs, starts and faults.                                       *)
EXTENDS ScreeningLinks, TLAPS

\* A handler that writes is a save; an approval still alone has seen the gates
\* pass on the items as they are, and no save is in flight.
HandlersOK ==
    \A e \in Editors :
        /\ ed[e].pc = "write" => Saving(e)
        /\ ed[e].alone => /\ ed[e].pc = "stamp" /\ GatesPass(ed[e].unread)
                          /\ \A x \in Editors : ~Saving(x)

\* What an approval may have failed to read.
Unread == SUBSET {"objectives", "firm"}

\* What was approved undisturbed is the set, and nobody can write to it.
SealOK ==
    seal # {} =>
        /\ status = "approved"
        /\ \E unread \in Unread :
              seal = {[set |-> items, unread |-> unread]} /\ GatesPass(unread)
        /\ \A e \in Editors : ~Saving(e)
        /\ \A s \in Posts : post[s].form \subseteq {items}

\* No form is out before the approval.
FormsOK == status = "draft" => \A s \in Posts : post[s].form = {}

\* Answers are stored for link k, or a write of one of its submissions failed.
Solid(k) == answers[k] # None \/ k \in hurt \cup refused

\* What a submission that has claimed its link may rely on.
PostOK(s) ==
    LET k == post[s].link
    IN /\ post[s].pc \in {"insert", "undo", "ok"} => link[k].claim = s
       /\ At(s, "ok") /\ post[s].form # {} => answers[k] = s
       /\ post[s].pc \in {"claim", "insert", "undo", "ok"} /\ post[s].form = {} => k \in hurt
       /\ At(s, "undo") => Solid(k)

\* There is something behind a claim on link k, or its insert is still to come.
Backed(k) == Solid(k) \/ \E s \in Posts : post[s].link = k /\ At(s, "insert")

ClaimsBacked ==
    /\ \A k \in Links : link[k].claim # None \/ link[k].called => Backed(k)
    /\ \A c \in Clients : ask[c] # None => Backed(ask[c])

\* The inductive invariant.
IInv ==
    /\ TypeOK
    /\ HandlersOK /\ SealOK /\ FormsOK
    /\ \A s \in Posts : PostOK(s)
    /\ ClaimsBacked

----------------------------------------------------------------------------
\* Types.

EdType == [pc : {"idle", "read", "write", "stamp"}, op : Saves \cup {"none", "approve"},
           text : [Objectives -> Texts], left : SUBSET Objectives, alone : BOOLEAN,
           unread : Unread]

RowType == [minted : BOOLEAN, revoked : BOOLEAN, called : BOOLEAN, claim : Posts \cup {None}]

PostType == [pc : {"none", "form", "claim", "insert", "undo", "ok", "failed", "closed"},
             link : Links \cup {None}, form : SUBSET [Objectives -> Texts]]

LEMMA IdleType == Idle \in EdType
  BY DEF Idle, EdType, Texts, Saves, Unread

\* A fault is counted.
LEMMA FaultCounted ==
    ASSUME TypeOK, faults' = faults \/ (\E op : Fault(op))
    PROVE  faults' \in 0 .. MaxFaults
  BY BoundsAssumption DEF TypeOK, Fault

LEMMA InitTypes == Init => TypeOK
<1> SUFFICES ASSUME Init PROVE TypeOK
  OBVIOUS
<1>1. ed \in [Editors -> EdType]
  BY IdleType DEF Init, SetInit
<1>2. items \in [Objectives -> Texts] /\ status = "draft" /\ seal = {}
  BY DEF Init, SetInit, Texts
<1>3. starts \in 0 .. MaxStarts /\ faults \in 0 .. MaxFaults
  BY BoundsAssumption DEF Init, SetInit
<1>4. link \in [Links -> RowType] /\ post \in [Posts -> PostType]
  BY DEF Init, NewLink, NewPost, RowType, PostType
<1>5. \A s \in Posts : At(s, "none") <=> post[s].link = None
  BY DEF Init, NewPost, At
<1>6. QED
  BY <1>1, <1>2, <1>3, <1>4, <1>5 DEF Init, TypeOK, EdType, Unread, RowType, PostType

\* What Write leaves behind.
LEMMA WriteTypes ==
    ASSUME ed \in [Editors -> EdType], NEW e \in Editors,
           NEW text \in [Objectives -> Texts], NEW left \in SUBSET Objectives,
           Write(e, text, left)
    PROVE  /\ ed' \in [Editors -> EdType]
           /\ \A x \in Editors \ {e} : ed'[x] = ed[x]
           /\ \/ ed'[e] = Idle
              \/ /\ ed'[e].pc = "write" /\ ed'[e].op = ed[e].op
                 /\ ed'[e].alone = ed[e].alone
<1>1. [ed[e] EXCEPT !.pc = "write", !.text = text, !.left = left] \in EdType
  BY DEF EdType
<1>2. QED
  BY <1>1, IdleType DEF Write, EdType

LEMMA SetTypes ==
    ASSUME TypeOK, NEW e \in Editors, SetStep(e), UNCHANGED linkVars
    PROVE  TypeOK'
<1> USE DEF linkVars
<1>1. /\ ed \in [Editors -> EdType] /\ items \in [Objectives -> Texts]
      /\ seal \subseteq [set : [Objectives -> Texts], unread : Unread]
      /\ status \in {"draft", "approved"} /\ starts \in 0 .. MaxStarts
  BY DEF TypeOK, EdType, Unread
<1>2. Questions \subseteq Texts
  BY DEF Texts
<1>3. faults' \in 0 .. MaxFaults
  BY FaultCounted DEF SetStep, Begin, PatchRead, GenerateRead, ApproveRead, WriteItem,
                      Stamp, KillEditor
<1>4. /\ ed' \in [Editors -> EdType] /\ items' \in [Objectives -> Texts]
      /\ seal' \subseteq [set : [Objectives -> Texts], unread : Unread]
      /\ status' \in {"draft", "approved"} /\ starts' \in 0 .. MaxStarts
  <2>1. ASSUME NEW op \in Saves \cup {"approve"}, Begin(e, op)
        PROVE  ed' \in [Editors -> EdType] /\ starts' \in 0 .. MaxStarts
    <3>1. [Idle EXCEPT !.pc = "read", !.op = op] \in EdType
      BY IdleType DEF EdType
    <3>2. ASSUME NEW x \in Editors
          PROVE  [ed[x] EXCEPT !.alone = @ /\ op \notin Saves] \in EdType
      <4>1. (ed[x].alone /\ op \notin Saves) \in BOOLEAN
        OBVIOUS
      <4>2. QED
        BY <1>1, <4>1 DEF EdType
    <3>3. starts' \in 0 .. MaxStarts
      BY <1>1, <2>1, BoundsAssumption DEF Begin
    <3>4. QED
      BY <2>1, <3>1, <3>2, <3>3 DEF Begin
  <2>2. CASE PatchRead(e)
    <3>1. PICK sent \in SUBSET Objectives, text \in [Objectives -> Questions] :
            Write(e, text, {o \in sent : text[o] # items[o]})
      BY <2>2 DEF PatchRead
    <3>2. text \in [Objectives -> Texts]
      BY <1>2
    <3>3. ed' \in [Editors -> EdType]
      BY <1>1, <3>1, <3>2, WriteTypes
    <3>4. QED
      BY <1>1, <2>2, <3>3 DEF PatchRead
  <2>3. CASE GenerateRead(e)
    <3>1. PICK text \in [Objectives -> Questions] : Write(e, text, Objectives)
      BY <2>3 DEF GenerateRead
    <3>2. text \in [Objectives -> Texts]
      BY <1>2
    <3>3. ed' \in [Editors -> EdType]
      BY <1>1, <3>1, <3>2, WriteTypes
    <3>4. QED
      BY <1>1, <2>3, <3>3 DEF GenerateRead
  <2>4. CASE ApproveRead(e)
    <3>1. ASSUME NEW free \in BOOLEAN, NEW unread \in Unread
          PROVE  [ed[e] EXCEPT !.pc = "stamp", !.unread = unread, !.alone = free] \in EdType
      BY <1>1 DEF EdType
    <3>2. (\A x \in Editors : ~Saving(x)) \in BOOLEAN
      OBVIOUS
    <3>3. ed' \in [Editors -> EdType]
      <4>1. PICK unread \in Unread :
              ed' = [ed EXCEPT ![e] =
                       IF GatesPass(unread)
                       THEN [@ EXCEPT !.pc = "stamp", !.unread = unread,
                                      !.alone = \A x \in Editors : ~Saving(x)]
                       ELSE Idle]
        BY <2>4 DEF ApproveRead, Unread
      <4>2. QED
        BY <1>1, <3>1, <3>2, <4>1, IdleType
    <3>4. QED
      BY <1>1, <2>4, <3>3 DEF ApproveRead
  <2>5. CASE WriteItem(e)
    <3>1. PICK o \in ed[e].left :
            /\ Write(e, ed[e].text, ed[e].left \ {o})
            /\ items' = [items EXCEPT ![o] = ed[e].text[o]] \/ UNCHANGED items
      BY <2>5 DEF WriteItem
    <3>2. /\ ed[e].text \in [Objectives -> Texts] /\ ed[e].left \subseteq Objectives
          /\ o \in Objectives
      BY <1>1 DEF EdType
    <3>3. ed' \in [Editors -> EdType]
      BY <1>1, <3>1, <3>2, WriteTypes
    <3>4. items' \in [Objectives -> Texts]
      BY <1>1, <3>1, <3>2
    <3>5. QED
      BY <1>1, <2>5, <3>3, <3>4 DEF WriteItem
  <2>6. CASE Stamp(e)
    <3>1. [set |-> items, unread |-> ed[e].unread] \in [set : [Objectives -> Texts], unread : Unread]
      BY <1>1 DEF EdType
    <3>2. QED
      BY <1>1, <2>6, <3>1, IdleType DEF Stamp
  <2>7. CASE KillEditor(e)
    BY <1>1, <2>7, IdleType DEF KillEditor
  <2>8. QED
    BY <1>1, <2>1, <2>2, <2>3, <2>4, <2>5, <2>6, <2>7 DEF SetStep, Begin
<1>5. QED
  BY <1>3, <1>4 DEF TypeOK, EdType, Unread, At

\* A POST that moves on keeps its link and its form.
LEMMA GotoTypes ==
    ASSUME TypeOK, NEW s \in Posts, ~At(s, "none"),
           NEW pc \in {"claim", "insert", "undo", "ok", "failed", "closed"}, Goto(s, pc)
    PROVE  /\ post' \in [Posts -> PostType]
           /\ \A t \in Posts : At(t, "none")' <=> post'[t].link = None
           /\ post'[s].pc = pc /\ post'[s].link = post[s].link /\ post'[s].form = post[s].form
           /\ post[s].link \in Links
           /\ \A t \in Posts \ {s} : post'[t] = post[t]
<1>1. post \in [Posts -> PostType]
  BY DEF TypeOK, PostType
<1>2. /\ [post[s] EXCEPT !.pc = pc] \in PostType
      /\ post'[s] = [post[s] EXCEPT !.pc = pc]
  BY <1>1 DEF Goto, PostType
<1>3. post' \in [Posts -> PostType] /\ \A t \in Posts \ {s} : post'[t] = post[t]
  BY <1>1, <1>2 DEF Goto
<1>4. post[s].link \in Links
  BY <1>1 DEF TypeOK, PostType
<1>5. post'[s].pc = pc /\ post'[s].link = post[s].link /\ post'[s].form = post[s].form
  BY <1>1, <1>2 DEF PostType
<1>6. ASSUME NEW t \in Posts PROVE At(t, "none")' <=> post'[t].link = None
  <2>1. At(t, "none") <=> post[t].link = None
    BY DEF TypeOK
  <2>2. CASE t = s
    BY <1>4, <1>5, <2>2, NoneAssumption DEF At
  <2>3. CASE t # s
    BY <1>3, <2>1, <2>3 DEF At
  <2>4. QED
    BY <2>2, <2>3
<1>7. QED
  BY <1>3, <1>4, <1>5, <1>6

LEMMA LinkTypes == ASSUME TypeOK, LinkStep PROVE TypeOK'
<1>1. /\ link \in [Links -> RowType] /\ answers \in [Links -> Posts \cup {None}]
      /\ post \in [Posts -> PostType] /\ ask \in [Clients -> Links \cup {None}]
      /\ hurt \subseteq Links /\ refused \subseteq Links /\ over \in BOOLEAN
      /\ items \in [Objectives -> Texts]
      /\ \A s \in Posts : At(s, "none") <=> post[s].link = None
  BY DEF TypeOK, RowType, PostType
<1>2. UNCHANGED setVars
  BY DEF LinkStep, DeadlinePasses, Mint, Revoke, Open, Send, Submission, Claim, Insert,
         Undo, KillPost, AskRead, AskWrite
<1>3. faults' \in 0 .. MaxFaults
  BY FaultCounted DEF LinkStep, DeadlinePasses, Mint, Revoke, Open, Send, Submission,
                      Claim, Insert, Undo, KillPost, AskRead, AskWrite
<1> DEFINE Good ==
      /\ link' \in [Links -> RowType] /\ answers' \in [Links -> Posts \cup {None}]
      /\ post' \in [Posts -> PostType] /\ ask' \in [Clients -> Links \cup {None}]
      /\ hurt' \subseteq Links /\ refused' \subseteq Links /\ over' \in BOOLEAN
      /\ \A s \in Posts : At(s, "none")' <=> post'[s].link = None
<1>4. Good
  <2>1. CASE DeadlinePasses
    BY <1>1, <2>1 DEF DeadlinePasses, At
  <2>2. ASSUME NEW k \in Links, Mint(k) \/ Revoke(k) PROVE Good
    <3>1. /\ [link[k] EXCEPT !.minted = TRUE] \in RowType
          /\ [link[k] EXCEPT !.revoked = TRUE] \in RowType
      BY <1>1 DEF RowType
    <3>2. link' \in [Links -> RowType]
      BY <1>1, <2>2, <3>1 DEF Mint, Revoke
    <3>3. QED
      BY <1>1, <2>2, <3>2 DEF Mint, Revoke, At
  <2>3. ASSUME NEW s \in Posts, NEW k \in Links, Open(s, k) PROVE Good
    <3>1. ASSUME NEW form \in {{items}, {}}
          PROVE  [pc |-> "form", link |-> k, form |-> form] \in PostType
      BY <1>1 DEF PostType
    <3>2. PICK form \in {{items}, {}} :
            post' = [post EXCEPT ![s] = [pc |-> "form", link |-> k, form |-> form]]
      BY <2>3 DEF Open
    <3>3. post' \in [Posts -> PostType]
      BY <1>1, <3>1, <3>2
    <3>4. \A t \in Posts : At(t, "none")' <=> post'[t].link = None
      BY <1>1, <3>2, NoneAssumption DEF At
    <3>5. QED
      BY <1>1, <2>3, <3>3, <3>4 DEF Open
  <2>4. ASSUME NEW s \in Posts, Send(s) PROVE Good
    <3>1. ~At(s, "none") /\ Goto(s, "claim")
      BY <2>4 DEF Send, At
    <3>2. QED
      BY <1>1, <2>4, <3>1, GotoTypes DEF Send
  <2>5. ASSUME NEW s \in Posts, Claim(s) PROVE Good
    <3>1. /\ ~At(s, "none")
          /\ Goto(s, "insert") \/ Goto(s, "failed") \/ Goto(s, "closed")
      BY <2>5 DEF Claim, At
    <3>2. post[s].link \in Links
      BY <3>1, GotoTypes
    <3>3. [link[post[s].link] EXCEPT !.claim = s] \in RowType
      BY <1>1, <3>2 DEF RowType
    <3>4. link' \in [Links -> RowType] /\ hurt' \subseteq Links
      BY <1>1, <2>5, <3>2, <3>3 DEF Claim
    <3>5. QED
      BY <1>1, <2>5, <3>1, <3>4, GotoTypes DEF Claim
  <2>6. ASSUME NEW s \in Posts, Insert(s) PROVE Good
    <3>1. ~At(s, "none") /\ (Goto(s, "ok") \/ Goto(s, "undo"))
      BY <2>6 DEF Insert, At
    <3>2. post[s].link \in Links
      BY <3>1, GotoTypes
    <3>3. /\ answers' \in [Links -> Posts \cup {None}]
          /\ hurt' \subseteq Links /\ refused' \subseteq Links
      BY <1>1, <2>6, <3>2 DEF Insert
    <3>4. QED
      BY <1>1, <2>6, <3>1, <3>3, GotoTypes DEF Insert
  <2>7. ASSUME NEW s \in Posts, Undo(s) PROVE Good
    <3>1. ~At(s, "none") /\ Goto(s, "failed")
      BY <2>7 DEF Undo, At
    <3>2. post[s].link \in Links
      BY <3>1, GotoTypes
    <3>3. Reopened(link[post[s].link]) \in RowType
      BY <1>1, <3>2 DEF RowType, Reopened
    <3>4. link' \in [Links -> RowType] /\ hurt' \subseteq Links
      BY <1>1, <2>7, <3>2, <3>3 DEF Undo
    <3>5. QED
      BY <1>1, <2>7, <3>1, <3>4, GotoTypes DEF Undo
  <2>8. ASSUME NEW s \in Posts, KillPost(s) PROVE Good
    <3>1. ~At(s, "none") /\ Goto(s, "failed")
      BY <2>8 DEF KillPost, At
    <3>2. hurt' \subseteq Links
      BY <1>1, <2>8, <3>1, GotoTypes DEF KillPost
    <3>3. QED
      BY <1>1, <2>8, <3>1, <3>2, GotoTypes DEF KillPost
  <2>9. ASSUME NEW c \in Clients, AskRead(c) \/ AskWrite(c) PROVE Good
    <3>1. CASE AskRead(c)
      BY <1>1, <3>1 DEF AskRead, At
    <3>2. CASE AskWrite(c)
      <4>1. ask[c] \in Links
        BY <1>1, <3>2 DEF AskWrite
      <4>2. [link[ask[c]] EXCEPT !.called = TRUE] \in RowType
        BY <1>1, <4>1 DEF RowType
      <4>3. QED
        BY <1>1, <3>2, <4>1, <4>2 DEF AskWrite, At
    <3>3. QED
      BY <2>9, <3>1, <3>2
  <2>10. QED
    BY <2>1, <2>2, <2>3, <2>4, <2>5, <2>6, <2>7, <2>8, <2>9 DEF LinkStep, Submission
<1>5. QED
  BY <1>2, <1>3, <1>4 DEF TypeOK, setVars, RowType, PostType

\* A step leaves the types, whoever takes it.
LEMMA NextTypes == TypeOK /\ [Next]_vars => TypeOK'
<1>1. TypeOK /\ UNCHANGED vars => TypeOK'
  BY DEF TypeOK, vars, setVars, linkVars, At
<1>2. QED
  BY <1>1, SetTypes, LinkTypes DEF Next

\* The variables of ScreeningSet and ScreeningLinks keep their types.
THEOREM TypesHold == Spec => []TypeOK
  BY InitTypes, NextTypes, PTL DEF Spec

----------------------------------------------------------------------------
\* The set.

LEMMA InitIInv == Init => IInv
<1> SUFFICES ASSUME Init PROVE IInv
  OBVIOUS
<1>1. HandlersOK /\ SealOK /\ FormsOK
  BY DEF Init, SetInit, HandlersOK, SealOK, FormsOK, Idle, NewPost
<1>2. (\A s \in Posts : PostOK(s)) /\ ClaimsBacked
  BY DEF Init, NewPost, NewLink, PostOK, ClaimsBacked, At
<1>3. QED
  BY <1>1, <1>2, InitTypes DEF IInv

\* While a save is in flight nobody is alone and nothing is sealed, so it may
\* write what it likes.
LEMMA SaveSteps ==
    ASSUME IInv, NEW e \in Editors, Saving(e),
           NEW text \in [Objectives -> Texts], NEW left \in SUBSET Objectives,
           Write(e, text, left), UNCHANGED <<status, seal, post>>
    PROVE  HandlersOK' /\ SealOK' /\ FormsOK'
<1>1. seal = {} /\ \A x \in Editors : ~ed[x].alone
  BY DEF IInv, HandlersOK, SealOK
<1>2. /\ \A x \in Editors \ {e} : ed'[x] = ed[x]
      /\ \/ ed'[e] = Idle
         \/ ed'[e].pc = "write" /\ ed'[e].op = ed[e].op /\ ed'[e].alone = ed[e].alone
  BY WriteTypes DEF IInv, TypeOK, EdType, Unread
<1>3. \A x \in Editors : ~ed'[x].alone /\ (ed'[x].pc = "write" => ed'[x].op \in Saves)
  BY <1>1, <1>2 DEF IInv, HandlersOK, Saving, Idle
<1>4. QED
  BY <1>1, <1>3 DEF IInv, HandlersOK, SealOK, FormsOK, Saving

\* One that ends leaves the others as they were.
LEMMA EndsWell ==
    ASSUME IInv, NEW e \in Editors, ed' = [ed EXCEPT ![e] = Idle],
           UNCHANGED <<status, items, seal, post>>
    PROVE  HandlersOK' /\ SealOK' /\ FormsOK'
<1>1. \A x \in Editors : ed'[x] = IF x = e THEN Idle ELSE ed[x]
  BY DEF IInv, TypeOK
<1>2. \A x \in Editors : /\ ed'[x].op \in Saves => Saving(x)
                         /\ ed'[x].alone => /\ ed[x].alone /\ ed'[x].pc = ed[x].pc
                                            /\ ed'[x].unread = ed[x].unread
                         /\ ed'[x].pc = "write" => ed[x].pc = "write" /\ ed'[x].op = ed[x].op
  BY <1>1 DEF Idle, Saving, Saves
<1>3. QED
  BY <1>2 DEF IInv, HandlersOK, SealOK, FormsOK, GatesPass, Saving

LEMMA SetParts ==
    ASSUME IInv, NEW e \in Editors, SetStep(e), UNCHANGED linkVars
    PROVE  HandlersOK' /\ SealOK' /\ FormsOK'
<1>1. /\ ed \in [Editors -> EdType] /\ items \in [Objectives -> Texts]
      /\ UNCHANGED post
  BY DEF IInv, TypeOK, EdType, Unread, linkVars
<1>2. Questions \subseteq Texts
  BY DEF Texts
<1>3. ASSUME NEW op \in Saves \cup {"approve"}, Begin(e, op)
      PROVE  HandlersOK' /\ SealOK' /\ FormsOK'
  <2>1. /\ seal = {} /\ UNCHANGED <<status, items, seal, post>>
    BY <1>1, <1>3 DEF Begin, DraftOnly, IInv, SealOK
  <2>2. /\ ed'[e].pc = "read" /\ ed'[e].op = op /\ ~ed'[e].alone
        /\ \A x \in Editors \ {e} : /\ ed'[x].pc = ed[x].pc /\ ed'[x].op = ed[x].op
                                    /\ ed'[x].unread = ed[x].unread
                                    /\ ed'[x].alone => ed[x].alone /\ op \notin Saves
    BY <1>1, <1>3 DEF Begin, Idle, EdType
  <2>3. QED
    BY <2>1, <2>2 DEF IInv, HandlersOK, SealOK, FormsOK, GatesPass, Saving
<1>4. CASE PatchRead(e)
  <2>1. PICK sent \in SUBSET Objectives, text \in [Objectives -> Questions] :
          Write(e, text, {o \in sent : text[o] # items[o]})
    BY <1>4 DEF PatchRead
  <2>2. text \in [Objectives -> Texts] /\ Saving(e)
    BY <1>2, <1>4 DEF PatchRead, Saving, Saves
  <2>3. QED
    BY <1>1, <1>4, <2>1, <2>2, SaveSteps DEF PatchRead
<1>5. CASE GenerateRead(e)
  <2>1. PICK text \in [Objectives -> Questions] : Write(e, text, Objectives)
    BY <1>5 DEF GenerateRead
  <2>2. text \in [Objectives -> Texts] /\ Saving(e)
    BY <1>2, <1>5 DEF GenerateRead, Saving, Saves
  <2>3. QED
    BY <1>1, <1>5, <2>1, <2>2, SaveSteps DEF GenerateRead
<1>6. CASE ApproveRead(e)
  <2>1. ed[e].pc = "read" /\ ed[e].op = "approve" /\ ~ed[e].alone
    BY <1>6 DEF ApproveRead, IInv, HandlersOK
  <2>2. UNCHANGED <<status, items, seal, post>>
    BY <1>1, <1>6 DEF ApproveRead
  <2>3. CASE ed' = [ed EXCEPT ![e] = Idle]
    BY <2>2, <2>3, EndsWell
  <2>4. ASSUME NEW unread \in Unread, GatesPass(unread),
               ed' = [ed EXCEPT ![e] = [@ EXCEPT !.pc = "stamp", !.unread = unread,
                                                 !.alone = \A x \in Editors : ~Saving(x)]]
        PROVE  HandlersOK' /\ SealOK' /\ FormsOK'
    <3>1. /\ ed'[e].pc = "stamp" /\ ed'[e].op = "approve" /\ ed'[e].unread = unread
          /\ ed'[e].alone = (\A x \in Editors : ~Saving(x))
          /\ \A x \in Editors \ {e} : ed'[x] = ed[x]
      BY <1>1, <2>1, <2>4 DEF EdType
    <3>2. \A x \in Editors : Saving(x)' <=> Saving(x)
      BY <2>1, <3>1 DEF Saving
    <3>3. \A u \in Unread : GatesPass(u)' <=> GatesPass(u)
      BY <2>2 DEF GatesPass
    <3>4. \A x \in Editors : ed[x].unread \in Unread
      BY <1>1 DEF EdType
    <3>5. HandlersOK'
      BY <2>4, <3>1, <3>2, <3>3, <3>4 DEF IInv, HandlersOK
    <3>6. SealOK' /\ FormsOK'
      BY <2>2, <3>2, <3>3 DEF IInv, SealOK, FormsOK
    <3>7. QED
      BY <3>5, <3>6
  <2>5. PICK unread \in Unread :
          ed' = [ed EXCEPT ![e] =
                   IF GatesPass(unread)
                   THEN [@ EXCEPT !.pc = "stamp", !.unread = unread,
                                  !.alone = \A x \in Editors : ~Saving(x)]
                   ELSE Idle]
    BY <1>6 DEF ApproveRead, Unread
  <2>6. QED
    BY <2>3, <2>4, <2>5
<1>7. CASE WriteItem(e)
  <2>1. PICK o \in ed[e].left : Write(e, ed[e].text, ed[e].left \ {o})
    BY <1>7 DEF WriteItem
  <2>2. /\ ed[e].text \in [Objectives -> Texts] /\ ed[e].left \ {o} \subseteq Objectives
        /\ Saving(e)
    BY <1>1, <1>7 DEF EdType, WriteItem, IInv, HandlersOK
  <2>3. QED
    BY <1>1, <1>7, <2>1, <2>2, SaveSteps DEF WriteItem
<1>8. CASE Stamp(e)
  <2>1. /\ ed' = [ed EXCEPT ![e] = Idle] /\ UNCHANGED <<items, post>>
        /\ status' = "approved"
    BY <1>1, <1>8 DEF Stamp
  <2>2. \A x \in Editors : ed'[x] = IF x = e THEN Idle ELSE ed[x]
    BY <1>1, <2>1
  <2>3. \A x \in Editors : /\ ed'[x].op \in Saves => Saving(x)
                           /\ ed'[x].alone => /\ ed[x].alone /\ ed'[x].pc = ed[x].pc
                                            /\ ed'[x].unread = ed[x].unread
                           /\ ed'[x].pc = "write" => ed[x].pc = "write" /\ ed'[x].op = ed[x].op
    BY <2>2 DEF Idle, Saving, Saves
  <2>4. HandlersOK' /\ FormsOK'
    BY <2>1, <2>3 DEF IInv, HandlersOK, FormsOK, GatesPass, Saving
  <2>5. CASE status = "draft" /\ ed[e].alone
    <3>1. /\ ed[e].unread \in Unread /\ seal' = {[set |-> items, unread |-> ed[e].unread]}
          /\ GatesPass(ed[e].unread) /\ \A x \in Editors : ~Saving(x)
          /\ \A s \in Posts : post[s].form = {}
      BY <1>1, <1>8, <2>5 DEF Stamp, IInv, HandlersOK, FormsOK, EdType
    <3>2. SealOK'
      BY <2>1, <2>3, <3>1 DEF SealOK, GatesPass, Saving
    <3>3. QED
      BY <2>4, <3>2
  <2>6. CASE ~(status = "draft" /\ ed[e].alone)
    <3>1. seal' = seal
      BY <1>8, <2>6 DEF Stamp
    <3>2. SealOK'
      BY <2>1, <2>3, <3>1 DEF IInv, SealOK, GatesPass, Saving
    <3>3. QED
      BY <2>4, <3>2
  <2>7. QED
    BY <2>5, <2>6
<1>9. CASE KillEditor(e)
  BY <1>1, <1>9, EndsWell DEF KillEditor
<1>10. QED
  BY <1>3, <1>4, <1>5, <1>6, <1>7, <1>8, <1>9 DEF SetStep

----------------------------------------------------------------------------
\* The links. Nothing a link step does reaches the set.
LEMMA SetApart ==
    ASSUME IInv, UNCHANGED setVars,
           \A s \in Posts : \/ post'[s].form = post[s].form
                            \/ status = "approved" /\ post'[s].form \subseteq {items}
    PROVE  HandlersOK' /\ SealOK' /\ FormsOK'
<1>1. UNCHANGED <<status, items, seal, ed>>
  BY DEF setVars
<1>2. HandlersOK'
  BY <1>1 DEF IInv, HandlersOK, GatesPass, Saving
<1>3. SealOK'
  <2>1. SUFFICES ASSUME seal # {} PROVE SealOK'
    BY <1>1 DEF SealOK
  <2>2. \A s \in Posts : post'[s].form \subseteq {items}
    BY <2>1 DEF IInv, SealOK
  <2>3. QED
    BY <1>1, <2>1, <2>2 DEF IInv, SealOK, GatesPass, Saving
<1>4. FormsOK'
  BY <1>1 DEF IInv, FormsOK
<1>5. QED
  BY <1>2, <1>3, <1>4

\* Nobody's submission is touched: no POST moves, no claim and no answer goes,
\* and histories only grow.
LEMMA PostsApart ==
    ASSUME IInv, UNCHANGED <<post, answers>>, hurt \subseteq hurt', refused \subseteq refused',
           \A k \in Links : link'[k].claim = link[k].claim,
           \A k \in Links : link'[k].called => link[k].called \/ Backed(k),
           \A c \in Clients : ask'[c] # None => ask'[c] = ask[c] \/ Backed(ask'[c])
    PROVE  (\A s \in Posts : PostOK(s)') /\ ClaimsBacked'
<1>1. \A k : Backed(k) => Backed(k)'
  BY DEF Backed, Solid, At
<1>2. ClaimsBacked'
  BY <1>1 DEF IInv, ClaimsBacked
<1>3. ASSUME NEW s \in Posts PROVE PostOK(s)'
  <2>1. PostOK(s) /\ (post[s].link \in Links \/ At(s, "none"))
    BY DEF IInv, TypeOK, At
  <2>2. QED
    BY <2>1 DEF PostOK, Solid, At
<1>4. QED
  BY <1>2, <1>3

\* One POST moves on, by itself, on its link k.
LEMMA OneMoves ==
    ASSUME IInv, NEW s \in Posts, NEW k \in Links, k = post[s].link,
           UNCHANGED ask, hurt \subseteq hurt', refused \subseteq refused',
           \A t \in Posts \ {s} : post'[t] = post[t],
           post'[s].link = k,
           \A j \in Links \ {k} : link'[j] = link[j] /\ answers'[j] = answers[j],
           link'[k].called = link[k].called,
           answers[k] # None => answers'[k] # None,
           answers'[k] = answers[k] \/ link[k].claim = s,
           link'[k].claim = link[k].claim \/ link[k].claim \in {None, s},
           link'[k].claim = None \/ link'[k].claim = link[k].claim \/ Backed(k)',
           At(s, "insert") => Backed(k)',
           PostOK(s)'
    PROVE  (\A t \in Posts : PostOK(t)') /\ ClaimsBacked'
<1>1. ASSUME NEW j \in Links, Backed(j) PROVE Backed(j)'
  <2>1. CASE Solid(j)
    BY <2>1 DEF Backed, Solid
  <2>2. CASE ~Solid(j)
    <3>1. PICK t \in Posts : post[t].link = j /\ At(t, "insert")
      BY <1>1, <2>2 DEF Backed
    <3>2. CASE t = s
      BY <3>1, <3>2
    <3>3. CASE t # s
      BY <3>1, <3>3 DEF Backed, At
    <3>4. QED
      BY <3>2, <3>3
  <2>3. QED
    BY <2>1, <2>2
<1>2. ClaimsBacked'
  <2>1. ASSUME NEW j \in Links, link'[j].claim # None \/ link'[j].called PROVE Backed(j)'
    <3>1. CASE j = k
      BY <1>1, <2>1, <3>1 DEF IInv, ClaimsBacked
    <3>2. CASE j # k
      BY <1>1, <2>1, <3>2 DEF IInv, ClaimsBacked
    <3>3. QED
      BY <3>1, <3>2
  <2>2. ASSUME NEW c \in Clients, ask[c] # None PROVE Backed(ask[c])'
    <3>1. ask[c] \in Links /\ Backed(ask[c])
      BY <2>2 DEF IInv, TypeOK, ClaimsBacked
    <3>2. PICK j \in Links : j = ask[c]
      BY <3>1
    <3>3. Backed(j)'
      BY <1>1, <3>1, <3>2
    <3>4. QED
      BY <3>2, <3>3 DEF Backed, Solid
  <2>3. QED
    BY <2>1, <2>2 DEF ClaimsBacked
<1>3. ASSUME NEW t \in Posts, t # s PROVE PostOK(t)'
  <2>1. /\ PostOK(t) /\ post'[t] = post[t] /\ t # None /\ t # s
        /\ post[t].link \in Links \/ At(t, "none")
    BY <1>3, NoneAssumption DEF IInv, TypeOK, At
  <2>2. CASE post[t].link = k
    <3>1. post[t].pc \in {"insert", "undo", "ok"} =>
            link'[k].claim = t /\ answers'[k] = answers[k]
      BY <2>1, <2>2 DEF PostOK
    <3>2. QED
      BY <2>1, <2>2, <3>1 DEF PostOK, Solid, At
  <2>3. CASE post[t].link # k
    BY <2>1, <2>3 DEF PostOK, Solid, At
  <2>4. QED
    BY <2>2, <2>3
<1>4. QED
  BY <1>2, <1>3

\* A submission in flight: what it claims, stores and undoes, and its death.
LEMMA SubmissionParts ==
    ASSUME IInv, NEW s \in Posts, Submission(s) \/ KillPost(s)
    PROVE  /\ UNCHANGED setVars
           /\ \A t \in Posts : post'[t].form = post[t].form
           /\ (\A t \in Posts : PostOK(t)') /\ ClaimsBacked'
<1> DEFINE k == post[s].link
<1>1. /\ link \in [Links -> RowType] /\ answers \in [Links -> Posts \cup {None}]
      /\ post \in [Posts -> PostType] /\ s # None /\ PostOK(s) /\ TypeOK
  BY NoneAssumption DEF IInv, TypeOK, RowType, PostType
<1>2. /\ ~At(s, "none") /\ UNCHANGED <<setVars, ask>>
      /\ \E pc \in {"claim", "insert", "undo", "ok", "failed", "closed"} : Goto(s, pc)
  BY DEF Submission, Claim, Insert, Undo, KillPost, At
<1>3. /\ k \in Links /\ post'[s].link = k /\ post'[s].form = post[s].form
      /\ \A t \in Posts \ {s} : post'[t] = post[t]
      /\ \A pc \in {"claim", "insert", "undo", "ok", "failed", "closed"} :
           Goto(s, pc) => post'[s].pc = pc
  BY <1>1, <1>2, GotoTypes
<1>4. CASE Claim(s)
  <2>1. /\ At(s, "claim") /\ UNCHANGED <<answers, refused>>
        /\ hurt \subseteq hurt' /\ hurt' \subseteq hurt \cup {k}
    BY <1>4 DEF Claim
  <2>2. CASE /\ Unclaimed(k) /\ link' = [link EXCEPT ![k].claim = s]
             /\ Goto(s, "insert") /\ UNCHANGED hurt
    <3>1. /\ link'[k].claim = s /\ link'[k].called = link[k].called
          /\ link[k].claim = None /\ \A j \in Links \ {k} : link'[j] = link[j]
      BY <1>1, <1>3, <2>2 DEF RowType, Unclaimed
    <3>2. post'[s].pc = "insert"
      BY <1>3, <2>2
    <3>3. Backed(k)'
      BY <1>3, <3>2 DEF Backed, At
    <3>4. PostOK(s)'
      BY <1>1, <1>3, <2>1, <3>1, <3>2 DEF PostOK, At
    <3>5. QED
      BY <1>2, <1>3, <2>1, <3>1, <3>3, <3>4, OneMoves DEF At
  <2>3. CASE /\ Unclaimed(k) /\ link' = [link EXCEPT ![k].claim = s]
             /\ Goto(s, "failed") /\ hurt' = hurt \cup {k}
    <3>1. /\ link'[k].claim = s /\ link'[k].called = link[k].called
          /\ link[k].claim = None /\ \A j \in Links \ {k} : link'[j] = link[j]
      BY <1>1, <1>3, <2>3 DEF RowType, Unclaimed
    <3>2. post'[s].pc = "failed"
      BY <1>3, <2>3
    <3>3. Backed(k)'
      BY <1>3, <2>3 DEF Backed, Solid
    <3>4. PostOK(s)'
      BY <3>2 DEF PostOK, At
    <3>5. QED
      BY <1>2, <1>3, <2>1, <3>1, <3>3, <3>4, OneMoves DEF At
  <2>4. CASE ~Unclaimed(k) /\ Goto(s, "closed") /\ UNCHANGED <<link, hurt>>
    <3>1. post'[s].pc = "closed"
      BY <1>3, <2>4
    <3>2. PostOK(s)'
      BY <3>1 DEF PostOK, At
    <3>3. QED
      BY <1>2, <1>3, <2>1, <2>4, <3>2, OneMoves DEF At
  <2>5. QED
    BY <1>2, <1>3, <1>4, <2>2, <2>3, <2>4 DEF Claim
<1>5. CASE Insert(s)
  <2>1. /\ At(s, "insert") /\ UNCHANGED link /\ link[k].claim = s
        /\ hurt \subseteq hurt' /\ refused \subseteq refused'
    BY <1>1, <1>5 DEF Insert, PostOK, At
  <2>2. /\ \A j \in Links \ {k} : answers'[j] = answers[j]
        /\ answers[k] # None => answers'[k] # None
    BY <1>1, <1>3, <1>5 DEF Insert
  <2>3. CASE /\ answers' = IF post[s].form = {} THEN answers ELSE [answers EXCEPT ![k] = s]
             /\ Goto(s, "ok")
    <3>1. post'[s].pc = "ok" /\ (post[s].form # {} => answers'[k] = s)
      BY <1>1, <1>3, <2>3
    <3>2. post[s].form = {} => k \in hurt'
      BY <1>1, <2>1 DEF PostOK, At
    <3>3. PostOK(s)' /\ Backed(k)'
      BY <1>1, <1>3, <2>1, <3>1, <3>2 DEF PostOK, Backed, Solid, At
    <3>4. QED
      BY <1>2, <1>3, <2>1, <2>2, <3>3, OneMoves
  <2>4. CASE Goto(s, "undo") /\ Solid(k)'
    <3>1. post'[s].pc = "undo"
      BY <1>3, <2>4
    <3>2. post[s].form = {} => k \in hurt'
      BY <1>1, <2>1 DEF PostOK, At
    <3>3. PostOK(s)' /\ Backed(k)'
      BY <1>3, <2>1, <2>4, <3>1, <3>2 DEF PostOK, Backed, Solid, At
    <3>4. QED
      BY <1>2, <1>3, <2>1, <2>2, <3>3, OneMoves
  <2>5. \/ /\ answers' = IF post[s].form = {} THEN answers ELSE [answers EXCEPT ![k] = s]
           /\ Goto(s, "ok")
        \/ Goto(s, "undo") /\ Solid(k)'
    BY <1>3, <1>5 DEF Insert, Solid
  <2>6. QED
    BY <1>2, <1>3, <2>3, <2>4, <2>5
<1>6. CASE Undo(s)
  <2>1. /\ At(s, "undo") /\ Solid(k) /\ UNCHANGED <<answers, refused>>
        /\ hurt \subseteq hurt' /\ link[k].claim = s /\ post'[s].pc = "failed"
    BY <1>1, <1>3, <1>6 DEF Undo, PostOK, At
  <2>2. /\ link'[k].called = link[k].called
        /\ link'[k].claim \in {None, s} /\ \A j \in Links \ {k} : link'[j] = link[j]
    BY <1>1, <1>3, <1>6, <2>1 DEF Undo, Reopened, RowType
  <2>3. PostOK(s)'
    BY <2>1 DEF PostOK, At
  <2>4. QED
    BY <1>2, <1>3, <2>1, <2>2, <2>3, OneMoves DEF At
<1>7. CASE KillPost(s)
  <2>1. /\ UNCHANGED <<answers, refused, link>> /\ post'[s].pc = "failed"
        /\ hurt \subseteq hurt' /\ (At(s, "insert") => k \in hurt')
    BY <1>3, <1>7 DEF KillPost, At
  <2>2. PostOK(s)'
    BY <2>1 DEF PostOK, At
  <2>3. At(s, "insert") => Backed(k)'
    BY <1>3, <2>1 DEF Backed, Solid
  <2>4. QED
    BY <1>2, <1>3, <2>1, <2>2, <2>3, OneMoves
<1>8. QED
  BY <1>4, <1>5, <1>6, <1>7 DEF Submission

LEMMA FormParts ==
    ASSUME IInv, NEW s \in Posts, Send(s) \/ \E k \in Links : Open(s, k)
    PROVE  /\ UNCHANGED setVars
           /\ \A t \in Posts : \/ post'[t].form = post[t].form
                               \/ status = "approved" /\ post'[t].form \subseteq {items}
           /\ (\A t \in Posts : PostOK(t)') /\ ClaimsBacked'
<1>1. post \in [Posts -> PostType] /\ TypeOK
  BY DEF IInv, TypeOK, PostType
<1>2. CASE Send(s)
  <2> DEFINE k == post[s].link
  <2>1. /\ At(s, "form") /\ Goto(s, "claim") /\ UNCHANGED <<setVars, link, answers, ask, refused>>
        /\ hurt \subseteq hurt' /\ (post[s].form = {} => k \in hurt')
    BY <1>2 DEF Send
  <2>2. /\ k \in Links /\ post'[s].link = k /\ post'[s].form = post[s].form
        /\ post'[s].pc = "claim" /\ \A t \in Posts \ {s} : post'[t] = post[t]
    BY <1>1, <2>1, GotoTypes DEF At
  <2>3. PostOK(s)'
    BY <2>1, <2>2 DEF PostOK, At
  <2>4. QED
    BY <2>1, <2>2, <2>3, OneMoves DEF At
<1>3. ASSUME NEW k \in Links, Open(s, k)
      PROVE  /\ UNCHANGED setVars
             /\ \A t \in Posts : \/ post'[t].form = post[t].form
                                 \/ status = "approved" /\ post'[t].form \subseteq {items}
             /\ (\A t \in Posts : PostOK(t)') /\ ClaimsBacked'
  <2>1. /\ At(s, "none") /\ status = "approved"
        /\ UNCHANGED <<setVars, link, answers, ask, hurt, refused>>
    BY <1>3 DEF Open, Usable
  <2>2. /\ post'[s].pc = "form" /\ post'[s].form \subseteq {items}
        /\ \A t \in Posts \ {s} : post'[t] = post[t]
    BY <1>1, <1>3 DEF Open
  <2>3. \A j : Backed(j) => Backed(j)'
    BY <2>1, <2>2 DEF Backed, Solid, At
  <2>4. ClaimsBacked'
    BY <2>1, <2>3 DEF IInv, ClaimsBacked
  <2>5. \A t \in Posts : PostOK(t)'
    BY <2>1, <2>2 DEF IInv, PostOK, Solid, At
  <2>6. QED
    BY <2>1, <2>2, <2>4, <2>5
<1>4. QED
  BY <1>2, <1>3

LEMMA RowParts ==
    ASSUME IInv,
           \/ DeadlinePasses
           \/ \E k \in Links : Mint(k) \/ Revoke(k)
           \/ \E c \in Clients : AskRead(c) \/ AskWrite(c)
    PROVE  /\ UNCHANGED <<setVars, post>>
           /\ (\A t \in Posts : PostOK(t)') /\ ClaimsBacked'
<1>1. /\ link \in [Links -> RowType] /\ ask \in [Clients -> Links \cup {None}]
      /\ UNCHANGED <<setVars, post, answers, hurt, refused>>
  BY DEF IInv, TypeOK, RowType, DeadlinePasses, Mint, Revoke, AskRead, AskWrite
<1>2. CASE DeadlinePasses
  BY <1>1, <1>2, PostsApart DEF DeadlinePasses
<1>3. ASSUME NEW k \in Links, Mint(k) \/ Revoke(k)
      PROVE  (\A t \in Posts : PostOK(t)') /\ ClaimsBacked'
  <2>1. /\ UNCHANGED ask
        /\ \A j \in Links : link'[j].claim = link[j].claim /\ link'[j].called = link[j].called
    BY <1>1, <1>3 DEF Mint, Revoke, RowType
  <2>2. QED
    BY <1>1, <2>1, PostsApart
<1>4. ASSUME NEW c \in Clients, AskRead(c)
      PROVE  (\A t \in Posts : PostOK(t)') /\ ClaimsBacked'
  <2>1. PICK k \in Links : /\ MayAsk(k) /\ ask' = [ask EXCEPT ![c] = k] /\ UNCHANGED link
    BY <1>4 DEF AskRead
  <2>2. Backed(k)
    BY <2>1 DEF MayAsk, IInv, ClaimsBacked
  <2>3. \A d \in Clients : ask'[d] # None => ask'[d] = ask[d] \/ Backed(ask'[d])
    BY <1>1, <2>1, <2>2
  <2>4. QED
    BY <1>1, <2>1, <2>3, PostsApart
<1>5. ASSUME NEW c \in Clients, AskWrite(c)
      PROVE  (\A t \in Posts : PostOK(t)') /\ ClaimsBacked'
  <2>1. /\ ask[c] \in Links /\ Backed(ask[c])
        /\ link' = [link EXCEPT ![ask[c]].called = TRUE] /\ ask' = [ask EXCEPT ![c] = None]
    BY <1>1, <1>5 DEF AskWrite, IInv, ClaimsBacked
  <2>2. \A j \in Links : /\ link'[j].claim = link[j].claim
                         /\ link'[j].called => link[j].called \/ Backed(j)
    BY <1>1, <2>1 DEF RowType
  <2>3. \A d \in Clients : ask'[d] # None => ask'[d] = ask[d]
    BY <1>1, <2>1
  <2>4. QED
    BY <1>1, <2>2, <2>3, PostsApart
<1>6. QED
  BY <1>1, <1>2, <1>3, <1>4, <1>5

LEMMA NextIInv == IInv /\ [Next]_vars => IInv'
<1> SUFFICES ASSUME IInv, [Next]_vars PROVE IInv'
  OBVIOUS
<1>1. TypeOK'
  BY NextTypes DEF IInv
<1>2. ASSUME NEW e \in Editors, SetStep(e), UNCHANGED linkVars PROVE IInv'
  <2>1. (\A s \in Posts : PostOK(s)') /\ ClaimsBacked'
    BY <1>2, PostsApart DEF linkVars
  <2>2. QED
    BY <1>1, <1>2, <2>1, SetParts DEF IInv
<1>3. CASE LinkStep
  <2>1. /\ UNCHANGED setVars
        /\ \A t \in Posts : \/ post'[t].form = post[t].form
                            \/ status = "approved" /\ post'[t].form \subseteq {items}
        /\ (\A t \in Posts : PostOK(t)') /\ ClaimsBacked'
    BY <1>3, SubmissionParts, FormParts, RowParts DEF LinkStep
  <2>2. QED
    BY <1>1, <2>1, SetApart DEF IInv
<1>4. CASE UNCHANGED vars
  <2>1. UNCHANGED <<setVars, over, link, answers, post, ask, hurt, refused>>
    BY <1>4 DEF vars, linkVars
  <2>2. QED
    BY <1>1, <2>1, SetApart, PostsApart DEF IInv
<1>5. QED
  BY <1>2, <1>3, <1>4 DEF Next

\* The inductive invariant holds in every reachable state.
LEMMA Invariant == Spec => []IInv
  BY InitIInv, NextIInv, PTL DEF Spec

----------------------------------------------------------------------------
\* A set approved with no save in flight stays as approved, is what every expert is
\* shown, and holds nothing that the gates block on what that approval could read
\* (approve/route.ts), for any number of saves, generations, approvals and failed
\* reads in any order.
THEOREM ApprovedIsShown == Spec => []ShownWasScreened
<1>1. IInv => ShownWasScreened
  BY DEF IInv, SealOK, GatesPass, ShownWasScreened
<1>2. QED
  BY <1>1, Invariant, PTL

\* Who is told that the answers were stored stays the one who used the link, and
\* the answers stay his (submitScreening), for any number of POSTs of a link and
\* whatever fails.
THEOREM StoredIsKept == Spec => []OkIsKept
<1>1. IInv => OkIsKept
  BY DEF IInv, PostOK, At, OkIsKept
<1>2. QED
  BY <1>1, Invariant, PTL

\* A call is asked only of an expert whose answers are stored or on their way,
\* unless a write of that link's submission failed (the request-call route), for
\* any number of overlapping submissions and call requests.
THEOREM CallsAreBacked == Spec => []CallStandsOnAnswers
<1>1. IInv => CallStandsOnAnswers
  BY DEF IInv, ClaimsBacked, Backed, Solid, CallStandsOnAnswers
<1>2. QED
  BY <1>1, Invariant, PTL
=============================================================================
