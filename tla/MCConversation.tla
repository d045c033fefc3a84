--------------------------- MODULE MCConversation ----------------------------
EXTENDS Conversation

CONSTANTS a1, p1, p2

Answered ==
    [status |-> "replied", contact |-> "intro_sent", address |-> a1, bounced |-> {},
     claim |-> "fresh", line |-> "set", token |-> TRUE, complained |-> FALSE,
     followed |-> FALSE, counter |-> 0, agreed |-> FALSE, nudge |-> NoNudge]

Reply == [from |-> "expert", what |-> "reply", went |-> "sent"]
FollowUp(went) == [from |-> "matchy", what |-> "followup", went |-> went]

\* A yes, and a follow-up that waits for the owner; and the same after
\* they have named a rate.
DraftWaiting == <<Reply, FollowUp("pending")>>

AnsweredOrCountered ==
    {[row |-> Answered, thread |-> DraftWaiting],
     [row |-> [Answered EXCEPT !.status = "rate_negotiation", !.counter = 1],
      thread |-> Append(DraftWaiting, Reply)]}
=============================================================================
