----------------------------- MODULE MCOutreach ------------------------------
EXTENDS Outreach

CONSTANTS a1, a2, p1, p2

Discovered ==
    [status |-> "discovered", contact |-> "none", address |-> NoAddress, bounced |-> {},
     claim |-> "none", line |-> "none", token |-> FALSE, complained |-> FALSE,
     followed |-> FALSE, counter |-> 0, agreed |-> FALSE, nudge |-> NoNudge]

JustDiscovered == {[row |-> Discovered, thread |-> <<>>]}
=============================================================================
