------------------------------ MODULE IntroSend ------------------------------
(* lib/outreachSteps.ts: runSequenceStep, the one place an intro is drafted   *)
(* or sent. The bookmark, the approve button and the discovery job all end in *)
(* it, so a handler enters at "i_read" and leaves at "i_already", "i_done" or *)
(* "i_fail", where the caller's own last step picks it up.                    *)
EXTENDS OutreachState

Introed(r) == [r EXCEPT !.token = TRUE, !.line = "set"]
Drafted(r) == [Introed(r) EXCEPT !.status = "outreach_drafted"]
Held(r)    == [r EXCEPT !.token = TRUE, !.line = "needed",
                        !.status = "outreach_drafted"]

\* Mutant: the claim writes the status and forgets email1SentAt.
MutClaimed(r) == [Introed(r) EXCEPT !.status = "contacted"]

\* The claim: the status and the instant of the send, in one write.
Claimed(r) == [Introed(r) EXCEPT !.status = "contacted", !.claim = "fresh"]

\* Mutant: the outcome is written where the status belongs.
MutReleasedSwapped(r, before) ==
    [r EXCEPT !.status = before.contact, !.claim = before.claim]

\* Mutant: the status stays.
MutReleased(r, before) == [r EXCEPT !.claim = before.claim]

\* releaseClaim: the three claim fields go back to what the step read.
Released(r, before) ==
    [r EXCEPT !.status = before.status, !.claim = before.claim]

\* The status the step wrote, not the flag it was called with, says how it ended.
DoneDrafted(p) == w' = [w EXCEPT ![p].draft = TRUE, ![p].pc = "i_done"]

\* The row is read once; everything the step decides, it decides on this copy.
IntroRead(p) ==
    /\ At(p, "i_read")
    /\ LET out == IF row.address = NoAddress THEN "i_fail"
                  ELSE IF IntroAlreadySent(row) THEN "i_already" ELSE "i_line"
       IN w' = [w EXCEPT ![p].row = row, ![p].addr = row.address, ![p].pc = out]
    /\ UNCHANGED <<Record, Vendors>> /\ Unlisted /\ Uncounted

\* No personal line that Matchy trusts: the intro waits for a person.
IntroHold(p) ==
    /\ At(p, "i_line")
    /\ "no_line" \in Ops /\ w[p].row.line # "set"
    /\ row' = Held(row)
    /\ DoneDrafted(p)
    /\ UNCHANGED <<thread, Vendors>> /\ Unlisted /\ Uncounted

\* Review-first, walkthrough, or no card on file: write the draft and stop.
IntroDraft(p) ==
    /\ At(p, "i_line") /\ w[p].draft
    /\ row' = Drafted(row)
    /\ Goto(p, "i_done")
    /\ UNCHANGED <<thread, Vendors>> /\ Unlisted /\ Uncounted

\* Somebody else holds the lock: nothing sent, nothing written.
IntroLocked(p) ==
    /\ At(p, "i_line") /\ ~w[p].draft
    /\ LockKey(w[p].row) \in locks
    /\ Goto(p, "i_already")
    /\ UNCHANGED <<Record, Vendors>> /\ Unlisted /\ Uncounted

\* Mutant: SET without NX.
MutIntroClaim(p) ==
    /\ At(p, "i_line") /\ ~w[p].draft
    /\ locks' = locks \cup {LockKey(w[p].row)}
    /\ row' = Claimed(row)
    /\ Goto(p, "i_gate")
    /\ UNCHANGED <<thread, mail, jobs, nudgeJobs, events>>
    /\ Unlisted /\ Uncounted

\* The lock, then the claim written over whatever the row now says.
IntroClaim(p) ==
    /\ At(p, "i_line") /\ ~w[p].draft
    /\ LockKey(w[p].row) \notin locks
    /\ locks' = locks \cup {LockKey(w[p].row)}
    /\ row' = Claimed(row)
    /\ Goto(p, "i_gate")
    /\ UNCHANGED <<thread, mail, jobs, nudgeJobs, events>>
    /\ Unlisted /\ Uncounted

\* The claim's write ends in an error, and may have been made all the same; the
\* lock is given back, the claim is not.
IntroClaimFails(p) ==
    /\ At(p, "i_line") /\ ~w[p].draft
    /\ LockKey(w[p].row) \notin locks /\ Fault("write_lost")
    /\ row' \in {row, Claimed(row)}
    /\ Goto(p, "i_fail")
    /\ UNCHANGED <<thread, Vendors, clock, starts>> /\ Unlisted

\* Redis is out: the lock answers nothing and the claim is written without it.
IntroClaimUnlocked(p) ==
    /\ At(p, "i_line") /\ ~w[p].draft
    /\ Fault("redis_out")
    /\ row' = Claimed(row)
    /\ Goto(p, "i_gate")
    /\ UNCHANGED <<thread, Vendors, clock, starts>> /\ Unlisted

\* The chokepoint reads its gates ...
IntroGate(p) ==
    /\ At(p, "i_gate")
    /\ \/ GateOpens(w[p].addr) /\ Goto(p, "i_send")
       \/ /\ ~GateOpens(w[p].addr) \/ "held" \in Ops
          /\ w' = [w EXCEPT ![p].held = TRUE, ![p].pc = "i_release"]
    /\ UNCHANGED <<Record, Vendors>> /\ Unlisted /\ Uncounted

Accepted(a) == mail' = [mail EXCEPT !.intro[a] = @ + 1]

\* ... then Resend takes the message, or throws.
IntroSent(p) ==
    /\ At(p, "i_send")
    /\ Accepted(w[p].addr)
    /\ Goto(p, "i_done")
    /\ UNCHANGED <<Record, locks, jobs, nudgeJobs, events>> /\ Unlisted /\ Uncounted

IntroRefused(p) ==
    /\ At(p, "i_send") /\ Fault("resend_down")
    /\ Goto(p, "i_release")
    /\ UNCHANGED <<Record, Vendors, clock, starts>> /\ Unlisted

\* Resend took it and the answer was lost: the step takes it for a refusal.
IntroAnswerLost(p) ==
    /\ At(p, "i_send") /\ Fault("answer_lost")
    /\ Accepted(w[p].addr)
    /\ Goto(p, "i_release")
    /\ UNCHANGED <<Record, locks, jobs, nudgeJobs, events, clock, starts>>
    /\ Unlisted

\* releaseClaim and releaseIntroLock, in that order; nobody can act on the
\* released row before the lock is gone, so the two are one step.
IntroRelease(p) ==
    /\ At(p, "i_release")
    /\ row' = Released(row, w[p].row)
    /\ locks' = locks \ {LockKey(w[p].row)}
    /\ Goto(p, IF w[p].held THEN "i_draft" ELSE "i_fail")
    /\ UNCHANGED <<thread, mail, jobs, nudgeJobs, events>>
    /\ Unlisted /\ Uncounted

\* The release is best effort: a write that fails leaves the row claimed.
IntroReleaseLost(p) ==
    /\ At(p, "i_release") /\ Fault("write_lost")
    /\ locks' = locks \ {LockKey(w[p].row)}
    /\ Goto(p, IF w[p].held THEN "i_draft" ELSE "i_fail")
    /\ UNCHANGED <<Record, mail, jobs, nudgeJobs, events, clock, starts>>
    /\ Unlisted

\* A held intro lands where a draft would, after the lock has been given back.
IntroHeldDraft(p) ==
    /\ At(p, "i_draft")
    /\ row' = Drafted(row)
    /\ DoneDrafted(p)
    /\ UNCHANGED <<thread, Vendors>> /\ Unlisted /\ Uncounted

\* Two minutes, which is longer than a discovery job may run: no handler that
\* read the row before the lock was taken is still on its way to it.
LockExpires(key) ==
    /\ key \in locks
    /\ \A p \in Workers : w[p].pc \in {"i_line", "i_gate", "i_send", "i_release"}
                            => LockKey(w[p].row) # key
    /\ locks' = locks \ {key}
    /\ UNCHANGED <<Record, mail, jobs, nudgeJobs, events, w>>
    /\ Unlisted /\ Uncounted

IntroStep(p) ==
    \/ IntroRead(p) \/ IntroHold(p) \/ IntroDraft(p) \/ IntroLocked(p)
    \/ IntroClaim(p) \/ IntroClaimFails(p) \/ IntroClaimUnlocked(p) \/ IntroGate(p) \/ IntroSent(p)
    \/ IntroRefused(p) \/ IntroAnswerLost(p) \/ IntroRelease(p)
    \/ IntroReleaseLost(p) \/ IntroHeldDraft(p)
=============================================================================
