----------------------------- MODULE IntroRoutes -----------------------------
(* Who asks for an intro, and who takes the expert back: the bookmark, its    *)
(* undo, the approve button, the pass, staff's own edit, the project's mode   *)
(* switch, and the discovery job (lib/contactDiscovery.ts) that looks for an  *)
(* address and then asks for the intro itself.                                *)
EXTENDS IntroSend

CONSTANT FoundFirst  \* what a search finds unless it has bounced

ASSUME FoundFirstAssumption == FoundFirst \in Addresses

DraftOnly(m) == m # "live"

EnterStep(p, rec) == w' = [w EXCEPT ![p] = [rec EXCEPT !.pc = "i_read"]]

----------------------------------------------------------------------------
(* POST .../bookmark                                                         *)

\* The project is read, the status checked, the firm's list asked.
Bookmark(p) ==
    /\ Request(p, "bookmark")
    /\ row.status \in Bookmarkable
    /\ w' = [w EXCEPT ![p] = [Idle EXCEPT !.pc = "b_write", !.kind = "bookmark",
                                          !.row = row, !.mode = mode]]
    /\ UNCHANGED <<Record, Vendors, clock, faults>> /\ Unlisted

\* applyBookmark writes the status without looking again; the handler goes on
\* with the row as it then stands.
ApplyBookmark(p) ==
    /\ At(p, "b_write")
    /\ row' = [row EXCEPT !.status = "bookmarked"]
    /\ w' = [w EXCEPT ![p].row = row', ![p].addr = row.address,
                      ![p].pc = IF row.address = NoAddress THEN "b_search" ELSE "b_list"]
    /\ UNCHANGED <<thread, Vendors>> /\ Unlisted /\ Uncounted

\* No address: on a live project the search is queued for the job.
BookmarkSearch(p) ==
    /\ At(p, "b_search") /\ w[p].mode # "walkthrough"
    /\ jobs' = jobs + 1
    /\ Finish(p)
    /\ UNCHANGED <<Record, mail, locks, nudgeJobs, events>> /\ Unlisted /\ Uncounted

BookmarkQueueFailed(p) ==
    /\ At(p, "b_search") /\ w[p].mode # "walkthrough" /\ Fault("queue_down")
    /\ Finish(p)
    /\ UNCHANGED <<Record, Vendors, clock, starts>> /\ Unlisted

BookmarkHeld(p) ==
    /\ At(p, "b_search") /\ w[p].mode = "walkthrough"
    /\ row' = [row EXCEPT !.contact = "walkthrough_held"]
    /\ Finish(p)
    /\ UNCHANGED <<thread, Vendors>> /\ Unlisted /\ Uncounted

\* The do-not-contact list, then the step.
BookmarkAsks(p) ==
    /\ At(p, "b_list")
    /\ IF Suppressed(w[p].addr) THEN Finish(p)
       ELSE EnterStep(p, [w[p] EXCEPT !.draft = DraftOnly(w[p].mode)])
    /\ UNCHANGED <<Record, Vendors>> /\ Unlisted /\ Uncounted

----------------------------------------------------------------------------
(* POST .../outreach/approve                                                 *)

\* An intro that waits for a personal line is approved only with one.
Approve(p) ==
    /\ Request(p, "approve")
    /\ mode # "walkthrough"
    /\ row.status = "outreach_drafted"
    /\ row.address # NoAddress
    /\ ~Suppressed(row.address)
    /\ LET rec == [Idle EXCEPT !.kind = "approve"]
       IN \/ row.line # "needed" /\ EnterStep(p, rec)
          \/ row.line = "needed"
             /\ w' = [w EXCEPT ![p] = [rec EXCEPT !.pc = "a_line"]]
    /\ UNCHANGED <<Record, Vendors, clock, faults>> /\ Unlisted

ApproveLine(p) ==
    /\ At(p, "a_line")
    /\ row' = [row EXCEPT !.line = "set"]
    /\ EnterStep(p, w[p])
    /\ UNCHANGED <<thread, Vendors>> /\ Unlisted /\ Uncounted

\* Both routes only report how the step ended.
RouteEnds(p) ==
    /\ w[p].kind \in {"bookmark", "approve"}
    /\ w[p].pc \in {"i_done", "i_already", "i_fail"}
    /\ Finish(p)
    /\ UNCHANGED <<Record, Vendors>> /\ Unlisted /\ Uncounted

----------------------------------------------------------------------------
(* POST .../unbookmark, and the pass and the edit of PUT .../experts/[id]    *)

\* The status these handlers are about to write is "kind"; it was decided on
\* the row as read, and is written over the row as it stands.
StatusRequest(p, op, status) ==
    /\ Request(p, op)
    /\ w' = [w EXCEPT ![p] = [Idle EXCEPT !.pc = "s_write", !.kind = status]]
    /\ UNCHANGED <<Record, Vendors, clock, faults>> /\ Unlisted

Unbookmark(p) ==
    row.status = "bookmarked" /\ StatusRequest(p, "unbookmark", "shortlisted")

Pass(p) ==
    StatusRequest(p, "pass", IF row.token THEN "rejected_after_outreach" ELSE "rejected")

\* Staff may write any stage by hand; that they do not write 'contacted', which
\* nothing checks, is assumed.
StaffStatus(p, status) == StatusRequest(p, "edit", status)

WriteStatus(p) ==
    /\ At(p, "s_write")
    /\ row' = [row EXCEPT !.status = w[p].kind]
    /\ Finish(p)
    /\ UNCHANGED <<thread, Vendors>> /\ Unlisted /\ Uncounted

\* Staff may write an address, one that the row does not say has bounced;
\* nothing else is read.
StaffAddress(p, a) ==
    /\ Request(p, "edit") /\ a \notin row.bounced
    /\ row' = [row EXCEPT !.address = a]
    /\ UNCHANGED <<thread, Vendors, w, clock, faults>> /\ Unlisted

----------------------------------------------------------------------------
(* lib/contactDiscovery.ts: runContactDiscoveryJob                           *)

Usable(r) == r.address # NoAddress /\ r.address \notin r.bounced

\* QStash delivers a published job once, retries off.
DiscoveryJob(p) ==
    /\ jobs > 0 /\ w[p] = Idle
    /\ jobs' = jobs - 1
    /\ w' = [w EXCEPT ![p] = [Idle EXCEPT !.kind = "job", !.row = row, !.mode = mode,
                 !.addr = IF Usable(row) THEN row.address ELSE NoAddress,
                 !.pc = IF Usable(row) THEN "j_list" ELSE "j_find"]]
    /\ UNCHANGED <<Record, mail, locks, nudgeJobs, events>> /\ Unlisted /\ Uncounted

\* A project that could not be read is taken for one that is gone: the job ends
\* as 'expert_not_found', writes nothing, and does not come back.
JobUnread(p) ==
    /\ jobs > 0 /\ w[p] = Idle /\ Fault("read_lost")
    /\ jobs' = jobs - 1
    /\ UNCHANGED <<Record, mail, locks, nudgeJobs, events, w, clock, starts>> /\ Unlisted

\* The line the thread gets when a search for a replacement has ended.
AfterBounceNote(p, outcome) ==
    IF w[p].row.bounced # {} /\ outcome \notin {"intro_drafted"}
    THEN Append1("matchy", "note", "sent") ELSE UNCHANGED thread

\* writeOutcome swallows its errors.
Outcome(p, outcome) ==
    /\ \/ row' = [row EXCEPT !.contact = outcome] /\ UNCHANGED faults
       \/ Fault("write_lost") /\ UNCHANGED row
    /\ AfterBounceNote(p, outcome)
    /\ Finish(p)

\* The cache and the providers: an address that has not bounced, nobody, or no
\* answer at all; asked twice for the same person they find the same address.
Found(bounced) ==
    IF FoundFirst \notin bounced THEN {FoundFirst} ELSE Addresses \ bounced

\* The address goes on the row in the same write as the outcome.
JobFinds(p, a) ==
    /\ At(p, "j_find") /\ a \in Found(w[p].row.bounced)
    /\ row' = [row EXCEPT !.address = a, !.contact = "contact_found"]
    /\ w' = [w EXCEPT ![p].addr = a, ![p].pc = "j_list"]
    /\ UNCHANGED <<thread, Vendors>> /\ Unlisted /\ Uncounted

JobFindsNobody(p) ==
    /\ At(p, "j_find")
    /\ \E outcome \in {"contact_discovery_unavailable",
                       IF w[p].row.bounced # {} THEN "no_other_address"
                       ELSE "contact_not_found"} : Outcome(p, outcome)
    /\ UNCHANGED <<Vendors, clock, starts>> /\ Unlisted

JobAsks(p) ==
    /\ At(p, "j_list")
    /\ \/ Suppressed(w[p].addr) /\ Outcome(p, "contact_suppressed")
       \/ "held" \in Ops /\ Outcome(p, "contact_check_unavailable")
       \/ /\ ~Suppressed(w[p].addr)
          /\ \E d \in {DraftOnly(w[p].mode), "held" \in Ops \/ DraftOnly(w[p].mode)} :
                EnterStep(p, [w[p] EXCEPT !.draft = d])
          /\ UNCHANGED <<Record, faults>>
    /\ UNCHANGED <<Vendors, clock, starts>> /\ Unlisted

\* A write of the job itself failed; so may the outcome's.
JobThrows(p) ==
    /\ w[p].pc \in {"j_find", "j_list"} /\ Fault("db_down")
    /\ row' \in {row, [row EXCEPT !.contact = "contact_not_found"]}
    /\ Finish(p)
    /\ UNCHANGED <<thread, Vendors, clock, starts>> /\ Unlisted

\* The send-once rule refused: the earlier call has written how it ended.
JobEnds(p) ==
    /\ w[p].kind = "job"
    /\ \/ At(p, "i_fail") /\ Outcome(p, "intro_failed")
       \/ At(p, "i_done")
          /\ Outcome(p, IF w[p].draft THEN "intro_drafted" ELSE "intro_sent")
       \/ At(p, "i_already") /\ Finish(p) /\ UNCHANGED <<Record, faults>>
    /\ UNCHANGED <<Vendors, clock, starts>> /\ Unlisted

RouteRequest(p) ==
    \/ Bookmark(p) \/ Approve(p) \/ Unbookmark(p) \/ Pass(p)
    \/ \E a \in Addresses : StaffAddress(p, a)
    \/ \E status \in Statuses \ {"contacted"} : StaffStatus(p, status)

RouteStep(p) ==
    \/ ApplyBookmark(p) \/ BookmarkSearch(p) \/ BookmarkQueueFailed(p)
    \/ BookmarkHeld(p) \/ BookmarkAsks(p) \/ ApproveLine(p)
    \/ RouteEnds(p) \/ WriteStatus(p)
    \/ \E a \in Addresses : JobFinds(p, a)
    \/ DiscoveryJob(p) \/ JobUnread(p) \/ JobFindsNobody(p) \/ JobAsks(p) \/ JobThrows(p) \/ JobEnds(p)
=============================================================================
