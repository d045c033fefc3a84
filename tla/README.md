# expertmatching in TLA+

ExpertMatch is a Next.js application on Supabase (Postgres), Upstash Redis,
Stripe, Zoom, Resend, QStash and an Anthropic model. A client describes a
project, the system finds experts, writes to them as "Matchy", books one Zoom
call per engagement, bills the client for it and pays the expert. There is no
long-running process: every piece of work is a serverless function (a request,
a webhook delivery, a queue job, a nightly cron), any two of them can overlap,
any of them can be killed between two of its awaits, and they meet only in a
row of the database, in a few Redis keys and in the state Stripe keeps. That is
what this project models.

The modules are translated from the source at the lines `PROJECT.json` names.
Paths below are relative to `src/`.

## 1. Inventory

### 1.1 The engagement and its money (modelled)

**Engagement row** (`lib/projectStore.ts`). One `project_experts` row per expert
in a project: three columns and a JSON document. `mutateExpert` reads the row,
lets the caller mutate what it read, and writes the whole document back on
condition that `updated_at` is the one it read, three times at most.
`updateExpertStatus`, `addExpertNote`, `updateExpertField` and every money
handler go through it; `removeExpertFromProject` deletes the row and
`addExpertsToProject` inserts a new one. *Hard:* every writer overlaps with
every other; the mutation must not capture anything read earlier. *Correct
when* each call behaves as if it ran alone on the row of one moment, and a
conflict is reported only under real contention.

**Stripe webhook** (`app/api/webhooks/stripe/`). State: in Redis a done marker
and a processing lease per event id. A delivery looks for the marker, takes the
lease (SET NX EX 300), looks again, works, writes the marker, gives the lease
back if it still owns it. Redis being down lets the delivery through. Stripe
redelivers until it reads a 200. *Hard:* deliveries overlap, workers die or
outlive their lease, Redis fails. *Correct when* no event is silenced undone,
work is repeated only after a fault, and Stripe is eventually answered. *Not so* when a
read of the row fails: section 6, number 23.

**Invoicing and the saved card** (`lib/createAndSendInvoice.ts`,
`lib/chargeSavedCard.ts`, the `complete` route). State: `paymentStatus`,
`billedCallId`, `stripePaymentIntentId`, `stripePaymentLinkId` of the row;
PaymentIntents, links and idempotency keys at Stripe. *Hard:* several callers
(the staff's route, Zoom's `meeting.ended`, an attendance decision, the
late-cancel fee) bill one call; the charge and the write that records it are two
steps; the event of the charge may overtake that write. *Correct when* the card
is charged once for a call, whatever overlaps, dies or is repeated.

**Attendance, cancellation, late-cancel fee** (`lib/lateCancelBilling.ts`,
`lib/callPolicies.ts`, `lib/bookCall.ts` cancelCall, the Zoom webhook's meeting
end, `app/api/admin/attendance`, `lib/expertRemoval.ts`). What each outcome of a
call does to the row and which money follows from it.

**Ten-minute mismatch guarantee** (`lib/mismatchGuarantee.ts`, the `mismatch`
route). The client flags a call inside a window; the call is then free for the
client, the platform pays the expert 15 minutes. Settlement is a refund, a link
cancellation or a waiver, depending on the row. *Hard:* the flag races the
charge, the charge's event and another settlement. *Correct when* no money of a
flagged call is kept, and the expert is paid.

**Expert payouts** (`lib/expertPayout.ts`, `lib/stripeConnect.ts`, onboarding
route, the reconcile job). Row: `expertOnboardingStatus`, `payoutAttempts`,
`stripeTransferId`, `paidCallIds`. Triggered by the payment's event, by a
waiver, by `account.updated` and by a nightly sweep; an unsettled payout older
than the limit raises an attention row. *Correct when* an expert is paid once
per call, never without a payment or a waiver behind it, and no payout is
dropped silently.

**Booking, moving, cancelling** (`lib/bookCall.ts`, `lib/matchyScheduling.ts`
proposeTimes, the `schedule/[token]`, `booking/cancel` and `propose-times` routes,
`app/api/inbound-email` where it schedules). State: `booking`, `scheduling` and
`status` of the row, a Redis lock for cancels, the meeting at Zoom, the invites
in two calendars. *Hard:* book and move decide and write on different reads and
take no lock; the lock is lost easily; three places hold one time. *Correct
when* an engagement has one call whose time row, Zoom and calendars agree on, a
cancelled call leaves no meeting behind, and a cancel is charged once.

### 1.2 Outreach (modelled)

**Intro sends** (`lib/outreachSteps.ts` runSequenceStep, `lib/emailSequence.ts`
sendSequenceEmail, the `bookmark`, `outreach/approve`, `unbookmark` routes, staff's
edits of the expert, the project's mode). State: status, address, claim
(`introSentAt` and what goes with it), personal line and token of the row; a
Redis lock per engagement and bounce generation; the do-not-contact list. A step
reads the row, may hold or draft, takes the lock, claims the row, is let through
a chokepoint that looks at mode and list afresh, sends, and takes the claim back
when the send failed. *Hard:* the check is made on a read older than the lock; a
failed send restores what it read; "no" from Resend may be a lost "yes". *Correct
when* an address gets one intro, none once it is on the list, and the row never
forgets one that went.

**Contact discovery** (`lib/contactDiscovery.ts`). A QStash job without retries
looks for an address, writes it, and asks for the intro the bookmark wanted.

**Bounces, complaints, opt-outs** (`lib/deliveryEvents.ts`, the `unsubscribe`
link). A hard bounce is listed, written to every live engagement of the address,
and starts a replacement search, three writes; the event is redelivered until it
is answered. *Correct when* the search a client is told of ends.

**Replies** (`app/api/inbound-email`, `messages/send`, `rate-decision`,
`lib/conversations.ts`). A reply's delivery is claimed in Redis, stored on the
thread, classified by the model, and moves the row: declined, countered, flagged,
or a follow-up that is sent, held, or drafted for the client to release. *Hard:*
send, append and mark are three writes; the client's release, his decision on a
rate, and a second reply overlap. *Correct when* each reply is answered in the
end, what was sent is on the thread, and the list silences everything.

**Nudges** (`lib/nudges.ts`, `schedule-nudges`, `send-nudge`). A morning planner
publishes a job and then writes its state to the row; the job re-reads row and
thread, sends, appends and counts. They meet only through the row. Both the cron
and QStash may do it twice, and the job says of itself that the first to finish wins.
*Correct when* a second job refuses once the first is through, and a nudge is about
something that was mailed.

### 1.3 Sourcing (modelled)

**Sourcing runs** (`source-experts` route, `lib/sourcingJob.ts`, its nightly
sweep, `lib/projectStore.ts` for the project's row). A start claims the row by the
stamp it saw, queues a job whose run id is that stamp, and QStash delivers it at
least once; the job searches for minutes, looks whether the run is still its own,
adds candidates and writes the outcome. *Hard:* two deliveries overlap; the row's
JSON brief is written whole, by two methods that compare `updated_at` and one that
does not. *Correct when* one run is live, candidates are added once, nobody's
guarded write is lost, and no project stays on "running".

### 1.4 Organisations (modelled)

**Seats** (`lib/orgBilling.ts`, the reconcile job, the admin routes). The
subscription's quantity follows the number of active members: count, read the
billing row, look at Stripe, adopt or create or adjust, record. Syncs overlap and
every step may fail. *Correct when* there is one subscription, and in the end it
bills the seats there are.

**Membership** (`lib/firmStore.ts` upsertUser, `org/members`, `admin/users`,
invitations, `lib/membershipReconcile.ts`). A membership is a row and a copy of it
in the account's claims, and every guard reads the claims. *Correct when* a
disabled seat loses its claims, and an organisation keeps a champion.

### 1.5 Screening (modelled)

**The screening set** (`lib/requestStore.ts`, `requests/[id]`, its `generate` and
`approve` routes). A request has learning objectives, each with a question and a
proof prompt, drafted by the model or a fallback, rewritten by the client, and
approved once. Each route reads request and objectives and writes later, with no
compare and no transaction; an objective is one UPDATE, and each may fail. The
approval holds the two gates: complete, and nothing the compliance screen blocks.
*Correct when* experts read exactly what the gates saw.

**Links and submissions** (`requests/[id]/tokens`, `s/[token]`, `revoke`,
`request-call`). An expert opens a link and sends his answers once: an UPDATE on
condition claims the link, an INSERT stores the answers, and an UPDATE undoes the
claim when the insert failed. *Hard:* two taps overlap; claim, insert and undo are
three writes of a function that can die; the client asks for a call on the
strength of the claim. *Correct when* an expert told "stored" is, a used link has
its answers, and a call is asked only of somebody who has answered.

### 1.6 Parts not modelled

| Part | State | Why not |
|---|---|---|
| Zoom participants (`webhooks/zoom`) | `attendance` flags of the row | next: `participant_joined` and `meeting.ended` in either order |
| Staff payout reversal (`admin/payouts/reverse`) | transfer reversed at Stripe, row | belongs to several calls of one engagement, which is open |
| Access requests, call outcomes (`request-access`, `outcomes`) | one row each | an insert nobody races; an outcome is the client's note |
| Accounts, sessions, throttles | Supabase Auth, Redis counters | delegated, or stateless tokens; limits are soft |
| Read models: redaction, pipeline, exports | none | pure projections, in reach of unit tests |
| The language model and the providers (`generateExperts`, `matchyClassify`, Hunter) | none | their answers are inputs of the model |
| User interface, mail texts | none | rendering |

### 1.7 How they meet

    client / staff ──► complete ─┐                       ┌─► runExpertPayout ─► transfer
    Zoom ──► meeting.ended ──────┼─► createAndSendInvoice │        ▲      ▲
    client / expert ► cancelCall ┘      │ charge / link   │        │      │
    client ──► mismatch flag ─► settle ─┤                 │   account.   nightly
                                        ▼                 │   updated    sweep
                                     Stripe ──► webhook ──┘
    every arrow writes the same row, through mutateExpert only

    bookmark / approve ──► intro step ──► chokepoint ──► Resend ─► bounce, complaint, reply
         │      ▲                             ▲                            │
         ▼      │                             │ do-not-contact list ◄──────┤
      QStash ─► contact search ◄──────────────┼── replacement search ◄─────┤
    planner ─► QStash ─► nudge job ───────────┤                            ▼
    release / decision / times ───────────────┴─────── thread, row ◄── inbound-email

    start ─► QStash ─► sourcing job ─► candidates     member routes ─► row ─► claims
      └── project row ◄── saves, sweep, billing ──        └─► seat sync ─► Stripe ◄─ sweep

Outreach and money share the engagement's row and meet at a booked call: the
status a reply reaches ("terms", "scheduling_sent") is where `CallBooking` begins.
Sourcing adds the candidates outreach begins with. An organisation only says who
may ask, and whether its entitlement lets a request through (`held` in outreach,
a refusal in `CallMoney`). Screening shares no row with the rest: its call requests
are answered by hand.

## 2. Modules

| Module | Models | Notes |
|---|---|---|
| `AtomicRow` | what `mutateExpert` promises: a row on which each call's mutation happens at once | abstract |
| `ExpertRow` | the read / compare / write loop, retries, removal and re-adding | implements `AtomicRow` |
| `StripeEvents` | the deliveries of one event: marker, lease, kills, outages, expiry | the work itself is one step |
| `MoneyGuards` | the pure decisions: what counts as billed, paid, owed, flagged | no state |
| `StripeLedger` | Stripe as the code uses it: intents, links, transfers, keys, events owed | external, from its use in `src/` |
| `Engagement` | the row, the handlers' memory, the environment, the bounds | |
| `Invoicing` | `complete` and `createAndSendInvoice`, step by step | |
| `Attendance` | meeting end, attendance decision, cancellation, no-shows, late-cancel fee | |
| `Settlement` | the flag and the settlement of its money | |
| `Payouts` | `runExpertPayout`, the nightly sweep, the stale alarm | |
| `StripeWebhook` | what Stripe may do, delivery, and the handler's branches | |
| `CallMoney` | their composition, the client, the expert, crashes; the properties | |
| `CallBooking` | proposals, picker, e-mail replies, book, move, cancel; Zoom's meetings, the invites, the lock | stands beside the money modules: `Attendance!CancelCall` is its `Cancel` and what money follows |
| `ColdMail` | what outreach promises a stranger: no mail once listed, and a budget of mail per address | abstract |
| `OutreachGuards` | the pure decisions: sent already, stage, nudge due, what a bounce or complaint changes | no state |
| `OutreachState` | row, thread, mode, list, locks, jobs and events; handlers, bounds, faults | |
| `IntroSend` | `runSequenceStep`: read, hold or draft, lock, claim, chokepoint, send, release | |
| `IntroRoutes` | bookmark, approve, unbookmark, pass, staff's address, the discovery job | |
| `Delivery` | bounces, complaints and opt-outs, by event | |
| `Nudges` | the planner and the job, by mornings | |
| `Replies` | inbound replies, follow-ups, drafts released, the rate decision, proposed times | |
| `Outreach` | `IntroRoutes` and `Delivery` together: up to the intro | implements `ColdMail` with a budget of 1 |
| `Conversation` | `Nudges`, `Replies` and `Delivery` together: after the intro | implements `ColdMail`'s `Spec` |
| `ProjectRow` | the project's row and the three ways to write it | |
| `Sourcing` | start, job, sweep, and the row's other writers | |
| `OrgState` | members' rows and claims, billing row, Stripe's subscriptions and keys | |
| `SeatBilling` | `syncOrgSeatQuantity` step by step, its callers, cancellation | |
| `Membership` | `upsertUser` step by step and the routes that call it, the claims' sweep | |
| `Organisation` | both together | EXTENDS both |
| `ScreeningSet` | the screening set, and who saves, generates and approves it | |
| `ScreeningLinks` | minting, the form, the submission, revoking, asking for a call | EXTENDS `ScreeningSet` |
| `MC...` | constants for TLC | |
| `RowAndEventProofs` | theorems about `ExpertRow` and `StripeEvents` | EXTENDS both |
| `CallMoneyProofs`, `SourcingProofs`, `ScreeningProofs`, `CallBookingProofs`, `OutreachProofs`, `ConversationProofs`, `OrganisationProofs` | theorems, each about one family | |

Each of the money modules EXTENDS the one above it in the table, because the
code calls that way: the webhook calls the payout and the settlement, the
settlement calls the payout, attendance calls the invoicing.

**State.** `pe` is the row, with the fields `MoneyGuards` explains. `proc[p]` is
one running handler: where it is (`pc`) and the values it still holds from
earlier reads. A step is one await: one read of the row, one `mutateExpert`
write, one call of Stripe. A write is one step because `ExpertRow` is proved to
implement `AtomicRow`; what a handler decided from an earlier read may be
stale, and is kept in its frame for that reason. `inbox` is the set of events
Stripe owes; a delivery leaves the event there until its handler ends, so a
crash brings it back. Since `inbox` is a set, order is not kept, as Stripe does
not keep it.

The other families are built alike. In outreach `w[p]` is a handler with the row,
mode and address it last read, `mail` counts what reached whom (it is what the
properties look at; the code cannot), `locks` are the Redis locks by bounce
generation, `jobs`, `nudgeJobs` and `events` are what QStash and Resend still owe.
In `Sourcing` a handler holds a copy of the row and whether `updated_at` is still
what it read (`fresh`); any write to the row makes every other copy stale. In
`Organisation` a handler is a list of `upsertUser` edits and the syncs that follow
each, one action for each database write and each call of Stripe. In screening `ed[e]`
is a handler of the set with what it still has to write, `post[s]` one POST of an
expert with the form he was shown, and `link[k].claim` says which POST
`submitted_at` is from, which the code's column does not.

**Data.** An amount is the billable minutes it was computed from (rate and
currency are constants of an engagement). Dates are replaced by what is decided
from them: the guarantee's window is `before`, `open`, `closed`, a call's end is
inside or after the ten minutes. Mails, wording and logs are left out. Attention
rows are the set `alerts`.

**Environment.** `Ops` names which requests and faults a run lets happen; with
all of them the model is the whole system. `expire` lets Stripe forget an
idempotency key when no handler is running, which stands for the day that keys
live; a handler lives minutes. For the same reason no handler of `Conversation`
spans a tick of the clock, the intro's lock (120 s) outlives its holder unless
that died, and `PeriodEnds` waits for handlers at rest.

Outreach assumes further: a search asked twice finds the same address; staff, who may
edit address and status of a row, write neither an address the row lists as bounced
nor 'contacted' by hand; a day has a clock tick before
eight and one after it, for business days, zones and the cron at 05:00 UTC
(`vercel.json`); an automatic reply is stored and labelled in one step; which
lines are written is left out. `Sourcing`: two starts in one millisecond, which
would share a run id, do not happen; a pass finds what `Passes` lists.
`Organisation`: the optional seat cap is left out; a new membership's insert does
not fail (its update may, unseen: that is `row_write`); once an organisation is
gone its handlers' row edits do nothing (`upsertUser` with a firm's domain would
create an empty firm again); one nightly job runs at a time.

## 3. Runs

| Run | Question | Bounds |
|---|---|---|
| `expert_row` | Is the row atomic, and is a call refused only for writes made since it began? | 4 callers, the code's 3 retries, 1 removal |
| `stripe_events` | Is an event lost, repeated without a fault, or stuck? | 3 overlapping workers, 3 faults; the engagement may be gone, or a read of it fail |
| `money_request` | One request of any kind, all payment outcomes, refunds, disputes, a fault | 2 handlers, 1 request, 1 fault (an unread row among them) |
| `money_durable` | Without Stripe's keys, does the row alone prevent a second charge or transfer? | 2 handlers, 2 requests, no fault; by card, or by link for want of one |
| `money_guarantee` | Does a flag that races a completion and Zoom get the card money back and the expert paid? | 2 handlers, 3 requests, card payments whose events may overtake the record of the charge |
| `call_booking` | Do overlapping bookings, moves and cancels leave row, Zoom and calendars in order, and is a cancel settled once? | 2 handlers, 5 requests, 2 times, 1 fault |
| `outreach_intro` | Is a stranger written to twice, or against the list; is what went recorded; does a search end? | 2 handlers, 2 requests, 2 addresses of which 1 is dead, 2 faults |
| `conversation` | Do replies, drafts, decisions and nudges send too much, unseen, or never answer? | 2 handlers, 2 requests or replies, 2 mornings, a cron fired twice, jobs delivered again, 1 fault; after a yes, or after a counter-offer |
| `sourcing` | One live run, candidates added once, no guarded write lost, every run ended? | 2 handlers, 2 starts, 1 other request, 1 fault, 2 candidates over a cap of 1 |
| `organisation` | One subscription, seats billed, claims revoked, a champion kept? | 2 members, 2 handlers, 2 requests, 1 fault, the nightly sweeps |
| `screening` | Are experts shown what was screened, is a stored answer kept, is a used link answered? | 2 objectives, 2 texts of which the screen blocks 1, 2 editors, 3 starts, 1 link, 2 POSTs, 1 client, 2 faults |
| `withdrawn_stays_quiet` | a counterexample to what a comment says: section 6 | the smallest that shows it |

Why the bounds suffice for what they ask. Three racing callers are needed to
exhaust the three retries, a fourth makes a success among them. A lease has an
owner, a successor, and someone kept off by either: three workers, and three
faults are an outage, a kill and an expiry in one behaviour. Two handlers are
enough for any read-then-write race on one row; what needs a third step in time
(the event of a charge, the sweep after it) runs on a free handler, since a
handler that ends can be used again. `MaxIntents = 2` is one more than a correct
system charges for one request; `Minutes = {8, 20}` are a call inside the
guarantee and one beyond it, 8 is also below the 15-minute minimum.
`MaxAttempts = 2` lets the limit be reached (`MAX_PAYOUT_ATTEMPTS` is larger, and
the counter does nothing before its limit).

In `call_booking` the shortest way to a
cancel that follows a revived booking takes five requests (propose, pick, and a
move overlapped by a cancel, then the second cancel), so five is the bound; six
were checked once, without a difference. Two slots tell a time from a changed one.

In the newer families two requests overlap, which is what a read-then-write race
needs, and what they set off comes on top: jobs, events, redeliveries, sweeps and
mornings are not requests and are bounded only by what causes them. One fault is
one kill, lost answer, lost read or write, outage or refusal at any step; a claim that
was written and answered with an error takes one, a bounce and a search that goes
wrong after it another, hence two in `outreach_intro`. Two
addresses let an intro bounce and be replaced; `FoundFirst` is the dead one, so
that the case happens. Two mornings are the fewest that two plans can differ on.
In `sourcing` a second candidate is the smallest overflow of the cap, 2 starts
let one run replace another, and a pass finds too many candidates or only adjacent
ones. In `organisation` one starts as a champion alone and
unbilled, or with a member and a subscription. Four subscriptions (`MaxSubs`) are never
reached there.

In `screening` two POSTs are two taps of one form, or a retry; two faults are, say,
a refused insert and a lost undo; three starts are a generation, an approval and a
save that overlaps it. Three POSTs with one fault, and four starts with one fault,
were checked once, without a difference.

Symmetry over the handlers is used in safety runs only. `CHECK_DEADLOCK FALSE`
is given where an engagement is simply over, or every caller has ended;
`stripe_events` checks deadlock.

### Properties

- `SerialWrites` (`ExpertRow` implements `AtomicRow`), `RefusedByContention`: a call
  is refused only if three other writes were made since its own first read.
- `NothingLost`, `OnceWhenHealthy`, `LeaseIsOwners`,
  `EventuallyAcked` for one Stripe event.
- `OneCardChargePerCall`, `OneTransferPerCall`, `TransfersBacked`: money moves
  once, and not without a payment or waiver behind it.
- `CardMoneyOfFlaggedReturned`: card money of a flagged call is back once all is
  quiet, or staff were told, in every run where no payment event overtakes the write
  that records its charge.
- `NoPaidCallForgotten`, `NoWaivedCallForgotten`: a payout that can be made is
  made, or its reason goes away, or staff are told.

- `StrayMeetings`: at rest, live Zoom meetings that are not the booked call's are
  at most the requests that overlapped another plus the faults; none in sequence.
- `LiveCallAgrees`, `SequenceRises`: without overlap, row, Zoom and calendars
  agree on the one call, and each invite outranks the one before it.
- `CancelledOnce`: a cancel has its fee or removal once, whatever becomes of the
  lock; again only after a stale move has brought the booking back.

- `ColdMailHolds` (`Outreach` implements `ColdMail`, and keeps to a budget of 1):
  one intro per address, none to a listed one, whatever overlaps; `SentStaysClaimed`, `ContactedMeansSent`: the
  row never forgets an intro that went nor claims one that did not.
- `SearchEnds`: a replacement search the client was told of is reported on.
- `QuietHolds` (`Conversation` implements `ColdMail`): whatever overlaps, nothing
  goes to an address that was listed before the message was cleared.
- `FollowUpsOnThread` and `SpokenWasMailed` compare the thread with what was mailed,
  each way; `FirstFinisherWins` says which second nudge of a morning the code lets
  through; `EventsAnswered`.
- `OneLiveRun`, `GuardedWritesMerge`, `AddedOnce`, `RunEnds` for sourcing.
- `OneSubscription`, `SeatsBilled`, `RevocationLands`, `ChampionKept` for an
  organisation.
- `ShownWasScreened`, `OkIsKept`, `CallStandsOnAnswers`, `UsedLinkAnswered` for
  screening.

The type invariants of the row, the Stripe event, the money core, sourcing,
screening and the conversation are theorems and no run repeats them; those of
booking, of the intro and of organisations are theorems and are checked.

Several of these count faults or except a case by name (`Doubtful`, `excused`,
`billed`): what is excepted was found by TLC first, is a story of its own, and is
told in section 5 or 6.

`PROJECT.json` gives for each property a mutation of the code's logic under
which TLC finds it violated.

### Fairness

`StripeEvents`: `WF(Handle(w))`, since the platform runs a started function;
`WF(Expire)`, since Redis honours `EX`; `WF(~acked /\ Deliver(w))`, since Stripe
redelivers until it has read a 200. Kills and outages are not fair; they are
bounded by `MaxFaults`.

`CallBooking` states no liveness and assumes no fairness.

`Outreach`, `Conversation`: `WF(HandlerStep(p))` for each worker: a handler that has
begun goes on, a job QStash holds and an event Resend owes are delivered. Nobody
has to ask, to reply, or to see another morning. `Sourcing`: `WF` for handlers and
for time, `SF` for the sweep, a cron that finds a free worker some night.
`Organisation`: `WF` for handlers and for Stripe's forgetting, `SF` for each of the
two sweeps. `ScreeningLinks`: `WF(Submission(s))`, since a POST that has begun goes
on; nobody has to send, and no fault has to come.

`CallMoney`: `WF(Run(p))` for each handler, for the same reason; `SF` for "some
worker delivers" and "some worker runs the nightly sweep", strong because a
worker that is free now may be busy when Stripe or the cron comes, yet both come
back for ever; `WF(StaleOwed)`, the alarm of the same nightly job. Nothing is
assumed of clients, staff, the expert or Zoom.

## 4. Theorems

All are for every value of the constants that satisfies the modules' ASSUMEs
(the sets may be of any size; callers' mutations are any functions on documents).

- `RowAndEventProofs`, the row: `NoLostWrite` (`Spec => SerialWrites`), a step simulation:
  the UPDATE that matches is the caller's atomic mutation, all else stutters. The
  inductive invariant says that a caller whose `seenRev` is still the row's holds
  the row's own document. `ConflictNeedsContention`: a caller's lost races never
  outnumber the writes since it began.
- `RowAndEventProofs`, the event: `NothingIsLost`, `WorkDoneOnce`,
  `LeaseTakenByOwner`, from `EventIInv` of `StripeEvents`: a worker writes the marker
  or answers 200 only past the work, or past a look that did not find the engagement
  (it was gone, or the read failed: `OnlyTheGoneSilenced` does not hold); and until the first fault the lease is held
  exactly by the one worker inside the claimed section. The last clause is needed because the marker is
  looked for twice: a worker that took the lease after another finished would
  otherwise work again.
- `CallMoneyProofs`: `TypesHold`, with one lemma per action. `TypeOK` alone is not
  inductive, since what a frame's `ref` denotes (an intent or a link) depends on
  where the handler is; `IInv` adds that.
  `CardChargedOnce` and `ExpertPaidOnce` hold under `"expire" \notin
  Ops`, that is, for as long as Stripe remembers its keys, for any number of
  handlers, requests, faults and redeliveries. `KInv` adds to `IInv` that each
  kept card charge is the one its key replays (`ChargesKeyed`) and that a charge
  id has been transferred exactly when its key is taken (`SendsKeyed`). No
  guard on the row is used: the keys alone suffice. What is left once they expire
  is `money_durable` and section 6, number 5.
- `CallMoneyProofs`, what a transfer rests on. `PaidRowWasPaid`, with no hypothesis:
  a row is 'paid' only if a payment of the client succeeded. `PaidForReal` says the
  same of each payment event on its way and of each handler about to write it.
  `TransfersBacked` does not hold of every instance (section 5), and is proved twice,
  both times while Stripe remembers its keys, and with any faults, payment outcomes
  and order of events:
  - `RequestTransfersBacked`: an engagement of any kind and one request of any kind
    (`MaxStarts <= 1`), with all that follows from it, for any number of handlers and
    faults. `money_request` is an instance. Its `OneRequestInv` has two phases. Until
    `createAndSendInvoice` is reached (`Unbilled`) one handler is at work, and nothing was
    asked of the client. From then on (`BilledFor`) there is one charge id that every
    handler works for and the row is billed for, and a handler is about to transfer for
    it only once a payment succeeded. Which id that is, is what the proof is about: the
    payout works out the id again from the row, and `BilledRow` says that it arrives
    at the invoiced one, or at 0 minutes, for which nothing is sent.
  - `CallTransfersBacked`: any number of overlapping requests, under `OneCall`: the call
    is booked, nobody cancels, the client comes, and there is either no flag or no call
    of more than ten minutes. `CallInv` says that all work is then for the call, that
    only a flagged call is waived and that a flag stays; `TransfersInv` that a transfer
    is made, or about to be, only with a payment or the flag behind it. Counting the
    transfers is left to `KInv`. Nothing of this is so once a flag can be voided.
- `CallMoneyProofs`, `FlaggedCardReturned` (`CardMoneyOfFlaggedReturned`) under
  `OneCard`: `OneCall`, keys remembered, no fault, each payment by card and not
  declined; for any number of handlers, requests, refunds and sweeps. `money_guarantee`
  is an instance, with one duration, three requests and payments that succeed at once.
  In both a payment event may overtake the write of its charge (`Overtaken`); the money
  is then kept, which the property says. So the invariant is kept by every step but the
  one that overtakes. `CardInv`
  follows the one payment of the call, `Payment`: no other was raised and no link made
  (`CardLedger`), the row tells of it or can still take it (`CardRow`), handlers and
  events know of no other and say of it only what is so (`CardFrame`, `CardEvent`). Its
  last conjunct is the point: once the payment has succeeded, its event is still to
  come or the row tells of it, and if the call is flagged somebody has the money in
  hand (`GoesBack`). Either the event is to come and nobody is handling it; or a
  handler is at the refund or just before it; or one is about to settle the flag, and
  then the row must tell of the payment and not yet be 'waived' or 'failed', and nobody be
  about to write 'waived', for that handler would stop at either. Without a
  fault no such handler vanishes; a crash would leave the money to nobody.
- `SourcingProofs`: `RunsDoNotOverlap` (`OneLiveRun`) and `NothingOverwritten`
  (`GuardedWritesMerge`), for any number of handlers, starts, saves, faults and any
  finite set of candidates. `IInv` says of each handler (`HandlerOK`) that a copy whose
  `fresh` flag stands is the row itself; that one who is about to claim has seen no
  live run under the number it compares; that every number it holds has been given
  out, so the next one is nobody's; and that only a billing handler carries a patch
  that may put an old status back, which is why `OneLiveRun` speaks of projects not
  billed yet. `PassesArePaid` (`AddedOnce`) is an account: the passes
  made and still to come of a run, and the billing writes under way, are at most
  one more than the deaths, drops, outages and billing writes so far (`Once`, with
  `IInv`). What is still to come depends on whether the row still has the run open:
  if so, each job on its way, and a run in nobody's hands is one; if not, only jobs
  past their gate, and the rest but one, since a billing write may open it again.
  Assumed: the five ASSUMEs of `ProjectRow` and `Sourcing`.
- `ScreeningProofs`: `ApprovedIsShown` (`ShownWasScreened`), `StoredIsKept`
  (`OkIsKept`) and `CallsAreBacked` (`CallStandsOnAnswers`), for any number of
  objectives, texts, links, handlers, POSTs and faults. None of the three is
  inductive. `IInv` adds: an approval still alone has seen the gates pass on the items
  as they are, as far as it could read objectives and firm (`HandlersOK`), once there is a seal no save is in flight, and none can
  begin (`SealOK`), no form is out before the approval (`FormsOK`), the POST between
  claim and undo holds the claim, and reaches the undo only with answers stored or a
  write failed (`PostOK`), and behind every claim and every client about to ask there
  are answers, a failure, or an insert to come (`ClaimsBacked`). Assumed: `Flagged`
  among `Questions`, `Blank` not, `None` neither a POST nor a link.
- `CallBookingProofs`: `RoomsBounded` (`StrayMeetings`), `CallAgreed`
  (`LiveCallAgrees`), `CancelSettledOnce` (`CancelledOnce`) and `InvitesRise`
  (`SequenceRises`), for any number of handlers, times, requests and faults, where
  the run has five requests and one fault. One `IInv` carries all four: what a
  handler's copy of the booking is worth where it stands (`FramesOK`), that every
  icsUid anywhere has been minted (`MintedOK`, `UidsOK`), that a cancellation,
  settled or about to be, either stands or was undone (`CancelsOK`), that every busy
  handler but one was counted as an overlap (`BusyOK`), and an account of the rooms
  (`RoomsOK`): one meeting is free, each further one has an overlap or a fault, and
  a booking without a meeting, or cancelled without deleting its own, gives one
  back. `InvitesOK` and `CalmOK` speak only while nothing overlapped, as the
  properties do. Assumed: there is a time, and there is a request.
- `OutreachProofs`: `NeverForgotten` (`SentStaysClaimed`), `ContactedWasSent`
  (`ContactedMeansSent`), `ListKept` (`Spec => Cold!Spec`), `OneIntroEach` and
  `ColdMailKept` (`ColdMailHolds`), for any number of handlers, addresses, requests,
  events and faults. `Types` says of each handler what its copy of the row is worth
  where it stands; on it alone rests `ListKept`, a step simulation with no
  condition: an address joins `cleared` when the chokepoint passes it and leaves it
  with the send, and the list only grows. The other results need `Once`, which
  speaks until a fault leaves a doubt about a send. Of the row: unless its claim is
  fresh, nobody is between claim and outcome and everybody written to has bounced
  (`FreeUnlessClaimed`). Of a step that has claimed: it is alone, holds the lock, and
  its copy agrees with the row on the bounces (`FlightAlone`); of one that has not: it
  will find the lock taken, or its copy is still good (`CopiesOld`). At most one
  address that was written to is not known as bounced (`MailedOnce`), and a bounce the
  row knows is answered by the handler that recorded it (`BouncesFresh`); without
  that, a bounce delivered late would free a claim made since. The rule on the row
  and the lock are both needed: two copies read before the first claim pass the
  rule together, and only the lock stops the second. `OneIntroEach` is the
  budget until the first doubt; `ColdMailKept` is all of `ColdMailHolds` where doubtful
  faults are not among `Ops`. Assumed: finitely many handlers and addresses, and that
  the first rows were not yet written to (`FirstIntroAssumption`).
- `ConversationProofs`: `MailIsOnThread` (`FollowUpsOnThread`), `LinesWereMailed`
  (`SpokenWasMailed`) and `FirstNudgeWins` (`FirstFinisherWins`), for any number of
  handlers, addresses, requests, replies, mornings, deliveries and faults. The first two
  rest on an account of mails against lines, `FollowUps`: follow-ups mailed and releases
  in flight are at most the lines shown as sent, the replies yet to append one, the lost
  answers, kills and refused lines; as long as the row does not say that terms were
  asked, refused lines need not be counted, but replies yet to mark the row; and
  conversely but for kills and flags that were lost. `HandlersOK` says that a release that
  has taken a draft's flag is alone with that draft; without it two clicks could count
  one line twice. For the nudges, `Due` says that a job waits on a line of the thread,
  and who holds one came after its hour and who plans one before it; so no plan
  for a morning is made after its first nudge. `Slots` says of a morning whose nudge has
  gone that the nudge is on the thread after all that a job waits on, or about to be
  (`Said`), and that the row's slot is another's, or about to be cleared (`Freed`), but
  for the faults the property names. A job that reads thread and row later must
  then refuse by one of the two (`StillWanted`).
  `QuietImplemented` (`Spec => QuietHolds`) is a step simulation: listing is
  `ColdMail`'s, a gate that passes clears the message there, and each mail is one
  that was cleared. Assumed: finitely many handlers, and that the initial records and
  threads are well formed, with no follow-up on them yet shown as sent.
- `OrganisationProofs`: `ChampionStays` (`ChampionKept`) for any finite set of members,
  any handlers, requests and faults, and `OnlyOne` (`OneSubscription`) for any number
  of handlers, syncs, sweeps and removals until the first fault. `IInv` has three
  parts. `Types` adds to `TypeOK` what a handler has in hand where it stands.
  `Championed`: as long as nothing is excused nobody edits beside another, and the
  list of edits under way spares somebody who is a champion, or whom its first edit
  makes one (`Outlasted`); the count each route makes holds only when it is made, and
  this is what it is worth while the edits are written one by one. `Sole`: a create
  follows an id whose subscription is over (`FollowsDead`); of all ids a create may
  still follow, those the billing row, a handler, a key or Stripe has, at most one
  has had none (`OneEnd`); so ids form a chain, and a second live one would be a
  second end. Before a removal begins, moreover, whoever holds an id holds the live
  one, and who is to create one follows the row's id or finds its key taken
  (`Tidy`): this is what keeps the chain whole when Stripe forgets a key or a month
  ends, which both come only while no handler is busy. Assumed: finitely many members,
  and that the organisation begins with a champion, with rows and billing of their
  types (`FirstsAssumption`).
- `TypesHold` of each of these modules: the family's `TypeOK`; `EventTypesHold` is that
  of `StripeEvents`.

Only model-checked: liveness (out of the prover's reach; `UsedLinkAnswered` and
`EventsAnswered` among it); `OneSubscription` after a fault, shown for two handlers
and one fault only (section 5); what is left of the intro's budget after a doubtful
fault (one more mail for each), and `ContactedMeansSent` after a lock that could not
be asked or an answer that was lost: the run shows them for two handlers and one
fault, and with three or four handlers a doubtful fault may let more than one step
past the lock, so that they are not claimed there; `money_durable`'s case of forgotten keys, which
needs the row's guards and holds only without faults. With that, each safety
invariant and each action property of a run is also a theorem, under the hypotheses
given here; those of liveness are not.

## 5. Limits of what is shown

- `OneCardChargePerCall` and `OneTransferPerCall` do not hold with forgotten keys
  *and* a fault: a handler killed between charge and record leaves a row that
  does not know of the charge (section 6, number 5, is the transfer's form of it). Nor
  with forgotten keys and three requests that complete, charge the late-cancel
  fee and complete again, since the row then holds the fee's id.
- `CardMoneyOfFlaggedReturned` is checked and proved for completions, Zoom's reports,
  staff decisions and the flag of a call that is paid by card, and excepts the runs
  where a payment event overtakes the write that records its charge (number 7), or the
  row's own read fails, which is a fault. With a late-cancel fee
  as a third overlapping request, or with differing minutes billed over links, the
  money of a flagged call can be kept. Those cases are hazards in `PROJECT.json`.
- `TransfersBacked` is neither checked nor claimed where a fee and a call overlap, or
  a flag and reports of differing length. In the latter case TLC finds it violated
  with three requests: a call reported as short is flagged and waived and the expert
  is paid, an overlapping completion's payment link puts 'invoice_sent' over 'waived'
  (`createAndSendInvoice.ts:613`), and a completion that reports more than ten minutes
  voids the flag: the transfer has neither payment nor flag behind it. This is why
  `OneCall` asks for no flag or no long call.
- `NoPaidCallForgotten` is checked without faults: `runExpertPayout` swallows its
  own errors, and a read that fails there leaves a row no sweep selects.
- One engagement, one booked call and its fee (an engagement is booked once and a
  rebooking keeps the call's id); ids the `complete` route mints without a booking
  are in `money_request`. Link payments are not deduplicated by any key, and no
  property claims that they are.
- Overlap does break booking, and the model shows how: two overlapping `bookCall`s
  make two meetings and two events in the calendars (the check at
  `lib/bookCall.ts:280` and the write are apart, and neither `bookCall` nor
  `rebookCall` takes the lock that line 789 says every such action shares); a move
  overlapped by a cancel writes the booking back without `cancelledAt`. So
  `StrayMeetings` and `CancelledOnce` count overlaps instead of denying them.
- In sequence, too, a cancelled call can be invited to again: a reply after the
  cancel reopens the talk, and a time named by e-mail moves the cancelled booking
  (`status` 'scheduled', `cancelledAt` kept, fresh invites, no meeting), although
  `lib/callPolicies.ts:92` calls a cancel terminal. `LiveCallAgrees` therefore says
  nothing of the invites of a cancelled booking.
- In `CallBooking` the two copies of an invite are one, expiry of the picker link
  and the numbering of proposal rounds are left out (a link may be refused at any
  time, a round may be the last), and a meeting's end sets only `ended` and the
  status.
- `SearchEnds` excepts what the code leaves standing: a death between the bounce's row
  write and the publish, a project or row that could not be read, and a last line that
  could not be written (number 24). `ContactedMeansSent` excepts a kill, a release that
  could not be written, and a claim written but answered with an error (number 25).
- `FollowUpsOnThread` excepts, beside kills and lost answers, a line that the thread
  refused, as long as the row says that terms were asked (number 26).
- In `outreach_intro` a second mail to one address is excused after a lock that
  could not be taken, a lost answer, or a kill. The kill has one story only: a
  bounce handler dies after its row write, an earlier search puts the dead address
  back, and the redelivered event makes the replacement's claim look old.
- `SeatsBilled` excepts an organisation without seats whose subscription was made
  and never recorded (section 6, number 12).
- `OneSubscription` holds for any number of handlers until the first fault (a
  theorem), and for two handlers, two requests and one fault (the run). It fails with
  three handlers and one fault: the record of a new id is lost, Stripe forgets its key, one
  sync reads the old id, another adopts the subscription and writes its id down, a
  removal cancels it; the first sync and a third then create under different keys.
  With two faults two handlers do, when a mirror write puts a stale id back.
- `GuardedWritesMerge` and `OneLiveRun` speak of the guarded writers. The unguarded
  `updateProjectFields` (a billing write, a run's outcome, the sweep's) can put a
  save answered 200, or a claim, back to what it read before.
- `ShownWasScreened` speaks of a set approved with no save in flight, and says of the
  approval's own reads what each lets through when it fails: the firm's a text that names
  the client, the objectives' anything; `OkIsKept`, `CallStandsOnAnswers` and
  `UsedLinkAnswered` except, link by link, what a lost or cut-off write has hurt.
  What else may happen is section 6, numbers 17 to 19. Redaction, mails, outcomes
  and the listing are left out; whether the screen blocks a text is an input.
- Who attended is an input: how participant events decide it is not modelled. The
  entitlement check may refuse at any time.

## 6. Disagreements between code and documents

The first is a run that TLC must find violated; the rest were found with TLC
while the models were built. Where a definition is named it is in the module and
says "it does not hold"; give it to the family's configuration to see the trace.

1. `withdrawn_stays_quiet`: undo is allowed while "nothing has left the building"
   (`unbookmark/route.ts:5`). A queued contact search does not look at the status
   and sends the intro after the undo, with nothing overlapping.
2. `Conversation!NudgesCapped`: "max capacity of 4" nudges (`lib/nudges.ts:19`). The
   job appends its nudge to the thread, the nudge becomes what is waited on, and the
   count starts again at every morning: the cap never binds, with no fault and no
   overlap.
3. `CallMoney!RefundIsTerminal`: `refunded` is terminal (`handlers.ts:377`); a
   payment event processed after the refund's writes `paid` (338) and pays the
   expert.
4. The late-cancel fee's payout "follows on its own" (`lateCancelBilling.ts:14`);
   when the payment event overtakes the write of `billedCallId`
   (`createAndSendInvoice.ts:550`) it computes 0 minutes and is dropped silently.
   (`NoPaidCallForgotten` with a cancellation in `Ops`.)
5. A payout can "no longer be ... paid twice" (`ARCHITECTURE.md:694`); a transfer
   whose answer is lost is sent again by the sweep once its key has expired
   (`expertPayout.ts:543`). (`OneTransferPerCall` with `expire` and a fault.)
6. `FlaggedCallIsSettled`: `createAndSendInvoice` leaves a waiver to its caller
   (437); the `complete` route (184) does not settle it.
7. `FlaggedMoneyReturned`: a flagged call is "NEVER 'paid'" (`handlers.ts:531`); the
   webhook decides on a read that the flag invalidates, and money paid by link is
   kept. So is a card's when the payment event overtakes the write of `billedCallId`
   (`createAndSendInvoice.ts:532-550`): the row is paid for no call, a flag is then
   waived with the charge kept, and nobody is told. And when the webhook's read of the
   project fails (330-341), which it takes for "not flagged".
8. `Conversation!FollowUpOnce`: a second yes "never" produces a second rate ask
   (`inbound-email/route.ts:1004`); two overlapping replies send two, and two drafts
   can both be released.
9. `Conversation!CounterNotLost`: a counter-offer that arrives while a decision is
   being mailed is set to null by the decision's write (`rate-decision/route.ts:213`).
10. An intro that went can leave a row that says otherwise: unbookmark and pass
    write the status over a row claimed meanwhile.
    (`contactDiscovery.ts:1016` still says the step has no send-once guard; it has.)
11. Sourcing: the job takes the room under the cap from the read at its start, so a
    pool filled meanwhile overflows (`Sourcing!PoolWithinCap`; `sourcingJob.ts:283`
    says it respects the cap). A read that fails looks like a missing project, the
    delivery is answered, and the run waits for the sweep. The sweep leaves
    `sourcingStartedAt` set, and may fail a run that started after its look.
12. Seats: a subscription made but never recorded is not looked for once no seat is
    left (`orgBilling.ts:722` returns before it lists) and bills for ever. A removed
    firm is "never billed for another month" (`Organisation!RemovedNotBilled`); it is
    when a sync overlaps the deletion, when the id was not recorded, or when the billing
    row cannot be read (`orgBilling.ts:913-929`): the close goes on, the subscription lives. A seat count that
    fails reads as 0, and the subscription winds down until the next sync.
13. Champions: a transfer keeps the firm from having none (`org/members:324`), but two
    overlapping transfers or demotions leave none, the promotion's own write is not
    checked, staff's PATCH and anybody's DELETE count no champions; and it passes
    through two champions though the route's head says there never are.
14. Claims: the sweep can overlap a re-enabled seat and lock it out, which nothing
    heals; an accepted invitation that races a disable activates the seat again.
15. `sweepSeats` orders by `updated_at`, which an unchanged sync does not move, so
    beyond 500 organisations the same are looked at every night;
    `sweepMembershipStatus` looks at the oldest 500 rows only.
16. Two invitees pass the seat limit together: `tryClaimSeat` locks by domain *and*
    e-mail (`firmStore.ts:687`).
17. `ScreeningLinks!FrozenAtApproval`: "a screening set is frozen at approval"
    (`requests/[id]/route.ts:13`). A save or a generation that read "draft" writes
    after the approval, and experts read a text no gate has seen.
18. A failed read of the firm gives null (`firmStore.ts:607-617`), and the approval skips
    its check for the client's name (`approve/route.ts:105-115`): experts read it.
    A failed read of the objectives counts as none (`requestStore.ts:599`): both gates
    of the approval pass, and so they do for a request whose objectives were never
    inserted. A form without questions is complete when the second read fails too.
19. Submission: a lost answer to the claim, a failed undo or a death leaves a link used
    without answers, "the one outcome worth writing code to avoid"; a lost answer to
    the insert leaves a link that is open and refuses every further submission
    (`unique(token_id, objective_id)`; `ScreeningLinks!FailedIsOpen`).
20. `ScreeningLinks!NoBlindCall`: request-call may judge a claim that is undone a
    moment later; `call_requested_at` is then set for an expert who has answered
    nothing, and is "set once, never cleared"
    (`supabase/migrations/20260914000000_screening_requests.sql:249`).

21. A nudge can be about a draft that never went. A release takes the pending flag
    off the thread before the chokepoint is asked (`messages/[id]/send/route.ts:174`)
    and puts it back when the mail is refused (69); a nudge job, or the planner, that
    reads the thread in between counts the draft as sent, although
    `lib/nudges.ts:289` keeps drafts out for just this reason. `SpokenWasMailed`
    therefore counts the releases in flight.
22. A rate decision for an expert without an address mails nothing, and its line is on
    the thread without a mark (`rate-decision/route.ts:174`, 227), like one that went.
23. `StripeEvents!OnlyTheGoneSilenced`: the handler acknowledges what it can never
    process "as distinct from a transient store or provider outage"
    (`handlers.ts:484-499`). It tells the two apart by the words 'not found', which
    a failed read of the row raises too (`projectStore.ts:734-737`, 985-991): the event is
    answered 200 and marked done, and its work is never carried out.
24. Contact discovery "always writes a terminal `contactStatus`" (`contactDiscovery.ts:966`).
    A failed read of the row ends the job as 'expert_not_found' with nothing written
    (976-986); `writeOutcome` swallows its own failure (1214-1230), as does the note that
    the search could not be queued (`deliveryEvents.ts:759-762`); and a bounce whose project
    cannot be read is acknowledged (655-656). The client reads "looking for another
    address" for ever; only the search that could not be queued tells staff.
25. A claim that was written and answered with an error ends the step as failed and is
    not taken back (`outreachSteps.ts:382-387`): the row says 'contacted' of an expert
    nobody has written to, and the send-once rule keeps it so.
26. A release whose clear was written and answered with an error is told that the draft
    "has already been sent" (`messages/[id]/send/route.ts:182-191`), and one that was refused
    puts the flag back with a write that may fail unseen (66-69): a draft shown as sent
    that never was. `appendMessage` answers null when the insert is refused, which the
    inbound route ignores (`inbound-email/route.ts:1134-1140`): a follow-up that was mailed and
    is not on the thread.

## 7. Plan

1. *Done:* the row, the event claim, the money core and their proofs; booking;
   intro sends, bounces, discovery, replies and nudges; sourcing; organisations;
   screening. Proved: every safety property of sourcing, screening, booking and the
   conversation, those of the money core, of the intro and of organisations as far as
   section 4 says, and that both halves of outreach implement `ColdMail`.
2. To prove next: what of `TransfersBacked` is true of a fee and a call in sequence,
   and `OneSubscription` of two handlers after one fault.
3. Zoom's participant events (a client who joined is not marked absent) and the
   price of a cancel against the time it cancels.
4. Several calls of one engagement: payout reversal, links, amounts.
5. `OneTransferPerCall` without faults for forgotten keys.
