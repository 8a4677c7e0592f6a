# backbone-mailing in TLA+

backbone-mailing is a mass-mailing module: Rust services over Postgres, driven by a
periodic job that several processes may run at once.  It keeps no lock while it sends.
What it promises (one mail per recipient, nothing forgotten, suppression respected)
rests on row states, one partial unique index, a grace interval and an order of
transactions, so that is what these specifications model.

Contents: 1 the system; 2 the modules; 3 what the runs show; 4 bounds and
fairness; 5 what is proved; 6 what is abstracted; 7 where code and its
documentation differ; 8 not modelled, and what could follow.

Paths are relative to `src/`; `write_service` is
`src/application/service/mailing_write_service.rs`, `send_repository` and
`trace_repository` are in `src/infrastructure/persistence/`.

## 1. The system

| Component | State it keeps | Operations | What makes it correct |
|---|---|---|---|
| Mailing lifecycle (`write_service` 571-811) | `mailings.state`, `schedule_date`, `metadata.send_error` | create, update of a draft, launch, cancel, requeue after a domain fix, retry failed | only declared edges; a launched mailing is one the sweep takes |
| Send engine (`write_service` 820-1384) | locals of each running sweep; the rows above and below | claim, park, repair, resolve, probe, walk, mint, enqueue, attach, complete, reconcile | one standing mail per address; done means all dealt with; a queued mailing drains |
| Trace rows (`trace_repository`, `trace_write_service.rs`) | `mailing_traces`: status, `mail_id` or `sms_uuid`, soft delete, datetimes, failure | mint (plain and fenced), `set_*` verbs, attach, soft delete | one live non-cancel row per recipient; status forward only; link written once; stamps in order |
| Orphan repair and reconcile | age of outgoing rows without a mail | `outgoing_without_mail`, `settled_mails_for_reconcile` | an orphan is enqueued once, a verdict never overrides a later fact |
| Suppression | subscriptions' `opt_out`, `messaging.mail_blacklists` | opt out, re-subscribe, auto-blacklist | no mail to a suppressed address; listed only for a pattern of bounces |
| A/B tests and promotion (`write_service` 1385-1533, `ab_test_write_service.rs`) | `mailing_ab_tests`, `ab_*` columns of mailings, winner copy | create, bind, sms axis, compare, select winner, promote due tests | one settled winner with its copy; one send per address; the copy reaches the rest |
| SMS delivery pump (`sms_delivery_pump_service.rs`) | sms traces, `sms_walk_complete` | tracker verdicts, inferred completion | done only when walked and no delivery is open; a parked mailing stays open |
| SMS stop, suppression, targeting | phone blacklist, cancel traces | STOP by reply or code, split at claim | a listed number is not texted, and its suppression is on record |
| Subscriptions, audience archive guard (`subscription_write_service.rs`) | subscriptions, contacts, audiences | subscribe, opt out, unsubscribe by email, remove, create, archive | a stop holds for every spelling; the first opt-out keeps its reason; no list is archived under a mailing in flight |
| Trace routes (`trace_route_service.rs`, `trace_routes.rs`) | open and click stamps | click, pixel, unsubscribe | a click is an open; the first open stays |
| Statistics (`mailing_stats_read_service.rs`) | none | counters by mailing and by source | they count what the rows say |
| Transition routes (generated handlers) | none | seven for mailings, nine for traces | a stale decision never leaves the state machine |
| Domain parser, resolver, pacer, run scope, ports | none | pure functions and interfaces | refusal instead of a wrong audience |
| backbone-mail (external) | `messaging.mails`, sms trackers, blacklists | `message_post`, `enqueue`, its own sender | not in this repository |
| Other generated code, migrations, configuration | - | - | triggers and indexes carry the behaviour |

How they interact: operators, transition routes and the sweep write the same mailing rows,
each with a `WHERE state` guard or under a trigger.  The sweep mints trace rows, calls the
external queue, and stores the queue's row id on the trace; the queue settles its rows in
its own time, and a later sweep's reconcile step, or the pump, copies the verdicts.
Tracking routes and inbound facts move the same trace rows by the same guarded verbs.
Step 9 of the sweep reads those rows' figures and inserts a mailing that the next sweep
sends.  Opt-outs and the exclusion lists change at any time and are read once per pass;
archiving a list takes a lock that every write of a mailing naming it shares.

What is hard here:

- claim locks end with the claim transaction, and a `sending` mailing is claimed again:
  several workers drive one mailing;
- a worker may die between mint, enqueue and attach, which are three transactions;
- the repair of an old orphan races a slow worker that still holds it;
- dispositions are a snapshot that walk, batches and completion act on much later, while
  retry frees recipients and operators cancel and relaunch;
- `send_error` outlives a cancel; cancel traces are outside the unique index; campaign
  disjointness is a snapshot only; contacts that share an address have no fixed order;
- a promotion ranks in one transaction and writes in another, on what it ranked;
- the pump infers done from the absence of rows that others are inserting, and a guard may
  park the mailing between its scan and its lock;
- a public leg is several transactions and the visitor may hang up between two of them;
- one address has several contacts, spelled differently, that must all stop;
- the transition routes decide on a row they read before.

`PROJECT.json` lists each at its line, with the properties that cover it or the reason why
none does.

## 2. The modules

| Module | What it is |
|---|---|
| `SendEngine` | lifecycle verbs, the sweep for any number of workers, the mail traces, the queue, the suppression lists |
| `AbTests` | tests, variants, sampling, ranking, both promotions and the winner copy |
| `SmsPump` | the sms channel: STOP legs, suppression and mints of the walk, the channel guard, the pump |
| `Tracking` | the life of a mail trace after the enqueue: stamps, public legs, routes, reconcile, auto-blacklist |
| `Audiences` | lists, subscriptions, the unsubscribe leg, domains, the archive guard, the mailing routes |
| `MailingLifecycle` | abstract: the machine of `mailings.state` and its trigger |
| `TraceLifecycle` | abstract: what a trace row promises (minted once, forward only, linked once, hidden once) |
| `MCSendEngine`, `MCAbTests`, `MCSmsPump`, `MCTracking`, `MCAudiences` | finite instances for TLC; each `.cfg` chooses one scenario |
| `SendEngineProofs`, `SendEngineRefinement`, `SendEngineSafety`, `SendEngineApart` | theorems about the engine, the last one while its sweeps hold different mailings |
| `AbTestsProofs`, `SmsPumpProofs`, `TrackingProofs`, `AudiencesProofs` | theorems about the others |

The five components meet at the rows.  `SendEngine`, `SmsPump` and `Tracking` each implement
`TraceLifecycle`, `SendEngine` and `Audiences` each implement `MailingLifecycle`: what one
module may do to a row, the others may rely on.  `AbTests` has the claim and the drive of
`SendEngine` as far as they decide who is sent to (claim, probe, batches, completion), and
leaves to it what happens to a row after its mint.

### State and actions of SendEngine

| Variable | In the code |
|---|---|
| `mailing[m]` | `state`; `parked`: metadata has `send_error`; `waiting`: `schedule_date` lies ahead |
| `trace[<<m, r, n>>]` | the n-th row inserted for recipient r of m: `status`, `live` (no `deleted_at`), `link` (`mail_id`), `aged` (older than `REPAIR_GRACE_MINUTES`) |
| `mails[t]` | the queue rows enqueued for the trace, each outgoing, sent or exception |
| `optOut`, `blacklist` | addresses with a live opt-out, or active on the exclusion list |
| `worker[w]` | the locals of one `send_queue_sweep`: program counter, claims left, mailing driven, traces to enqueue, posted row, cancels and recipients left, whether the budget ran out |

A step is one SQL transaction or one call to the queue; between two steps anything else
may happen.  This holds for all modules.

| Action | Code |
|---|---|
| `Launch`, `Cancel`, `Requeue`, `RetryFailed` | the four operator verbs |
| `Claim`, `ClaimNothing` | `claim_due_mailings` with parse, flip and park in one transaction |
| `Drive` | entering `drive_mailing`: the repair arm's read |
| `Post`, `Attach`, `PostRefused`, `AttachFails` | `enqueue_one`, split at the queue's own commit, and what its caller does with an error: the walk fails the trace, the repair arm only logs |
| `Probe` | resolve, the disposition and list reads, and the pure walk up to the budget |
| `MintCancel`, `MintBatch` | one suppression, and one batch with the fenced mint |
| `Finish`, `FinishEmpty`, `DriveFails` | completion, complete-empty, park after a failed drive |
| `DrivesDone`, `Reconcile` | leaving the loop; step 7 over all mailings |
| `Crash` | the process dies, or an error leaves the sweep |
| `ComesDue`, `Age`, `Settle`, `Tracked`, `OptOut`, `Resubscribe`, `Blacklist` | clock, external queue, routes and inbound facts, list changes |

### AbTests

`mailing[m]` has the columns a test reads and writes, `tally`, what its traces counted when
it was done, and `of`, the variant a copy was made of; `test[t]` is the test row, with
`promote` for the position of `promote_at` against the clock; `trace` is the set of live
sends; `sweeper[w]` and `operator[o]` hold what a promotion has read, `drive[w]` the claims of
a sweep, as read (`ClaimedMailing`), the one being driven, whom its pass is still to send to,
and whether the budget ran out.

`CreateAbTest`, `BindVariant`, `SelectWinner` / `SelectWinnerWrites` are the operator's calls,
the last one split between its reads and its writes.  `Claim` is the claim transaction;
`Probe` reads the disposition and picks `Fragment \ Seen` up to the budget; `MintBatch` is one
batch, fenced by the index of its own mailing alone; `Finish` completes, or leaves the mailing
`sending` for the next pass.  `ReadDue`, `Skip`, `Rank`, `Promote` are step 9: the due tests
are read once, each is ranked in one transaction and promoted in another that reads nothing
again.  `Crown` is the three writes both promotions share.

### SmsPump

`mailing[m]`: `state`, `walked` (`sms_walk_complete`), `parked`; `trace` as in the engine with
`link` for `sms_uuid`; `tracker[t]` the gateway's row for it; `stopped` the phone blacklist;
`walk`, `sweeper`, `pump` the locals of the three kinds of process.  `ReadVerdicts`,
`ApplyVerdict` (one transaction for each verdict), `Scan`, `LockForDone`, `InferDone` and
`EndPass` are `pump_once`.  A row that a pump has locked makes every other writer wait
(`Free`).  `Claim` and `ParkAtGuard` are the sweep as far as it gets with an sms mailing.
The walk (`WalkClaims` to `MarkWalkComplete`) has no caller in this repository: it is the
environment that `suppress_at_claim`, `mint_trace_channel_fenced`, `attach_sms_uuid` and
`mark_sms_walk_complete` are written for, each call as its own transaction.

### Tracking

`trace[t]` has the status and the five datetimes, on a clock `now` of a few moments (0 is
NULL); `bounced` says that the failure type is `mail_bounce`.  `RouteTrace`, `ResolveClick`
or `CheckConsistency`, `StampOpened`, `StampClicked` are the two public legs; `Abandon` is
the dropped request.  `ReadForRoute` and the nine `...Transition` actions are the generated
routes, split between the read and the update under the trigger.  `ReadSettled` and
`Reconcile` are step 7, whose updates come one by one after the read and meet each row as it
then is; `AutoBlacklist` is step 8, `RetryFailed` hides error rows.

### Audiences

`sub[<<c, a>>]` is the newest row of a pair, `audience[a]` and `mailing[m]` the states, `leg`,
`joining`, `archiver`, `write` the locals of requests, `stopped` a history of what readers
were told.  A write between its statement and its commit is `open`, and the rows it locked
make others wait: an unsubscribe holds the contacts it flipped, a mailing write shares the
lists it names, an archive holds its list alone.  `Domain[m]` is the set of terms, a list in
one of the spellings that `Uuid::parse_str` takes.

Definitions introduced as a slip are the definition that follows them with one plausible
mistake.  No action uses them; `PROJECT.json` names the run in which each is caught.

## 3. What the runs show

Runs that pass:

| Run | Scenario | Holds |
|---|---|---|
| `two_workers` | 2 fair workers, 2 recipients, passes of one, cancel, requeue, retry, lists fixed | `MintFence`, `NoDoubleSend`, `OrphansAreHeld`, `ImplementsLifecycle`, `Drains` |
| `one_worker` | 1 worker, 2 recipients with one address, budget 1, all verbs, changing lists, a second mailing to nobody | `NoDoubleSend`, `DoneMeansAccounted`, `DoneMeansEnqueued`, `OneDisposition` |
| `crashing_workers` | 2 workers that die anywhere, attachments that fail, retry | `TypeOK`, `SuppressedNeverMailed`, `ImplementsRows` |
| `campaign` | 2 variants of a campaign, 1 fair worker that claims one at a time, cancel, requeue | `CampaignDisjoint`, `Served` |
| `ab_tests` | 1 fair sweep with a claim of one mailing and a budget of one address, 1 operator, 2 drafts (one attributed elsewhere, and taken back at times), ids for 2 copies, a tie, a variant that sent nothing | `TypeOK`, `WinnerStands`, `CompletedHasCopy`, `OneSendPerCampaign`, `RemainderReached`, `EventuallyPromoted` |
| `sms_race` | 2 pumps, 1 sweep, 1 walk, a crash, one phone that stops and returns, cancel, retry | `TypeOK`, `TextedOnce`, `ParkedStaysOpen`, `StopHonoured`, `ImplementsRows` |
| `sms_drain` | 2 phones, a batch of one verdict, 1 fair pump, cancel, a crash | `DoneIsDelivered`, `EventuallyClosed` |
| `tracking` | 2 traces of one address, in 2 mailings; a visitor and a route on the first | `TypeOK`, `ClickedIsTouched`, `Timeline`, `FirstOpenKept`, `ListedForAPattern`, `ImplementsRows` |
| `lists` | 2 legs, 2 contacts of one address, 2 lists, a subscribe, opt-outs, removals | `TypeOK`, `StopReachesAll`, `FirstOptOutKept` |
| `archive` | 2 archives, the generated soft delete, 2 writers, mailings that name the list in a positive and in a negative term, one that does not parse | `ArchiveSafe`, `ImplementsLifecycle` |

For the engine they say: without overlap it keeps every promise; with overlap but no crash,
and batches inside the grace interval, it still never mails a recipient twice and forgets
none (provided no retry races a running pass); with crashes it keeps the fence, the
suppression and the row machines.  For A/B tests: a promotion may happen twice, yet the
winner stands, it has its copy, and the copy reaches the rest.  Who is sent to is decided by
the campaign's traces and not by the stamp, so copies and variants driven one after the other
send nothing twice; driven by two sweeps at once, as two queued copies may be, they can
(section 7).  For sms: the lock and its repeated
predicate make the inference safe against any overlap, and batches do not starve it.  For
tracking and lists: guarded verbs make every order of the legs harmless.  Section 7 has what
does break.

Six properties are checked for one worker, or for distinct addresses, because overlap
breaks them.  `DoneMeansAccounted`: an old pass completes what a retry has just re-queued
(section 7).  `DoneMeansEnqueued`: a second pass finds everybody seen and completes the
mailing while the first still enqueues its batch.  `OneDisposition`: two passes both read that a suppressed recipient has no
cancel trace yet, and both insert one.  `CampaignDisjoint`: the seen-list of a campaign is
a snapshot and the index covers one mailing, so two workers driving two variants may both
send to one recipient; `OneSendPerCampaign` fails in the same way, with the copies of a double
promotion as well.  `NoDoubleSend` for a shared address: the resolver's order leaves ties open, so
each of two workers may keep the contact the other collapses.

The runs settle this for one worker; the proofs (section 5) find the exact line.  All six
hold for any number of workers as long as no two hold the same mailing, or, for
`CampaignDisjoint` and `OneSendPerCampaign`, mailings of one campaign.  And `DoneMeansAccounted` needs the retry to
break: without that verb it survives every overlap.

Two runs end with the counterexample they are there for, `done_unenqueued` and
`double_promotion`: section 7.

## 4. Bounds and fairness

Engine.  `MaxAttempts` caps the rows ever inserted per recipient and mailing,
`MaxMails` the queue rows per trace; an action that would exceed one is disabled.  Two of
each suffice for a retry or a second suppression and for a doubled enqueue; `one_worker`
takes three attempts, `crashing_workers` one and `campaign` one mail, to stay small.  No
property counts beyond two of anything.  Two workers suffice for every pairwise race (all
properties relate two rows or two workers).  Two recipients with budget and batch of one give
several passes and several batches; with budget and batch of two, a batch of which a part is
fenced.  Relaunching an unfinished mailing inserts no new rows, since the seen-list skips
what was minted, so the bounds do not cut the liveness runs short.

A/B tests.  Four mailing ids: two drafts and two copies; a third copy does the same as a
second.  Two addresses with buckets on either side of the share in use, and a claim and a
budget of one, so that a copy with its sampling off takes several passes between which the
other mailings have theirs.  `Cancellable`, here one variant, bounds the cancels.  The sweep
and the operator both hold a winner they read earlier; what two sweeps add, two drives of one
campaign at once, breaks `OneSendPerCampaign` and is settled by the theorems.

Sms.  One phone and two attempts for the races (retry mints the second), two phones and one
verdict at a time for the drain.  `MaxCrashes` is one: a crash rolls back and forgets, so a
second finds the same kind of state.

Tracking.  Two moments of the clock, a spread of zero days and a threshold of two bounces:
"apart" is one tick.  Two mailings with one trace each.  Only the first trace has visitors; the second supplies another mailing's
bounces, counts and retries.

Lists.  Two contacts are all spellings of one address; two lists make a leg of two
transactions.  One write and one archive for each side of a race, and a second of each.
The two requests of `lists` are interchangeable, hence its symmetry.

Deadlock is checked everywhere: a worker whose sweep ended can always claim again or find
nothing, a pump can always begin another pass, lists can always be left and joined.

Fairness.  `WF(Step(w))`, `WF(Sweep(w))`, `WF(Pass(w))`: the job runner keeps executing the
job and a job in progress proceeds; every step of it is a finite transaction or call.  `SF`
on the claim of `Front`, the batch that an uncontended claim takes (fresh mailings first, then
older ones, up to the limit): `SKIP LOCKED` may pass over a row while another claim's
transaction holds it, but those locks last one transaction.  What stands behind the batch is
owed nothing, so `Drains` needs a batch that holds every due mailing, as in `two_workers`;
with a batch of one and two mailings an operator who cancels and launches one of them for
ever starves the other.  `Served` is what remains: once the operators rest
(`<>[][~Operator]_vars`), every due mailing gets its passes.  `WF(ComesDue)`:
the clock moves.  `WF(TrackerMove(t))` in `SmsPump` says that the gateway settles every text,
without which no pump can close a mailing.  Operators, the mail queue and recipients owe
nothing.  In particular the engine's liveness does not assume that the mail queue ever
answers, nor that anything ages.  `EventuallyPromoted` says that a rankable test does not
stay so; an operator may also end it by taking back its variants.

## 5. What is proved

For every value of the constants (any workers, mailings, recipients, and bounds), from
the named assumptions in `SendEngine` alone:

- `TypeCorrect`: `Spec => []TypeOK`.  `TypeOK` is not inductive: a step of a driving worker
  writes the row of its job, so the invariant `TypeInv` adds `Engaged`: a worker in a drive
  has a mailing as its job, and one between enqueue and attach has a posted trace and a
  row number of at least one.
- `MintFenceHolds`: `Spec => []MintFence`.  Inductive together with the types.  Existing
  rows: every statement keeps or lowers activity, none revives a hidden or cancelled row
  (`SET`s keep `live`, and no verb has `cancel` as a source).  New rows: `MintBatch` adds
  one row per recipient (`IsNext` is unique) and only for recipients that no active row
  fences.  Nothing is used about claims, program counters of other workers, or age: the
  index is what carries the promise.
- `EngineImplementsLifecycle`, `EngineImplementsRows`: each step maps to a step or
  stutter of the abstract machine.  The proofs go through relations on one row
  (`LegalMove`, `RowStep`), shown statement by statement, then for each action.

- `NobodyForgotten`: `Spec => []OrphansAreHeld`, if `Faults` has neither `crash` nor
  `slow` (attachments may fail).  The invariant `Calm`: only a walk holds traces, and every
  orphan is held and has not aged.  The argument is a circle that never opens: a held orphan
  does not age within the grace, an orphan that did not age is not repaired, so no second
  worker takes it, and the walk drops it only when it is linked or failed.
- `NobodyMailedTwice`: `Spec => []NoDoubleSend`, if `Faults` is empty and no
  two recipients share an address.  The invariant `Once`, beside `Calm` and the mint fence:
  a trace has at most one mail row, a failed trace has none left standing (so that a retry
  is safe), a cancel trace has none; what a worker holds and has not posted is an orphan
  without a mail row; and no two workers hold the same trace.  The index makes the hands
  disjoint, `Calm` keeps the repair away from them.

The assumptions of these two are needed.  The run `done_unenqueued` shows what a crash
does, section 7 what a slow batch does.  A failed attachment comes after the queue has accepted the
mail: the walk marks the trace as an error all the same, and a retry then mails the
recipient again.  With a shared address two workers may each keep the contact that the
other collapses.

- `NobodySuppressedMailed`: `Spec => []SuppressedNeverMailed`, if the suppression lists
  stand still (`"suppress"` is no verb in use).  The invariant `Courteous` follows an invited
  recipient from the probe through the walk's work and hand and the minted trace, which a
  later repair may take up from the table, to the mail row.  A list that changes after
  the probe cannot be met: the code does not look again before the enqueue.

Five promises fail when sweeps overlap on a mailing (sections 3 and 7), and
`SendEngineApart` proves that nothing less than that breaks them.  Its hypothesis is
`[]ClaimsDisjoint`: no two sweeps *hold* one mailing at a time, from the claim to the end of
the drive, which is what `mailing_state.hook.yaml` 41 promises and the code does not enforce.
How many workers there are, how their steps interleave on other mailings and how often sweeps
end, die and begin again stays open.  A lone worker is apart from nobody (`AloneIsApart`), so
each theorem has a corollary, without the suffix `Apart`, that assumes `OneWorker` in place of
the hypothesis; that is what the runs check.

`QuietOrWalks` splits every step once: all but the probe and the two mints are `Quiet`, they
move rows by the verbs, hide them by a retry, and leave the walk's decisions alone.
What another sweep's walk does to a mailing it does not hold is nothing, and what it does to
its own leaves the rows of a mailing held elsewhere as they were.  Each
theorem, its invariant, and why its assumptions are there (TLC finds a counterexample without
them, unless said otherwise):

| Theorem | Assumes | Invariant |
|---|---|---|
| `DoneIsAccountedApart` of `DoneMeansAccounted` | `[]ClaimsDisjoint`, `RetryIsLocal` | `Undone`: no claimed or driven mailing is done, so no completion meets a stale claim; `Accounting`: a recipient that a walk neither holds nor has left over has a live trace |
| `OverlapsLoseNobody` of `DoneMeansAccounted` | no retries | `Accounting` alone: with nothing hidden, a row that one walk counted stays live for all, and a walk that finds a recipient settled by another may pass on |
| `FirstDispositionStaysApart` of `OneDisposition` | `[]ClaimsDisjoint` | `Disposed`: whoever a walk still holds has no live trace, cancel traces included |
| `DoneIsEnqueuedApart` of `DoneMeansEnqueued` | `[]ClaimsDisjoint`, no crash | `Undone`; `Handed`: every orphan, of whatever age, is in the hand of the walk of its mailing |
| `SiblingsMailOnceApart` of `CampaignDisjoint` | `[]CampaignsDisjoint`, `PeersAreMutual`, distinct addresses, no faults | `CampaignOnce`: the mint fence across siblings, which no index enforces, and whom a walk has still to send has no active trace at a sibling |
| `SharedAddressMailedOnceApart` of `NoDoubleSend` | `[]ClaimsDisjoint`, `RetryIsLocal`, finitely many recipients, no faults | `TwinsApart`: whoever was ever sent to, each other contact of the address is barred, by a cancel trace or a sibling's send |

- The first three hold whatever fails: a crash between the mint and the enqueue loses a mail,
  not a disposition.  `DoneIsEnqueuedApart` allows slow batches and failing attachments: since
  every orphan is in the hand of the only sweep that holds its mailing, the repair at the
  start of a drive never meets one.
- `OverlapsLoseNobody` has no hypothesis on overlap or faults at all.  With
  `DoneIsAccountedApart` it places the failure of section 7 exactly: it takes an overlap on one
  mailing *and* a retry.
- `RetryIsLocal`: retries are used only where no mailing has siblings.  A retry of one variant
  hides a failed send that another variant counted as its own recipient's disposition, so that
  the other stays done with nobody accounting for the recipient; and the same hidden send was
  what barred the twin contact there.  Without campaigns the assumption is void.
- The last two build on `Calm` and `Once` and inherit their freedom from faults; finiteness
  of `Recipient` is what makes the one first contact of each address, picked by cardinality,
  unique.
- `PeersAreMutual` says that being in one campaign is symmetric, which equality of
  `campaign_id` is; it is not tried without.

For the other modules, again for every value of the constants, the named assumptions of the
module and nothing else:

- `AbTestsProofs`: `AbTypeCorrect`, `WinnerIsFinal`, `WinnerHasCopy`, `OneSendEachApart`,
  `OneSendEach`, `CopyReachesAll`, `PromotedOnceApart`.  The invariant `Sound` adds to the
  types that what a sweep or an operator holds is a live test, that a completed test is live,
  and that a row never inserted is nobody's copy: without the first, `CreateAbTest` could
  reset a test that a late promotion then crowns.
  `OneSendEachApart` draws the line for the sends: as long as no two sweeps drive mailings of
  one campaign under test at once (`DrivesApart`), an address gets at most one of them, for
  any number of sweeps, budgets and batches, and for relaunched and rebound variants too,
  because a trace keeps the campaign it was sent under.  Its invariant `WorkUnseen`: whom a
  drive is still to send to has had nothing of its campaign, which the index, being of one
  mailing, does not say.  `OneSendEach` is the case of a single sweep, the one the run checks.
  `CopyReachesAll` needs no such hypothesis: however sweeps overlap, what a claim has read of
  a copy with its sampling off still holds (`Snapshots`), and the last pass of its drive
  leaves nobody out (`LastPass`).
  `PromotedOnceApart` is the counterpart of the run `double_promotion`: as long as no two
  sweeps or operators are inside the promotion of one test (`PromotersApart`), any number of
  them gives a test one winner copy.  Its invariant `OnePromotion`: what a sweep or an operator
  holds is not completed (`Unpromoted`), and a copy is queued or done under a test that
  is (`CopiesSettled`).  It assumes that no
  mailing is canceled: a copy taken back to draft can be bound to another test, which then has
  two, its own and this one.
- `SmsPumpProofs`: `SmsTypeCorrect`, `ParkedIsLeftOpen`, `StopIsHonoured`,
  `DoneMeansDelivered`, `TextIsSentOnce`, `SmsImplementsRows`. `LockedIsLockable` is the heart of the second:
  between lock and commit nobody else writes the row, so what was established under the
  lock is true at the completion. For `DoneMeansDelivered`, `WalkCovers` and
  `WalkedIsCovered` say that a walk in progress has minted or still holds each of its
  phones and that a walked mailing has a trace for each, and `ClosedWhenDone` that a
  done mailing has no transient one: no verb takes a row back to a transient state, and
  no walk mints on a mailing whose mark is set. `TextIsSentOnce` assumes that a canceled
  tracker stays canceled. Its invariant `Single`: each recipient has one standing row,
  hidden rows occur only where the walk is over (a retry needs `done`, and done means
  walked), so the fence of a walk sees every row; and a cancel verdict that a pump still
  holds is still true.  `SmsImplementsRows` shows each action to be a `RowStep` of every
  row, as in the engine.
- `TrackingProofs`: `TrackingTypeCorrect`, `ClickIsATouch`, `FirstOpenIsKept`,
  `StampsInOrder`, `ListingIsProven`, `TrackingImplementsRows`. Every verb and route is shown to be a `Progress`
  of a row: it never returns to the unread states, never comes back to life and never
  changes an open stamp. `ClickLegTouched` carries this across the gap between the two
  stamps of a click. The invariant `AllChronicles` says more of each row: its stamps are
  ordered, an open stamp means that it left the unread states, a bounce stamp that it
  bounced; with it every verb `Lasts`, and
  bounces once counted stay countable: `ListingIsProven` assumes finitely many traces, since
  it counts them.
  `TrackingImplementsRows` needs the trigger: a generated route decides on a row it read
  earlier, and what it writes later is an edge from the row as it is then, or refused
  (`RouteTakesRowSteps`).
- `AudiencesProofs`: `AudiencesTypeCorrect`, `FirstOptOutIsKept`, `StopIsKept`,
  `RoutesImplementLifecycle`, and `ArchiveIsSafe`, which assumes that domains spell lists as
  stored.  Its invariant `Apart`: no archive holds a list that an open write shares.
  `StopIsKept` carries `Left`: an address that has left a list has no subscribed contact on
  it (`Gone`), and a list that a leg owes its caller, while a contact of the caller is still
  subscribed, is to be done yet, with that contact in hand or flipped if it is the list's turn
  (`Owes`).  A join settles the debt of its address, since it is what the reader asked last.
  `RoutesImplementLifecycle` carries `Serial`: no two open writes are of one mailing, so the
  edge that the trigger saw at the statement is still an edge at the commit.

Only model-checked: `Drains`, `Served`, `EventuallyPromoted` and `EventuallyClosed`, since
the prover treats no fairness.  Every other property of a passing run is a theorem above, for
every value of the constants and under the assumptions named there.

## 6. What is abstracted

- Data: subjects, bodies, causes and failure types, ids.  A trace's identity counts the
  insertions, which is the fresh UUID up to renaming.
- The recipients of a mailing are a constant.  The resolver's order is by address, so a
  budget or batch takes any subset of its size where the code takes the next in order,
  and of contacts with one address any may come first.
- Suppression by duplicate, list and opt-out differ only in the cause recorded.
- The three reads before the walk run in one transaction with one statement each; they are
  one snapshot here.
- `DriveFails` stands for all paths that park a mailing being driven: scope, resolver, seed
  and hard cap before the walk; with faults, an aborted statement in the walk.
- `Claim` takes any nonempty set of due mailings within the batch: `SKIP LOCKED` leaves out
  rows another claim holds, so any batch is the front of what is not locked.  The order
  counts in the fairness, through `Front`; `Created` is creation time and id in one number.
- Retry frees all failed traces, in the code batches of 1000 in one transaction; reconcile
  reads at most 5000 rows at a time.
- A worker outlives the grace interval with what it minted only under the fault `slow`.
- In `SendEngine` the auto-blacklist step is the environment's `Blacklist`; `Tracking` has the
  statement itself.
- `sent_date`, `kpi_mail_required`, events and the sweep's counters are left out; so are
  soft-deleted mailings.
- `AbTests`: a completion counts any of a few tallies; the scope of a variant opens.  A claim
  takes any due mailings up to its size, in no order, and a batch any of the pass's
  recipients.  Parking, suppression and a sweep that dies are in `SendEngine`; so are sms
  mailings in `SmsPump`.  The sms axis and the comparison of channels are left out: an
  operator looks at the one and sets the other, and the promotion reads neither.  A bucket is
  a constant of test and address, as the keyed hash under a persisted seed is.
- `SmsPump`: numbers are canonical; a tracker is canceled only before dispatch; the two codes
  of a verdict are folded into one state.
- `Tracking`: each trace has its own mailing, both of one campaign; a code is attributed, or
  not, once for all; the window of the auto-blacklist covers the whole clock; `partial_update`
  is one UPDATE under the trigger, by its signature and use, since it lies in another
  repository.
- `Audiences`: contacts are addresses with a spelling; the contact columns of a domain are one
  field; a subscription has no history but its newest row.

## 7. Where the code and its documentation differ

Two runs end with a counterexample; `PROJECT.json` quotes the sentence each contradicts.

| Run | What happens |
|---|---|
| `done_unenqueued` | crash after the mint; the next pass inside the grace completes the mailing, so the orphan is never repaired |
| `double_promotion` | two sweeps rank one due test before either promotes; the second stamp matches no row, its copy is committed and queued all the same |

These properties are stated in the modules and fail with the constants given; they are not
among the runs.  The first six use one mailing, two recipients with their own addresses, two
workers, no verbs, events or faults, claim batch, budget and batch size 1, two attempts and
mails, except as said.

| Property | Constants | What happens |
|---|---|---|
| `ClaimsDisjoint` | as above | a second sweep claims the mailing the first is still driving; `mailing_state.hook.yaml` 41 says they claim disjoint mailings |
| `LaunchArms` | one worker, verb cancel | park, cancel, launch: queued but never claimed, and requeue refuses it too |
| `NoDoubleSend` | fault slow | a batch slower than the grace interval is enqueued a second time |
| `DoneMeansAccounted` | verb retry | an old pass completes the mailing that a retry has just re-queued and another worker picked up |
| `RepairRespectsOptOut` | one worker, verb suppress, fault crash | a repair mails an address that has opted out since |
| `RetargetingMints` | one worker, verbs cancel and suppress, budget and batch 2 | a recipient that re-subscribed is skipped because of its old cancel trace |
| `OneSendPerCampaign` (`AbTests`) | `double_promotion` | two sweeps drive two copies or variants of one campaign, both probe before either mints, and an address is mailed twice |
| `RetriedAreResent` (`SmsPump`) | `sms_race` | the walk mark survives a retry, so the pump closes the mailing without a text to the freed recipients |
| `SentCountsSubmitted` (`Tracking`) | `tracking` | an open before the reconcile leaves `sent_datetime` NULL: opened may exceed sent |
| `ArchiveSafe` (`Audiences`) | `archive` with mailing 1 alone and `Domain <- Capitals` | a list id in capitals passes the parser, is stored as it came and matches neither probe nor trigger |

Met while reading, without a property of their own:

- `update_draft` binds ten values where its SQL refers to `$11` and never to `$8`: every
  `update_mailing` fails.
- The variants of a test share one seed, so their fragments nest; `abtesting.model.yaml` 84
  calls them disjoint across siblings.  It is the seen-list that keeps the sends apart, so the
  variant that runs second gets only what the first left.
- `source_grouped_counts` leaves out soft-deleted mailings and those without a source
  (`trace_repository` 747-749), `counts_for_mailings` does not (706-709): the totals by source
  are those by mailing only where every mailing is live and cites one.
- Promotion ranks sms variants by the mail axis, compare shows them by `winner_selection_sms`.
  The winner copy takes neither the channel, nor the text body, nor the source of its variant.
- A tie of the invoiced amounts is broken by id, where a comment says that a tie waits.
- The one test per campaign counts completed tests.
- A mailing bound to a test keeps a campaign it already had, so that variant's sends are not
  seen by its siblings.
- A tracker that is canceled after dispatch has no verb that applies, and its trace stays
  transient; traces like it come first in the order of the verdict batch.  A walk that dies
  between mint and attach leaves such a trace, too: no repair arm looks at sms orphans.
- `retry_failed` of the docs names error and bounce; the code frees error traces alone.
- `remove` hides a row that stands opted out, after which a mailing's resolver sees no opt-out.
- A join checks that a list is public without a lock, so a list may gain a member while it is
  archived; a draft may be written on a list that is archived already.
- The transition routes write `state` or `trace_status` and nothing else: unpark keeps the
  error mark, retry frees no trace, cancel keeps the schedule, set_sent stamps no time.
- `stats_for_mailing` answers NotFound for a mailing that has no live trace yet.
- `mailing_audience_id in []`, and `like` on that field, pass the parser and select everybody.

## 8. Not modelled, and what could follow

Not modelled, and why:

- Generated code (entities, DTOs, repositories, CRUD handlers, events, exports) is more than
  half of the repository's lines and decides nothing; the transition routes in it are
  modelled.  Tests, error types and their HTTP codes, seeds and configuration likewise.  This
  is why the map covers about 22% of the lines although it covers most of the statements of the write
  services, the two large repositories and the trace routes.
- `update_mailing`, since it cannot succeed; `set_message_id`, which nothing reads;
  `sent_date` and `kpi_mail_required`, which are written and never read here.
- The pacer and the per-code throttle: they delay or refuse, in real time, and change no row.
- The statistics and the comparison of channels: queries that keep no state and change none.
- The parsing of phone numbers and the values of contact columns: data without control.

What could follow, in this order:

1. The channels together: walked-out sms mailings stay `sending` and hold claim slots until
   the pump closes them, in front of every younger mail mailing that is `sending`.  `Served`
   is about mail mailings alone, and would need every text to settle.
2. An abstract specification of a campaign that `SendEngine` and `AbTests` both implement, for
   variants driven at once.
