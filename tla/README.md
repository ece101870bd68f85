# WorkingBetter: a verification project

WorkingBetter is a multi-tenant HR platform: reviews, 1:1 meetings, objectives,
360° feedback, onboarding, surveys, a welfare account and an engine for workflows
("App Studio"), with a worker that runs the daily jobs and empties the outgoing
queues. This directory keeps formal models of it: TLA+ modules translated from the
TypeScript, TLC configurations that check them on small instances, and theorems
that the TLAPS proof system checks for every size of the instance.

## 1. Inventory

The program is a pnpm monorepo. `apps/api` (NestJS) serves every operation as one
database transaction; `apps/workers` runs the jobs; `packages/shared` holds pure
logic, `packages/db` the schema and what the two applications share (tenant
transactions, notifications, the analytics refresh), `packages/connectors` the
calendar and chat connectors; `apps/web` and `apps/console` are user interfaces
over the generated client of `packages/api-client`.

| Component | State it keeps | Operations | What must be true of it |
|---|---|---|---|
| Welfare account (`apps/api/src/welfare`, `packages/shared/src/welfare`, part of `reminders.ts`) | plans, sources, an append-only register of movements, requests, payroll lots, thresholds, declarations | plan life cycle, crediting, requests and decisions, premium choice, lots | the register and the requests agree; nobody spends more than was credited; a source and a premium are credited once; a lot pays what it lists |
| Request transactions (`tenant-tx.interceptor.ts`, `packages/db/src/tenant.ts`) | the open transactions | begin, commit, roll back | a handler's writes are all or nothing; what it decided still holds when it commits |
| Outgoing queues (`email-dispatch.ts`, `webhooks.ts`, `chat-dispatch.ts`, `notify.ts`) | the rows of three queues | enqueue, send, mark, retry with back-off | nothing queued is forgotten; nothing is marked sent that was not; at most five attempts |
| Calendar connectors (`calendar-sync.ts`, `integrations.service.ts`) | links between meetings and external events, OAuth accounts | enqueue, upsert or delete the event, refresh the token | the external calendar ends up as the meeting is |
| Reviews and calibration (`apps/api/src/reviews`) | cycles, reviews, calibration sessions | launch, submit, approve, share, sign, close, calibrate | a review moves through its stages in order and is frozen once shared |
| App Studio engine (`apps/api/src/apps`, `packages/shared/src/apps/engine.ts`) | app versions, instances, attempts at stages | launch, submit, decide, send back, advance, cancel | the work of an instance is in one place; somebody can act or it is over; what was decided stands |
| 360° feedback (`apps/api/src/f360`) | campaigns, subjects, nominations, answers, reports | nominate, approve, start, answer, decline, close, release | answers stay anonymous below the threshold; everybody approved is asked once; the report has every answer; the subject sees it when the rule says |
| Onboarding (`apps/api/src/onboarding`, part of `reminders.ts`) | templates, journeys, tasks, their workflow instance | start, complete, skip, reopen, add, close | a journey completes when its required tasks do; journey and instance ask for the same things |
| Objectives (`apps/api/src/objectives`) | cycles, objectives, key results, check-ins | align, check in, close | progress follows the key results and the tree has no cycle |
| 1:1 meetings (`apps/api/src/one-on-one`) | relations, meetings, agenda, actions | schedule, close, carry over | one next meeting, nothing of the agenda lost |
| Feedback and recognitions (`apps/api/src/feedback`) | feedback, requests, badges | give, request, answer | visibility follows the rules |
| Surveys (`apps/api/src/surveys`, part of `reminders.ts`) | surveys, invitations, responses | launch, answer, extend, close, share, results | one answer each; nothing shown stands for fewer people than the threshold; the survey stays as anonymous as the invitations said |
| Automations (`apps/api/src/automations`, `platform-events.service.ts`) | rules, runs | emit an event, run the actions | the chain of rules ends; an error does not undo the operation |
| Authentication (`apps/api/src/auth`) | users, sessions, second factors, invitations | log in, refresh, revoke, enrol, accept | a revoked session gives nothing; a token is used once |
| People, organisation, import (`apps/api/src/core`) | people, units, roles | create, move, import, disable | unit paths follow the tree; the import is all or nothing |
| Platform console (`apps/api/src/platform`) | tenants, operators, maintenance | create, suspend, delete a tenant | a suspended tenant does nothing |
| Development (`apps/api/src/development`), guides, forms, reports, analytics | plans, guides, form versions, schedules, aggregates | edit, publish, schedule, refresh | a published version is frozen, a report goes out once per period |

How they interact: a handler that notifies inserts the notification and the rows of
the queues in its own transaction (`notify`); the worker reads the queues in
transactions of its own. Handlers emit domain events that run automations in the
same transaction. The reminders job reads and writes the tables of most components.

What makes it hard: PostgreSQL's default isolation (READ COMMITTED) and no row
locks, so a handler decides on what another may be changing; two BullMQ jobs at a
time and in-process timers that do not wait for the previous run; external services
that fail, answer late or twice; long life cycles (reviews, workflow instances,
journeys, campaigns) whose steps belong to different people and to the worker.

## 2. Plan

Done, in this order:

1. `WelfareLedger`, the welfare account, serially; `WelfareTx`, the same under concurrent
   transactions.
2. `Outbox` and `DeliveryQueue`, the promise of a queue and the three queues.
3. `CalendarLink`, meetings mirrored in external calendars.
4. `ReviewCycle`, a cycle of reviews with the workflow instance of each and the
   calibration sessions, serially.
5. `AppEngine`, an instance of any workflow under overlapping transactions.
6. `Journey`, an onboarding journey over the engine, under overlapping transactions, with
   the daily job.
7. `Survey` and `Campaign360`, the anonymity and the life of a survey and of a subject of a
   360° campaign, under overlapping transactions.

Each but `Outbox` has its proofs (`WelfareProofs` has those of `WelfareTx` too). The runs
are kept to about a dozen and each property to what neither another property nor a test says, so that the whole
project checks within the hour; what comes next has to take the place of something:

- `ReviewTx`: the handlers of one review split into their reads and their writes (a late
  submission over "shared", two approvals of one step, a submission that commits after the
  end of the cycle), with `ReviewCycle` as the serial specification, as `WelfareTx` has
  `WelfareLedger`.
- `Objectives`: the alignment tree under concurrent re-parenting.
- `Automations`: the chain of rules set off by one event, and its deduplication.
- `Sessions`: revocation against the caches of the guard, one-time tokens read in one
  transaction and used in another.

## 3. Modules

### WelfareLedger (with Totals)

The serial account: each action is one handler of `WelfareService` or
`WelfareAdminService`, or the worker's welfare section of `reminders.ts`. An
operation is a guard `CanX` and an effect `DoX` whose last arguments are the values
the handler computed from what it read, so that `WelfareTx` can split the two.

| Module state | Code |
|---|---|
| `status`, `terms` | `welfare_plans` |
| `source`, `credits` | `welfare_budget_sources` and the credit movements of each |
| `led`, `used`, `entries` | totals of `welfare_movements` per plan and person, per person and category, per request |
| `req`, `batch` | `welfare_requests`, `welfare_payroll_batches` |
| `chosen`, `declared`, `category`, `limit` | premium choices, declarations, categories, thresholds |
| `staff`, `today` | `persons.status`, the date |

Decisions. The register is kept as its totals: the code never reads a single
movement, only sums. All plans belong to one fiscal year, so `used` is the sum of
`usedByCategory`. `Claims` are the requests that pass the checks on the catalogue, the
attachments and the voucher's denomination (`createRequest`). `toFixed(2)` and the
percentages are rounded half up on cents.

A premium choice books its credit on a premium source of the plan: any that is there,
added by HR and never marked, or inserted, already marked, by an earlier choice; else it
inserts one (`PremiumSource`, `DoChoosePremium`; a choice waits when `Sources` has no row
left, so `Sources` also bounds these). Activation, addition and the worker pass over
premium sources. So `credited` tells who was credited of the other sources only, and
`CreditedOnce` says of the premium ones what the recorded choice alone protects: of all
those of a plan together a person is credited at most once.

`Totals` defines a sum as the size of a set of unit tokens: not recursive, so that the
sums of the invariants can be reasoned about with the theorems on finite sets.
Bounds: `MaxDay`, and `MaxCredit` on manual recharges.

### WelfareTx

The same account under READ COMMITTED transactions. `Begin...` takes the reads of a
handler and computes what it will write; `Commit` writes; `Abort` is an exception, a
deadlock victim or a lost connection. `Reads` and `Writes` name the rows each handler
decides on and rewrites. Handlers that check nothing they have read stay single steps
(`Settings`). The reads of one handler are taken at one time: later reads see more
recent rows and could only detect more. One job `reminders` at a time, as the worker's
queue has one such job per day. `overtaken` is a history variable: the sessions one of
whose reads another transaction has rewritten. Bound: `MaxReleases`, how often a
request may be released by competing decisions.

### Outbox, DeliveryQueue

`Outbox` is what a queue promises to whoever fills it. `DeliveryQueue` is the three
jobs of the worker, one step per provider call and per update.

| Module state | Code |
|---|---|
| `kind` | which of `dispatchEmails`, `dispatchWebhooks`, `dispatchChat` |
| `status`, `attempts` | `email_outbox`, `app_webhook_deliveries`, `chat_outbox` |
| `due` | `scheduledFor <= now`: made false by a back-off, true again by `Elapse` |
| `workspace` | the Slack workspace's row; a refusal marks it |
| `logged` | `webhook_sent`, `webhook_failed` in the log of the workflow instance |
| `run` | a run of the job: its snapshot of due rows, its position |
| `tries`, `accepted`, `refused` | what the provider has seen |

Rows are numbered in the order of `createdAt`, which is the order of a run. A message for
Teams is a chat row not in `Bound`. With `Scheduler = "timers"` a run may start while
another is under way (`main.ts` starts them with `setInterval`, which waits for nobody);
with `"bullmq"` only emails are scheduled; `"once"` is the cron mode. Bound: `MaxAborts`.

### CalendarLink

Meetings of a 1:1 relation mirrored in the external calendars of the participants.

| Module state | Code |
|---|---|
| `meeting` | `meetings.status`; `sequence` is `icalSequence` and stands for time and length |
| `account` | `connector_accounts`; `Calendar` says which external calendar it opens |
| `link` | `calendar_event_links` |
| `event` | the provider's calendar |
| `hand` | a row of a run's snapshot being worked on, with what the run read of it |
| `fresh` | history: the last change found the account linked and nobody at work on the row |
| `trouble` | history and bound: lost answers, failed updates, crashes |

Decisions. Requests to the API are atomic here (their races are the matter of
`WelfareTx`); a run of `syncCalendarLinks` is not: it reads a row, the account, the
meeting, calls the provider and writes, each a step. The back-off of a failed row is an
arbitrary delay before the next `Take`. Every POST makes a new event; a request about an
event that is gone answers an error; an empty or unreadable answer to a successful call
does not happen. The status "revoked" of an account is written nowhere in the code.
Meetings are never deleted, so the branch "incontro inesistente" is not reachable. Bounds:
`MaxSequence` per meeting, `Events`, `MaxTrouble`.

### ReviewCycle

One cycle of reviews. Each review has a row (`reviews.service.ts`) and a workflow instance
(`apps.service.ts`) that the bridge `reviewTemplateToApp` gives the stages
self-assessment and manager's evaluation (open together), the approvals, the sharing and
the signature. Service and engine write each other's view of where a review stands,
through calls and hooks; the calibration sessions hold reviews back and change ratings.

| Module state | Code |
|---|---|
| `cycle`, `template` | `review_cycles.status`, the snapshot of the template |
| `review` | `reviews`: status, the four dates (set or not), the two ratings, the session |
| `inst` | `app_instances.status` with the outcome, `app_stage_runs.status` by stage |
| `calibration` | `calibration_sessions.status` |
| `signedOff` | history: approval steps given since the manager last evaluated |
| `corrected` | history: a row of `review_rating_changes` has been written since then |

Decisions. A handler is one step; overlapping handlers are left to `ReviewTx`. A stage is
its position in the definition; of the attempts at a stage only the latest is kept, as no
code takes up a superseded one. `Advanced` is `advance` with `afterStageDone`, `Followed`
the hook it calls when a stage opens, `Submitted` the one when a form is handed in. The
template is chosen at the start, since the launch takes a snapshot of it. A perimeter is a
set of reviews, which covers every choice of units and transfers. A rating outside the
template's scale can be proposed by a form but not set by a correction. Left out: the
forms' contents, the potential, notes, reminders, the date of the conversation, deadlines,
and reviews from before the engine, which have no instance.

### AppEngine

An instance of a workflow of App Studio: `apps.service.ts` with the pure functions of
`shared/src/apps/engine.ts`.

| Module state | Code |
|---|---|
| `definition` | the snapshot of the app's version in `app_instances` |
| `inst` | `app_instances.status`, `outcome`, `current_stages`; `app_stage_runs` by stage, in the order of the attempts |
| `session` | a request's transaction: begun, its own run updated and the rest read, committed |
| `late`, `overtaken` | history: who was overtaken by a commit, whether such a one has committed |

Decisions. A stage is its position in the definition; `exits` are the targets of its
transitions, any of which a form's answers may choose. The update of a run holds its row,
so a second conclusion of the run waits, and a commit that would write a row held by another
waits too (or is aborted, as the victim of a deadlock). `activate` and `advance` call each
other when a stage is automatic: what a request still has to activate is a sequence
(`todo`), of which each `Turn` takes the first stage, and what an automatic stage leads to
goes before the rest of its group, as in the code's nested calls. `Settled` is the request's
last turn. The validator lets an automatic stage go back to itself or to an earlier
automatic one, which `activate` then follows for ever: such a request never commits, here
because its `todo` is not empty after `MaxTurns`. Bounds: `MaxAttempts` at a stage,
`MaxTurns` in a request (8 are more than any request of `MCDefinitions` takes).

`OneFront` and `OverIsQuiet` are about definitions that do not leave work behind: no stage
of a parallel group has a transition (`Leaves`), and no group with an automatic stage is
entered again over a transition (`Returns`); `OverIsQuiet` asks this only where a group has
an automatic stage.

### Journey

An onboarding journey: rows of `onboarding_journeys` and `onboarding_tasks`, and the
workflow instance whose one parallel group has a stage for each task of the template.

| Module state | Code |
|---|---|
| `plan` | the template, and whether the API started the journey (with an instance) or the worker (without) |
| `db` | the status of the journey, of the tasks, of the instance, of the latest run of each stage; the surveys answered |
| `session` | a request, or the worker's job: begun, task or run updated (row held), instance updated (row held) and progress read, committed |
| `late`, `unread`, `crossed`, `closedBy`, `stuckBy` | history: who was overtaken since it began, since it read the progress; whether one such committed; who closed the journey and why one stays open |

Decisions. `Marked` is the first update with what `syncTaskToEngine` decides from the rows
then; `ReadProgress` is the update of the instance, which one session at a time may hold,
with `afterProgress`; `After` is what the commit publishes. HR's change of status is one
step. Kinds of task that behave alike (to do, read, sign, meeting) are one. Milestones,
dates, assignees and notifications are left out. Bound: `MaxReopens`.

### Survey

One survey: its row, its invitations and its answers, under requests and the daily job
that read first and write when they commit.

| Module state | Code |
|---|---|
| `db` | `surveys` (status, date of closing, anonymity, threshold), `survey_invitations`, `survey_responses` |
| `session` | an open transaction, and which commits it has missed that matter to it |
| `told` | history: the threshold the invitations went out under |
| `crossed` | history: pairs of operations, the first committed unaware of the second |
| `twice` | history: the people with two submissions of their own invitation that overlapped |

Decisions. An answer keeps its author in the model only, to say what it stands for. A page
of results is that of everybody or of one segment; `Heatmaps` is the set of choices of the
segments to hide, since ties are broken by the order of the rows. `Displayed` adds to the
pages the summary, which after the sharing is of all the answers, however few. Questions
are optional: the drivers and scores of a page are those of the answers that have any
(`Scores`), and `Blank` are the people who answer none of the scored questions. An
exemption names the operations, and the person, whose overlap breaks the property, never
overlaps in general: submissions of two people miss nothing of each other.

### Campaign360

A campaign seen from one of its subjects.

| Module state | Code |
|---|---|
| `rules` | the campaign's categories, threshold, who nominates, with approval or not |
| `db` | `f360_campaigns.status` and release rule, the subject's status, requests, answers, the report |
| `session`, `crossed` | as in `Survey`; an overlap is a kind and whom it is about, a rater, a request or the campaign (`Missed`) |

Decisions. Subjects share only the campaign's row, so one is enough. The fixed raters are
the subject and the manager; a nominee may be a person or an external address. `Rows` gives
a rater as many requests as overlapping nominations may insert, for there is no unique
index. Answers of two raters, or a refusal and another rater's answer, miss nothing of each
other, so they are exempted from nothing. One competency is modelled, and `Blank` are the
raters who leave it unrated, since `validateAnswers` accepts that: `ShownTogether` has the
answers the threshold is compared with, `Averaged` those an average is made of. Bound:
`MaxOverlaps`, how many overlaps of those that matter a behaviour may have, committed or
pending; a step that would add another is cut. The proofs need no such bound.

## 4. Runs

| Run | Instance | What it shows |
|---|---|---|
| `welfare_requests` | 1 person, 2 plans, 2 requests of 2 and 3 against 5 credited (2.5 pro rata), 1 lot, adjustments, changing regimes, tables and declarations | register, requests and lots agree at every step; nobody overspends; the exempt total never grows beyond the threshold |
| `welfare_crediting` | 2 persons in a unit and the one below, 2 sources over 3 days, premium sources and choices, hirings and departures | one credit per source and person and none without the mark, one for all the premium sources of a plan, and what is due is credited |
| `welfare_tx_requests` | 2 connections on 1 request, 2 sources, a premium and 2 lots | what the register still says under any interleaving, and that only overtaken sessions leave the serial account |
| `queue_alone` | 2 rows, one run at a time, 5 attempts, each of the 3 queues | the queue implements `Outbox`, settles what it takes, and the log of the instance agrees |
| `queue_overlap` | 2 rows, 2 overlapping runs | nothing unsent stands as sent, nobody gives up early |
| `calendar_sync` | 2 meetings, 1 account, moves, one trouble | rows tell the truth unless overtaken, strays are explained, all is settled |
| `review_cycle` | 2 reviews, 2 sessions, templates with and without self-assessment, with 0, 1 and 2 approvals, with and without signature | each review and its instance stay in step, approvals are of the present evaluation, a closed cycle is settled, open sessions keep their reviews, a review shared before its approvals was shared with the self-assessment open |
| `app_engine` | 9 workflows of up to 5 stages, 2 connections, 3 attempts, 8 turns | the work is in one group of stages, each once; an instance that is over asks nothing; decisions stand; nobody can act only after two transactions ended a group together |
| `journey` | 2 tasks, 4 templates (form, survey, objective, optional, ad hoc, no engine), 2 connections and the worker, 1 reopening | when a completion can be missed, and when journey and instance agree |
| `journey_daily` | the same, 1 connection, 2 reopenings | the daily job closes what the requests left |
| `survey` | 3 people in 2 segments, thresholds 2 and 3, 2 connections and the worker | what is shown under the threshold's rule stands for enough people, the summary after the sharing apart; no segment follows by difference, the promise of the invitations is kept, the status goes forward |
| `campaign360` | boss and 3 nominees, 2 sets of rules, 2 rules of release, one of the nominees leaving the competency unrated, 2 connections, one overlap that matters | anonymity, everybody asked once, a whole report, campaign and subject in step, release by the rule |

Why these bounds. The races modelled are between two transactions or two runs: a third
adds no new pair of reads and writes, and the invariants relate one request, one row or
one source at a time (the theorems cover the rest). Amounts are the smallest for which a
pro-rata share rounds, two requests exceed the account and one exceeds a threshold. Five
attempts are kept where the count matters (`queue_alone`), two where only the order does.

Reviews meet only in calibration sessions and in the end of the cycle, so two are enough
there; two approvals are the fewest for which an order between steps means something. Two
tasks are the fewest that two requests can close together; a group of two stages, with one
before and one after, is the smallest a rejection can cross. Three people are the fewest
for which one of two segments is below the smallest threshold and the whole is not. Three
nominees leave one below the minimum, one approved and one asked twice.

Deadlock is checked for the reviews, where HR can always act until the cycle is closed and
correct ratings after. Elsewhere it is not: those instances have finite supplies (requests,
lots, events, attempts, tasks) or an end (a survey shared, a report released), and really
stop there.

## 5. Fairness

- `WF(RunReminders)`: the worker runs the job every morning whatever the users do.
- Queues: weak fairness of starting a run, of each of its steps and of the end of a
  back-off. The timer repeats for ever and every provider call has a time-out. Deaths of
  the worker are bounded, as no job survives a worker that always dies.
- Calendar: weak fairness of taking each waiting row and of each step of a row in hand,
  assuming that the job is started: `calendar-sync` (like `chat-dispatch` and
  `webhook-dispatch`) is started by the timers only, not under Redis.
- Journeys: the worker's job starts every day (`WF(BeginDaily)`) and its transaction, tried
  again the next day when a row was held, gets through (`SF` of `Mark` and `Commit`); an open
  request of the API ends, by its commit or its time-out (`WF(Commit(c) \/ Abort(c))`).

Reviews, workflows, surveys and campaigns state no fairness: their steps belong to people.
Requests of users are never fair: nobody has to decide a request.

## 6. Proofs

All theorems hold for every value of the constants that satisfies the modules'
assumptions; TLC evaluates those on every run.

- `WelfareProofs`, of the ledger and of its transactions. The laws of `Sum` come first
  (type, empty set, one more or one less member, one amount changed), from the library's
  theorems on finite sets. Of the ledger: `TypeCorrect`; `BookingsCorrect` (inductive
  together with the types); `RegisterCorrect`: each handler moves at most one request across
  the classes open, approved and released, and the totals by the same amount, by the laws of
  sums; `AlwaysSolvent`: not inductive as stated since `Available` floors the reserved part
  at zero; the strengthening `Covered` says the same of the unfloored difference, which
  `RegisterMatchesRequests` shows to be equivalent; `NeverCreditedTwice`, with the
  strengthening `Traced`: a credit of a premium source goes back to a choice recorded in
  its plan, so that a new choice finds none of the person's; `LotsCorrect`, with
  the strengthening `Filed`: what a batch holds was filed there; `ExemptStaysWithin`, with
  `UsedMatches` (what a person used of a category is the total of the live requests) and
  `TaxableFits` (the taxable part of a request is at most its amount).
- Of the transactions: `SessionsSound`, where `TxInv` adds to the types what a session knows
  (`SessionsOK`): rows once read never disappear, and no two sessions insert the same row.
  `AlwaysExplained` follows each kind of request through its reads, with `NoneBooked`: a row
  that does not exist has nothing booked. `OnlyOvertakenDiffer`: a session that no other
  commit has overtaken read what is there (`Freshness`), a commit changes only what `Writes`
  names, so such a commit is a step of the serial ledger.
- `DeliveryQueueProofs`: the invariant `Inv` adds to the types and the two properties what
  each run holds (`RunOK`): a run about to mark a row as sent has had it accepted, and
  its snapshot of the attempts is not beyond the tries made. `LoneRunKeepsPromise` is
  the refinement of `Outbox` when at most one run is under way (`Lone`). `LoneRunLogsOnce`
  adds, under the same condition, that a row has no event until the run is about to write
  the one that tells how it stands (`FollowsOnce`).
- `CalendarLinkProofs`: `Inv` adds to the types `LinksOK` and `HandsOK`: what a row says
  of the event it knows, and what a hand knows of the event it is about, as long as the
  row is fresh. `RowsTellTruth` follows. `StraysAreTrouble` counts the events that nobody
  knows of, while runs have not overlapped: each such event has an operation that went wrong
  behind it (`Counted`), because the hands are about different rows, and each knows the event
  it made (`Aligned`).
- `ReviewCycleProofs`: `Inv` adds to the types what holds of each review by itself
  (`Coherent`, over its row, its instance and the approvals given to it). The properties of
  the runs are not inductive: what they leave out is that the instance of a review still
  pending runs (`Running`), that the evaluations are either open or concluded, as their
  dates say (`Dated`), and that no approval has been given while an evaluation is open. The
  engine's operations are characterised once by lemmas on what stands where afterwards;
  then each handler preserves `Coherent` for its review (`...Coherent`) and the invariant
  as a whole (`...Keeps`). `StagesInStep`, `StagesInOrder`, `ApprovalsCurrent`,
  `ClosedSettled`, `RatingTraced`, `UnapprovedOnlyIfEarly`, `ClosedStays` and
  `OpenSessionKeeps` follow, for any number of reviews, sessions and approval steps.

- `JourneyProofs`: `Inv` adds to the types of the rows what a session is about (`Shaped`),
  what it knows as long as no commit has overtaken it (`Knows`) and, while no overtaken
  session has committed, that journey and instance agree (`Serial`). A commit overtakes all
  the others, so they need to know nothing afterwards; what it publishes fits since it was
  decided on the rows as they are (`SerialRows`). `NobodyForgets` needs two more: `Explained`
  (an accurate reading of the progress closes the journey or leaves something to do) and
  `Exact` (whoever holds the instance's row has read the progress accurately, where every
  task is a stage closed that way and nothing is reopened, because the others then close
  nothing). Its theorem assumes that every template has a required task.
- `SurveyProofs`: sessions remember which commits they missed (`Unaware`), so the invariant
  says what each knows unless it missed one; `NeverAlone` is about the sets of segments and
  needs the theorems on finite cardinalities.
- `Campaign360Proofs`: `Inv` has what each open session was granted on, one conjunct for each
  case of `Missed`, about the rater or the request of the session only. The proof showed that a second start, overtaking a release
  or a change of rule, breaks `InStep` and `ReleasedByRule`, under a rule of release that the
  run does not include: both exempt it.

- `AppEngineProofs`: what holds of a request's first state and is kept by a `Turn` holds of
  the last one (`SettledKeeps`), whatever the number of turns; induction over the turns is
  itself a consequence of a theorem on injections of a finite set (`Induction`), as the
  library's needs an operator as a parameter. The invariant `Inv` says of the instance that
  every group was entered, each of its stages active or done, or else waits to be
  (`Grouped`); that a running instance has an active run or the group that overtaken
  transactions concluded (`Alive`, `Concluding`); that one that is over is at rest
  (`Resting`); and that one group is at work (`OneGroup`). Each is stated of an instance
  with what is left to activate, so that it says something between the turns too, when the
  current stages are active or still to be activated. Sessions know their run
  (`SessionOK`) and, until overtaken, the instance as it is (`KnowsOK`). The four properties
  of the run follow, for any definitions that the validator accepts. The proof showed that
  `OneFront` and `OverIsQuiet` need `Returns` (section 7), which the run's definitions did
  not tell before.

The type invariants are proved rather than run: they hold of every state for any constants.

Only model-checked: liveness (`DueIsCredited`, `IsSettled`, `LinkSettles`,
`EventuallyCloses`), which needs fairness.

## 7. Seen while modelling

Where the code does something else than its documents or comments say:

- `createRequest` (welfare.service.ts:107) checks a balance it has not locked: two
  concurrent submissions exceed the account (docs/specifiche/welfare.md:139 says a request
  may not).
- The worker's copy of the crediting (reminders.ts:251) ignores the units below the plan's,
  unlike `resolvePopulation`; it marks the source as credited all the same (the comment at
  welfare-admin.service.ts:144 names the worker among the callers of the same function).
- With `REDIS_URL` the worker schedules neither webhooks nor chat nor calendar (main.ts:70):
  failed webhooks are not retried (docs/specifiche/app-studio.md:128).
- `syncCalendarLinks` (calendar-sync.ts:77) writes the outcome of a creation over a
  cancellation that came meanwhile: the event stays
  (docs/specifiche/integrazioni-notifiche.md:86).
- `share` (reviews.service.ts:395) refuses only a review that is pending an approval, which
  it is after both evaluations: with the self-assessment still open the manager can share
  without any approval (docs/specifiche/performance-review.md:166 says only after the last
  step). `UnapprovedOnlyIfEarly` says that this is the only way.
- A journey completed by the worker's job leaves its instance running (reminders.ts, section
  of the journeys; docs/specifiche/onboarding.md:121): `InstanceFollows` says it is the only
  such case. The job closes tasks that ask for an objective without telling the engine.
- `summary` of a survey, after the sharing, shows drivers and eNPS of all the answers with
  no threshold (surveys.service.ts:305; docs/specifiche/engagement-survey.md:114 says
  "sotto soglia: nessun risultato"); nor has a question of its own one, though it may
  be left unanswered. `StandsForPeople` names both.
- The 360° report compares categories with the threshold, but shows a competency's average
  of the ratings given, with their number, be it one (report.ts:138; a rating may be left
  out, f360.service.ts:699; docs/specifiche/feedback-360.md:90). `StandsForRaters` names it.
- A campaign may declare the answers of the subject or of the manager anonymous, which
  the 360° document (section 6) excludes.

A premium source that HR adds is never marked as credited, although choices are credited
from it (welfare.service.ts:220): its `creditedAt` stays empty. `CreditedOnce` names it.

Under overlapping transactions: a premium can be chosen twice, a source credited twice, a
request decided twice and a request exported in two lots (`SerialUnlessOvertaken` says
these need an overtaken read); `closePlan` expires amounts still reserved; overlapping
runs try a message more than five times; a webhook's outcome is not logged if the worker
dies after the update; a meeting restored after its removal never gets an event back (the
update is about an event that is gone); a meeting called off while its account is in error
keeps its event; a lost answer to a creation leaves a duplicate; a refusal that arrives
late marks as in error an account that has just been linked again; the end of a cycle
leaves reviews pending an approval with that status although their instance is cancelled;
HR can correct a rating after the cycle is closed (performance-review.md:141 has closed
reviews immutable, corrected by an addendum only); a calibration session opened before the
launch does not hold the reviews launched later (performance-review.md:167); a review in a
locked session can be taken over by another one; two stages of a parallel group concluded
together leave an instance nobody can act on (`SomebodyActs`), and two rejections of one
stage may reopen an instance that was over; the last two tasks of a journey closed
together leave it open until the daily job; two submissions of one invitation are two
anonymous answers; a survey closed by an overtaken job goes back from shared to closed;
two starts of a campaign reset what raters have handed in; a nomination during the start
is never asked; an answer during the closing is not in the report; a late approval leaves
the subject "approved" in a closed campaign.

By one request at a time: leaving a parallel group by a transition leaves the others of
the group active behind; a transition that enters a group again supersedes nothing, so an
automatic stage of the group finds the others done as they were the last time, moves the
workflow on, and `activate` then opens the rest of the group behind it; a survey's threshold may change while it is open, and two hidden
segments may together be below it; an update may take the date of closing away; HR can
take a nomination away below the minimum after the approval, and the start does not count
again; reopening an optional task of a finished journey completes it at once; a journey
reactivated with nothing left to do is completed again by the next daily job.

## 8. Not modelled

Passwords, codes and signatures (cryptography); SQL aggregates and exports (data, not
control); the interfaces; the row-level security of the database, taken as given; the
generated client of the API, whose schema alone is a third of the implementation's lines and
holds no behaviour, as the seed scripts do not. Objectives, automations and the freshness of
the guard's caches have state worth a model and are left to the plan; the remaining
components are edits of one record in one transaction. PROJECT.json lists each with its
reason.

Within the modelled components: what is said of amounts, dates, texts, notifications and
permissions is abstracted to what the properties tell apart; the simulation of a workflow,
the studio's versions, journeys of one person started twice, several subjects of a campaign
and the comparison of surveys are left out.
