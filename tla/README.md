# TLA+ models of nine1bot

nine1bot is a coding agent built on a fork of opencode. A server runs agent sessions; around it stand platform adapters
(GitLab, Feishu), webhooks, scheduled tasks, a browser bridge and a web interface. This directory specifies the parts
whose correctness depends on what happens *between* the steps of several actors: requests that overlap, answers that
are lost, processes that restart. Paths below are relative to `src/`.

Three groups of parts are specified. The **GitLab review subsystem** accepts webhooks, starts review sessions, posts
their results to merge requests and notifies failures; it has the richest protocol of the repository (claims, leases,
retries, idempotency markers, a persisted store) and the most expensive mistakes. The **components of a session** take
a prompt to its end: the turn and its lease, the permission requests, the buffer of the streamed text, the reply a chat
is shown and the messages it sends. The **services** around them lock and write files, run tasks on a schedule, answer
webhooks and relay commands to a browser.

## 1. Inventory

### 1.1 The review subsystem (modelled)

| Part | Source | State | Operations |
|---|---|---|---|
| Run store | `packages/nine1bot/src/review/run-store.ts` | records of runs, active publication claims, active failure-notification claims, id sequence; a JSON file with the records | create, update, updateIfCurrent, retry, claim / record / replace / release / fail / reject / complete a publication, claim / mark / release / fail / reject / complete a failure notification, prune, save with rollback, load with normalisation |
| Controller | `packages/nine1bot/src/review/gitlab-controller.ts` | none of its own: local variables of the calls under way | webhook delivery, retry, attempt execution, result publication, blocked comment, failure notification, recovery |
| Publisher, reconciliation | `packages/platform-gitlab/src/review/publisher.ts`, `publication-reconciliation.ts`, `publication-markers.ts` | completed markers of a call | summary, inline discussions, fallback notes; listing what is already there |
| Runtime routes | `opencode/packages/opencode/src/server/routes/webhooks.ts`, `opencode/packages/opencode/src/server/routes/automated-controller.ts` | the session of a run | session created, response accepted, runtime output, finished, failed; publish, retry and recover routes |
| API client | `packages/platform-gitlab/src/review/api-client.ts` | none | requests with time-outs and size limits |

How they interact: a webhook creates a run and an attempt loads the changes; the attempt starts a session, whose
callbacks patch the run and finally hand over a stage result; a publication claims the run, posts comments one by one
and records each; a failed run is reported by a failure notification with a claim of its own. Management routes can
start publications, retries and notifications at any time. Everything shares the run store, and each call reads it
before an `await` and writes it after.

What makes it correct:

- a merge request sees one outcome of a trigger: the result of one attempt, or one failure note, never both
  (`ExclusiveOutcome`, `OneOutcomeInStore`, `OneOutcome`, `OnlyLatestSpeaks`);
- nothing is posted twice or mixed from two results (`NothingTwice`, which is `NoDuplicateComment` and
  `NoFindingTwice`; `OnePayload`, `FailureNoteAtMostOnce`);
- the store tells the truth about GitLab (`PublishedMeansPosted`) and about who is at work (`ClaimIsHeld`,
  `PublishingIsClaimed`);
- what is settled stays settled (`PublishedIsFinal`, `TerminalIsFinal`), later attempts have higher
  numbers (`OnlyLatestSpeaks`), and pruning leaves work in progress alone (`PruneSparesClaims`);
- everything that began ends (`ClaimsSettle`, `RunsEnd`).

### 1.2 Sessions and services (modelled)

| Part | Source | State | Operations | What makes it correct |
|---|---|---|---|---|
| Lock | `opencode/.../util/lock.ts` | a map of lock objects with readers, writer and two waiting lists | read, write, disposal, wake-up, removal of an unused entry | a writer is alone, whoever waits is woken |
| JSON files | `opencode/.../util/json-file.ts` | files under locks | transaction: lock in order, read, edit, write, roll back | all files change or none; no deadlock |
| Session turn | `opencode/.../session/prompt.ts`, `run-lease.ts`, `request.ts`, `index.ts`, `runtime/controller/events.ts` | leases, bound turns, messages, receipts | prompt, resend, cancel, the end and the failure of the loop, removal of a session | one call at a time, resends are safe, one terminal event, a cancelled turn ends |
| Permission requests | `opencode/.../permission/next.ts`, `runtime/session/profile.ts` | pending requests, grants of a session | ask, reply once / always / reject, cascade, abort, time-out | settled once and in the open, as the rules and grants allow, and in the end |
| Part update buffer | `opencode/.../session/part-update-buffer.ts` | entries with a delta and two timers, a serial queue | push, checkpoint, flush, windows, emission, persistence | no text is lost, doubled or reordered, and all of it arrives |
| Reply in a chat | `packages/platform-feishu/src/im/reply-sink.ts`, `streaming-card-controller.ts` | events put aside, timers, the card and its flush | bind, events, result poll, deferred end, time-outs, stop; create, stream, update and patch a card with its fallbacks | a card that shows the end stays ended, and every reply ends |
| Scheduled tasks | `opencode/.../schedule/schedule.ts`, `scheduler/index.ts`, `server/routes/automated-controller.ts` | tasks with next run times, runs, a lock per task | tick, startup pass, manual run, edit, delete, monitor | a slot runs once, not beside an active run, not after it was missed; what is due is handled |
| Webhooks | `opencode/.../webhook/webhook.ts`, `server/routes/webhooks.ts`, `automated-controller.ts` | stored guards, runs, the lock of a source | delivery with its guards, run, response, end, cooldown, disabling, restart | the guards admit what they promise, and a run ends as it ended |
| Messages of a chat | `packages/platform-feishu/src/im/session-manager.ts`, `buffer/message-buffer.ts` | the buffer and the active turn of a route, its stored session | message, timers of the buffer, turn with its session, sink and answer, abort, card button, reset | no message is lost, sent twice or sent after it was cancelled; a route comes free |
| Browser relay | `packages/browser-mcp-server/src/bridge/relay-routes.ts` | the connection of the extension, clients, attached tabs, pending commands by id | connect, close, attach, detach, command, answer, time-out, stop | a command is settled once and by its own answer; clients know the tabs that the relay knows |

They interact by calls: a webhook or a scheduled task opens a session and sends it a prompt; the turn asks for
permissions and streams its text into the buffer; the monitor of an automated run and the reply in a chat listen to
the events of the session. Each keeps its own state, so each is a module of its own, and the calls between them are
choices of the environment of the module: a message is accepted or not, a session ends or fails.

### 1.3 The rest of the system

| Component | State and operations | What is hard |
|---|---|---|
| Session loop and processor (`opencode/.../session/processor.ts`, `retry.ts`, `compaction.ts`) | steps of a turn, retry back-off, compaction | provider streams that break off |
| Questions (`question/index.ts`) | pending questions | as permission requests, without grants |
| Project instances (`project/*.ts`) | cache of instances and of state per directory | disposal while being created |
| Tool executor (`runtime/executor`) | pending approvals, timers | time-out against answer |
| Browser extension (`packages/browser-extension`) and the tools on top of the relay | attached tabs, reconnection | tabs that close under a command |
| Feishu gateway and account connections (`packages/platform-feishu/src/im`) | dedup set, connections | redelivery, reload while connected |
| Access authentication (`packages/nine1bot/src/access-auth`) | sessions, credential generation, attempt windows | generation changes while sessions are live |
| Platform manager (`packages/nine1bot/src/platform`) | status of adapters | start and stop overlap |
| MCP clients (`opencode/.../mcp`) | clients, status | reload while connecting |
| Review inputs, CI and repository inspectors, GitLab platform, storage, terminals, tools, language servers, providers, HTTP server, CLI, launcher, configuration, web interface | data transformations and I/O | parsing, limits |

`PROJECT.json` lists every component with its sources and status, and every hazard with its line.

## 2. The modules

```
PublicationPlan        the comments of one publication, their markers and their order
  ReviewRunStore       run-store.ts: every store operation as a function from store to store
    ReviewServer       shared state: store, file, actors under way, GitLab; saving, crashing disks, type invariant
      ReviewPublisher  publishGitLabReviewRunResult, step by step
      FailureNotifier  reportGitLabReviewRunFailure, step by step
        ReviewAttempts   webhook, retry, loading the changes, blocked comment
          ReviewRuntime  the session's callbacks and the report of a failure
            GitLabReview composition: Management, Environment, Server; properties; fairness
              MCGitLabReview   model values and symmetry for TLC
ReviewOutcome          abstract: what the readers of a merge request are promised (instantiated by GitLabReview)
ReviewRunStoreProofs   what every store operation preserves
GitLabReviewProofs     the inductive invariant of the composition and its theorems about the store
  ReviewOutcomeProofs  what is out on GitLab agrees with the records: the theorems about one run
    ReviewPromiseProofs  comments, claims and attempts in order: GitLabReview implements ReviewOutcome

SessionTurn            prompts, leases, receipts, terminal events, removal of a session
PermissionRequests     ask, reply, cascade, abort, time-out
PartUpdateBuffer       deltas and checkpoints of a streamed part
FeishuReply            the reply sink and its streaming card
FeishuSessions         the messages of a chat on their way to the agent
  MCSessions           these five side by side, for TLC
SessionProofs          the inductive invariants of turns, permission requests and the messages of a chat, and the theorems
RWLock                 the reader-writer lock
  RWLockProofs         its inductive invariant and the theorems
  JsonTransaction      transactions on files with the lock
    JsonTransactionProofs  the transactions implement AtomicFiles
AtomicFiles            abstract: a transaction is one step (instantiated by JsonTransaction)
Schedule               scheduled tasks
WebhookTriggers        deliveries to a webhook
BrowserRelay           the relay between the browser extension and its clients
  ServiceProofs        the inductive invariants of the schedule, the guards of webhooks and the relay, and the theorems
  MCServices           the lock, transactions, the schedule, webhooks and the relay side by side, for TLC
MCProgress             all of them but FeishuSessions and BrowserRelay with their fairness, for TLC
```

**Side by side.** The components of a session and the services share no variable (but for the lock that
`JsonTransaction` extends). `MCSessions`, `MCServices` and `MCProgress` put them into one module each; the variable
`component`, chosen at the start, says whose steps are taken, and the variables of the others keep a first value. A run
of such a module explores the components one after the other: its states are the sum of theirs, and each
property speaks of the component whose variables it names.

### 2.1 Correspondence of state

| Variable | In the code |
|---|---|
| `store.runs` | the map of `ReviewRunRecord`s; a record keeps trigger, attempt, status, reason (the part of `error`, `rejectionKind` and `recoverable` that `isRetryableGitLabReviewAttempt` reads), whether a session id and a context are set, whether the lease is over, the rank of `updatedAt`, and the state of publication and notification |
| `store.pubClaims`, `store.noteClaims` | `activePublicationClaims`, `activeFailureNotificationClaims` |
| `store.sequence` | the number of run ids handed out |
| `disk` | the store file: records only, no active claims |
| `attempts[r]` | where `executeGitLabReviewAttempt` and the session of run `r` stand |
| `publishers[p]` | a call of `publishGitLabReviewRunResult`; its claim id is the name of the call |
| `notifiers[n]` | a call of `reportGitLabReviewRunFailure` |
| `remote[r]` | for each comment of run `r`, how often GitLab has taken it, and of which results |
| `late` | requests the server gave up on that GitLab may still take |

An action is what an actor does between two awaits, with every store operation and save in it; any other actor may
move between two actions. `pc` names the await at which a call stands: `secret` (token), `head` (head of the merge
request), `list` / `find` (listing of comments), `check` (head once more before a write), `sent` (request under way),
`record`, `finish`. A step after an await evaluates the guards that the code evaluates there
(`isPublicationClaimCurrent`, `isFailureNotificationClaimCurrent`, `updateIfCurrent`, `reviewRunIdentityError`).
`PROJECT.json` maps every definition to its lines.

### 2.2 Choices of the model

- **Identities.** The generation of a run never repeats, so the run id stands for it. Owner and payload hash of a claim
  are fixed by its claim id. `publishedAt` and `failureNotifiedAt` change with the states "published" and "notified"
  and are not kept.
- **Saves.** `save()` prunes, drops orphaned claims and writes. A failing save undoes the mutation, which is a step
  that leaves memory as it was and counts against `MaxDiskFaults`; the exceptions are modelled as they are
  (`completePublication` leaves the run partial in memory, a notification's claim is released in memory only).
- **Settings** are not state: a project that is not allowed, a missing directory or token is a choice of the step that
  reads it.
- **GitLab** takes a comment atomically with all its markers and shows it in the next listing. An answer may be lost;
  with `LateWrites` the request may even be taken after the server stopped waiting.
- **Time.** `LeaseExpires` may happen to any active run at any moment; order of `updatedAt` is kept as a rank.
- **Folded.** A session that fails calls `failGitLabReviewRuntimeRun` up to three times; the calls after the first
  change nothing, except that a first one whose save failed is tried again (`FailsPublishedRun`). The patch that notes
  "CI not queried" after a publication touches only `updatedAt` and is left out.
- **Left out.** Rejected mentions, dry runs, commit reviews (the same path without head checks), `repairRunLineage`
  and the `rootRunId` / `retryOf` links, listing routes, the text of comments, and the order of inline comments among
  themselves (any order is allowed).

### 2.3 Sessions and services: state and steps

As in the review modules an action is what the code does between two awaits, and every action names its function.

- **RWLock.** `entry` is the map of `lock.ts`, `lock` its objects, `request` the calls of `read` and `write`. The
  disposer of a request keeps the object, `process()` looks it up by key; the model has both, so that an entry that is
  deleted too early would show.
- **JsonTransaction** runs the transactions of `json-file.ts` on that lock: locks in the order of the paths, read,
  edit, write one file after the other, put back what was written when a write fails (and that may fail too). A file
  is the set of transactions whose edit it shows. `AtomicFiles` is what the callers may assume, and `IsAtomic` maps a
  file that is being written or put back to what its transaction read.
- **SessionTurn.** A call is a prompt (resends have the same message id) or the removal of a session. `active` is the
  lease of `run-lease.ts`, `bound` the turn bound to a session, `messages` (by session and id), `receipts` and `sessions`
  are files,
  `terminals` what was published about each turn. The loop of a turn is one state that ends, throws or is cancelled.
- **PermissionRequests.** `ask` and `reply` are the calls under way, `pending` the list, `grants` the stored profile,
  `events` what was published. The time-out of five minutes may come at any moment.
- **PartUpdateBuffer.** The text of a part is the number of its last change, a delta the sequence of pushes it carries;
  tasks run one after the other, and await the consumer and the storage.
- **FeishuReply.** `sink` and `card` are the fields of the reply sink and of the card controller, `flush` the flush in
  progress and `opening` the first card that `start()` shows beside it, `line` the four lines of code that may await at
  the same time, `chat` what Feishu shows, by status. Text is left out, so the order of deltas is too.
- **Schedule.** Time is a counter and an interval one unit. Workers are the calls that take the lock of a task:
  overlapping ticks, the pass at startup, manual runs. The index of active runs is left out, as the code falls back to
  the runs.
- **WebhookTriggers.** The deliveries to one source, with the times at which its guards were evaluated; the guards and
  the runs survive a restart. The templates of keys are a function of the delivery, and all three guards are on.
- **FeishuSessions.** One route. A turn is a call of `flushRoute`, whose number stands for the session it creates, its
  snapshot and its sink; `activeTurn` is the entry of the route, which patches change whosever it is by then; `binding` is
  the stored session; `told` collects what the chat was told of a message.
- **BrowserRelay.** The variables carry the names of the module's state. A connection is accepted, open, closing and
  closed: the guards look at `readyState`, the clean-up runs when it is closed. `sent` holds the commands that an
  extension has not answered; `known` is what a client was told of the tabs.

## 3. What is checked

The review runs use `MCGitLabReview`, the others the modules that put components side by side. `CHECK_DEADLOCK` is off
because every part may stop: when every run, call or delivery has ended and no bound leaves room for another, nothing
is to be done.

| Run | Module and instance | Properties | What it shows |
|---|---|---|---|
| `publication` | `MCGitLabReview`: 1 run, 3 publications, 2 results, 2 findings (one inline, one deferred), 1 notification, 1 crash | `NothingTwice` `OnePayload` `ClaimIsHeld` `PublishedIsFinal` | resumed and overlapping publications never duplicate or mix comments; an active claim belongs to a living call |
| `faults` | 1 run, 2 publications, 3 notifications, 2 results, 2 findings, 1 crash, 2 failing saves, late writes | `ExclusiveOutcome` `OneOutcomeInStore` `FailureNoteAtMostOnce` `PublishedMeansPosted` `PublishingIsClaimed` | result and failure exclude each other under every fault at once |
| `retry` | 3 runs of 1 trigger, 2 attempts at most, 2 publications, 1 notification, 1 crash | `TypeOK` `OnlyLatestSpeaks` `TerminalIsFinal` `OneOutcome` | retries race with the attempts they replace, and `GitLabReview` implements `ReviewOutcome` |
| `retention` | 3 triggers, 3 runs, a store of 2 records, 1 publication, one attempt under way | `PruneSparesClaims` | a new run pushes out no attempt with a claim while anything else can go |
| `liveness` | 1 run, 2 publications, 1 notification, 1 crash, no symmetry, `FairSpec` | `ClaimsSettle` `RunsEnd` | what begins ends |
| `sessions` | `MCSessions`: a prompt sent twice, another one and a removal, 1 crash; 3 requests of 2 sessions, 2 replies; 1 part, 3 changes, 1 checkpoint, 1 failing consumer; 3 streams of 3 events, 1 failing call, 1 result poll; 2 messages of a chat, 1 abort, 1 reset | `TypeOK` `OneAtATime` `ResendsAreSafe` `OneTerminal` `SettledInTheOpen` `NothingIsLost` `RouteIsKept` `RepliesAreKept` `NeverBackToRunning` | turns, requests, streams, replies and routes keep their promises under every interleaving, `OneTerminal` under the condition of section 3.4 |
| `services` | `MCServices`: 2 transactions on 2 files with 2 faults; 1 task, 2 workers, 2 runs, 3 units of time, 1 edit, 1 outage; 3 deliveries (1 redelivered), 3 units of time, 1 restart; 2 connections of the extension, 1 client, 2 commands, 1 tab with 2 targets | `TypeOK` `MutualExclusion` `WaitersAreWoken` `SlotsAreKept` `GuardsHold` `RelayIsTrue` `MissedIsSkipped` | the lock excludes and wakes, the schedule triggers what it should, the guards admit what they promise, the relay answers and announces what is true |
| `progress` | `MCProgress`: the components with fairness, on instances of one or two calls each | `CancelledTurnsEnd` `AsksEnd` `EverythingArrives` `RepliesEnd` `IsAtomic` `TransactionsEnd` `DueIsHandled` `WebhookRunsEnd` | what the components owe ends, with the conditions that `CancelledTurnsEnd` and `DueIsHandled` state (section 3.4), and transactions implement `AtomicFiles` |
| `prune_order` | 2 triggers, 3 runs, a store of 2 records | `PruneDropsOldest` (violated) | see section 3.3 |
| `permission_grant` | `MCSessions`, the requests alone and of one session | `GrantsNeverOverrideDeny` (violated) | see section 3.3 |
| `schedule_overlap` | `MCServices`, the schedule alone with 1 worker, no edit and no outage | `OverlapIsReal` (violated) | see section 3.3 |
| `reply_end` | `MCSessions`, the reply alone without failing calls | `EndIsShown` (violated) | see section 3.3 |

Some properties are conjunctions of named parts that belong together: `ResendsAreSafe` (`WrittenOnce`, `ReplayIsTrue`),
`SettledInTheOpen` (`ListIsHonest`, `OutcomeIsAnnounced`), `NothingIsLost` (`EmittedInOrder`, `DroppedIsPersisted`),
`RepliesAreKept` (`ApprovedOnlyIfAllowed`, `RejectionSticks`), `GuardsHold` (`AdmittedOncePerKey`, `RateIsLimited`,
`CooldownIsKept`), `SlotsAreKept` (`SlotTriggeredOnce`, `DueRunsDoNotOverlap`),
`RouteIsKept` (`MessagesAreKept`, `BufferedMeansIdle`, `BusyIsReleased`) and `RelayIsTrue` (`AnsweredByTheirOwn`,
`PendingIsHonest`, `ClientsKnowTargets`).

### 3.1 Bounds

`MaxRuns`, `MaxCrashes`, `MaxDiskFaults` and the sets of call names bound the length of a behaviour, not its order:
within them every interleaving is explored. They are chosen from what each property needs to go wrong:

- a duplicate comment needs a first call that posts, a crash or lost answer, and a second call; the third call resumes
  a resumed one;
- a result beside a failure note needs one of each and a fault between them; two failing saves reach the double fault
  of a rollback; three notifications reach the retry of a retry;
- `MaxAttempts` = 2 with three run ids reaches the limit with an id to spare, so that an attempt too many would show;
- `MaxRecords` = 2 with three runs reaches pruning with a group of one and a group of two; one call is enough, since
  pruning looks at claims and not at what the call does. `OneUnderWay` keeps `retention` finite in practice: pruning
  reads the store alone, and the store's records do not depend on how many attempts are at work.
- a turn needs its resend, a successor and the removal of its session, and one crash (`MaxCrashes`) between a message
  and its receipt;
- a cascade needs a request that grants, one that the grant covers in part and one that it does not concern; two
  replies race with each other, with aborts and with time-outs;
- text is lost when a push falls between a task's snapshot and its end: three changes (`MaxChanges`), one explicit
  flush or checkpoint (`MaxCheckpoints`) and one failing consumer (`MaxFailures`) reach it in every task;
- a card needs events before and after it is bound, a flush under way when the reply ends, one failing call
  (`MaxCardFaults`, both fallbacks) and one early answer to the result poll (`MaxPolls`);
- two transactions on the same two files reach every order of their locks; two faults (`MaxFaults`) reach the failing
  rollback of a failing write. The lock is checked with their four requests, two for each key, which may be readers and
  writers when the lock runs alone;
- a slot that is triggered twice needs two overlapping ticks or a tick and a restart (`MaxOutages`), an overlap a run of
  the slot before (`MaxRuns`, `MaxTime`), a stale listing one edit (`MaxEdits`);
- guards need a redelivery inside and outside of its time: `MaxClock` is longer than the window, the time of a key
  and the cooldown; one restart (`MaxRestarts`) cuts a delivery off between two of its guards;
- a route needs a message that runs and one that comes behind it, and between them one abort that is answered late and
  one reset;
- the relay needs a connection that is being closed while its successor opens, a command for each, and two targets for a
  tab that changes its own. The clients do not depend on each other, so one stands for all.

One inline and one deferred finding exercise every branch of the publication plan: summary, discussion, and fallback.
Symmetry is used for interchangeable names, and never with liveness; `OneOutcome` is a safety property that treats all
names alike.

### 3.2 Fairness

`FairSpec` of `GitLabReview` asks weak fairness of the server's own steps, per attempt and per call: JavaScript runs a
continuation whose promise settled, and every promise of these calls settles, because GitLab requests have time-outs
(`api-client.ts`, `withRequest`) and a session's monitor ends after `RUN_MONITOR_TIMEOUT_MS` (`webhooks.ts`). Nothing is
assumed of the environment: no webhook need arrive, GitLab need not take a request, no lease need expire. Where a step
of the server stands for several answers, fairness does not choose among them. Liveness is checked without failing
saves: a save that fails while a claim is given back leaves the run "publishing" until the next restart, which the
code accepts and which the hazard list records. `RunsEnd` speaks of runs whose process lives; after a restart an active
run waits for its lease to expire and for somebody to retry it, which nothing guarantees.

Each other component states its fairness in its own module (`TurnFairSpec`, `AskFairSpec`, `BufferFairSpec`,
`ReplyFairSpec`, `TransactionFairSpec`, `ScheduleFairSpec`, `WebhookFairSpec`), and `MCProgress` asks the same of the
component that runs:

- a turn: its awaits on files settle; a loop that was cancelled stops, because its provider calls take the abort
  signal. A loop that was not cancelled need not end, so `CancelledTurnsEnd` says nothing of it;
- permission requests: evaluations and replies settle and the timer fires. No person need reply, so `AsksEnd` rests on
  the time-out of five minutes;
- the buffer: timers fire and consumers answer, in that run without failures;
- a reply: its time-out and the calls of Feishu settle. Neither events nor results need come, and no poll need be
  answered;
- transactions: files and locks answer; no fairness chooses between two that wait, as the lock has its queue;
- the schedule: the scanner ticks (fairness of some call, not of each), what a call awaits settles, and the end of a
  session is recorded;
- webhooks: what a delivery awaits settles, and the monitor of its run times out. No session need end.

### 3.3 Disagreements between the code and its documents, messages and tests

Four runs check a sentence of the repository that the code does not keep; TLC prints the behaviour.

**`prune_order`.** `gitlab-controller.test.ts:3770` says "prunes the oldest attempts when a protected lineage exceeds
the store limit". `prune` (`run-store.ts:1104-1110`) sorts a protected group by `updatedAt`, not by attempt. The first
attempt of a trigger is replaced after its lease expires, the second one is being published, and then the loading of
the first one fails late, which updates its record. When the next trigger arrives, the second attempt, with its active
claim, is dropped from the store and the first one stays. The window needs a protected group at the store limit, which
in production is far larger than a lineage.

**`permission_grant`.** `08-resource-resolver-implementation-design.md:337` says "hard deny 永远不能被 grant 覆盖。": a
hard deny is never overridden by a grant. `ask` (`next.ts:157`, `215-220`) keeps with a pending request the rules it was
evaluated with, after the grants of that time were merged into them; the cascade of an "always" reply
(`next.ts:290-293`) takes them for the rules of the request. The session has a grant for
a pattern that the rules of a later request deny. That request names another pattern first, which has to be asked about,
so `ask` waits there and never meets the denied one. When the first pattern is granted to a third request with "always",
all patterns of the waiting request count as allowed, the denied one included.

**`schedule_overlap`.** `schedule.ts:466` skips a run because the "Previous scheduled run is still active."
`onControllerResponse` (`schedule.ts:605-614`) writes "running" whatever the run's status is. If the session ends while
the response is on its way, the monitor has recorded the end by then, and "running" replaces it. Nothing ends the run a
second time: it counts as active (`schedule.ts:655-673`), and every later slot of the task is skipped with that message.

**`reply_end`.** `feishu-im-reply.test.ts:419` says "streaming card throttles running updates and flushes terminal state
immediately". When the turn ends while the card is being flushed, `finish` asks for another flush
(`streaming-card-controller.ts:197-200`), and the one in progress does not start it because the controller is terminal by
then (`215`). Every call succeeds and the card still shows that the turn is running.

### 3.4 What holds only under conditions

- `NothingTwice` and `OneOutcome` are checked and proved without `LateWrites`. If GitLab takes a request after the server gave up
  on it and after a resumed publication listed the comments, the comment is there twice; GitLab offers no idempotency
  key that would prevent it. For failure notes `postStartedAt` closes that gap, and `FailureNoteAtMostOnce` is checked
  with late writes. `OnePayload` is checked without them and proved with them (section 4.2).
- `OneOutcome` is checked and proved without pruning: a record that is gone takes its promise along.
- `ClaimIsHeld` and the liveness of reviews are checked without failing saves (see 3.2).
- `OneTerminal` and `CancelledTurnsEnd` say nothing of what is reported of a turn whose handler is late
  (`HandlerIsLate`). A loop that throws gives its lease back (`prompt.ts:701`), and only then the handler of its error
  runs (`1303`) and acts on the turn that is bound to the session by then. The model lets a prompt start in between, as
  nothing in the code prevents it: the failure is then reported in the name of the new turn, which is reported again
  when it ends, and the turn that threw is not reported. The history variable `overtook` tells these turns from the
  others. Without the condition TLC finds both properties violated.
- `ResendsAreSafe` says that nothing is written twice and that an answer given again is the one that was given. A crash
  between a message and its receipt (`prompt.ts:467`) leaves a message for which every resend is refused.
- `RepliesAreKept` is about what a grant may approve. `ask` stops at the first pattern that has to be asked about, so a
  deny behind it goes unseen: the user is asked, and may approve.
- `EverythingArrives` is checked without failing consumers; after a failure, the next push or checkpoint goes on.
- `DueIsHandled` promises a slot only as long as no due task throws. In its run any of the two tasks may have an
  unreadable project from the start: the exception (`schedule.ts:566`) ends the loop over the due tasks (`471`), the
  task stays due, and the tasks behind it are never reached. Without the condition TLC finds the property violated. That
  run has no edits, restarts or manual runs.
- `WebhookRunsEnd` is checked without restarts, since nothing looks at stored runs when the server starts.
- `RouteIsKept` says that a busy route comes free, not that it is busy while a turn runs. An abort awaits the controller
  and the sink, and then releases whatever turn is active (`session-manager.ts:303-305`); an accepted turn stores its
  session over one that a reset bound meanwhile (`219`). The model shows both; the person who aborts or resets may then
  see a turn in a session that the route has left.
- `RelayIsTrue` does not say that an extension that is connected is known. If it reconnects while its old connection is
  still closing, or two connections pass the guard before either is open, the end of the first cleans up for both
  (`relay-routes.ts:436-438`): the relay then counts as not connected until the extension connects once more.
- Transactions are atomic against failures of reading and writing, not against a crash between two writes: there is no
  journal. `IsAtomic` speaks of what holders of the locks see; a reader without the lock may see a write that is put
  back.

## 4. What is proved

The theorems hold for every value of the constants that satisfies the named assumptions of the modules. TLC evaluates
the assumptions in every run that uses a module, and each property below is also a property of a run.

| Theorem | In | States |
|---|---|---|
| `Invariance` | `GitLabReviewProofs` | `Spec => []IInv`, the inductive invariant of the store and the calls on it |
| `TypeCorrect` | `GitLabReviewProofs` | `Spec => []TypeOK` |
| `OneOutcomeRecorded` | `GitLabReviewProofs` | `Spec => []OneOutcomeInStore`: no record holds a publication and a notification |
| `PublishingHeld` | `GitLabReviewProofs` | `Spec => []PublishingIsClaimed`: a run that is "publishing" is held by the active claim it names |
| `OutcomeInvariance` | `ReviewOutcomeProofs` | `Spec => []OInv`, the inductive invariant of what is out on GitLab |
| `OutcomeIsExclusive` | `ReviewOutcomeProofs` | `Spec => []ExclusiveOutcome`: never a result and a failure note of one run |
| `FailureIsToldOnce` | `ReviewOutcomeProofs` | `Spec => []FailureNoteAtMostOnce` |
| `OneResultPosted` | `ReviewOutcomeProofs` | `Spec => []OnePayload`: the comments of a run are of one result |
| `PublishedIsPosted` | `ReviewOutcomeProofs` | `Spec => []PublishedMeansPosted`: what memory and file remember as posted is there |
| `TerminalStays` | `ReviewOutcomeProofs` | `Spec => TerminalIsFinal` |
| `PublishedStays` | `ReviewOutcomeProofs` | `Spec => PublishedIsFinal`, restarts included |
| `OnceInvariance` | `ReviewPromiseProofs` | `~LateWrites /\ Spec => []OnceInv`, the inductive invariant of the comments |
| `NothingPostedTwice` | `ReviewPromiseProofs` | `~LateWrites /\ Spec => []NothingTwice` |
| `HeldInvariance` | `ReviewPromiseProofs` | `Spec => []HeldInv`, the inductive invariant of the claims |
| `ClaimsAreHeld` | `ReviewPromiseProofs` | `Spec => [](diskFaults = 0 => ClaimIsHeld)` |
| `LatestInvariance` | `ReviewPromiseProofs` | `Spec => []LatestInv`, the inductive invariant of the attempts |
| `OneAttemptSpeaks` | `ReviewPromiseProofs` | `Spec => []OnlyLatestSpeaks`: a superseded attempt is over and has said nothing |
| `PromiseKept` | `ReviewPromiseProofs` | `~LateWrites /\ Spec /\ [][NothingPruned]_vars => OneOutcome`: the composition implements `ReviewOutcome` |
| `LockInvariance` | `RWLockProofs` | `LockSpec => []IInv`, the inductive invariant of the lock |
| `LockExcludes` | `RWLockProofs` | `LockSpec => []MutualExclusion`: who writes a key holds it alone |
| `LockWakesWaiters` | `RWLockProofs` | `LockSpec => []WaitersAreWoken`: nobody waits for a key that nobody holds |
| `TransactionInvariance` | `JsonTransactionProofs` | `TransactionSpec => []TInv`, the inductive invariant of the transactions |
| `TransactionsAreAtomic` | `JsonTransactionProofs` | `TransactionSpec => IsAtomic`: transactions implement `AtomicFiles` |
| `RelayInvariance` | `ServiceProofs` | `RelaySpec => []RelayInv`, the inductive invariant of the relay |
| `RelayTells` | `ServiceProofs` | `RelaySpec => []RelayIsTrue` |
| `GuardInvariance` | `ServiceProofs` | `WebhookSpec => []GuardInv`, the inductive invariant of the webhook guards |
| `GuardsAreKept` | `ServiceProofs` | `WebhookSpec => []GuardsHold`: keys, rate and cooldown |
| `SlotsStayKept` | `ServiceProofs` | `ScheduleSpec => []SlotsAreKept`: a slot runs once, and alone |
| `MissedStaysSkipped` | `ServiceProofs` | `ScheduleSpec => MissedIsSkipped` |
| `AskInvariance` | `SessionProofs` | `AskSpec => []AskInv`, the inductive invariant of the permission requests |
| `RequestsSettle` | `SessionProofs` | `AskSpec => []SettledInTheOpen` |
| `RepliesKept` | `SessionProofs` | `AskSpec => RepliesAreKept`: a cascade approves only what grants or rules allow (`ApprovalsAreAllowed`), and a rejection leaves no request of its session in the list (`RejectionsStick`) |
| `TurnInvariance` | `SessionProofs` | `TurnSpec => []TurnInv`, the inductive invariant of the turns |
| `OneCallWorks` | `SessionProofs` | `TurnSpec => []OneAtATime` |
| `ResendsStaySafe` | `SessionProofs` | `TurnSpec => []ResendsAreSafe` |
| `TurnsReportOnce` | `SessionProofs` | `TurnSpec => []OneTerminal`: one report, in its own name, unless a turn got between an end and its handler |
| `RouteInvariance` | `SessionProofs` | `RouteSpec => []RouteInv`, the inductive invariant of the messages of a chat |
| `RouteStaysKept` | `SessionProofs` | `RouteSpec => []RouteIsKept` |
| `BufferInvariance` | `SessionProofs` | `BufferSpec => []BufferInv`, the inductive invariant of the buffer of a stream |
| `TextArrives` | `SessionProofs` | `BufferSpec => []NothingIsLost` |
| `ReplyInvariance` | `SessionProofs` | `ReplySpec => []ReplyInv`, the inductive invariant of the reply in a chat |
| `CardsStayEnded` | `SessionProofs` | `ReplySpec => NeverBackToRunning` |

### 4.1 Reviews: the store and its claims

From `FindingAssumption`, `BoundsAssumption`, `NullAssumption` and `EnvironmentAssumption`: the code's own limits, and
null values that differ from the rest. `LateWrites`, the number of restarts and of failing saves are arbitrary.

**The inductive invariant.** `TypeOK /\ OneOutcomeInStore /\ PublishingIsClaimed` is not inductive. A restart loads the
file, so the file must be sound too (`SoundDisk`): a record on disk may be "publishing" without a claim, which
`normalizeStoredReviewRun` repairs, but it must not hold two outcomes. And a step of a call writes the run the call
names, so a call that has begun must name one (`Publishing`, `Notifying`). `IInv` adds both.

**The argument.** `ReviewRunStoreProofs` shows for each store operation, without any reference to the actors, that it
maps a sound store to a sound store: writing one record keeps the others' claims (`SameClaims`); pruning removes whole
records; dropping orphaned claims never drops the claim of a run that is "publishing", since such a claim matches. The
interesting cases are the claims: `claimPublication` requires `note = "none"`, `claimFailureNotification` requires
`pub = "none"`, and `IsPublicationClaimCurrent` keeps a publication from being continued after a notification began.
`SessionCreated` could separate a claim from its run by setting the session; the proof uses that
`gitLabReviewRuntimePatch` lets nothing through once a publication exists. `GitLabReviewProofs` then goes through
the actions, one step each, citing the store's lemmas.

### 4.2 Reviews: what GitLab shows

From the same assumptions. The properties of the outcome relate what GitLab holds to what the store remembers, and
between the two there are requests: of a call that waits for its answer, or of one that gave up or died with the
process. Any of them may still be taken. So the invariant counts a request on its way as posted: `Results(r)` are the
payloads of the results of `r` that GitLab has or may get, `NoteOut(r)` says that its failure note is or may come.

**The inductive invariant.** `OInv` is `IInv` and `OutcomeFits`:

- `RunFits(r)`: all payloads of `Results(r)` are equal; if there is one, the record has a publication with this
  payload, unless it was pruned, and the failure note is not out. If the note is out, the record has a
  notification with `postStarted`. The markers the record keeps are visible, and all of them when it is "published". A
  run that has a notification, or is published, is in a terminal status. A run id that was not handed out, or a run that
  is gone, has nothing left in its record.
- `OneNote(r)`: the note counts once at most over GitLab, the calls that wait for an answer and the late requests.
- `PubFits`, `NoteFits`: a call under way holds the run it works on by its claim, unless that run was pruned. A first
  publication that has not listed the comments works on a run with nothing out; a notification may post only
  (`MayPost`) when no earlier call may have.
- `DiskAgrees`: memory and file agree on all of this (`Agree`), since a restart puts the file in the place of memory.

**The argument.** Most steps are quiet (`Quiet`: nothing new goes out) and do to the record of a run what keeps it
telling (`StillFits`); they are one lemma each about the store operation and one that combines the two. What remains is
five kinds of steps. A call that *sends* a comment has just evaluated `isPublicationClaimCurrent` or its counterpart, so
the record has the right half of the outcome and, by `OneOutcomeInStore`, not the other. A call that *claims* gets its
run only without the other half; and a resumed publication takes the payload from the record. A notification that
*ends* forgets `postStarted` only when GitLab has refused the request, and by `OneNote` no other is out. GitLab *taking* a request
moves it from the requests on their way to the comments, so `Results` and `NoteOut` stay the same. A *restart* turns
requests that wait for an answer into late ones and loads what agrees with memory: here `normalizeStoredReviewRun`
must not lose a publication or a notification that may have posted. Pruning removes a record and with it every
claim on it; the run id never comes back, so nobody can begin anew on what is out.

`ExclusiveOutcome`, `FailureNoteAtMostOnce`, `OnePayload` and `PublishedMeansPosted` follow from the invariant; the
two action properties from a lemma about every step (`NextOutcome`): a step is a restart, over which the file agrees, or
leaves what is final as it is (`Final`).

**Only the latest attempt speaks.** `LatestInv` ties the runs of a trigger to each other. Their numbers grow with their
ids (`Ordered`); a run that a later one supersedes is over and has neither a publication nor a notification (`Silent`);
and so that the retry which supersedes a run may do so, a run that may be replaced (its changes could not be loaded for
now, or it was rejected for the configuration) or that is gone has neither (`Mute`). The last part is the one that races:
a call that still loads changes may come back to a run that was closed or retried meanwhile. `LoadFits` says that the run
of such a call is mute and has no context, so that nothing could be claimed for it, and that nobody works any more on a
run whose changes could not be loaded for now. What was posted is no more than what the record tells of (`OInv`),
therefore a mute record means that GitLab shows nothing. The file keeps the same order, since a restart loads it, with
failing saves and with pruning: the latest run of a trigger is pruned last, and a record that is gone asks for nothing.

**No comment twice.** `OnceInv` says of every call that has listed the comments that what it has found, or posted since, is all
that is visible of its run (`Knows`), that no other call is at work on that run (`Alone`), and that the summary came with
the first of the comments and no finding is both inline and in a fallback (`Orderly`). This needs that no request arrives late; the reason is in section 3.4.

**Claims are held.** `HeldInv` says the same of claims as `ClaimIsHeld`, and that each is the one which the record of its
run names (`Tidy`), as long as no save has failed: then a call that ends releases its claim in the same step.

**The refinement.** `PromiseKept` says that `GitLabReview` implements `ReviewOutcome`, under the two conditions of section
3.4: no request arrives late, and no step prunes a run (`NothingPruned`). A step of the composition writes the store or is
GitLab taking a request, never both.

- If it writes the store, `NextOutcome` says how: every run but one speaks as before or was just created (`Hushed`), and
  that one begins a publication or a notification, withdraws it, or concludes it (`Turning`). A restart is `Hushed` for
  all runs, since the file agrees with memory. Beginning maps to `Speak`: by `LatestInv` no other attempt at the trigger
  speaks afterwards, hence none did before. Withdrawing maps to `FallSilent`: a record that is mute again has, by
  `RunFits`, nothing on GitLab, and no other attempt has anything there. Concluding maps to `Conclude`: `RunFits` says
  that a published run has all of its result posted, and a notified one its note.
- If GitLab takes a request, a call under way has sent it (`Attributed`), and by `PubFits` or `NoteFits` that call holds
  its run. So the record is "publishing" or "notifying", its run is the voice of its trigger, nothing is concluded, and
  the comment is one of that voice: `Post`. The comment that says a review is blocked is not part of the promise, and
  maps to a stutter.

The abstract voice is a `CHOOSE` among the speaking attempts; `OneSpeaker` makes it the only one.

### 4.3 The lock and the transactions

From `LockAssumption`: there are finitely many requests, and `None` is neither a key nor a lock object.

**The inductive invariant.** Neither property of the lock is inductive: a step looks at the counters and queues of the
lock object and never at the requests. `IInv` of `RWLockProofs` relates the two. Every request that waits or holds is
attached to the object that its key's entry names, and two keys never share one (`Attached`); the object counts as many
readers as hold it, says that there is a writer when one does, and then no reader (`Counted`); its queues list, once
each, the requests that wait for it, and whoever waits finds it held (`Queued`).

**The argument.** `process` admits either the writer at the head of its queue or every waiting reader, and only when the
object is free; `Counted` says that nobody holds it then, so admission excludes. An entry is removed only when its
object is free and nobody waits: `Attached` and `Queued` say that no request refers to it then, so a new object for the
same key has no rival. `WaitersAreWoken` follows from `Queued`: a waiting request finds its object held, by somebody
whom `Counted` names and `Attached` ties to the same key. The cardinality of a finite set of readers that gains or
loses one member is the only arithmetic.

**The refinement.** `JsonTransactionProofs` extends the lock's proof with `TransactionAssumption`. `TInv` adds to the
lock's invariant that a transaction asks only for its own files and only to write (`LocksFit`), that it holds all of
them from its first read to its last write (`HoldsPaths`), that up to the first write the files hold what it read
(`Prepared`), and that its list of written files says which ones show its edit and which ones the rollback has to put
back (`Journal`). By `MutualExclusion` no other transaction touches these files meanwhile, so the abstract file is the
one the transaction read until it ends; the step that ends it maps to the atomic commit, abort or torn end of
`AtomicFiles`, every other step to a stutter.

### 4.4 The relay

From `RelayAssumption`. `RelayIsTrue` speaks of commands, the steps of the relay of ids: `Listed` says that the map
of pending commands names each waiting command once, under an id that was given out; `OnItsWay` that an answer that may
still come finds its own command or nothing, as an id is never used again, also after a new connection; `IdsLast` that
ids are given out only with commands, so that a bound on them is no limit to the model.

### 4.5 Permission requests and turns

From `PermissionAssumption` and `TurnAssumption`.

**Requests.** The events that were published about a request say how far it came (`Course`): one that is in the list was
asked about and nothing else; one that left it has its outcome as its last event; a reply "always" that is at an await has
taken its request off the list and announced it (`ReplyCourse`). What a cascade judges by was read before an await, and
grants only grow, so what it approves is still granted when it does.

**Turns.** `Leases` says that the lease of a session names every call that works on it: `cancel` takes it away only with
the work, and a resend or a removal looks at it in the same step in which it begins. `Requests` follows a message from
the lock to the receipt: two calls with one message id never both hold its lock, and whoever found no message under the
lock is the one that writes it. `Reports` counts the terminal events of a turn by where it stands and says that it is
bound while it works (`Reported`), for the turns whose handlers are not late. That this is inductive rests on two facts
about all turns: of two turns of a session of which one waits for its handler, one was started after the other's end and
has it in `overtook` (`Together`), so both are late; and a session is bound to no turn that is over (`Bindings`), so
whatever a handler reports in another's name is under way beside it, and late as well.

### 4.6 The guards of webhooks

From `WebhookAssumption`. The guards store very little: when the window began and its count, one time per key, one time
for the source. `GuardsHold` speaks of all deliveries that were ever admitted, so the invariant says what the little
that is stored still knows of them. The lock lets one delivery at a time be between the guards and the end of its work
(`OneInside`), hence times of evaluation only grow (`NotBefore`).

- `RateLeft`: nothing that was counted is later than the window, its count covers what is in it, and the part of the
  window before it that is near enough to share a stretch with this one holds at most `MaxRequests - 1`, since the
  request that opened that window is too far away. A stretch of a window's length sees at most these and the window's
  own, which is less than twice `MaxRequests`.
- `DedupeLeft`: a key that went by is still stored with its time, or its time is over for everybody who can still come;
  the guard removes only keys whose time is over. A delivery that the cooldown rejects leaves its key behind, which makes
  the stored times say more than the property needs.
- `CooldownLeft`: the stored mark covers every earlier one, or nobody can come before its end any more. The mark is set
  when the controller has answered and before the lock is given back, so nobody was let in meanwhile.

A restart keeps what is stored, drops who was on the way and the lock, and so keeps all three.

### 4.7 The schedule

From `ScheduleAssumption`, and from it only that `NoTask` is no task: the bounds on time, runs, edits and restarts play
no part. A slot is triggered by a tick that finds the task due, under the lock of the task, and the task is moved on at
the end of that call. `updateTask` and `deleteTask` take no lock and set the next slot while the call works on it, so
"the next slot is past what was triggered" is not an invariant. `ScheduleInv` says what is:

- `Standing`: where a call is, with the lock it holds or awaits, the moment it began, and the run it has created.
- `SlotsFit`: no slot that was triggered lies after the next slot of its task; if they are equal, then the call that
  triggered it will still move the task on (`WillAdvance`), or the slot is from before the last start. A task that
  is due since before the last start waits for such a call or for the pass at startup (`PassWillSkip`), and the scanner
  is not registered before that pass is over.
- `SlotHeld`: what a call has read under the lock is no later than the stored slot, past all that were triggered before,
  and for a tick past the last start. An edit sets the next slot to one that lies ahead, or to none, so the call may go
  on with what it has read.
- `Shown`, `Cleared`: a session that runs can be seen in the stored run, unless its call has still to store that, and
  such a call is behind the lock. So a tick that has found no active run is right until it creates its own.

A tick that gets the lock is therefore alone with the task, no pass is left to skip it, and its slot is past the start
and past all that were triggered: this gives both halves of `SlotsAreKept`, and `MissedIsSkipped`. A restart drops the
calls, and makes every slot so far one from before the last start.

### 4.8 The messages of a chat

From the assumptions of `FeishuSessions`. `RouteInv` says of each message where it is (`MessageFits`): not handled and
nowhere; in the buffer, in no batch and unanswered; or in exactly one batch or answered, and never both in a batch and
cancelled. A buffer that is not empty has its timer (`buffering`) and an idle route. `BusyIsReleased` is not inductive
with "some turn": every turn and every abort releases the route, and a release by an earlier turn may hit a later one. What
is kept is that a busy route was made busy by the *last* turn that began, and that this one is not done; a release by
anybody else leaves the route idle, which asks for nothing.

### 4.9 The buffer of a stream and the reply in a chat

**The buffer.** From `BufferAssumption`, of which only the model's counters speak. `StreamFits` keeps apart what a part
has emitted, what the running task carries and what waits in the entry: one behind the other they are increasing, and
their elements are the pushes without those that went down with a failure. A push adds its number at the end, a task
takes what waits, its end adds it to what was emitted, and a failure takes out the middle; the last one is the only step
that needs more than an element at the end (`LostFits`). `TaskFits` says that a task that runs works on an entry that is
still there, and holds its text if the version is the same: so `flushEntry` drops an entry only with its text stored.
It needs that tasks run one after the other (`Len(running) <= 1`), without which an entry could be dropped and made
again behind the back of a task, with the same version.

**The reply.** `NeverBackToRunning` is about the flush that is under way when the reply ends. Whatever card the
controller, its flush or its start still refers to shows the turn as running (`ShowsRunning`) as long as a flush that
says so is under way or may begin (`Live`). The flush of the end is the only one with another status, and it makes the
card terminal (`LastFlush`); a terminal card has no timer, and nobody who asks for a flush finds the reply open
(`CardOver`). Fallbacks from cards to patched and to plain messages change what is referred to, and only to less.

### 4.10 Only model-checked

Of the reviews: pruning (`PruneSparesClaims`). Of sessions and services: the type
invariants of the modules that put components side by side, which say no more than those of their parts. They hold on the instances of section 3. Liveness under fairness (all properties of `liveness`
and `progress` but `IsAtomic`) and what recursive definitions compute (`Kept` in `ReviewRunStore`, of which the proofs
use only that it is some set of runs) are outside what the proof system handles here and stay with TLC.

## 5. Plan

Done: the review core with its outcome, the lock and the transactions on files, scheduled tasks, webhook deliveries,
permission requests, turns with their leases and receipts, the part update buffer, the reply and the messages of a
chat, and the relay to the browser.

Left, in this order; each module comes with its runs, mutants and, where marked, theorems.

1. **Rest of the review subsystem**: rejected mentions and the blocked comment with a property of their own, the limits
   of the CI and repository inspectors, the publication budget and the diff slicer as bounded algorithms against a
   reference definition.
2. **Rest of the session**: questions, retry back-off and compaction, **project instances** and the **tool executor**.
3. Progress of the **messages of a chat** and of the **relay**; the **Feishu** gateway and account connections, the
   **browser extension**, **platform manager**, **access authentication**, **MCP clients**.

### Not modelled

Most of the repository's lines are not protocol. The generated clients (`sdk/js`), the web interface, language servers,
model providers, tools, terminals, the command lines, configuration and the HTTP routes around the components are types,
formatting, parsing and I/O, with no state of their own that several actors change: a finite model of them would say
nothing that their code does not say better. Inside the modelled components texts, templates, wildcards, diffs,
calendars and secrets are data: the models keep what decides the control flow (whether a pattern matches, whether a key
was seen, whether a slot is due) and leave out how it is computed. Prompts to models and their streams are choices of
the environment. `PROJECT.json` states for every component what is left out.

## 6. Running

`tlc -workers 2 -config <run>.cfg <module>` with the run and its module from the table in section 3;
`tlapm <module>.tla` for each of the modules whose name ends in `Proofs`. The longest run (`progress`) takes about three
minutes, the longest proof (`ReviewPromiseProofs`) about ten. Definitions marked "Mutant" are not part of the specifications:
each is a plausible bug of the definition below it, and `PROJECT.json` names the property that fails when it is put in
its place.
