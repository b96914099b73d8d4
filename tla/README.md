# Pitch in TLA+

Pitch lets users rehearse conversations with simulated personas. Sessions are
paid in coins, drawn from a team's subscription or a user's monthly quota, and
assessed afterwards by an engine that runs in the background. This directory
holds TLA+ specifications of the parts of the back end where several actors
change shared state, and of the browser's side of a conversation, the TLC runs
that check them, and TLAPS proofs.

Paths below are relative to `src/apps/api/src/microservices/` unless they start
with `src/`.

## 1. The system

The back end is a gateway and several NestJS microservices that talk over
RabbitMQ: `send` is a request that waits for a reply, `emit` an event that does
not. Consumers run with `noAck: true` and a prefetch of 10
(`src/packages/shared-backend/src/config/microservices.config.ts`): a message
counts as handled when it is delivered, so a handler that throws or whose
process stops is never resumed, and up to everything delivered is handled
concurrently on one event loop. The publishing client sends again what it saw no
confirm for, so a message can arrive twice. There are no transactions over
Postgres, Redis and Mongo: a handler is a sequence of awaits on them, and other
handlers run in between.

| Component | State | Operations | Talks to | What is hard | Correct means |
|---|---|---|---|---|---|
| Coin Redis scripts (`userManagement/coins/services/coin-redis.service.ts`) | Redis: balance of an account in a period, one key per idempotency key and per event | init (SET NX), reserve, apply delta, each atomic | called by all below | refusals in debt, missing keys, replies that encode several cases in one number | coins are taken at most once per key |
| Coin accounting (`coin-accounting`, `coin-session`, the two coin repositories) | Mongo: append-only ledger, one balance document per account and period | `coin.session.reserve`, `coin.adjust`, balance queries | Postgres (membership, subscription, plan), Redis, Mongo | three stores in sequence, crashes in between, concurrent sessions of one team, repeated messages | no double charge, bounded debt, ledger and balance agree |
| Subscriptions and periods (`subscription.service`, `coin-refill`, `coin-refill-cron`) | Postgres: subscription row with plan, period, flags | create, update, upgrade, remove, plan-change requests, daily rollover | the accounts of the old and the new period | retries of a job that stopped half-way, expiry of keys, rollover racing sessions and upgrades | debt carried over once, periods in order, no coins for nothing |
| Personal refill requests (`coin-refill.service.ts`) | a JSON settings document per user | request, approve, deny | the user's account, notifications | whole-document writes of stale reads | one credit per request |
| Assessment runs (`simulation/assessment`) | Postgres: runs, labels, summaries; Redis: lock per run, counter per organisation; memory: a semaphore per process | request, execute | its own queue, the LLM judge | waits between check and use, leaks on early returns, replicas, cascading deletes | one executor per run, limits kept, nothing half-persisted is shown as complete |
| Sessions (`simulation/services/session.service.ts`, `coin-gating.service.ts`) | Postgres: session with its reservation, iterations, members | create, end, restart, remove, invite | coin accounting (5 s timeout), assessment | reservation and session live in different services | every reservation is settled |
| Conversation (`conversation-orchestration.service.ts`) | memory: active requests; Redis caches; Postgres: turns | stream, cancel | LLM, TTS | fire-and-forget writes, cached turn numbers, cancel racing completion | turns are ordered, persisted once |
| Conversation client (`src/apps/web/src/features/conversation/hooks/useConversation.ts`, the session page) | the browser's memory: refs of the hook, a queue of spoken sentences, one audio element | connect and retry, send, interrupt, play, pause, replay, start over, hang up | the gateway's WebSocket, the browser's media events | callbacks of what was stopped, sentences out of order or missing, autoplay refused, socket lost in an answer | an answer is heard in order and whole; what was interrupted stays silent |
| Teams, invitations, studio access, phone verification (`userManagement/...`) | Postgres rows with small state machines | invite, accept, approve, deny, expire, verify | mail, SMS, subscriptions | several writes per operation without a transaction | no state skipped |
| Everything else | CRUD, prompts, external APIs, UI | | | I/O | |

`PROJECT.json` lists each component with its status and the hazards of the code
at the line where they bite.

## 2. Plan

Written, in this order: `CoinRedis`, `CoinWallet`, `AssessmentRuns`,
`CoinPeriods`, then `SessionLifecycle` and `ConversationTurns`, which extends it,
the abstract `CoinAccount`, which `CoinWallet` implements, `ConversationClient`, and the
abstract `RunBoard`, which `AssessmentRuns` implements.

How they fit together: `CoinPeriods` is the account of `CoinWallet` over time;
`SessionLifecycle` produces the two messages `CoinWallet` consumes, and the deltas that
`CoinWallet` and `CoinPeriods` let a session send are those `SettlesWhatItHeld` allows;
`ConversationTurns` is
composed with `SessionLifecycle` because streams and commands share iterations,
turns and caches; `ConversationClient` is the other end of the gateway's streams,
and takes from `ConversationTurns` what it needs of them: an answer's sentences
come before its completion, the completion before the end, and every stream ends
(`StreamsEnd`, `OneEnding`).

Next, in this order:

1. An abstract specification of a stream as both of its ends see it, implemented by
   `ConversationTurns` and by `ConversationClient`, and the refinements proved.
2. Membership of teams and sessions with invitations, refill requests, studio
   access, phone verification. Reading them showed few promises that hold under
   concurrency; the hazards list in `PROJECT.json` has those of refill requests.

## 3. The modules

### CoinRedis

Constant operators for the three scripts. Redis runs a script atomically, so a
script is a verdict on the value of the balance key (or `Missing`) and on whether
the idempotency key exists; the callers apply the verdict in one step. The decoding of the
replies is part of the operator: `ApplyDeltaIdempotent` returns "missing" for a
repeated event whose balance is exactly -1, as the code does.

### CoinWallet

One process per execution of a handler. Reservers follow
`CoinSessionService.reserveForSession` into `reserveCoins` or
`reservePersonalCoins`; adjusters follow `applyAdjustment`. `pc` is the position
between two awaits, `req`, `acct`, `evt` are the handler's locals, and a
reserver's name stands for the reservation id it would draw.

| Code | Action |
|---|---|
| membership guard | `ReceiveReserve` |
| `findActiveWithPlanByTeamId`, zero cost, personal path | `FindPlan` |
| `getEntitlementOrNull` (a second read of the subscription) | `GetEntitlement` |
| `initRemainingIfMissing` | `OpenAccount` |
| `reserveIfEnough`: coins taken / already processed, denied, fallback | `Charge` / `NoCharge` |
| ledger entry, balance document | `WriteReserve`, `UpsertReserve` |
| `emitAdjust` of the session service | `EmitAdjust` |
| `applyAdjustment` up to the guard | `ReceiveAdjust`, `CheckLedger` |
| delta script, applied / not | `ApplyDelta` / `RefuseDelta` |
| ADJUST entry under the unique index, balance document | `WriteAdjust`, `UpsertAdjust` |
| an await throws, the process stops | `Abort` |
| the subscription is deactivated meanwhile | `Unsubscribe` |

An account is a team in the current period or a user in the current month; the
change of periods is in `CoinPeriods`. Left out: the expiry of keys and the
Mongo field `remaining` (both in `CoinPeriods`), the read of the user's allowance
from Mongo (the allowance of an account is constant here), prices.
Two messages with one key are two reservers with one request. Messages may be lost:
no fairness asks for their receipt. `EmitAdjust` gives back at most the estimate of the
reservation, or that of a request that was answered as repeated: a restart answered so keeps
the id of the reservation before it and writes its own estimate beside it
(`session.service.ts:599`). Such a settlement may give back more than the reservation took;
the document's `used` then stops at zero, which `BooksMatchLedger` excepts account by account
(`GaveBackMore`).

### CoinAccount

What a coin account promises, as if each operation were one step: `Open` gives an
account its allowance once; `Take` charges a key never charged before to an account that
can pay; `Settle` corrects a charge, giving back at most one session's estimate or taking the
overrun of a session, on an account that is not in debt. `ImplementsAccount` in `CoinWallet` says that every step of the
handlers is one of these, or leaves balances, charges and settlements alone.

### SessionLifecycle

One session and the commands on it. A command is a process: `pc` is its position
between awaits, `seen` what it read, `OpOf` says which of the eight operations it
is. They share their actions where the code has the same calls in the same order;
`AfterClose`, `NewRow` and `NewStatuses` say where they differ.

| Code | Action |
|---|---|
| the command arrives; session and owner are looked up | `StartCommand` |
| the owner's latest iteration | `ReadLatest` |
| turns of the iteration counted, before (`end`) or after it is closed | `CountTurns` |
| iteration set to completed | `CompleteIteration` |
| final assessment requested; its errors swallowed or not | `RequestAssessment`, `AssessmentFails` |
| `CoinGatingService.reserveForSession`, its answer, its five seconds | `AskGate`, `GateAnswers`, `ReceiveAnswer`, `CommandFails` |
| session, next iteration, session row written | `InsertSession`, `StartIteration`, `SaveSession` |
| costs summed, `emitAdjust` | `EmitAdjust`, `AdjustFails` |
| Redis: cached place of the member, cached session | `PlaceMember`, `Invalidate`, `CacheFails` |
| row deleted with everything that refers to it | `DeleteSession` |

`GateAnswers` stands for the whole of `CoinWallet`: coins taken under a new id, a
repeated key approved without one, an unlimited plan, a refusal, also after the
sender has given up. Both senders, create and restart, may have their request delivered twice
(`Repeats`). `recomputeAssessment` of the administrator is a command as well: it requests a
final run of the latest iteration as it finds it, open or not, which is why `AssessedIsClosed`
speaks of the runs requested by whoever ends an attempt. Left out: members and invitations, ownership and
team checks (they read and refuse), metadata, prices.

### ConversationTurns

A request is one stream with up to three writers, which the code starts without
waiting, and a job for each spoken sentence. `at` is the position of
`process()`, `writer` those of the turns being written (`user`, `assistant`, and `cut`
for an interrupted answer), `job` those of the sentences. `streams`
and `timer` are the gateway's, `known`, `cancelled`, `finished`, `closed`, `final` the
service's flags. `mine` is the iteration and last turn order the request took as its own.

| Code | Action |
|---|---|
| `handleConversationStart`, its timer | `StartStream`, `Timeout` |
| `handleConversationCancel`, `handleDisconnect` | `ClientCancel`, `Disconnect` |
| teardown of the subscriber, `cancel`, `finalizeInterruptedRequest` | `Cut`, `FinalizeInterrupted` |
| completion or failure, told to the client once | `Conclude`, `Finish`, `StreamFails`, `Quit` |
| `getSessionCached` | `GetCachedSession`, `ReadSession`, `FillSessionCache` |
| place of the member from the cache | `GetCachedPlace` |
| `getOrCreateIteration` and the last turn | `FindIteration`, `CloseIteration`, `ReopenSession`, `CreateIteration`, `ReadLastTurn`, `SharePlace` |
| history, prompt, model | `ReadHistory`, `BuildPrompt`, `Delta`, `Answer`, `StopAnswer` |
| assistant's turn awaited, speech awaited, completion | `TurnSaved`, `SpeechEnds`, `Complete` |
| `persistUserTurn`, `persistAssistantTurn`, `updateSessionMemberIterationCache` | `WriteTurn`, `WriteMessage`, `ReadPlace`, `WritePlace`, `WriterFails`, `PlaceLost` |

When `updateSessionMemberIterationCache` cannot read the cache it goes on as if nothing were
cached and writes; when it cannot write, nobody is told (`PlaceLost`).
A piece of text is a sentence. Redis writes that nobody waits for are
ordered by the one connection they share, so they are part of the step
before. Left out: retrieval, prompts, mood, tools and
stages, costs, the cache of the history, events, the expiry of caches within a
stream. A cancellation for which the gateway holds no stream is only acknowledged.

### ConversationClient

The hook `useConversation` with the buttons of the session page. JavaScript handlers run to
completion, so an action is a whole handler; what a handler does to the player is
an operator from player to player with the name of the callback. An audio
element goes from `called` (play() was called) to `loading` (the play event came),
`playing` (the promise resolved) and `over`; without the browser's permission it is
`blocked`. The closure `onEnded` of an element is `next`, turns `stale` when the
version of the queue changes, or is `none` for a replay.

| Code | Action |
|---|---|
| mount, `connect`, retries, drop | `Connect`, `TokenArrives`, `TokenFails`, `DialSucceeds`, `DialFails`, `RetryTimer`, `Drop` |
| `sendMessage`, `startAssistantTurn` up to and after their await | `Send`, `Resume` |
| `interrupt`, `hangUp`, `handleStartOver` | `Interrupt`, `HangUp`, `StartOver`, `Leave` |
| messages: audio chunk, completed, end, error | `Chunk`, `Completed`, `End`, `ServerError` |
| play event, play() resolved, ended, error, play() rejected | `Begins`, `Sounds`, `Ends`, `MediaFails`, `Rejected` |
| first click or key, pause, replay | `Gesture`, `Pause`, `Replay` |

The browser either allows playing from the start or after the first
click or key. `Chunk` waits for the rejections of another turn's sounds: they come from the
browser's own queue, a new turn's sound from a round trip to the server, the model and
the synthesis. A turn needs a connection and nothing else: voice turns are committed without click
or key. The handler of the server's cancellation is left out, because whoever
cancels has forgotten the turn before. Left out too: the output to an avatar
(`audioOutput: 'external'`, which no page uses), messages and texts, the playing of the latest
answer when the page loads (`hydrateMessages` with `autoPlayLatestAudio`), a
start over while a token is being refreshed (the connection it opens is the one
being opened).

### AssessmentRuns

Requesters execute `requestRun`, workers `executeRun`. A run has the name of the
requester that created it. `active` and `waiting` are the `AsyncSemaphore` of a
process; its hand-over (decrement, shift, increment, resolve) has no await and is
one step, `ReleaseSlot`. `lock` and `tokens` are the Redis keys. Two early
exits keep slot and lock, as in the code: a missing iteration, and a read of it
that throws (`pc = "leaked"`). `DeleteSession` is the cascade of the schema. Any
await may fail (`AwaitFails`), and failing Redis calls do what `RedisService` makes of them:
`set` answers false, set or not; `incr` answers 0, which is read as an admission with nothing
counted. Keys expire under a worker too: the lock after 900 s, the counter 300 s after the last
admission, while the judge's budgets (30 s per call, with retries) let a run take longer. Then the
worker that ends deletes the lock whosever it is, and the decrement makes the counter too low or
negative. Two history variables name what the guarantees except: `overran` has the runs that
outlasted their lock, `unseen` counts per organisation the admissions its counter missed
since it last expired. `MarkRunning` may fail with the row in place, so a run can go from
queued to failed. Left out: live and final mode, metrics, the Mongo report (its failure is
swallowed), the graph but for its last node and the fact that any node may throw.

### RunBoard

What those who request and read runs are promised, as if there were no queue, no
semaphore, no lock and no counter: a run is `Request`ed; a worker may `Take` a run nobody else
has, `Admit` itself while fewer than the limit of the run's organisation are admitted, `Start`
it, `Deliver` its results, `Stumble` before or after the start, and end it, with `Complete` only
if the results are there, or with `Fail` after it stumbled, which may go unwritten; it may
`Withdraw` or `Leave` at any point; `Delete` takes runs away for good. It promises that
writes come in this order and from one worker at a time, with two exceptions that are part of
it: a run that took too long may be taken from its worker (`Overrun`), and an organisation
is over its limit by the admissions nobody saw (`Admit`, `Lapse`). It does not promise
that a run that ended is not taken again, which the code does not (`CompletedStays`).
`ImplementsBoard` in `AssessmentRuns` says that every step there is one of these or changes
nothing on the board. A worker is on the board from when it holds the lock; it counts as
admitted until it gives its token back, so a token refused or lost is not seen.

### CoinPeriods

One team, one subscription, its periods 0, 1, .... Time counts ticks of a week.
Every Redis write sets an expiry as the code computes it: `Until` is the end of a
period with the minute's minimum, a charge adds `Buffer` (7 days), an adjustment
sets `AdjustTtl` (40 days). Sessions keep the period they reserved in. The job
selects a due row and works on that snapshot with one step per await; `Fails`
stops a handler between two awaits, and a stopped job selects the row anew.
`mongo` is the field `remaining` of the balance documents, which the job
falls back to. History variables (`low`, `owed`, `drawn`, `taken`, `guessed`) record what
properties speak about; `guessed` has the periods whose document the job wrote from the
balance it expected, because a retry read the balance -1 as a missing key. A session's charge is one step here and idempotency keys
of sessions are left out, as `CoinWallet` has both. Handlers finish within a tick
(awaits take seconds, a tick a week). Plan-change requests are left out: an
approved one calls `upgradeSubscription`. The interval is fixed; one subscription
exists per team.

## 4. The runs

| Run | Configuration | Shows |
|---|---|---|
| wallet | `CoinWallet.cfg` | `NoDoubleCharge`, `DebtBounded`, `NoOrphanAdjust`, `LedgerBacked`, `CoinsConserved`, `BooksMatchLedger` |
| wallet_live | `CoinWalletLive.cfg` | `HandlersConclude`, `ImplementsAccount` |
| wallet_adjust_twice | `CoinWalletAdjustTwice.cfg` | violates `AdjustedOnce` |
| wallet_refund | `CoinWalletRefund.cfg` | violates `UnusedIsRefunded` |
| assessment | `AssessmentRuns.cfg` | `RunExclusive`, `SlotsConserved`, `OrgLimit`, `CompletedIsPersisted`, `ImplementsBoard` |
| assessment_live | `AssessmentRunsLive.cfg` | `DeliveredRunEnds` |
| assessment_repeated | `AssessmentRunsRepeated.cfg` | violates `CompletedStays` |
| periods | `CoinPeriods.cfg` | `OpenedBeforeDrawn`, `BalanceOutlivesPeriod` |
| periods_live | `CoinPeriodsLive.cfg` | `DebtOnce`, `PeriodsInOrder`, `DueIsRolledOver` |
| sessions | `ConversationTurns.cfg` | `OneActiveIteration`, `SettlesWhatItHeld`, `AssessedIsClosed`, `CompletedIsSaved`, `OneEnding`, `SpeechBounded`, `StreamsEnd`, `SeenIsSaved` |
| client | `ConversationClient.cfg` | `PlaysInOrder`, `NoOldVoice`, `NothingSkipped`, `HeardInTheEnd`, `SpeakingEnds`, `ProcessingEnds` |
| periods_cancel | `CoinPeriodsCancel.cfg` | violates `CanceledAtPeriodEnd` |

Each module has one type invariant, checked in its main run. Every property of a
passing run has a mutant of a modelled definition, in the module and marked
as such, under which TLC finds it violated.

Bounds and why they suffice:

- wallet: two requests and three reservers, so that a request is handled twice
  while a member's other request competes for the coins; coins that suffice for
  one of them, so that the fallback to the user's quota is taken; an overrun of one coin, which puts a
  balance in debt; two adjusters and two events, so that one reservation is
  settled twice or two are settled in either order.
- wallet_live: four requests that cover every path of the handler: team, personal,
  unlimited, refused.
- assessment: two replicas with one slot each, two workers on the first (one may
  wait for the other) and one on the second (the two compete for the lock and for
  the counter); two runs, forced or not; each delivered at most twice; one session
  deleted; one fault: a restart, an await that fails, or a lock or counter that expires under its
  worker.
- assessment_live: one replica and no fault, deletion or second process: the
  cases in which the code does not promise that a run ends are listed in section 6.
- periods: one rollover of a two-tick period, two sessions and one upgrade, time
  up to the end of the second period. `AdjustTtl` is longer than a period, as 40 days
  are longer than a month.
- periods_live: one fault and one edit at any step; two rollovers in a row, so that a
  debt, or a balance guessed in the first, goes into the second; an overrun of two
  coins, so that a balance can be exactly -1 and below. `MaxPeriod` and `MaxTime` cut
  the behaviour off after that.
- sessions: a behaviour is one of `Workloads`, sets of two or three commands and
  streams chosen so that every two operations that write the same rows or caches
  meet: two commands that close and open iterations, a recomputation beside a forced end, a replay
  or a stream, a stream that finds the
  session ended while a command restarts it, two streams of one member one after the
  other, a stream of spoken sentences alone. In those of `Talked` the session has an
  iteration with a turn, so that there is something to assess. `MaxStreams = 1`: a
  member's streams follow each other, while what an earlier one started in the
  background still runs. One permit and two sentences make a sentence wait; three
  iterations are one more than a workload opens. The requests of create and restart may be answered
  as repeated, with estimates of one or two coins, so that a restart's estimate can exceed
  what the reservation it leaves in place took.
- client: `Workloads` again: an opening turn of two sentences and a reply of
  one, so that sentences come in either order or not at all and one answer
  interrupts another; or three turns in quick succession, of which one waits for
  its interrupt while the next is sent. One loss of the connection and one fault
  (a failed sound, a failed connection, a replay); one attempt to reconnect, so that
  giving up is reached.

Deadlock is not checked: with bounded handlers every system comes to rest.

Fairness: weak fairness on the steps of a handler that has started, which Node's
event loop gives once an await settles; every await has an answer or a timeout (the judge of
an assessment has a time budget). None is assumed for the receipt of
messages, for administrators, faults, or time. For the job, weak fairness of its
steps says that it runs every day. In `ConversationTurns`, weak fairness of `Served`
says that timers fire and that Postgres and Redis answer; the model, the synthesis and
the analysis may hang, which is what the sixty-second timer is for. In
`ConversationClient`, weak fairness of `Running` says that a sound that begins ends or
fails, that rejected promises and timers of the browser run, and that a stream ends at
the server, which is `StreamsEnd`. The user and the network owe nothing. Each of these
processes has finitely many steps in a behaviour, so one condition on their disjunction is
as good as one on each.

### Findings

- `AdjustedOnce`: two adjustments of one reservation handled together both pass
  the guard "already adjusted" and both change the balance.
- `UnusedIsRefunded`: while another session's overrun keeps a balance negative
  the refund of an unused reservation is refused and lost, against the comment
  in `session.service.ts`.
- `CompletedStays`: the status of a run is read before the wait for a slot, so a
  repeated delivery executes a completed run again and doubles its labels.
- `CanceledAtPeriodEnd`: the job hands a subscription that is due and scheduled
  to be canceled to `removeSubscription`, which returns because it is scheduled;
  it stays active for good.

## 5. Proofs

`CoinWallet_proofs` proves, for any teams, users, allowances, requests, handlers,
events and any bound on overruns:

- `TypeCorrect`: `Spec => []TypeOK`
- `ChargedOnce`: `Spec => []NoDoubleCharge`
- `DebtIsBounded`: `Spec => []DebtBounded`
- `AdjustsFindTheirReserve`: `Spec => []NoOrphanAdjust`
- `LedgerFollowsRedis`: `Spec => []LedgerBacked`
- `WalletImplementsAccount`: `Spec => ImplementsAccount`

None is inductive alone. That a charge is the first under its key needs that every
earlier charge left its key behind (`ChargeInv`); that an adjuster finds a RESERVE
entry needs that a message only exists for a reservation that was approved, and
that an approved one was written to the ledger (`ReserverInv`, `MessageInv`);
that debt stays bounded needs that a delta in a message is at most the overrun
(`MessageInv`, which also says that it gives back no more than some request's estimate). The invariant is

    IInv == TypeOK /\ ReserverInv /\ ChargeInv /\ NoDoubleCharge
            /\ DebtBounded /\ MessageInv /\ LedgerBacked

That the wallet implements the abstract account uses the same invariant: the delta
of a message is in the range `CoinAccount` allows because of `MessageInv`, and the key
of a charge is new because of `ChargeInv`. `OpenRefines`, `ChargeRefines` and
`DeltaRefines` treat the three actions that move coins; all other actions leave
balances and changes alone.

`InitIInv` and `NextIInv` show that it holds initially and that each of the
actions keeps it, one step per action; `Inductive` combines them.
The assumptions are `WalletAssumption` and `MissingAssumption`: teams and users,
reservers and adjusters are disjoint, costs and allowances are naturals, `Missing` is
not a number and `None` none of the values it stands in for. TLC evaluates them
in every run of the module.

`CoinBooks_proofs` adds what is said in sums, for the same constants and without further
assumptions:

- `CoinsAreConserved`: `Spec => []CoinsConserved`
- `BooksAgree`: `Spec => []BooksMatchLedger`

A sum over a finite set is the last value of a function on its subsets that takes one
member away after the other. The library's induction over finite sets has an operator
as its parameter, so the facts about sums (`SumsAgree`, `SumsExist`, `SumInt`,
`SumRemove`, `SumSame`, `SumAdd`) are shown by a smallest subset for which they
fail, which `MinimalSet` gets from the well-foundedness of the strict subset order.
For the first theorem `CoinsInv` adds that charges and events are finite and that whoever was
charged has an account that was opened: otherwise opening it would add an allowance to a
sum that already has charges. For the second,

    LedgerInv == EntryInv /\ WriterInv /\ BooksInv

says what the books owe while handlers are at work: `BooksInv` is the equation less the
entries between a handler's write to the ledger and its write to the document; `WriterInv` says that
an adjuster between the two has an entry of its own, and that there is one adjuster
at most for a reservation there, which the unique index gives; `EntryInv` that an
entry repeats what its reservation asked for and is the only one of its type. On an account
where a session was given back more than its reservation took, `used` is only bounded from below;
`GivenBackForGood` says that such an entry stays.

`AssessmentRuns_proofs` proves, for any requests, replicas, organisations, limits and
faults, and any finite set of deliveries:

- `TypeCorrect`: `Spec => []TypeOK`
- `OneWorkerPerRun`: `Spec => []RunExclusive`
- `OrganisationsKeepTheirLimit`: `Spec => []OrgLimit`
- `CompletedHasResults`: `Spec => []CompletedIsPersisted`
- `SemaphoreKept`: `Spec => []SlotsConserved`
- `RunsImplementBoard`: `Spec => ImplementsBoard`

Its invariant is

    IInv == TypeInv /\ tokens \in [Orgs -> Int] /\ SentInv /\ LockInv
            /\ ResultInv /\ CompletedIsPersisted /\ TokenInv /\ OrgLimit

`LockInv` says that the lock of a run that has not overrun names the worker past `AcquireLock`,
so two such workers of one run are the same. `ResultInv` says that a worker that is about to set
"completed" finds labels and summary. `TokenInv` says that the counter of an
organisation and the admissions it missed are together at least the number of workers that will
count it down, although the counter alone may be negative: the comparison after
INCR then bounds the runs in execution by the limit and the missed ones. `SentInv` is the strengthening they
share: a worker, or a waiter in a semaphore, has a run that was created and emitted.
`ReleaseSlotIInv` treats the hand-over of a slot once, for the two actions that
make it; `TokensKept` treats the counters for all the steps that leave them alone.
`SlotInv` counts, for each replica, the workers that hold a slot, those that leaked one
and those that wait: `active` lies between the first and both, somebody waits only
when it is at the limit, and the queue names each waiting worker once, which the hand-over
needs because it wakes the head of the queue without looking.
That the runs implement the board needs all of these: `LockInv` for `Take`, `TokenInv` for
`Admit` (the workers the board has admitted are among those the counter counts), `ResultInv` for
`Complete`, `SlotInv` because a worker woken by a hand-over is one the board does not show
yet, `LockOf`, that a lock names a worker that took up its run, for `Overrun`, and `BoardInv`, that no row is there before its requester has created it, for
`Request`. There is one lemma per kind of step (`RequesterOnBoard`, `LockTakes`, `TokenAdmits`,
`StatusOnBoard`, `ResultsOnBoard`, `DeletionOnBoard`, `CrashOnBoard`).
The assumptions are those of `RunsAssumption`; `Workers` is finite because the
counters are compared with the number of their holders.

`CoinPeriods_proofs` proves, for any plans, sessions, upgraders, lengths and bounds:

- `Types`: `Spec => []TypeOK`
- `OpenedFirst`: `Spec => []OpenedBeforeDrawn`
- `DebtTakenOnce`: `Spec => []DebtOnce`
- `OrderOfPeriods`: `Spec => PeriodsInOrder`
- `BalanceKept`: `Spec => []BalanceOutlivesPeriod`, if `PeriodLength <= AdjustTtl`

    Inv == TypeInv /\ CronInv /\ SnapInv /\ FutureInv /\ TakenInv /\ LowInv
           /\ DebtOnce /\ OpenedBeforeDrawn

Each handler works on a snapshot that may be old. `CronInv` says that the job's is not, as far as
the period goes: nobody else moves the row on. `SnapInv` says that everybody else's
names a period the subscription has reached. Hence `FutureInv`: a period not yet reached
belongs to the job alone; while the event's key is there the balance is too and both expire
together, and without it no debt was taken; this is why a retry cannot take the debt twice.
`TakenInv` orders the debt before the row, which makes `OpenedBeforeDrawn` hold. `LowInv` says that
every balance a handler has read, and every one in Mongo, is one the period had, unless
it was guessed; `DebtOnce` speaks of those the job read. Attempting that proof showed that `DebtOnce` does not
hold without its exception (section 6). `AllEffects` lists the kinds of things a step does to Redis,
and `LowInv` and the expiries are shown once for each kind. `BalanceKept` adds
`StartInv` and `DrawnInv`. The assumptions are `PeriodsAssumption`, in which
`AdjustTtl` is positive and `None` is neither a number nor a row; `BalanceKept` needs the
interval to be one a 40-day key outlives, as a month is.

`ConversationClient_proofs` proves, for any turns, workloads, numbers of sentences and bounds:

- `Types`: `Spec => []TypeOK`
- `InOrder`: `Spec => []PlaysInOrder`
- `NoEarlierVoice`: `Spec => []NoOldVoice`
- `NoneSkipped`: `Spec => []NothingSkipped`

    IInv == TypeInv /\ TurnInv /\ (~upset => VoiceInv) /\ (~upset /\ ~stopped => KeptInv)

`TypeInv` contains `Proper`: a sentence is held back exactly when the autoplay policy blocked its
element, and then nothing has sounded yet. `TurnInv` says that at most one turn that was
sent is not silenced, that it is the current one while its stream lives, and that streams
live on a connection only. `VoiceInv` is about that turn and the player: `Steady` says
that the element, or the play() still to be rejected, is of the sentence the player has come to,
and that what is rejected later belongs to a silenced turn and finds the player idle;
`HeardOk` that nothing was heard beyond that sentence; `TotalOk` that sentences are passed over only
once their number is known. `KeptInv` adds that what arrived was heard or is queued. The
parts of the hook that the handlers share (`playAudio`, `tryPlayNext`, `onEnded`,
`stopAudio`, `release`) have lemmas of their own that say what they do to a player
that satisfies these, so that an action's proof cites them in the order in which its handler
makes the calls. The assumption is `ClientAssumption`.

`ConversationTurns_proofs`, with `SessionLifecycle_proofs` for the commands, proves for any
members, commands, streams, permits and bounds:

- `TypeCorrect`: `Spec => []TypeOK`
- `OneOpenIteration`: `Spec => []OneActiveIteration`
- `SettlementsBacked`: `Spec => []SettlesWhatItHeld`
- `AssessmentsOfClosed`: `Spec => []AssessedIsClosed`
- `AnswersAreSaved`: `Spec => []CompletedIsSaved`
- `OneEndPerStream`: `Spec => []OneEnding`
- `SpeechIsBounded`: `Spec => []SpeechBounded`

The invariant has a part for the commands and one for the streams:

    SessionInv == SessionTypeOK /\ CommandInv /\ FreshInv /\ IterationInv
                  /\ ClosedInv /\ ReplyInv /\ CoinInv
    StreamInv == StreamTypeOK /\ PlaceInv /\ EndInv /\ OneEnding /\ SavedInv /\ SpeechInv
    IInv == SessionInv /\ StreamInv

`IterationInv` says that iterations are numbered without gaps and that all but the
latest are closed; `ClosedInv` and `PlaceInv` that a command or stream about to
create an iteration has seen the one before it closed, and that closed is for good. That
is why two that create at once cannot leave two open. `ReplyInv` and `CoinInv` follow a
reservation from the coin service through an answer, a command's local state and the row
into a settlement; `Backed` says of each that the estimate beside a reservation is at most what
was taken for it, or for a restart whose request came twice. `SavedInv` says that a writer past its
first await has left a turn, and that a request past the wait for the assistant's
has that one. `SpeechInv` counts running sentences against taken permits and says
that a sentence not yet detected has no job.

Commands and streams change the same rows, so each half must survive the other's steps.
The streams need of a command only `RowsAge`: a closed iteration stays closed, a turn stays unless the
session is deleted, and a session once created does not become unborn again. `CommandKeeps` shows
that every command keeps `SessionInv` and satisfies `RowsAge`, and
`CommandKeepsStreams` that `StreamInv` then survives. The steps of a stream are grouped by what
they share: the
gateway's (`GatewayKeeps`, which rests on `CutKeeps`), those before the turn begins
(`EarlyKeeps` on `MoveKeeps`), those that write iterations (`IterationKeeps`), the rest of
`process()` (`LateKeeps` on `ConcludeKeeps` and `QuitKeeps`), the writers (`WriteKeeps` on
`WriterKeeps`); `SentenceKeeps` and `SpeechEndsKeeps` do the counting.
The assumptions are `SessionAssumption` and `ConversationAssumption`: in a workload at
most one command creates the session, because its id is drawn there, and there is at least one
iteration and one permit.

Every safety invariant and every step property that a passing run checks is thereby proved.
Only model-checked are the liveness properties (`HandlersConclude`, `DeliveredRunEnds`, `DueIsRolledOver`,
`StreamsEnd`, `SeenIsSaved`, `HeardInTheEnd`, `SpeakingEnds`, `ProcessingEnds`): they rest on
fairness, hence on ENABLED, about which this prover cannot reason. The four properties that the code violates
are refuted by TLC.

## 6. Limits

- `RunExclusive` and `OrgLimit` hold but for the runs that outlasted their lock and the
  admissions the counter missed. The code guards against neither: nobody extends the lock or the
  counter of a run at work, and a failing increment admits.
- A restart whose request was delivered twice is settled under the older reservation with its
  own estimate: the account may get back more than that reservation took, while what was taken
  for the restart is never settled.
- An administrator's recomputation may assess an iteration that goes on.
- In `AssessmentRuns` runs need not end after a crash (the row stays "running"),
  after a refusal by the organisation's counter (the row stays "queued" and is not
  emitted again), or after a leak of all slots. The runs with these cases check
  safety only.
- `BalanceOutlivesPeriod` is for intervals no longer than 40 days. The code also has quarterly, semiannual and
  annual intervals, for which it fails: an adjustment early in the
  period makes the balance expire before the period is over, and the next session
  opens it with the full allowance.
- `DebtOnce` leaves out the debt of a period that was guessed. A retry of the job that finds the
  balance at exactly -1 takes the answer of the script for "no such key"
  and writes the document from the balance it expects (allowance less debt); when the
  key in Redis is gone by the next rollover, that one takes its debt from the document,
  which may be more than the period ever owed.
- `PlaysInOrder`, `NoOldVoice`, `NothingSkipped`, `HeardInTheEnd` and `SpeakingEnds` leave
  out what follows a media error or a replay. The code calls `onEnded` twice for a sound
  that fails (the error event and the rejection of play()), and a replay of a sentence that is
  still loading starts the next one beside it; either may leave a sound that nobody can
  stop, or a page that takes the persona to be speaking for good.
- `ProcessingEnds` leaves out turns whose stream was lost with the socket, `SpeakingEnds` what
  the page shows while the player is still at a sentence of such a turn. Nothing tells the page
  that they will not end; the next turn clears them.
- A hang-up while `connect` waits for a token is forgotten when the token arrives
  (`useConversation.ts:544`). The model has it; no property speaks about it.
- Turn orders need not be unique in `ConversationTurns` (see the hazard at
  `conversation-orchestration.service.ts:345`), and coins held for a session that was never
  created, restarted or deleted stay held (at `session.service.ts:261`).
- Not modelled at all: see the components marked `not_modelled` in
  `PROJECT.json`, each with its reason.
