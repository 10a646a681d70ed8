# TLA+ models of the prop-trading back end

TLA+ modules, TLC configurations and TLAPS proofs about the server in
`src/backend`: how positions are settled and accounts ended, how payouts are
decided, how challenge orders are paid for and reversed, how a retried request
is recognised, how the engine keeps the anchors of a trailing drawdown and its
in-memory index of trades, how positions are closed at the end of a session, how
a passed account becomes the next one, and how mail is delivered.
`PROJECT.json` maps every definition that stands for code to the lines it stands
for; paths below are relative to `src/backend` unless they start with `src/`.

Contents

1. The system: inventory, interactions, what is hard
2. Plan
3. The modules and the code
4. What the runs check, and their bounds
5. Fairness
6. What is proved
7. What is only model-checked
8. Known departures
9. What is not modelled
10. Running it

## 1. The system

A trader buys a *challenge*: an account with a starting balance, a profit target
and drawdown limits. The account trades against simulated fills. When equity
touches a floor the account fails, when it reaches the target it passes and may
be promoted, and a funded account can ask for payouts of its profit. The server
is a set of Node processes (API, engine, workers) over one Postgres database;
Redis carries best-effort messages between them.

### Components

| Component | State it keeps | Operations | What must hold |
|---|---|---|---|
| Trade settlement: `services/tradeEngine.ts`, `challengeEngine.ts`, `routes/trades/*`, `domain/account.js` | rows of `trades` and `accounts`, `bbook_pnl`, row locks | open market, pending and OCO orders; fill, refuse, cancel; close by SL/TP tick, interval check, trader (whole or part), batch; fail, pass and expire an account with everything it has open | PnL is booked once per row; the balance is what the rows booked; one outcome per account, counted once; one leg of an OCO pair; the position cap; transactions end |
| Drawdown anchors: `tradeEngine.ts`, `services/drawdownService.ts`, `domain/drawdownAnchors.js`, `utils/tradeIndex.ts` | `eod_peak_equity`, `eod_trailing_floor`, the index's copy, the raises waiting for the flush timer | tick, confirm a breach, flush and retry, interval pass, reconcile, restart, move capital, reset | an anchor only rises; no high is lost between engine and database; nobody fails by a floor that is not theirs |
| Trade index and its synchronisation: `utils/tradeIndex.ts`, `services/tradeIndexSync.ts` | in-memory maps of trades, orders and accounts in the engine, with a running floating total per account | add, remove, reload, tick, reconcile; calls from the engine, Redis messages from the API | the total is that of the watched trades; no open position is thrown out; the index comes to agree with the database |
| Payouts: `routes/payouts.js`, `routes/admin/payouts.js`, `domain/payout.js`, `domain/payoutEligibility.js`, `routes/admin/commandCenterActions.js` | `payouts`, `balance_adjustments`, claims of keys | request, replay, first and second approval, pay, reject, bulk reject | one undecided payout per account; money leaves once, with the payout that is paid; two admins above the threshold |
| Challenge orders and billing: `routes/accounts.js`, `routes/billing.js`, `utils/giftVouchers.js`, `utils/stepModels.js` | orders, checkout sessions, `stripe_events`, vouchers, commissions, accounts | order, check out, webhook events, reversal, create the account, redeem a code | an account only for a paid order; the first reversal stands; no commission on money that went back; slots are not oversold; a code buys once |
| Idempotency keys and the pool: `utils/idempotency.ts`, `db.ts` | `idempotency_requests`, connections | claim, replay, complete, abandon, reap | a recorded answer stands; a key is freed in the end; every request is answered |
| Scheduler and forced session closes: `services/schedulerService.ts`, `utils/advisoryLock.ts`, `services/weekendCloseService.ts`, `flatByCloseService.js`, `newsCloseService.js` | advisory locks, the marks of windows done | run a job on one instance, close what is open, cancel orders | one run at a time; one booking per position; a window is marked only when it was done; a position in scope is closed in the end |
| E-mail queue: `utils/emailQueue.js`, `workers/emailWorker.js`, `routes/admin/emailJobs.ts` | `email_jobs` rows | enqueue, claim a batch, send, mark, recover stale, retry, give up, re-queue | no mail twice without a cause; sent means accepted; attempts end; every job ends |
| Promotion and lifecycle: `challengeEngine.ts`, `tradeEngine.ts`, `services/progressionService.js`, `promotionTarget.js`, `tenantMonthlyQuotaService.js`, `routes/admin/promotionReviews.js`, `routes/admin/accounts.js` | `account_promotion_reviews`, successor accounts, `accounts.status` | pass, raise a review, approve, reject; lock, fail, restore, replace, promote by hand | one decision behind each successor; no pass forgotten; nobody promoted who is not passed |
| Affiliates, competitions, violations, price feed, realtime, auth, KYC, support, certificates, analytics, administration, web client | see `PROJECT.json` | | |

### How they interact

* **Through rows.** Settlement, payouts, orders and the lifecycle share
  `accounts` and `trades`. Every writer is a READ COMMITTED transaction that takes
  row locks with `FOR UPDATE`, often `SKIP LOCKED`; the locks are what the models
  are about. Closers lock trade then account; whoever ends an account locks
  account then trades; a payout decision locks payout then account; a pass locks
  account then review, a decision on the review the other way round.
* **Through the connection pool.** A request holds one connection for its
  transaction and takes another whenever it touches its idempotency claim.
* **Through the index.** The engine judges ticks from memory, not from the
  database. The database's truth reaches it by callbacks in the same process, by
  Redis messages, and by a reconciliation every 30 s; its own highs reach the
  database by a timer.
* **Through advisory locks and marks.** The scheduled closes of several
  processes keep apart by a lock on a connection of the direct pool, and each
  process remembers which window it has done.
* **Through deliveries.** Stripe delivers webhook events at least once, in any
  order; browsers repeat requests with the same `Idempotency-Key`.

### What is hard here

Four or five code paths reach the same row and differ in what they re-read under
the lock. Reads before an `await` are used after it. Effects sit on both sides
of COMMIT. Events arrive twice, late or in the wrong order. Locks are taken in
opposite orders. A timer, a retry and a reconciliation write the same anchor.
`PROJECT.json` lists these as 40 hazards, each at its line, with the properties
that would show it going wrong. Where the code *does* go wrong there, a
reproduction is kept: see section 8.

## 2. Plan

Order: what moves money or ends an account first, then what decides who may,
then what keeps the processes in step.

| # | Module | Composes | Abstract specification | State |
|---|---|---|---|---|
| 1 | `TradeSettlement` | closing, ending, filling and opening over one lock table | ledger identity as an invariant | modelled, checked, proved |
| 2 | `Payouts` | trader's route, two approval and two rejection routes | `PayoutLedger` | modelled, checked, refinement proved |
| 3 | `ChallengeOrders` | orders, Stripe, webhook, vouchers, account creation | - | modelled, checked, proved |
| 4 | `IdempotencyClaims` | two handlers, the claims table, the pool, the reaper | - | modelled, checked, proved |
| 5 | `DrawdownAnchors` | tick, flush, pass, reconciliation, capital movements | the account's own history of highs (`high`) | modelled, checked, proved |
| 6 | `TradeIndex` | routes, engine, Redis messages, reconciliation, tick | agreement with the database (`Synced`) | modelled, checked, proved |
| 7 | `SessionClose` | scheduler, advisory lock on a pooled connection, marks, three closes, routes | - | modelled, checked, proved |
| 8 | `AccountLifecycle` | passes, reviews, promotion, every writer of `accounts.status` | - | modelled, checked, proved |
| 9 | `EmailQueue` | workers, batches, recovery, retry delays, re-queue | - | modelled, checked, proved |
| 10 | `AccountRules` | valuation of several trades with missing rates, daily loss, breach tests of the engine against those of the challenge engine | the Decimal path | planned |

The number of runs is kept small, one for each distinct question. A module that
comes new takes the place of a run that repeats a kind of question.

Every safety and action property of the passing runs is a theorem of the
specification, for all constants and without further hypotheses (section 6). Theorems still planned: abstract specifications of
`SessionClose` (a job books each position once, then stops) and of `EmailQueue` (a
job is sent once or excused), with the steps mapped as for `Payouts`.

## 3. The modules and the code

Conventions shared by the models:

* A database transaction is split exactly where another session can get in
  between: where it waits for a row lock, and where it reads what it later acts
  on. Its writes are invisible to others until COMMIT, so they are applied in the
  commit step and dropped at ROLLBACK. `FOR UPDATE` is a guard on a free lock,
  `SKIP LOCKED` an alternative that gives up, a plain SELECT takes nothing.
* `Null` stands for SQL NULL, a missing price and the holder of a free lock.
* An operator under a comment that begins with `Fault:` is not part of any
  specification. It is the definition next to it with a plausible bug (a lock
  not taken, a status not re-read, a rollback forgotten), kept to show that the
  properties notice.
* Money is a small integer; wording, mail, sockets and logging are left out.

### `TradeSettlement` (`MCTradeSettlement`)

State: `status` (accounts.status), `trade` (the trades table), `credit` (what
each row has added to `current_balance`, so the balance is a sum that can be
compared with what the rows booked), `failures` (`bbook_pnl`), `lock`,
`session` (the local variables of one database session).

| Code | Actions |
|---|---|
| `checkSLTP`, `closeTriggeredTrades` (tradeEngine.ts) | `TriggerClose`, `LockRows`, `LockBalance`, `CommitClose`: sizes and PnL come from the snapshot |
| `POST /batch` (batch.ts) | `BatchClose`, then as above |
| `closeTradeHandler` (close.ts) | `ManualClose`; re-reads lots under the lock; `CommitPartialClose` books a child row |
| `autoCloseAndFail`, `autoCloseAndPass` | `EndAccount`, `LockAccount`, `SelectOpen`, `WaitOpen`, `SelectPending`, `WaitPending`, `CommitOutcome` |
| `failAccount`, `expireAccount` (challengeEngine.ts) | the same, except that they write rows without re-reading them; `SkipUnpriced` is expiry's catch |
| `passAccount` | `LockAccount`, `CountOpen`, `CommitPass` |
| `fillPendingOrder`, `validatePendingTrigger` | `FillPending`, `LockOrder`, `ValidateOrder`, `WaitPending`, `CommitFill`, `CommitRefusal` |
| `cancelPendingOrder` / `cancelTradeHandler` | `DecideCancel`, `CancelDead` (by id) / `CancelByTrader` (guarded) |
| `openTradeHandler` (open.ts) | `RequestOpen`, `LockForOpen`, `CheckCap`, then `CommitOpen` (market), `CommitOrder` (pending) or `CommitOco` |
| errors, lost clients, Postgres | `Rollback`, `DeadlockVictim` |

### `PayoutLedger`, `Payouts` (`MCPayouts`)

`PayoutLedger` says what is promised: a request is asked for (`Ask`), taken in hand
by an approver who found the KYC approved (`Vet`) and possibly put back (`Lapse`),
endorsed by a first admin (`Endorse`), then paid (`Pay`) or refused (`Refuse`), and
that answer is final. To endorse or pay, the account must at that moment be active,
without exposure and have the profit; at or above the limit `Pay` needs another admin
than the one the row names as first, and writes its own into the row as the second.

`Payouts` is the code: `Request`, `Admit` (everything `POST /payouts/request` checks
under the account's lock), `Submit` / `Replay` (claim and payout commit together),
`Approve`, `LockPayout` (with the KYC status joined in), then under both locks
`Turndown`, `RecordFirst` or `PayOut` with its `Debit`; `WriteRejection` looks at the
status, `WriteBulkRejection` does not. Trading, KYC review and the threshold are the
environment. `LedgerSpec` is the refinement with `request <- payout, withdrawn <-
debit, vetted <- Vetted` (the payouts an approval holds with KYC found approved;
it is read once, when the payout is locked). It names one exception, `UndoneByBulk`:
the bulk action rejecting a payout that was already decided. The ledger does not
promise that step; section 8 has the configuration that shows it.

### `ChallengeOrders` (`MCChallengeOrders`)

`PlaceOrder`, `AskSession` / `OpenSession` (the reference is written after Stripe
answered), Stripe's own `Capture`, `Expire`, `Refund` and `Dispute`, the webhook's
`Deliver` (claim of the event, order found by id or by reference),
`DropUnresolved`, `MarkPaid`, `Abandon`, `Reverse`, `DeliveryFails`; the account's
`LockOrder`, `CheckSlot`, `CreateAccount`, and `StampOrder` after COMMIT; the code's
`LockVoucher`, `Redeem`. Deliveries are unordered and repeated until claimed.

### `IdempotencyClaims` (`MCIdempotencyClaims`)

Requests step through connect, lock, claim, insert, complete and abandon;
`POST /open` locks before it claims, `POST /create` the other way round; a market
order gives its connection back before it completes, the others keep theirs. Its
specification is `ClaimsSpec`, its initial states `ClaimsInit` and so on: names that
`AccountLifecycle` has too carry a prefix, since one module proves theorems about
both.
`Free` is what is left of `DB_POOL_MAX`; with none free, everything that needs one
may time out. `Reap` is the hourly deletion of claims older than 15 minutes,
which the model lets happen at any time after the request has ended.

### `DrawdownAnchors` (`MCDrawdownAnchors`)

`Tick` is phase B of `runTick`; it judges by the index's own balance and PnL, which
need not be the account's (an unpriced trade, a late message). `Confirm` is
`settleAccountOutcomes`: it re-reads the equity and compares it with the floor of the
candidate; its reads and the transaction that fails the account are one step.
`StartFlush`, `FlushDone` and `FlushFails` are `flushDirtyPeaks`, `StartPass`,
`JudgePass`, `FinishPass` and `FailPass` are `checkFloatingDrawdown`, `StartReconcile` and
`Reconcile` are `fullReconcileFromDB` for the account (`NoRow`: it was not active when it
was read, and is evicted), `MoveCapital` is `Account.adjustBalance`. `Suspend` and
`Restore` are an account that is locked, or failed by another rule, and made active
again; `Reset` is `restore_with_reset`, which takes an account that is not active, with
raises possibly still queued.

`high` and `locked` are history: the highest raise the engine judged the account by and
has not lost by one of four named steps, and whether a raise ever reached the lock. The
steps that drop raises by design are a restart, a pass whose statement fails, a tick
whose raise replaces a higher one in the queue (which takes an entry that was reloaded
meanwhile, `Drops`), and a capital movement. Each of them leaves in `high` the highest
raise that is still held somewhere (`Owe`), so nothing more than what they drop may get
lost.

### `TradeIndex` (`MCTradeIndex`)

State of the database: `row`, `account`; of the engine: `watched` (`_byId`), `waiting`
(`_pendingById`), `cached` (`_byAccount` with its running total), `current`
(`_reconcileGeneration`), `mode`, `pass`, `tick`, `changed`; between them `calls`. A sum
over trades is a function of the trade, so that a trade counted twice shows. Three
variables are history: `alone` (the pass that has run with no other beside it and no
account restored since it began), `late` (accounts whose entry was made when the index
already valued a trade of theirs, until a pass revalues them) and `mixed` (has that been
possible since the process began). Any number of passes may overlap, as the scheduler's
interval has no guard.
`split` says whether the HTTP role is a process of its own.

| Code | Actions |
|---|---|
| `routes/trades/*` | `Open`, `Modify`, `ClosePart`, `Close`, `Cancel`: each commits and makes its call |
| engine: fills, SL/TP closes, cancels, outcomes, status changes | `Fill`, `CheckSLTP`, `CancelPending`, `End`, `SwitchStatus` |
| `syncOpenedTrade`, `syncPendingOrder`, `syncClosedTrade`, `tradeIndexSync.ts` | `Lookup` (the query of `ensureAccountLoaded`), then `SyncOpened`, `SyncPending`, `SyncClosed`, `SyncFilled`, `SyncEnded`; in any order |
| `onPriceTick`, `runTick` | `Move`, `Scan`, `TickCommit`, `TickSync`, `TickFail` |
| `fullReconcileFromDB` | `StartPass`, and for each of its four queries `Read...` and `Apply...`; `Evict` ends it |
| lost messages, failed queries, restarts | `Lose`, `FailPass`, `Restart` |

### `SessionClose` (`MCSessionClose`)

| Code | Actions |
|---|---|
| `withAdvisoryLock` (`utils/advisoryLock.ts`), the tick's early returns | `Begin`, `Unlock`, `UnlockFails`, `LoseConnection`, `Crash` |
| the queries of a run | `ReadOpen`, `ReadOrders`, `ReadFails` |
| one transaction per position | `NoPrice`, `TradeFails`, `LockRow`, `CommitClose`, `CloseFails` |
| pending orders, which the weekend close cancels by id and status | `CancelOrder`, `CancelFails` |
| the mark of the window | `Finish` |
| the clock | `WindowOpens`, `WindowShuts`; `CloseIdle` is the direct pool dropping an idle connection |
| trading routes and the engine's fill | `Request`, `Insert`, `Fill`, `RouteTake`, `RouteClose`, `RouteRollback` |

### `EmailQueue` (`MCEmailQueue`)

`Enqueue`, `Recover` and `ClaimBatch` are `claimPendingEmailJobs`; `Send`, `SendRefused`,
`SendUnanswered` (the provider accepted and the answer was lost) and `BuildFails` are
`processEmailJob`; `MarkSent`, `MarkRetry` and their failures write by id alone. `Crash`
ends a worker in the middle of its batch, `Expire` lets fifteen minutes go by for a
job whose worker is gone, `Outlast` for one whose worker is slow. `LookUp` and `Requeue`
are the administrator's request. `excuses` is history: what may make a job be sent
once more.

### `AccountLifecycle` (`MCAccountLifecycle`)

State: `account` (status, phase, whether the row has a challenge model, parent),
`review`, `lock`, `session`; `manual` and `answered` are history.

| Code | Actions |
|---|---|
| `passAccount`, `autoCloseAndPass` | `StartPass`, `LockForPass`, `RaiseReview` (the upsert waits for the review it conflicts with), `CommitPass` |
| approve and reject routes, `approvePromotionReview` | `StartDecision`, `LockReview`, `LockSource`, `CommitApproval`, `CommitRejection` |
| other outcomes of the engines | `EngineFails`, `EngineExpires` |
| automation and billing | `Freeze` |
| override, bulk and compliance routes | `AdminFails`, `AdminLocks`, `RestoreActive`, `RestoreWithReset`, `ManualPromote`, `ReplaceAccount` |
| `resolvePromotionTarget` with what each caller knows of the account | `NextPhase`, `EngineTarget`, `OverrideTarget` |
| errors, lost clients, Postgres | `Rollback`, `DeadlockVictim` |

## 4. What the runs check, and their bounds

Most runs set `CHECK_DEADLOCK FALSE`: rows, orders, requests, keys and accounts
are finite and used up, and a system that has dealt with all of them rightly
stops. `SessionClose` and `EmailDelivery` check for deadlock.

| Run | Question | Bounds, and why they are enough |
|---|---|---|
| `SettleCore` | Is PnL booked once, is the balance what the rows booked, does an account end once and count once, whichever closers race? | two accounts, two open rows and one spare for a partial close, two sessions, two lots, two prices. A double booking needs two sessions and one row; the second account shows that a closer that settles rows of two accounts mixes nothing up. |
| `SettleOrders` | Can both legs of an OCO pair be filled, can the cap be passed, do transactions end although closers lock trade then account and enders account then trade? | one account with a pending order and two free rows, two sessions (the shortest cycle of waits), cap 2: the order's fill and a request race for the last slot, and a pair uses both rows. Market, pending and OCO requests, fills, batches, both cancels, the engine's failure and the pass; the other closers and the expiry are in `SettleCore`. |
| `PayoutCore` | Do the five routes implement the ledger (two admins, a fit account, a final answer); one pending payout; one payout per key? | one account, two payouts, two sessions, two admins, two keys, profit within -2..2: a request racing a decision, and two admins racing on one payout, each with a retry. Accounts do not interact. |
| `OrderPayments` | Does commission follow money, does the first reversal stand, is every event handled? | one order with two checkout sessions: eight events in every order, with repeats and failures; two webhook workers, so that two deliveries run at once, and two requests that create accounts from the order. |
| `OrderSales` | Are slots or a code sold twice? | three orders (one can be a gift and another its redemption), two accounts and one slot, two requests. |
| `ClaimFaults` | Is every request answered and every key freed; is a recorded answer final? | three requests with one key, a pool of two, so that it can be exhausted by requests that each want a second connection; every statement can fail. |
| `AnchorQueue` | Does anything but a capital movement lower an anchor; does a failed flush, a race or a reload lose a high? | every step of the module, funded or not, one flush at a time (a failed one meets the ticks that came meanwhile), two PnLs around the start, a debit, and a lock threshold that the prices cross. |
| `AnchorPayout` (violation) | Can a stale index entry fail an account? | ticks, reconciliations and one debit. TLC finds that it can; see section 8. |
| `IndexWatch` | Does the running total drift; does a pass throw out an open trade; does the index come to agree with the database? | two trades of one account, two writes and one fault while a pass awaits its queries; a stale row needs one pass and one write. The account may be locked and restored. One pass at a time: the theorems cover any number, and an instance with one trade and two passes (3.5 million states) was checked too. |
| `SessionClose` | Is a position booked twice, do runs on living connections overlap, is the news mark set over a position the run could have taken, is a filled order cancelled, is everything in scope closed in the end while the lock has not leaked? | one position or order that three jobs may close, two connections, and one fault of any kind. Two jobs on one row are the shortest race; what two rows add, the proofs cover. |
| `EmailDelivery` | Is anything mailed twice or marked sent without a cause, do attempts and jobs end? | two jobs in one batch, two workers, two attempts, one fault and one re-queue, so that a stale claim meets its slow worker. |
| `PromotionQueue` | Is each successor explained by one decision, is a pass forgotten, is anyone promoted who is not passed, do passes and decisions wait for each other for ever? | a bought account and two rows for successors, two reviews, two sessions, a two-step model. The other writers of a status touch the bought account only (`Touched`): it goes through every status any number of times, while its successors only live on. |

Sizes: up to 1.3 million states (`AnchorQueue`). Larger instances are out of a few minutes' reach, and
what they would add is what the proofs of section 6 are for. `SettleCore`
uses symmetry of the sessions, `PayoutCore` of sessions, admins and keys, `OrderSales` of
accounts and requests, which no property names; no run with a liveness property does.

`MaxProfit`, `MaxFlights`, `Balances`, `MaxWrites`, `MaxFaults`, `MaxRequeues` and `Touched`
bound what would otherwise grow; they are in the guards of the environment's
actions (`ClosePosition`, `MoveCapital`, `Write`, `Fault`, `Requeue`) and of `StartFlush`.
The timer would send a second flush while one is unanswered; the theorems hold for any
`MaxFlights`. In `AccountLifecycle` nothing begins that would find
no row left to insert (`RoomForAccount`, `RoomForReview`).

Each property of a passing run has a mutant in `PROJECT.json`: a mapped definition is
replaced by its `Fault:` twin and TLC then finds the property violated in the same
run. Type invariants are proved, and so are not run, except that of
`AccountLifecycle`, which `PromotionTargets.cfg` checks.

## 5. Fairness

Fairness is stated only where a liveness property needs it.

* `TradeSettlement!FairSpec`. WF on `Proceed`: a statement that need not wait runs.
  SF on `Acquire`: Postgres queues waiters, so a lock that is freed again and again
  is granted. WF on `DeadlockVictim`: the deadlock detector aborts a session of a
  cycle. Nothing is assumed about `StartJob` or about other rollbacks.
  `AccountLifecycle!FairSpec` is the same: `TransactionsEnd` and `DecisionsEnd` rest on it.
* `ChallengeOrders!FairSpec`. WF on the steps of a request. SF on handling an event
  that a worker has claimed, WF on delivering some event that is due: Stripe retries
  what was not acknowledged. Deliveries stop failing at some time: Stripe gives up
  after days, and a handler that fails for ever handles nothing.
* `ClaimsFairSpec` of `IdempotencyClaims`. WF on each request's steps; WF on the reaper, which
  `services/schedulerService.ts:364` runs every hour. A request that finds no connection is answered by the
  timeout, which is what makes `EveryRequestAnswered` true.
* `DrawdownAnchors!FairSpec`. WF on the one-second timer and on the end of a
  statement that was sent; the database does not refuse flushes for ever. Nothing
  is assumed of prices.
* `TradeIndex!Spec`. WF on applying calls and answering their queries, on the tick's
  steps and on the reconciliation, which an interval starts every 30 s. Nothing is
  assumed of routes, market and faults, which are bounded: `Converges` speaks of the
  time after the last of them.
* `SessionClose!FairSpec`. WF on the statements of a run and on a route's transaction
  that has its row. For the weekend and the daily job: windows come back (SF on
  `WindowOpens`, the calendar) and end (WF on `WindowShuts`); while one is open the
  scheduler ticks every ten or sixty seconds, and some tick begins if the lock is
  free again and again (SF on `BeginsFree`). `WindowShuts` needs a tick to have reached the window or
  its lock to have leaked: a window lasts for several ticks. Weekend holding is
  assumed to be switched off.
* `EmailQueue!FairSpec`. WF on a worker's recovery, claims and processing: it polls.
  This assumes that the reminder sweep in front of the batch does not throw for ever
  (section 8).
  WF on `Expire`: fifteen minutes pass. SF on the claim of each job: batches are
  claimed oldest first, so a job that is due again and again gets its turn.

## 6. What is proved

TLAPS checks the theorems below for every value of the constants that satisfies
the named assumption of the module. The assumptions say only what the code gives:
`Null` is not a value, ids are of finite tables where something is counted,
prices and amounts are integers, a drawdown is between 1 and 99 per cent.

**`TradeSettlementProofs`** (`CoreAssumption`, `StartAssumption`): `TypeCorrect`,
`LedgerCorrect`, `SettledOnceHolds`, `OutcomeFinalHolds`, `FailureCountedHolds`,
`OcoExclusiveHolds`, `CapHoldsAlways`. That a row is booked
once does not follow from the row being open when it is read, since everything is
read before it is locked. The invariant says who owns what: a closer about to
commit holds its rows, still open (`CloserInv`); whoever ends an account holds the
account, still active, and its rows are unbooked (`EndingInv`), which stays true of
rows `challengeEngine` writes without re-reading, *because* every closer must get
the account's lock before it commits; a fill holds its order, still pending
(`FillInv`, `DropInv`). `JobInv` records which operation can be at which statement.
With `Unsettled` (only a closed or cancelled row has a PnL) and `LedgerExact` (what
was credited is what was booked) it is inductive.

The last two theorems rest on a second invariant, `OrderInv`, on top of the first.
The legs of a pair name each other (`Paired`), and once one is filled the other is
neither filled nor pending (`OneLeg`). A fill at its last wait has a pending sibling
either still to wait for or in hand (`FillingInv`), and its own order is pending, so
the sibling cannot have been filled. A request that has passed the check of the cap
holds the account row (`OpeningInv`); fills, cancels and closes do not, but none of
them adds a row to the account's exposure, which is all the cap needs. A pair counts
as one commitment, and the number of commitments is at most that of exposed rows.
`StartAssumption` says the table is finite, initial pairs name each other and
initial accounts are within the cap.

**`PayoutsProofs`** (`PayoutAssumption`): `TypeCorrect`, `OnePendingHolds`,
`KeyUsedOnceHolds` and `ImplementsLedger`, that `Payouts` refines `PayoutLedger`. The
invariant: an admitted request holds its account, which has nothing pending
(`RequestInv`), so that no second request can be there; a decision that has read its
payout holds it, still pending (`DecisionInv`); nothing has left before a payout
is paid (`PayoutInv`), which makes the debit equal to the amount; and an admitted
request's account stays fit until it is submitted (`FitInv`), since trading and ending
need its lock. For the refinement, each statement is an `Ask`, `Vet`, `Lapse`, `Endorse`,
`Pay` or `Refuse`, leaves the ledger alone, or is `UndoneByBulk`: an approval that holds
its payout is the only one that does (`VettedReleased`, `FreeIsNotVetted`).

**`ChallengeOrdersProofs`** (`OrdersAssumption`): `TypeCorrect`, `CommissionFollows`,
`ReversalFinalHolds`, `CreatedWhilePaidHolds`, `SlotsHold`, `VoucherBuys`. The
invariant (`RequestInv`) says what a creation's and a redemption's locks protect:
the row lock that the order is paid, the model's advisory lock that a slot is
left, the code's that the voucher is still to be claimed. `StripeInv` says that what
is being handled was raised, about a session of an order.

**`LifecycleAndClaimsProofs`**, second part (`ClaimsAssumption`): `ClaimsTyped` (the
pool is not overdrawn, locks are held over connections), `CompletedMeansOpenedHolds`,
`AnswerStandsHolds`. From taking a claim to settling it the row in the table is the
request's own, started (`ReqInv`): neither the reaper, which waits for the request
to end, nor another request with the key, which finds it taken, touches it.

**`LifecycleAndClaimsProofs`**, first part (`LifecycleAssumption`): `LifecycleTyped`,
`SuccessorsExplainedHolds`, `NoStrandedPassHolds`, `PromotedWhilePassedHolds`. None of
the three is inductive alone. The invariant `LInv` says what the row locks are worth:
a pass that has its account's lock sees it active, and a review it refreshes is its
own and still pending (`PassInv`); a decision owns its review once it has read it, and
the source account once it has looked at it, which is then passed (`DecisionInv`). The
overrides lock the account only for their own commit, so what protects a pass and an
approval from them is that lock alone. On the tables: a passed account is never of the
last phase (`AccountsInv`), so an approval has something to create; only an approved
review names an account, a child of its source that no other review and no override
made (`CreatedInv`), and a child has one of the two causes (`ParentInv`). A pass puts a
pending review behind the status it writes, and a review stops pending only together
with an answer. Nothing is assumed of `Ops`: the theorems cover every writer of the
status. The two components share no state; each theorem is about one of them.

**`DrawdownAnchorsProofs`** (`AnchorsAssumption`, `NullAssumption`): `TypeCorrect`,
`AnchorsRiseHolds`, `PeakKeptHolds`. `PeakKept` is inductive together with `TypeOK`: a
raise is in the row, the queue, a statement under way or the pass's hand, and every
step moves it between them by `GREATEST` or by the higher of two (`Flushed`, `HigherOf`),
or is one of the four that drop raises by design and leave in `high` what is still
held (`Owed`). Reconciliations, restarts, failing passes and flushes, suspensions,
resets and movements are all steps of the theorem.

**`TradeIndexProofs`** (`TradeIndexAssumption`): `IndexTyped`, `EvictsOnlyGone`,
`FloatingSumHolds`, for any number of passes that overlap as they like and accounts
that are restored at any time. `EvictsOnlyGone` is about each pass that turns out to
have run alone. What is indexed after it has raised the generation carries its stamp,
so an open trade with an older stamp was there before the pass began, was open then,
hence is among the rows the pass read and has been stamped when the eviction runs. The
parts: what an entry lists is its account's (`IdsInv`), what was never open is in no
list of open trades (`UnopenedInv`), a pass that is alone owns the generation
(`AloneInv`), its stamp is on the active accounts once they are applied
(`AccountsInv`), and an open trade is in the rows it read or stamped (`TradesInv`).

`FloatingSumHolds` says that the total, which every call and tick changes by a
difference, is the sum over the account's watched trades, except in an entry that was
made when the index already valued one of its trades, until a pass revalues them. That
this befalls an active account only after an overlap, a restoration or a failed boot is
part of the theorem. What is not indexed contributes nothing (`NothingInv`); until the
first pass is over no tick runs (`BootInv`); while nothing was mixed every active
account is loaded (`LoadedInv`) and a call that did not find its account is about one
that is not active (`GoneInv`), so that no contribution is entered with the total left
behind (`SumInv`).

**`SessionCloseProofs`** (`SessionCloseAssumption`): `TypeCorrect`, `BookedOnceHolds`,
`OneRunnerHolds`, `OpenNeverCancelledHolds`, `MarkHonestHolds`. A row in a run's hand is
open and locked by it, so that no second transaction books it; the lock of a job is
held by the connection of every run of it that lives (`LockInv`), leaked or not; and
a run that has counted no error owes no position that is still open (`HonestInv`),
which is what the mark is worth.

**`EmailQueueProofs`** (`EmailQueueAssumption`): `TypeCorrect`, `SentIsTrueHolds`,
`MailedOnceHolds`, `AttemptsBoundedHolds`. The invariant counts, for each job, the deliveries made, the
workers that hold a claim which may still become one, and whether the table offers
it to another; the sum stays within one plus the excuses. Enqueueing gives the one,
a claim turns what is offered into what is held, and everything that puts a job back
while somebody holds it is an excuse. The bound on the attempts is a second count of the
same kind (`Tries`): once the delays are used up, the attempts made, the claims that
may still make one and the turn the table offers stay within the maximum plus the
excuses.

## 7. What is only model-checked

* **Liveness** (`TransactionsEnd`, `EventsHandled`, `KeyFreed`,
  `EveryRequestAnswered`, `PeakPersisted`, `Converges`, `ForcedFlat`, `EveryJobEnds`,
  `DecisionsEnd`) and everything with ENABLED: out of the prover's reach.
* What a fold over data computes for every input (induction over data). The proofs
  do not need it: the two sums of the ledger identity are shown to be sums of the
  same function. No module uses a recursive operator.

## 8. Known departures

Places where the models, following the code, reach what a comment or a document
of the repository excludes. Each configuration below reproduces one: TLC stops
with the behaviour that violates the property. They are kept beside the runs;
`AnchorPayout` is one of them, and a finding of `PROJECT.json`.

| Configuration | Property | Where | What happens |
|---|---|---|---|
| `SettleStaleLots` | `PnlMatchesRow` | `services/tradeEngine.ts:1740` | The engine computes the PnL from the lots of a snapshot and re-reads only the id under the lock. A partial close that commits in between has settled part of those lots; they are paid again, which `src/backend/scripts/audit/race-conditions.js:308` calls "the classic double-spend". |
| `SettleOrphan` | `NoOrphanPosition` | `services/tradeEngine.ts:666` | A fill locks only its order. Committed while another session fails the account and has already listed its rows, it leaves an open position on a failed account, which no later pass visits. |
| `SettleLateCancel` | `CancelledUnfilled` | `services/tradeEngine.ts:526` | The engine's cancel is by id alone and turns a position that was just filled into a cancelled row. |
| `PayoutBulkReject` | `DebitMatchesPayout` | `routes/admin/commandCenterActions.js:454` | The bulk action rejects a payout that was paid; the debit stays. `routes/admin/payouts.js:228` describes exactly this defect, which was fixed there only. `LedgerSpec` excepts this step (`UndoneByBulk`) and no other. |
| `PayoutConsistency` | `PaidWithinConsistency` | `domain/payout.js:75` | Approval re-validates without the consistency rule; `routes/payouts.js:268` says that it is applied there too. |
| `OrderFreeze` | `ReversedAreFrozen` | `routes/billing.js:422` | The account is stamped on its order after it was committed; a reversal in between freezes nothing. |
| `OrderReuse` | `OneAccountPerOrder` | `routes/accounts.js:501` | A paid order is not marked used; another key buys another account. |
| `OrderAbandon` | `PaidNotCancelled` | `routes/billing.js:503` | One expired session cancels an order whose other session is still open; the later payment is ignored. |
| `OrderRefund` | `RefundRecorded` | `routes/billing.js:445` | A refund handled before its payment finds no order and is lost; the payment then counts. |
| `ClaimDuplicate` | `OnePerKey` | `routes/trades/open.ts:1041` | What throws after COMMIT, for want of a connection or otherwise, ends in the catch that abandons the claim; the retry with the same key opens a second position. `utils/idempotency.ts:159` says what the key is there to prevent. |
| `AnchorReconcile` | `NoRaiseLost` | `services/tradeEngine.ts:1571` | A reconciliation between a high and its flush puts the old peak back; the next, lower high overwrites the queued one. |
| `AnchorLock` | `LockKept` | `services/tradeEngine.ts:1571` | The next raise of the peak overwrites a queued lock; after a payout nothing is left of it. |
| `AnchorPayout` (run) | `NoFalseBreach` | `services/tradeEngine.ts:1915` | After a debit the index still has the old floor, and the account is failed by it, although line 1963 says of the confirmation: "so a stale index entry cannot fail an account either". A raise queued before the debit and written after it does the same through the row (`services/drawdownService.ts:230`). |
| `IndexOverlap` | `EvictNeverOpen` | `utils/tradeIndex.ts:635` | Of two reconciliations that overlap, the older evicts an account that the newer has stamped meanwhile, and with it its open trades. |
| `IndexDaily` | `TodayConverges` | `utils/tradeIndex.ts:667` | The realised total of the day that a query read before a close is applied after it; later passes read only totals that are zero again. |
| `SessionWeekend` | `WeekendFlat` | `services/weekendCloseService.ts:58` | The weekend job marks its window although a position had no price or its transaction was rolled back. |
| `SessionLeak` | `FlatInTheEnd` | `utils/advisoryLock.ts:52` | When the unlock fails its connection goes back with the lock held; on every other connection the job finds the lock taken. |
| `EmailRequeue` | `SentFinal` | `routes/admin/emailJobs.ts:189` | The re-queue checks the status it read before and writes by id: a job that was sent in between is queued again, although "only retryable email jobs can be re-queued" (line 180). |
| `PromotionTargets` | `ApprovedAsShown`, `LadderFollowed` | `services/tradeEngine.ts:2044`, `routes/admin/shared/helpers.js:431` | `resolvePromotionTarget` is one function, but its callers know different things of an account. The engine's copy has no step number, so step 1 is assumed and the review of a later phase that passed on floating profit shows the wrong target, while approval creates the right one; `progressionService.js:240` says that "what is approved is always what gets created". The administrator's copy has no model either, so a promotion by hand follows the old two-step ladder, although the comment at `routes/admin/accounts.js:232` has it follow `challenge_models.steps`. TLC stops at the first of the two; with `-continue` it reports both. |

Others are told in words:

* Expiry catches the error of a row it cannot value and commits with the row open
  (`challengeEngine.ts:365`); line 393 then tells the trader that all trades have
  been closed.
* With the cap disabled (zero, as `routes/trades/open.ts:631` has it) every pending
  order is refused when it triggers (`services/tradeEngine.ts:565`).
* A request that places an OCO pair passes the cap with one slot left
  (`routes/trades/open.ts:635`) and takes two rows. `CapHolds` counts the pair once,
  since only one leg can become a position; the engine counts rows, so it refuses the
  order that triggers while the other rows of the account are at the cap.
* The news close skips a row that another session has locked and counts no error
  (`services/newsCloseService.js:90`), then marks its event (line 119): if that session
  rolls back, the position stays open under the mark. `MarkHonest` is about the rows
  the run could have taken.
* A job whose connection is lost runs on without its lock, and a second run may begin
  beside it (`utils/advisoryLock.ts:52`). `OneRunner` is about living connections;
  `BookedOnce` holds all the same.
* A mail that the preview transport takes when no SMTP is configured counts as accepted
  and is marked sent. A job recovered from crash after crash is claimed again each time:
  "nothing retries forever" (`utils/emailQueue.js:577`) is true of failures the worker
  lives to write down, and `AttemptsBounded` excuses the others.
* The e-mail worker's reminder sweep stands before the batch in one `try`
  (`workers/emailWorker.js:27`) and notes its time only when it succeeded: while it
  throws, every tick skips the batch.
* `POST /create` does not look at `is_gift` (`routes/accounts.js:484`); only the web
  client's poll does. A refused creation leaves its claim started until the reaper
  comes (`routes/accounts.js:404`).
* Requests that hold every connection wait for one more, or for the row lock of one
  that does, until the timeout (`routes/trades/open.ts:732`).
* The interval pass drops the raises of a failed flush, and the price need not come
  back (`services/tradeEngine.ts:1372`). A tick on the index's old balance flushes a
  high the account did not have after its payout.
* When an account is locked and restored while a reconciliation runs, its total can
  be short of a trade until the pass has applied the trades (`utils/tradeIndex.ts:635`).
* An account that passed, was locked and was then promoted by hand still has its
  pending review: the override looks at no review and leaves the account passed, so
  approving the review creates a second successor. `SuccessorsExplained` asks for one
  decision behind each successor, not for one successor. Replacement accounts
  carry no challenge model and so leave the ladder of the model they replace.
* `domain/account.js:50` lists the transitions of a status and says that anything absent
  is refused. Only `changeStatus` refuses, which no route calls: the routes write the
  column themselves and make transitions that are absent, such as failed to passed
  (`routes/admin/accounts.js:249`) or passed to failed (line 267).

## 9. What is not modelled

`PROJECT.json` gives every component a status and a reason. In short:

* **Next in the plan**: the rules an account is judged by. A hazard listed for it is
  a valuation without one trade's rate (`tradeEngine.ts:2026`).
* **Details left out of the modelled components**: PnL of short positions and of
  several instruments, commissions and swaps (an amount per row is enough for what
  is checked); the tests that make an account end, which are an input; stop levels,
  so also the missing stop of a partly closed trade in the index
  (`routes/trades/close.ts:450`), which the interval pass makes good; coupons and
  prices; fraud screening, which sets a flag an admin reads; the revocation of an
  unused gift voucher when its order is reversed, which the code does not do; the
  seven-day deletion of completed claims; the scheduler's other jobs; certificates and
  metrics a promotion writes; competition accounts.
* **Outside**: the price feed, realtime delivery, certificates, analytics, the web
  client, the MetaTrader bridge, deployment. They keep no state that the modelled
  parts read back, or none of their own.

## 10. Running it

    tlasany M.tla                              parse a module
    tlc -workers 2 -config SettleCore.cfg MCTradeSettlement
    tlapm TradeSettlementProofs.tla            check its proofs

The prefix of a configuration names its module: `Settle*` `MCTradeSettlement`,
`Payout*` `MCPayouts`, `Order*` `MCChallengeOrders`, `Claim*`
`MCIdempotencyClaims`, `Anchor*` `MCDrawdownAnchors`, `Index*` `MCTradeIndex`,
`Session*` `MCSessionClose`, `Email*` `MCEmailQueue`, `Promotion*`
`MCAccountLifecycle`. With two workers the runs take from a second to about two
minutes each. The proofs take a few minutes in all, most of them
`TradeIndexProofs`.
