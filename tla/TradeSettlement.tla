-------------------------- MODULE TradeSettlement --------------------------
(***************************************************************************)
(* How positions are opened, filled, closed and force-closed against one   *)
(* Postgres database by the two engine paths (services/tradeEngine.ts),    *)
(* the challenge engine (challengeEngine.ts), the trader's HTTP handlers   *)
(* (routes/trades/*.ts) and the flattening jobs.  Every one of them is a   *)
(* READ COMMITTED transaction that takes row locks; this module splits     *)
(* each at the statements where another session can get in between.        *)
(*                                                                         *)
(* Two tables are modelled, accounts and trades, with one lock per row.    *)
(* A transaction holds the lock of every row it has written, and no other  *)
(* session sees what it wrote before COMMIT, so its writes are applied in  *)
(* one step at COMMIT and dropped at ROLLBACK.                             *)
(*                                                                         *)
(* Abstractions.  All positions are long, of one instrument with contract  *)
(* size 1 and no commission: PnL is lots * (close - open), and a row's     *)
(* close is the price it was valued at.  The column current_balance is     *)
(* kept as the terms the UPDATEs added to it: credit[t] is what was added  *)
(* on behalf of row t, and Balance(a) is their sum.  The drawdown and      *)
(* daily-loss tests that make a loop end an account are left out: an       *)
(* account may be ended at any time, and Rollback stands for the tests     *)
(* repeated under the lock (failAccount's realised-drawdown gate).         *)
(* peak_balance belongs to the drawdown anchors and is left to them.       *)
(***************************************************************************)
EXTENDS Integers, FiniteSets, Functions

CONSTANTS
  Accounts,     \* ids of the account rows
  Trades,       \* ids of the trade rows, those still to be inserted included
  AccountOf,    \* trades.account_id
  Procs,        \* database sessions: one client of the pool each
  Null,         \* SQL NULL, a missing price, the holder of a free lock
  Ops,          \* the operations the sessions run
  Prices,       \* the market prices a session can read
  MaxLots,      \* the size a position is opened with
  MaxOpen,      \* platform_settings.max_open_positions
  Starting,     \* starting_balance of every account
  Target,       \* the profit target, as an amount
  InitOpen,     \* rows that are open to begin with
  InitPending,  \* rows that are pending orders to begin with
  Sibling       \* the other leg of an initial order's OCO pair, or Null

OpNames == {"trigger", "batch", "close", "autoFail", "autoPass", "failRealised",
            "expire", "pass", "fill", "cancelDead", "cancel",
            "market", "order", "oco"}

ASSUME CoreAssumption ==
  /\ IsFiniteSet(Accounts) /\ AccountOf \in [Trades -> Accounts]
  /\ Ops \subseteq OpNames
  /\ Prices \subseteq Int
  /\ MaxLots \in Nat \ {0}
  /\ MaxOpen \in Int /\ Starting \in Int /\ Target \in Int
  /\ Null \notin Int \cup Procs \cup Trades \cup Accounts
  /\ Accounts \cap Trades = {}
  /\ InitOpen \subseteq Trades /\ InitPending \subseteq Trades
  /\ InitOpen \cap InitPending = {}
  /\ Sibling \in [Trades -> Trades \cup {Null}]

(* The table is finite, and earlier requests left pairs that name each other *)
(* and accounts within the cap.                                              *)
ASSUME StartAssumption ==
  /\ IsFiniteSet(Trades)
  /\ \A t \in InitPending : Sibling[t] # Null =>
       Sibling[t] \in InitPending \ {t} /\ Sibling[Sibling[t]] = t
  /\ MaxOpen > 0 => \A a \in Accounts : Cardinality(
       {{t, IF t \in InitPending THEN Sibling[t] ELSE Null} :
          t \in {r \in InitOpen \cup InitPending : AccountOf[r] = a}}) <= MaxOpen

VARIABLES
  status,    \* accounts.status
  trade,     \* the trades table
  credit,    \* what each trade row has added to its account's current_balance
  failures,  \* bbook_pnl.accounts_failed
  lock,      \* who holds each row's lock
  session    \* what each database session is doing

tables == <<status, trade, credit, failures>>
vars   == <<status, trade, credit, failures, lock, session>>

Row == Accounts \cup Trades

TradeStatus   == {"none", "pending", "open", "closed", "cancelled"}
AccountStatus == {"active", "failed", "passed", "expired"}
PCs == {"idle", "lock", "balance", "lockAccount", "count", "selectOpen", "waitOpen",
        "validate", "waitPending", "update", "waitAccount", "snapshot", "commit"}

TradeRow == [status : TradeStatus, lots : Nat, open : Int \cup {Null},
             close : Int \cup {Null}, pnl : Int \cup {Null}, sibling : Trades \cup {Null}]

(* What a session keeps between two statements: the operation and where it   *)
(* stands, its account, the rows it settles or opens, those it cancels, the  *)
(* rows whose locks it still has to get, and what it read.                   *)
Job == [op : OpNames \cup {"none"}, pc : PCs, acct : Accounts \cup {Null},
        rows : SUBSET Trades, drop : SUBSET Trades, want : SUBSET Row,
        seen : [Trades -> Nat], price : Int \cup {Null}, ask : Nat]

(* A row not inserted yet, and a session between two jobs. *)
Absent == [status |-> "none", lots |-> 0, open |-> Null, close |-> Null,
           pnl |-> Null, sibling |-> Null]

Idle == [op |-> "none", pc |-> "idle", acct |-> Null, rows |-> {}, drop |-> {},
         want |-> {}, seen |-> [t \in Trades |-> 0], price |-> Null, ask |-> 0]
-----------------------------------------------------------------------------
(* Queries. *)

RowsOf(a, st) == {t \in Trades : trade[t].status = st /\ AccountOf[t] = a}
Exposure(a)   == RowsOf(a, "open") \cup RowsOf(a, "pending")
Lots          == [t \in Trades |-> trade[t].lots]
Booked(t)     == trade[t].pnl # Null

SumOver(f) == FoldFunction(+, 0, f)

(* current_balance, and what the trades table says it should be. *)
Balance(a) == Starting + SumOver([t \in Trades |->
                IF AccountOf[t] = a THEN credit[t] ELSE 0])
BookedBalance(a) == Starting + SumOver([t \in Trades |->
                IF AccountOf[t] = a /\ Booked(t) THEN trade[t].pnl ELSE 0])

Pnl(lots, open, close) == lots * (close - open)

(* settlementFor: a position without a live price settles flat, at its open. *)
ClosePrice(t, px) == IF px = Null THEN trade[t].open ELSE px

(* Row t closed at price px, its PnL computed from the given lots; cancelled. *)
Closed(t, lots, px) ==
  [trade[t] EXCEPT !.status = "closed", !.close = ClosePrice(t, px),
                   !.pnl = Pnl(lots, trade[t].open, ClosePrice(t, px))]

Cancelled(t) == [trade[t] EXCEPT !.status = "cancelled"]
-----------------------------------------------------------------------------
(* Sessions and row locks. *)

At(p, where)   == session[p].pc = where
Runs(p, ops)   == session[p].op \in ops
IsFree(r)      == lock[r] = Null
Taking(p, R)   == lock' = [r \in Row |-> IF r \in R THEN p ELSE lock[r]]
Become(p, job) == session' = [session EXCEPT ![p] = job]
Goto(p, where) == Become(p, [session[p] EXCEPT !.pc = where])

Begin(p, job) ==
  /\ job.op \in Ops
  /\ At(p, "idle")
  /\ Become(p, job)
  /\ UNCHANGED <<tables, lock>>

(* COMMIT and ROLLBACK both end the transaction and free every lock of it. *)
EndTransaction(p) ==
  /\ lock' = [r \in Row |-> IF lock[r] = p THEN Null ELSE lock[r]]
  /\ Become(p, Idle)

(* Fault: an early return that forgets ROLLBACK before the client is released. *)
GiveUpHoldingLocks(p) ==
  Become(p, Idle) /\ UNCHANGED <<tables, lock>>

GiveUp(p) == EndTransaction(p) /\ UNCHANGED tables
-----------------------------------------------------------------------------
(* Closing from a snapshot.  checkSLTP and closeTriggeredTrades read the   *)
(* open rows of active accounts, batch-action and weekend close any open   *)
(* row; the size they settle is the one read here.                         *)

Snapshots == {"trigger", "batch"}
Closers   == Snapshots \cup {"close"}

TriggerClose(p, S, px) ==
  /\ S # {}
  /\ \A t \in S : trade[t].status = "open" /\ status[AccountOf[t]] = "active"
  /\ Begin(p, [Idle EXCEPT !.op = "trigger", !.pc = "lock", !.rows = S,
                           !.seen = Lots, !.price = px])

BatchClose(p, t, px) ==
  /\ trade[t].status = "open"
  /\ Begin(p, [Idle EXCEPT !.op = "batch", !.pc = "lock", !.rows = {t},
                           !.seen = Lots, !.price = px])

(* closeTradeHandler: the pre-flight read, the price and the lots asked for. *)
ManualClose(p, t, px, n) ==
  /\ trade[t].status = "open"
  /\ Begin(p, [Idle EXCEPT !.op = "close", !.pc = "lock", !.rows = {t},
                           !.price = px, !.ask = n])

(* Fault: the rows are read without SKIP LOCKED or any lock. *)
LockRowsUnlocked(p) ==
  LET owned == {t \in session[p].rows : trade[t].status = "open"}
  IN /\ At(p, "lock") /\ Runs(p, Closers)
     /\ IF owned = {}
        THEN GiveUp(p)
        ELSE /\ Become(p, [session[p] EXCEPT !.pc = "balance", !.rows = owned,
                  !.seen = Lots, !.want = {AccountOf[t] : t \in owned}])
             /\ UNCHANGED <<tables, lock>>

(* SELECT ... WHERE status = 'open' FOR UPDATE SKIP LOCKED, and the UPDATE  *)
(* of the rows so obtained.  Only the manual close reads the row again.     *)
LockRows(p) ==
  LET owned == {t \in session[p].rows : trade[t].status = "open" /\ IsFree(t)}
      sane  == session[p].op = "close" =>
                 \A t \in owned : session[p].ask <= trade[t].lots
  IN /\ At(p, "lock") /\ Runs(p, Closers)
     /\ IF owned = {} \/ ~sane
        THEN GiveUp(p)
        ELSE /\ Taking(p, owned)
             /\ Become(p, [session[p] EXCEPT !.pc = "balance", !.rows = owned,
                  !.seen = IF session[p].op = "close" THEN Lots ELSE @,
                  !.want = {AccountOf[t] : t \in owned}])
             /\ UNCHANGED tables

(* UPDATE accounts SET current_balance = current_balance + pnl: the account *)
(* row is written, so its lock is waited for.                               *)
LockBalance(p, a) ==
  /\ At(p, "balance")
  /\ a \in session[p].want
  /\ IsFree(a)
  /\ Taking(p, {a})
  /\ Become(p, [session[p] EXCEPT !.want = @ \ {a}])
  /\ UNCHANGED tables

(* The rows of C closed and credited, the orders of D cancelled. *)
Settle(C, D, lots, px) ==
  /\ trade'  = [t \in Trades |-> IF t \in C THEN Closed(t, lots[t], px)
                                 ELSE IF t \in D THEN Cancelled(t) ELSE trade[t]]
  /\ credit' = [t \in Trades |-> IF t \in C THEN credit[t] + Closed(t, lots[t], px).pnl
                                            ELSE credit[t]]

CommitClose(p) ==
  /\ At(p, "balance") /\ session[p].want = {}
  /\ session[p].op = "close" =>
       \A t \in session[p].rows : session[p].ask = session[p].seen[t]
  /\ Settle(session[p].rows, {}, session[p].seen, session[p].price)
  /\ UNCHANGED <<status, failures>>
  /\ EndTransaction(p)

(* A partial close books the closed lots on a new row and leaves the rest open. *)
CommitPartialClose(p, t, child) ==
  LET n == session[p].ask
      part == [trade[t] EXCEPT !.lots = n, !.sibling = Null]
      px == session[p].price
      pnl == Pnl(n, trade[t].open, px)
  IN /\ At(p, "balance") /\ session[p].want = {} /\ Runs(p, {"close"})
     /\ t \in session[p].rows /\ n < session[p].seen[t]
     /\ trade[child] = Absent /\ AccountOf[child] = AccountOf[t]
     /\ trade' = [trade EXCEPT ![t].lots = @ - n,
          ![child] = [part EXCEPT !.status = "closed", !.close = px, !.pnl = pnl]]
     /\ credit' = [credit EXCEPT ![child] = @ + pnl]
     /\ UNCHANGED <<status, failures>>
     /\ EndTransaction(p)
-----------------------------------------------------------------------------
(* Ending an account.  tradeEngine's autoCloseAndFail and autoCloseAndPass, *)
(* challengeEngine's failAccount, expireAccount and passAccount.            *)

AutoClosers     == {"autoFail", "autoPass"}
Realised == {"failRealised", "expire"}
Outcome  == [op \in {"autoFail", "autoPass", "failRealised", "expire", "pass"} |->
               IF op \in {"autoFail", "failRealised"} THEN "failed"
               ELSE IF op = "expire" THEN "expired" ELSE "passed"]

EndAccount(p, op, a, px) ==
  /\ status[a] = "active"
  /\ Begin(p, [Idle EXCEPT !.op = op, !.pc = "lockAccount", !.acct = a, !.price = px])

(* Fault: the account is checked but its row is not locked. *)
LockAccountUnlocked(p) ==
  /\ At(p, "lockAccount")
  /\ IF status[session[p].acct] = "active"
     THEN /\ Goto(p, IF session[p].op = "pass" THEN "count" ELSE "selectOpen")
          /\ UNCHANGED <<tables, lock>>
     ELSE GiveUp(p)

(* Fault: the status read before the transaction is trusted under the lock. *)
LockAccountUnchecked(p) ==
  LET a == session[p].acct
  IN /\ At(p, "lockAccount")
     /\ IF IsFree(a)
        THEN /\ Taking(p, {a})
             /\ Goto(p, IF session[p].op = "pass" THEN "count" ELSE "selectOpen")
             /\ UNCHANGED tables
        ELSE GiveUp(p)

LockAccount(p) ==
  LET a == session[p].acct
  IN /\ At(p, "lockAccount")
     /\ IF status[a] = "active" /\ IsFree(a)
        THEN /\ Taking(p, {a})
             /\ Goto(p, IF session[p].op = "pass" THEN "count" ELSE "selectOpen")
             /\ UNCHANGED tables
        ELSE GiveUp(p)

(* The open rows: FOR UPDATE in tradeEngine, a plain SELECT in challengeEngine. *)
SelectOpen(p) ==
  /\ At(p, "selectOpen")
  /\ Become(p, [session[p] EXCEPT !.pc = "waitOpen", !.seen = Lots,
                                 !.want = RowsOf(session[p].acct, "open")])
  /\ UNCHANGED <<tables, lock>>

(* FOR UPDATE re-reads a row it had to wait for; challengeEngine's UPDATE   *)
(* trades ... WHERE id = $1 writes whatever the row has become.             *)
WaitOpen(p, t) ==
  /\ At(p, "waitOpen")
  /\ t \in session[p].want
  /\ IsFree(t)
  /\ IF Runs(p, Realised) \/ trade[t].status = "open"
     THEN /\ Taking(p, {t})
          /\ Become(p, [session[p] EXCEPT !.want = @ \ {t}, !.rows = @ \cup {t},
               !.seen[t] = IF Runs(p, Realised) THEN @ ELSE trade[t].lots])
     ELSE /\ Become(p, [session[p] EXCEPT !.want = @ \ {t}])
          /\ UNCHANGED lock
  /\ UNCHANGED tables

(* expireAccount catches what calculatePnL throws for want of a USD rate and *)
(* goes on with the next row; the others roll back.                          *)
SkipUnpriced(p, t) ==
  /\ At(p, "waitOpen") /\ Runs(p, {"expire"})
  /\ t \in session[p].want /\ session[p].price # Null
  /\ Become(p, [session[p] EXCEPT !.want = @ \ {t}])
  /\ UNCHANGED <<tables, lock>>

(* UPDATE trades SET status = 'cancelled' WHERE ... AND status = 'pending'. *)
SelectPending(p) ==
  /\ At(p, "waitOpen") /\ session[p].want = {}
  /\ Become(p, [session[p] EXCEPT !.pc = "waitPending",
                                 !.want = RowsOf(session[p].acct, "pending")])
  /\ UNCHANGED <<tables, lock>>

(* Fault: a sibling another session holds is skipped, not waited for. *)
WaitPendingSkipLocked(p, t) ==
  /\ At(p, "waitPending")
  /\ t \in session[p].want
  /\ IF IsFree(t) /\ trade[t].status = "pending"
     THEN /\ Taking(p, {t})
          /\ Become(p, [session[p] EXCEPT !.want = @ \ {t}, !.drop = @ \cup {t}])
     ELSE /\ Become(p, [session[p] EXCEPT !.want = @ \ {t}])
          /\ UNCHANGED lock
  /\ UNCHANGED tables

WaitPending(p, t) ==
  /\ At(p, "waitPending")
  /\ t \in session[p].want
  /\ IsFree(t)
  /\ IF trade[t].status = "pending"
     THEN /\ Taking(p, {t})
          /\ Become(p, [session[p] EXCEPT !.want = @ \ {t}, !.drop = @ \cup {t}])
     ELSE /\ Become(p, [session[p] EXCEPT !.want = @ \ {t}])
          /\ UNCHANGED lock
  /\ UNCHANGED tables

CommitOutcome(p) ==
  LET s == session[p]
  IN /\ At(p, "waitPending") /\ s.want = {} /\ Runs(p, AutoClosers \cup Realised)
     /\ Settle(s.rows, s.drop, s.seen, s.price)
     /\ status' = [status EXCEPT ![s.acct] = Outcome[s.op]]
     /\ failures' = IF Outcome[s.op] = "failed" THEN failures + 1 ELSE failures
     /\ EndTransaction(p)

(* passAccount re-reads the profit and counts the open rows under the lock, *)
(* settles nothing and leaves pending orders alone.                         *)
CountOpen(p) ==
  LET a == session[p].acct
  IN /\ At(p, "count")
     /\ IF Balance(a) - Starting < Target \/ RowsOf(a, "open") # {}
        THEN GiveUp(p)
        ELSE Goto(p, "commit") /\ UNCHANGED <<tables, lock>>

CommitPass(p) ==
  /\ At(p, "commit") /\ Runs(p, {"pass"})
  /\ status' = [status EXCEPT ![session[p].acct] = "passed"]
  /\ UNCHANGED <<trade, credit, failures>>
  /\ EndTransaction(p)
-----------------------------------------------------------------------------
(* Pending orders: fillPendingOrder, cancelPendingOrder, cancelTradeHandler. *)

FillPending(p, t, px) ==
  /\ trade[t].status = "pending" /\ status[AccountOf[t]] = "active"
  /\ Begin(p, [Idle EXCEPT !.op = "fill", !.pc = "lock", !.rows = {t}, !.price = px])

LockOrder(p) ==
  /\ At(p, "lock") /\ Runs(p, {"fill"})
  /\ IF \A t \in session[p].rows : trade[t].status = "pending" /\ IsFree(t)
     THEN Taking(p, session[p].rows) /\ Goto(p, "validate") /\ UNCHANGED tables
     ELSE GiveUp(p)

(* validatePendingTrigger: the order dies when it would exceed the cap;     *)
(* otherwise the OCO sibling is cancelled with it.                          *)
ValidateOrder(p, t) ==
  /\ At(p, "validate") /\ t \in session[p].rows
  /\ IF Cardinality(Exposure(AccountOf[t]) \ {t}) + 1 > MaxOpen
     THEN Become(p, [session[p] EXCEPT !.pc = "commit", !.rows = {}, !.drop = {t}])
     ELSE Become(p, [session[p] EXCEPT !.pc = "waitPending",
            !.want = {u \in Trades : u = trade[t].sibling
                                        /\ trade[u].status = "pending"}])
  /\ UNCHANGED <<tables, lock>>

CommitFill(p) ==
  LET s == session[p]
  IN /\ At(p, "waitPending") /\ s.want = {} /\ Runs(p, {"fill"})
     /\ trade' = [t \in Trades |->
          IF t \in s.rows THEN [trade[t] EXCEPT !.status = "open", !.open = s.price]
          ELSE IF t \in s.drop THEN Cancelled(t) ELSE trade[t]]
     /\ UNCHANGED <<status, credit, failures>>
     /\ EndTransaction(p)

CommitRefusal(p) ==
  /\ At(p, "commit") /\ Runs(p, {"fill"})
  /\ trade' = [t \in Trades |-> IF t \in session[p].drop THEN Cancelled(t) ELSE trade[t]]
  /\ UNCHANGED <<status, credit, failures>>
  /\ EndTransaction(p)

(* The engine cancels an order whose account is no longer active or whose   *)
(* phase has expired, the trader any of theirs, from a row read earlier.    *)
DecideCancel(p, op, t) ==
  /\ trade[t].status = "pending"
  /\ Begin(p, [Idle EXCEPT !.op = op, !.pc = "update", !.rows = {t}])

(* cancelPendingOrder: UPDATE ... WHERE id = $2, whatever the status. *)
CancelDead(p, t) ==
  /\ At(p, "update") /\ Runs(p, {"cancelDead"})
  /\ t \in session[p].rows /\ IsFree(t)
  /\ trade' = [trade EXCEPT ![t] = Cancelled(t)]
  /\ UNCHANGED <<status, credit, failures>>
  /\ EndTransaction(p)

(* cancelTradeHandler: UPDATE ... WHERE id = $1 AND status = 'pending'. *)
CancelByTrader(p, t) ==
  /\ At(p, "update") /\ Runs(p, {"cancel"})
  /\ t \in session[p].rows /\ IsFree(t)
  /\ trade' = IF trade[t].status = "pending"
              THEN [trade EXCEPT ![t] = Cancelled(t)] ELSE trade
  /\ UNCHANGED <<status, credit, failures>>
  /\ EndTransaction(p)
-----------------------------------------------------------------------------
(* Opening: openTradeHandler, a market order, a pending order or an OCO pair. *)

(* Bound: a request starts only while Trades holds a new row for each insert *)
(* of its own and of the requests under way.                                 *)
RowsLeft(op) ==
  LET Running(ops) == {q \in Procs : Runs(q, ops)}
      unused == {t \in Trades : trade[t] = Absent}
  IN Cardinality(Running({"market", "order"})) + 2 * Cardinality(Running({"oco"}))
       + (IF op = "oco" THEN 2 ELSE 1) <= Cardinality(unused)

RequestOpen(p, op, a, px) ==
  /\ RowsLeft(op)
  /\ Begin(p, [Idle EXCEPT !.op = op, !.pc = "waitAccount", !.acct = a,
                           !.price = px, !.want = {a}])

(* Fault: the limits are read without FOR UPDATE on the account. *)
LockForOpenUnlocked(p) ==
  /\ At(p, "waitAccount")
  /\ IF status[session[p].acct] = "active"
     THEN /\ Become(p, [session[p] EXCEPT !.pc = "snapshot", !.want = {}])
          /\ UNCHANGED <<tables, lock>>
     ELSE GiveUp(p)

(* SELECT ... WHERE status = 'active' FOR UPDATE waits, then re-reads. *)
LockForOpen(p) ==
  LET a == session[p].acct
  IN /\ At(p, "waitAccount")
     /\ IsFree(a)
     /\ IF status[a] = "active"
        THEN /\ Taking(p, {a})
             /\ Become(p, [session[p] EXCEPT !.pc = "snapshot", !.want = {}])
             /\ UNCHANGED tables
        ELSE GiveUp(p)

(* The pre-trade snapshot and the position cap, read under the account lock. *)
CheckCap(p) ==
  /\ At(p, "snapshot")
  /\ IF MaxOpen > 0 /\ Cardinality(Exposure(session[p].acct)) >= MaxOpen
     THEN GiveUp(p)
     ELSE Goto(p, "commit") /\ UNCHANGED <<tables, lock>>

CommitOpen(p, t) ==
  /\ At(p, "commit") /\ Runs(p, {"market"})
  /\ trade[t] = Absent /\ AccountOf[t] = session[p].acct
  /\ trade' = [trade EXCEPT ![t] = [Absent EXCEPT !.status = "open", !.lots = MaxLots,
                                                  !.open = session[p].price]]
  /\ UNCHANGED <<status, credit, failures>>
  /\ EndTransaction(p)

CommitOrder(p, t) ==
  /\ At(p, "commit") /\ Runs(p, {"order"})
  /\ trade[t] = Absent /\ AccountOf[t] = session[p].acct
  /\ trade' = [trade EXCEPT ![t] = [Absent EXCEPT !.status = "pending", !.lots = MaxLots]]
  /\ UNCHANGED <<status, credit, failures>>
  /\ EndTransaction(p)

CommitOco(p, t, u) ==
  LET leg(other) == [Absent EXCEPT !.status = "pending", !.lots = MaxLots,
                                   !.sibling = other]
  IN /\ At(p, "commit") /\ Runs(p, {"oco"})
     /\ t # u /\ \A r \in {t, u} : trade[r] = Absent /\ AccountOf[r] = session[p].acct
     /\ trade' = [trade EXCEPT ![t] = leg(u), ![u] = leg(t)]
     /\ UNCHANGED <<status, credit, failures>>
     /\ EndTransaction(p)
-----------------------------------------------------------------------------
(* Any statement can fail, a client can die, and Postgres aborts a victim    *)
(* when sessions wait for each other in a circle.  All end in ROLLBACK.      *)

Rollback(p) == ~At(p, "idle") /\ GiveUp(p)

Waiting(p) == session[p].pc \in {"balance", "waitOpen", "waitPending", "waitAccount"}

InKnot(p) == \E Q \in SUBSET Procs :
  /\ p \in Q
  /\ \A q \in Q : /\ Waiting(q) /\ session[q].want # {}
                  /\ \A r \in session[q].want : lock[r] \in Q

DeadlockVictim(p) == InKnot(p) /\ Rollback(p)
-----------------------------------------------------------------------------
Init ==
  /\ status = [a \in Accounts |-> "active"]
  /\ \E px \in Prices : trade = [t \in Trades |->
       IF t \in InitOpen
       THEN [Absent EXCEPT !.status = "open", !.lots = MaxLots, !.open = px]
       ELSE IF t \in InitPending
       THEN [Absent EXCEPT !.status = "pending", !.lots = MaxLots, !.sibling = Sibling[t]]
       ELSE Absent]
  /\ credit = [t \in Trades |-> 0]
  /\ failures = 0
  /\ lock = [r \in Row |-> Null]
  /\ session = [p \in Procs |-> Idle]

StartJob(p) ==
  \/ \E px \in Prices :
       \/ \E S \in SUBSET Trades : TriggerClose(p, S, px)
       \/ \E t \in Trades :
            \/ BatchClose(p, t, px)
            \/ FillPending(p, t, px)
            \/ \E n \in 1..MaxLots : ManualClose(p, t, px, n)
       \/ \E a \in Accounts, op \in {"market", "order", "oco"} : RequestOpen(p, op, a, px)
  \/ \E a \in Accounts, px \in Prices \cup {Null}, op \in DOMAIN Outcome :
       EndAccount(p, op, a, px)
  \/ \E t \in Trades, op \in {"cancelDead", "cancel"} : DecideCancel(p, op, t)

(* The statements that wait for a lock another session may hold. *)
Acquire(p) ==
  \/ \E a \in Accounts : LockBalance(p, a)
  \/ \E t \in Trades : \/ WaitOpen(p, t) \/ WaitPending(p, t)
                       \/ CancelDead(p, t) \/ CancelByTrader(p, t)
  \/ LockForOpen(p)

(* The statements that do not wait. *)
Proceed(p) ==
  \/ LockRows(p) \/ LockAccount(p) \/ LockOrder(p)
  \/ SelectOpen(p) \/ SelectPending(p) \/ CountOpen(p) \/ CheckCap(p)
  \/ CommitClose(p) \/ CommitOutcome(p) \/ CommitPass(p)
  \/ CommitFill(p) \/ CommitRefusal(p)
  \/ \E t \in Trades : ValidateOrder(p, t) \/ CommitOpen(p, t) \/ CommitOrder(p, t)
  \/ \E t, u \in Trades : CommitPartialClose(p, t, u) \/ CommitOco(p, t, u)

Next == \E p \in Procs :
  \/ StartJob(p) \/ Acquire(p) \/ Proceed(p) \/ Rollback(p)
  \/ \E t \in Trades : SkipUnpriced(p, t)

Spec == Init /\ [][Next]_vars

(* Node and Postgres run every statement that can run; waiters for a row    *)
(* lock are granted it in turn; the deadlock detector aborts a victim.      *)
Fairness == \A p \in Procs : /\ WF_vars(Proceed(p))
                             /\ SF_vars(Acquire(p))
                             /\ WF_vars(DeadlockVictim(p))

FairSpec == Spec /\ Fairness
-----------------------------------------------------------------------------
(* Properties. *)

(* Every variable keeps the shape of its table, and a position has a price  *)
(* and, while it is open, a size.                                           *)
TypeOK ==
  /\ status \in [Accounts -> AccountStatus]
  /\ trade \in [Trades -> TradeRow]
  /\ \A t \in Trades : /\ trade[t].status = "open" => trade[t].lots > 0
                       /\ trade[t].status \in {"open", "closed"} => trade[t].open # Null
  /\ credit \in [Trades -> Int]
  /\ failures \in Nat
  /\ lock \in [Row -> Procs \cup {Null}]
  /\ session \in [Procs -> Job]

(* The ledger identity of domain/account.js:6-10 for trading: an account's  *)
(* current_balance is its starting balance plus the PnL of its booked rows, *)
(* whichever of the closers, auto-closers and challenge engine race.        *)
LedgerBalanced == \A a \in Accounts : Balance(a) = BookedBalance(a)

(* No row is settled twice: once a position's PnL and close price are       *)
(* written, no later transaction changes them.                              *)
SettledOnce == [][\A t \in Trades : Booked(t) =>
                    trade'[t].pnl = trade[t].pnl /\ trade'[t].close = trade[t].close]_vars

(* bbook_pnl counts each failed account once, though three loops can fail it. *)
FailureCounted == failures = Cardinality({a \in Accounts : status[a] = "failed"})

(* An account leaves 'active' at most once; no outcome overwrites another. *)
OutcomeFinal == [][\A a \in Accounts : status[a] # "active" => status'[a] = status[a]]_vars

(* Of two OCO orders at most one is ever filled, though both can trigger on *)
(* the same tick in two sessions.                                           *)
Filled(t) == trade[t].open # Null
OcoExclusive == \A t, u \in Trades :
  trade[t].sibling = u /\ Filled(t) => ~Filled(u) \/ u = t

(* Requests and fills racing for the last slot never commit an account to   *)
(* more than max_open_positions: the legs of an OCO pair count as one, for  *)
(* only one of them can become a position.                                  *)
Commitments(a) == {{t, trade[t].sibling} : t \in Exposure(a)}
CapHolds == MaxOpen > 0 => \A a \in Accounts : Cardinality(Commitments(a)) <= MaxOpen

(* A row's booked PnL is that of the row's lots between its two prices.     *)
PnlMatchesRow == \A t \in Trades : Booked(t) =>
  trade[t].pnl = Pnl(trade[t].lots, trade[t].open, trade[t].close)

(* An account that has ended has no open position left. *)
NoOrphanPosition == \A a \in Accounts : status[a] # "active" => RowsOf(a, "open") = {}

(* A cancelled row is an order that was never filled. *)
CancelledUnfilled == \A t \in Trades : trade[t].status = "cancelled" => ~Filled(t)

(* Every transaction ends, and with it every row lock is given back. *)
TransactionsEnd == \A p \in Procs : ~At(p, "idle") ~> At(p, "idle")
=============================================================================
