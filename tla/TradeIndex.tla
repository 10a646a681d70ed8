----------------------------- MODULE TradeIndex -----------------------------
(***************************************************************************)
(* The in-memory index of open trades, pending orders and active accounts  *)
(* that the price-tick path of the trade engine works from                 *)
(* (utils/tradeIndex.ts), and everything that keeps it in step with the    *)
(* database: the synchronisation calls of the engine and of the HTTP       *)
(* routes (services/tradeIndexSync.ts when the HTTP role runs in another   *)
(* process), the price tick, and the reconciliation that rereads the       *)
(* database every thirty seconds.                                          *)
(*                                                                         *)
(* A reconciliation awaits each of its queries, so a pass is a sequence of *)
(* steps: the database answers (Read...), and later the process applies    *)
(* the answer it got (Apply...).  Between them the routes commit, calls    *)
(* are applied and ticks run.                                              *)
(*                                                                         *)
(* Money is kept by component.  The balance of an account, its realised    *)
(* total of the day and its floating profit are sums over its trades in    *)
(* the code; here each is a function from trades to what that trade adds.  *)
(* One price per trade stands for its instrument, and lots, stops and      *)
(* levels are left out: a stop that fires is a choice of the tick.         *)
(***************************************************************************)
EXTENDS Integers, FiniteSets

CONSTANTS
  Trades,      \* rows of the trades table
  Accounts,    \* rows of the accounts table
  AccountOf,   \* the account of each trade
  Passes,      \* reconciliation passes that may be under way at a time
  Pnls,        \* floating results the market can give a trade
  Null,        \* SQL and JavaScript null
  Own,         \* of a balance: the caller adds to what it finds cached
  Unread,      \* of a query: not asked yet
  CanLock,     \* accounts that a rule or an administrator may lock
  CanRestore,  \* those of them that may become active again
  MaxWrites,   \* bound: writes of the routes and the engine, price moves
  MaxFaults    \* bound: lost messages, failed queries and ticks, restarts

ASSUME TradeIndexAssumption ==
  /\ AccountOf \in [Trades -> Accounts]
  /\ Passes \cap {"older", "absent"} = {}
  /\ Pnls \subseteq Int
  /\ {Null, Own, Unread} \cap ([Trades -> Int] \cup Int) = {}
  /\ Null # Unread /\ Null # Own
  /\ CanRestore \subseteq CanLock /\ CanLock \subseteq Accounts
  /\ MaxWrites \in Nat /\ MaxFaults \in Nat

VARIABLES
  split,     \* is the HTTP role a process of its own (ROLE=api, ROLE=engine)?
  row,       \* trades: status of each row
  account,   \* accounts: [active, realised] of each row
  market,    \* what each trade would realise at the current price
  watched,   \* _byId: [stamp, last] of each trade
  waiting,   \* _pendingById: the stamp of each order
  cached,    \* _byAccount: the entry of each account
  current,   \* the pass that raised _reconcileGeneration last
  mode,      \* is the index ready: "boot", "armed", or "off" for good
  pass,      \* where each reconciliation pass is and what it has read
  tick,      \* where the price tick is and the trades it closes
  changed,   \* instruments whose price moved and no tick has scanned
  calls,     \* synchronisation calls made and not applied yet
  local,     \* the HTTP process's own cached balance of each account
  writes, faults,
  alone,     \* history: the pass that has run alone since it began, with no
             \* account restored since
  late,      \* history: accounts whose entry was made when the index already
             \* valued a trade of theirs, until a pass revalues them
  mixed      \* history: has a pass overlapped another, or an account been
             \* restored, since the process began

history == <<alone, late, mixed>>
vars    == <<split, row, account, market, watched, waiting, cached, current,
             mode, pass, tick, changed, calls, local, writes, faults, history>>

Zero   == [t \in Trades |-> 0]
Money  == [Trades -> Int]
Stamps == Passes \cup {"older", "absent"}
Book(a) == {t \in Trades : AccountOf[t] = a}

NoEntry == [stamp |-> "absent", balance |-> Zero, today |-> Zero,
            floating |-> Zero, ids |-> {}, orders |-> {}]
NoTrade == [stamp |-> "absent", last |-> 0]
NoPass  == [pc |-> "idle", accts |-> {}, balances |-> [a \in Accounts |-> Zero],
            rows |-> {}, needs |-> {}]
NoTick  == [pc |-> "idle", pnls |-> Zero, hit |-> {}]

\* The account of a call, the trade, what it realised and what is known of
\* the balance: an amount, Own or Null.  "found" is the answer of ensureAccountLoaded's query.
Call(type, a, t, pnl, balance) ==
  [type |-> type, account |-> a, trade |-> t, pnl |-> pnl,
   balance |-> balance, found |-> Unread]

Kinds == {"open", "pending", "closed", "filled", "swept", "cancelled", "ended"}
Remote(c) == split /\ c.type \in {"open", "pending", "closed"}

Indexed(t) == watched[t].stamp # "absent"
Queued(t)  == waiting[t] # "absent"
Loaded(a)  == cached[a].stamp # "absent"
Live(t)    == row[t] = "open" /\ account[AccountOf[t]].active

StateOK ==
  /\ split \in BOOLEAN
  /\ row \in [Trades -> {"none", "pending", "open", "closed"}]
  /\ account \in [Accounts -> [active : BOOLEAN, realised : Money]]
  /\ market \in [Trades -> Pnls]
  /\ watched \in [Trades -> [stamp : Stamps, last : Int]]
  /\ waiting \in [Trades -> Stamps]
  /\ cached \in [Accounts -> [stamp : Stamps, balance : Money, today : Money,
                              floating : Money, ids : SUBSET Trades,
                              orders : SUBSET Trades]]
  /\ current \in Passes \cup {"older"}
  /\ mode \in {"boot", "armed", "off"}
  /\ pass \in [Passes -> [pc : {"idle", "accounts", "gotAccounts", "trades",
                                "gotTrades", "pending", "gotPending",
                                "realized", "gotRealized"},
                          accts : SUBSET Accounts,
                          balances : [Accounts -> Money],
                          rows : SUBSET Trades, needs : SUBSET Accounts]]
  /\ tick \in [pc : {"idle", "act", "sync"}, pnls : Money, hit : SUBSET Trades]
  /\ changed \subseteq Trades
  /\ calls \subseteq [type : Kinds, account : Accounts, trade : Trades \cup {Null},
                      pnl : Int \cup {Null}, balance : Money \cup {Own, Null},
                      found : Money \cup {Unread, Null}]
  /\ local \in [Accounts -> Money \cup {Null}]
  /\ writes \in 0..MaxWrites /\ faults \in 0..MaxFaults

HistoryOK == alone \subseteq Passes /\ late \subseteq Accounts /\ mixed \in BOOLEAN
TypeOK    == StateOK /\ HistoryOK

Init ==
  /\ split \in BOOLEAN
  /\ row \in [Trades -> {"none", "pending", "open"}]
  /\ account = [a \in Accounts |-> [active |-> TRUE, realised |-> Zero]]
  /\ market \in [Trades -> Pnls]
  /\ watched = [t \in Trades |-> NoTrade]
  /\ waiting = [t \in Trades |-> "absent"]
  /\ cached = [a \in Accounts |-> NoEntry]
  /\ current = "older" /\ mode = "boot"
  /\ pass = [p \in Passes |-> NoPass] /\ tick = NoTick /\ changed = {}
  /\ calls = {} /\ local = [a \in Accounts |-> Null]
  /\ writes = 0 /\ faults = 0
  /\ alone = {} /\ late = {} /\ mixed = FALSE

-----------------------------------------------------------------------------
(* Entries of the index, and what an operation does to one.                 *)

\* What trade t adds to a sum kept by component.
Plus(sum, t, d) == [sum EXCEPT ![t] = @ + d]

\* account.floatingPnl += d for the account's entry, when there is one.
Floated(e, t, d) ==
  IF e.stamp = "absent" THEN e ELSE [e EXCEPT !.floating = Plus(@, t, d)]

\* upsertAccount: the row's columns over what the entry has accumulated.
UpsertedOnce(e, balance, stamp) ==
  [e EXCEPT !.balance = IF e.stamp = "absent" THEN balance ELSE @, !.stamp = stamp]
Upserted(e, balance, stamp) == [e EXCEPT !.balance = balance, !.stamp = stamp]

\* addOpenTradeToIndex: a fresh entry valued at the current price; the one it
\* replaces is withdrawn from the account's floating total first.
WatchOlder(t) == [stamp |-> "older", last |-> market[t]]
Watch(t) == [stamp |-> current, last |-> market[t]]
AddedTwice(e, t) ==
  IF e.stamp = "absent" THEN e
  ELSE [Floated(e, t, market[t]) EXCEPT !.ids = @ \cup {t}]
Added(e, t) ==
  IF e.stamp = "absent" THEN e
  ELSE [Floated(e, t, market[t] - watched[t].last) EXCEPT !.ids = @ \cup {t}]

\* removeTrade and removePending, as they change the account's entry.
Removed(e, t) ==
  IF e.stamp = "absent" \/ ~Indexed(t) THEN e
  ELSE [Floated(e, t, -watched[t].last) EXCEPT !.ids = @ \ {t}]
Unqueued(e, t) == IF Queued(t) THEN [e EXCEPT !.orders = @ \ {t}] ELSE e

\* applyRealizedPnl and updateAccountBalance.
Realised(e, t, pnl) ==
  IF e.stamp = "absent" \/ pnl = Null THEN e
  ELSE [e EXCEPT !.today = Plus(@, t, pnl)]
Rebalanced(e, c) ==
  IF e.stamp = "absent" \/ c.balance = Null THEN e
  ELSE [e EXCEPT !.balance = IF c.balance = Own THEN Plus(@, c.trade, c.pnl)
                             ELSE c.balance]

-----------------------------------------------------------------------------
(* The routes.  Each commits, and then makes its synchronisation call.      *)

Write == writes < MaxWrites /\ writes' = writes + 1

\* The balance a route publishes is the one its own process has cached; only
\* ensureAccountLoaded puts an account into the index of the HTTP role.
Published(t, pnl) ==
  LET mine == local[AccountOf[t]]
  IN IF ~split THEN Own ELSE IF mine = Null THEN Null ELSE Plus(mine, t, pnl)

\* What the HTTP process's own index holds after syncing a trade locally.
Localised(t, pnl, loads) ==
  LET a == AccountOf[t]
  IN local' = IF ~split THEN local
              ELSE IF local[a] # Null THEN [local EXCEPT ![a] = Plus(@, t, pnl)]
              ELSE IF loads /\ account[a].active
                   THEN [local EXCEPT ![a] = account'[a].realised]
              ELSE local

Earn(t) == account' = [account EXCEPT ![AccountOf[t]].realised =
                                         Plus(@, t, market[t])]

Untouched == UNCHANGED <<split, market, watched, waiting, cached, current, mode,
                         pass, tick, changed, faults>>
RouteUnchanged == Untouched /\ UNCHANGED history

\* POST /open and POST /open with a pending type.
Open(t) ==
  /\ Write /\ row[t] = "none" /\ account[AccountOf[t]].active
  /\ \E how \in {"open", "pending"} :
       /\ row' = [row EXCEPT ![t] = how]
       /\ calls' = calls \cup {Call(how, AccountOf[t], t, Null, Null)}
  /\ UNCHANGED account /\ Localised(t, 0, TRUE) /\ RouteUnchanged

\* PUT /modify and the batch break-even: the row is indexed again.
Modify(t) ==
  /\ Write /\ row[t] \in {"open", "pending"}
  /\ calls' = calls \cup {Call(row[t], AccountOf[t], t, Null, Null)}
  /\ UNCHANGED <<row, account>> /\ Localised(t, 0, TRUE) /\ RouteUnchanged

\* POST /close for a part of the lots: the rest is indexed again.
ClosePart(t) ==
  /\ Write /\ row[t] = "open" /\ account[AccountOf[t]].active
  /\ Earn(t)
  /\ calls' = calls \cup {Call("open", AccountOf[t], t, market[t],
                               Published(t, market[t]))}
  /\ UNCHANGED row /\ Localised(t, market[t], TRUE) /\ RouteUnchanged

\* POST /close for all of the trade.
Close(t) ==
  /\ Write /\ row[t] = "open" /\ account[AccountOf[t]].active
  /\ row' = [row EXCEPT ![t] = "closed"] /\ Earn(t)
  /\ calls' = calls \cup {Call("closed", AccountOf[t], t, market[t],
                               Published(t, market[t]))}
  /\ Localised(t, market[t], FALSE) /\ RouteUnchanged

\* POST /cancel removes the order from the index of its own process and tells
\* no other.
Cancel(t) ==
  /\ Write /\ row[t] = "pending"
  /\ row' = [row EXCEPT ![t] = "closed"]
  /\ calls' = IF split THEN calls
              ELSE calls \cup {Call("cancelled", AccountOf[t], t, Null, Null)}
  /\ UNCHANGED <<account, local>> /\ RouteUnchanged

-----------------------------------------------------------------------------
(* The engine's own transactions, on the tick or on their intervals.        *)

\* The schedulers start when the boot of the index is over, well or not.
Works == mode # "boot" /\ Write
EngineUnchanged == UNCHANGED local /\ RouteUnchanged

\* fillPendingOrder.
Fill(t) ==
  /\ Works /\ row[t] = "pending" /\ account[AccountOf[t]].active
  /\ row' = [row EXCEPT ![t] = "open"]
  /\ calls' = calls \cup {Call("filled", AccountOf[t], t, Null, Null)}
  /\ UNCHANGED account /\ EngineUnchanged

\* checkSLTP: the interval that closes from the rows.
CheckSLTP(t) ==
  /\ Works /\ Live(t)
  /\ row' = [row EXCEPT ![t] = "closed"] /\ Earn(t)
  /\ calls' = calls \cup {Call("swept", AccountOf[t], t, market[t], Null)}
  /\ EngineUnchanged

\* cancelPendingOrder.
CancelPending(t) ==
  /\ Works /\ row[t] = "pending"
  /\ row' = [row EXCEPT ![t] = "closed"]
  /\ calls' = calls \cup {Call("cancelled", AccountOf[t], t, Null, Null)}
  /\ UNCHANGED account /\ EngineUnchanged

\* An account ends: its book is closed with it.  The engine's own outcomes
\* tell the index, the expiry of a challenge does not.
End(a) ==
  /\ Works /\ account[a].active
  /\ row' = [t \in Trades |->
               IF AccountOf[t] = a /\ row[t] \in {"open", "pending"}
               THEN "closed" ELSE row[t]]
  /\ account' = [account EXCEPT ![a] =
       [active |-> FALSE,
        realised |-> [t \in Trades |->
           IF AccountOf[t] = a /\ row[t] = "open"
           THEN account[a].realised[t] + market[t]
           ELSE account[a].realised[t]]]]
  /\ \E told \in BOOLEAN :
       calls' = IF told THEN calls \cup {Call("ended", a, Null, Null, Null)}
                ELSE calls
  /\ EngineUnchanged

\* lock_account of a rule and restore_active of an administrator change the
\* status of the row, keep the trades and tell nobody.
SwitchStatus(a) ==
  /\ Write /\ a \in IF account[a].active THEN CanLock ELSE CanRestore
  /\ account' = [account EXCEPT ![a].active = ~@]
  /\ IF account[a].active THEN UNCHANGED <<alone, mixed>>
                          ELSE alone' = {} /\ mixed' = TRUE
  /\ UNCHANGED <<row, calls, local, late>> /\ Untouched

-----------------------------------------------------------------------------
(* Calls reach the index in any order.                                      *)

CallUnchanged ==
  UNCHANGED <<split, row, account, market, current, mode, pass, tick, changed,
              local, writes, faults, alone, mixed>>

Needs(c) == c.type \in {"open", "pending"} /\ ~Loaded(c.account)

\* ensureAccountLoaded asks the database for an account the index lacks.
Lookup(c) ==
  /\ Needs(c) /\ c.found = Unread
  /\ calls' = (calls \ {c}) \cup
       {[c EXCEPT !.found = IF account[c.account].active
                            THEN account[c.account].realised ELSE Null]}
  /\ UNCHANGED <<watched, waiting, cached, late>> /\ CallUnchanged

\* The entry of the call's account once ensureAccountLoaded has returned.
Ensured(c) ==
  LET e == cached[c.account]
  IN IF c.found \in {Unread, Null} THEN e ELSE Upserted(e, c.found, current)

\* The balance the caller computed: it had no entry to add to if the account
\* was missing when the call was made.
Carried(c) == IF c.found # Unread /\ c.balance = Own
              THEN [c EXCEPT !.balance = Null] ELSE c

Ready(c) == Needs(c) => c.found # Unread

\* syncOpenedTrade, with the realised part of a partial close.
SyncOpened(c) ==
  /\ c.type = "open" /\ Ready(c)
  /\ watched' = [watched EXCEPT ![c.trade] = Watch(c.trade)]
  /\ cached' = [cached EXCEPT ![c.account] =
       Rebalanced(Realised(Added(Ensured(c), c.trade), c.trade, c.pnl),
                  Carried(c))]
  /\ UNCHANGED waiting

\* syncPendingOrder.
SyncPending(c) ==
  /\ c.type = "pending" /\ Ready(c)
  /\ waiting' = [waiting EXCEPT ![c.trade] = current]
  /\ cached' = [cached EXCEPT ![c.account] =
       LET e == Ensured(c)
       IN IF e.stamp = "absent" THEN e ELSE [e EXCEPT !.orders = @ \cup {c.trade}]]
  /\ UNCHANGED watched

\* syncClosedTrade, and the index part of checkSLTP.
SyncClosed(c) ==
  /\ c.type \in {"closed", "swept"}
  /\ watched' = [watched EXCEPT ![c.trade] = NoTrade]
  /\ waiting' = IF c.type = "closed" THEN [waiting EXCEPT ![c.trade] = "absent"]
                ELSE waiting
  /\ cached' = [cached EXCEPT ![c.account] =
       LET e == Removed(@, c.trade)
           f == IF c.type = "closed" THEN Unqueued(e, c.trade) ELSE e
       IN Rebalanced(Realised(f, c.trade, c.pnl), c)]

\* The index part of fillPendingOrder and of cancelPendingOrder.
SyncFilled(c) ==
  /\ c.type \in {"filled", "cancelled"}
  /\ waiting' = [waiting EXCEPT ![c.trade] = "absent"]
  /\ IF c.type = "filled"
     THEN /\ watched' = [watched EXCEPT ![c.trade] = Watch(c.trade)]
          /\ cached' = [cached EXCEPT ![c.account] =
                          Added(Unqueued(@, c.trade), c.trade)]
     ELSE /\ cached' = [cached EXCEPT ![c.account] = Unqueued(@, c.trade)]
          /\ UNCHANGED watched

\* removeAccount takes the trades and orders the entry knows of with it.
SyncEnded(c) ==
  /\ c.type = "ended"
  /\ watched' = [t \in Trades |-> IF t \in cached[c.account].ids
                                  THEN NoTrade ELSE watched[t]]
  /\ waiting' = [t \in Trades |-> IF AccountOf[t] = c.account
                                  THEN "absent" ELSE waiting[t]]
  /\ cached' = [cached EXCEPT ![c.account] = NoEntry]

\* An entry made for an account starts from a floating total of zero.
MakeEntries(made) ==
  late' = (late \ made) \cup
            {a \in made : \E t \in Book(a) : watched[t].last # 0}
Made(c) == IF Needs(c) /\ c.found \notin {Unread, Null} THEN {c.account} ELSE {}

ApplyCall(c) ==
  /\ SyncOpened(c) \/ SyncPending(c) \/ SyncClosed(c) \/ SyncFilled(c)
     \/ SyncEnded(c)
  /\ calls' = calls \ {c}
  /\ MakeEntries(Made(c))
  /\ CallUnchanged

\* A message through Redis that is not delivered: publish fails, or nobody
\* is subscribed at that moment.
Fault == faults < MaxFaults /\ faults' = faults + 1
Lose(c) ==
  /\ Fault /\ Remote(c)
  /\ calls' = calls \ {c}
  /\ UNCHANGED <<split, row, account, market, watched, waiting, cached, current,
                 mode, pass, tick, changed, local, writes, history>>

-----------------------------------------------------------------------------
(* The price tick.                                                          *)

TickUnchanged == UNCHANGED <<split, current, mode, pass, waiting, local, history>>

\* A price moves; onPriceTick collects it while a tick runs and drops it
\* while the index is not ready.
Move(t) ==
  /\ Write
  /\ \E v \in Pnls \ {market[t]} : market' = [market EXCEPT ![t] = v]
  /\ changed' = IF mode = "armed" THEN changed \cup {t} ELSE changed
  /\ UNCHANGED <<row, account, watched, cached, tick, calls, faults>>
  /\ TickUnchanged

\* Phase A of runTick: every watched trade of the instruments that moved is
\* valued again, and the stops of some of them have been crossed.
Scan ==
  /\ tick.pc = "idle" /\ changed # {}
  /\ LET seen == {t \in changed : Indexed(t)}
     IN /\ watched' = [t \in Trades |-> IF t \in seen
                          THEN [watched[t] EXCEPT !.last = market[t]]
                          ELSE watched[t]]
        /\ cached' = [a \in Accounts |->
             IF ~Loaded(a) THEN cached[a]
             ELSE [cached[a] EXCEPT !.floating = [t \in Trades |->
                     IF t \in seen \cap Book(a)
                     THEN @[t] + market[t] - watched[t].last ELSE @[t]]]]
        /\ \E hit \in SUBSET seen :
             tick' = IF hit = {} THEN NoTick
                     ELSE [pc |-> "act", hit |-> hit,
                           pnls |-> [t \in Trades |-> IF t \in hit
                                       THEN market[t] ELSE 0]]
  /\ changed' = {}
  /\ UNCHANGED <<row, account, market, calls, writes, faults>> /\ TickUnchanged

\* closeTriggeredTrades: of the rows still open those it can lock are closed,
\* at the prices of the scan.
TickCommit ==
  /\ tick.pc = "act"
  /\ \E owned \in SUBSET {t \in tick.hit : row[t] = "open"} :
       /\ row' = [t \in Trades |-> IF t \in owned THEN "closed" ELSE row[t]]
       /\ account' = [a \in Accounts |->
            [account[a] EXCEPT !.realised = [t \in Trades |->
               IF t \in owned \cap Book(a) THEN @[t] + tick.pnls[t] ELSE @[t]]]]
       /\ tick' = IF owned = {} THEN NoTick
                  ELSE [tick EXCEPT !.pc = "sync", !.hit = owned]
  /\ UNCHANGED <<market, watched, cached, changed, calls, writes, faults>>
  /\ TickUnchanged

\* Its index part: the trades leave, the account gains what they realised.
TickSync ==
  /\ tick.pc = "sync"
  /\ watched' = [t \in Trades |-> IF t \in tick.hit THEN NoTrade ELSE watched[t]]
  /\ cached' = [a \in Accounts |->
       IF ~Loaded(a) THEN cached[a]
       ELSE LET gone == tick.hit \cap Book(a)
                earned(sum) == [t \in Trades |-> IF t \in gone
                                  THEN sum[t] + tick.pnls[t] ELSE sum[t]]
            IN [cached[a] EXCEPT
                  !.ids = @ \ {t \in gone : Indexed(t)},
                  !.floating = [t \in Trades |-> IF t \in gone
                                  THEN @[t] - watched[t].last ELSE @[t]],
                  !.today = earned(@), !.balance = earned(@)]]
  /\ tick' = NoTick
  /\ UNCHANGED <<row, account, market, changed, calls, writes, faults>>
  /\ TickUnchanged

\* The transaction fails and is rolled back, or the tick itself throws and
\* what was collected meanwhile is dropped with it.
TickFail ==
  /\ Fault /\ tick.pc = "act"
  /\ tick' = NoTick /\ changed' \in {changed, {}}
  /\ UNCHANGED <<row, account, market, watched, cached, calls, writes>>
  /\ TickUnchanged

-----------------------------------------------------------------------------
(* The reconciliation.                                                      *)

PassUnchanged ==
  UNCHANGED <<split, row, account, market, changed, calls, local, writes, tick>>

Active == {a \in Accounts : account[a].active}
At(p, pc) == pass[p].pc = pc
Step(p, pc) == pass' = [pass EXCEPT ![p] = [NoPass EXCEPT !.pc = pc]]

\* A new generation: whatever earlier passes of this slot stamped is older.
Aged(p, stamp) == IF stamp = p THEN "older" ELSE stamp
StartPass(p) ==
  /\ At(p, "idle")
  /\ mode = "armed" \/ (mode = "boot" /\ \A q \in Passes : At(q, "idle"))
  /\ current' = p
  /\ watched' = [t \in Trades |-> [watched[t] EXCEPT !.stamp = Aged(p, @)]]
  /\ waiting' = [t \in Trades |-> Aged(p, waiting[t])]
  /\ cached' = [a \in Accounts |-> [cached[a] EXCEPT !.stamp = Aged(p, @)]]
  /\ Step(p, "accounts")
  /\ IF \A q \in Passes : At(q, "idle") THEN alone' = {p} /\ UNCHANGED mixed
                                      ELSE alone' = {} /\ mixed' = TRUE
  /\ UNCHANGED <<mode, faults, late>> /\ PassUnchanged

ReadAccounts(p) ==
  /\ At(p, "accounts")
  /\ pass' = [pass EXCEPT ![p] = [@ EXCEPT !.pc = "gotAccounts", !.accts = Active,
                 !.balances = [a \in Accounts |-> account[a].realised]]]
  /\ UNCHANGED <<watched, waiting, cached, current, mode, faults, history>>
  /\ PassUnchanged

ApplyAccounts(p) ==
  /\ At(p, "gotAccounts")
  /\ cached' = [a \in Accounts |->
       IF a \in pass[p].accts THEN Upserted(cached[a], pass[p].balances[a], p)
       ELSE cached[a]]
  /\ MakeEntries({a \in pass[p].accts : ~Loaded(a)})
  /\ Step(p, "trades")
  /\ UNCHANGED <<watched, waiting, current, mode, faults, alone, mixed>>
  /\ PassUnchanged

ReadTrades(p) ==
  /\ At(p, "trades")
  /\ pass' = [pass EXCEPT ![p] = [@ EXCEPT !.pc = "gotTrades",
                 !.rows = {t \in Trades : Live(t)}]]
  /\ UNCHANGED <<watched, waiting, cached, current, mode, faults, history>>
  /\ PassUnchanged

\* The accounts of this pass forget their trades and orders; each row is then
\* added as a fresh entry, unvalued until the reseed.
ApplyTrades(p) ==
  /\ At(p, "gotTrades")
  /\ watched' = [t \in Trades |-> IF t \in pass[p].rows
                    THEN [stamp |-> p, last |-> 0] ELSE watched[t]]
  /\ cached' = [a \in Accounts |->
       IF ~Loaded(a) THEN cached[a]
       ELSE LET added == pass[p].rows \cap Book(a)
                mine  == cached[a].stamp = p
            IN [cached[a] EXCEPT
                  !.ids = (IF mine THEN {} ELSE @) \cup added,
                  !.orders = IF mine THEN {} ELSE @,
                  !.floating = [t \in Trades |-> IF t \in added
                                  THEN @[t] - watched[t].last ELSE @[t]]]]
  /\ Step(p, "pending")
  /\ UNCHANGED <<waiting, current, mode, faults, history>> /\ PassUnchanged

ReadPending(p) ==
  /\ At(p, "pending")
  /\ pass' = [pass EXCEPT ![p] = [@ EXCEPT !.pc = "gotPending",
       !.rows = {t \in Trades : row[t] = "pending" /\ account[AccountOf[t]].active}]]
  /\ UNCHANGED <<watched, waiting, cached, current, mode, faults, history>>
  /\ PassUnchanged

\* Evict what carries another stamp: trades, orders, then accounts with the
\* trades and orders they know of; then reseedFloatingPnl revalues the rest.
\* queue and books are the orders and the accounts as the pass leaves them.
Evict(p, queue, books) ==
  LET taken == UNION {books[a].ids : a \in {b \in Accounts : books[b].stamp # p}}
      left  == UNION {books[a].orders : a \in {b \in Accounts : books[b].stamp # p}}
      kept  == {t \in Trades : watched[t].stamp = p} \ taken
      keptQ == {t \in Trades : queue[t] = p} \ left
  IN /\ watched' = [t \in Trades |-> IF t \in kept
                       THEN [stamp |-> p, last |-> market[t]] ELSE NoTrade]
     /\ waiting' = [t \in Trades |-> IF t \in keptQ THEN p ELSE "absent"]
     /\ cached' = [a \in Accounts |->
          IF books[a].stamp # p THEN NoEntry
          ELSE [books[a] EXCEPT
                  !.ids = @ \ {t \in Trades : Indexed(t) /\ t \notin kept},
                  !.orders = @ \ {t \in Trades : queue[t] # "absent"
                                                  /\ t \notin keptQ},
                  !.floating = [t \in Trades |-> IF t \in kept \cap Book(a)
                                                 THEN market[t] ELSE 0]]]
     /\ mode' = "armed" /\ late' = {}
     /\ pass' = [pass EXCEPT ![p] = NoPass]

\* Without accounts whose realised total is unknown the pass ends here.
ApplyPending(p) ==
  /\ At(p, "gotPending")
  /\ LET rows  == pass[p].rows
         queue == [t \in Trades |-> IF t \in rows THEN p ELSE waiting[t]]
         books == [a \in Accounts |->
                     IF ~Loaded(a) THEN cached[a]
                     ELSE [cached[a] EXCEPT !.orders = @ \cup (rows \cap Book(a))]]
         needs == {a \in Accounts : books[a].stamp = p /\ books[a].today = Zero}
     IN IF needs = {} THEN Evict(p, queue, books)
        ELSE /\ waiting' = queue /\ cached' = books
             /\ pass' = [pass EXCEPT ![p] =
                           [NoPass EXCEPT !.pc = "realized", !.needs = needs]]
             /\ UNCHANGED <<watched, mode, late>>
  /\ UNCHANGED <<current, faults, alone, mixed>> /\ PassUnchanged

ReadRealized(p) ==
  /\ At(p, "realized")
  /\ pass' = [pass EXCEPT ![p] = [@ EXCEPT !.pc = "gotRealized",
                 !.balances = [a \in Accounts |-> account[a].realised]]]
  /\ UNCHANGED <<watched, waiting, cached, current, mode, faults, history>>
  /\ PassUnchanged

ApplyRealized(p) ==
  /\ At(p, "gotRealized")
  /\ LET books == [a \in Accounts |->
                     IF a \in pass[p].needs /\ Loaded(a)
                     THEN [cached[a] EXCEPT !.today = pass[p].balances[a]]
                     ELSE cached[a]]
     IN Evict(p, waiting, books)
  /\ UNCHANGED <<current, faults, alone, mixed>> /\ PassUnchanged

\* A query fails.  The index stays as the pass left it; at boot the event
\* path is then never armed.
FailPass(p) ==
  /\ Fault /\ pass[p].pc \in {"accounts", "trades", "pending", "realized"}
  /\ pass' = [pass EXCEPT ![p] = NoPass]
  /\ mode' = IF mode = "boot" THEN "off" ELSE mode
  /\ UNCHANGED <<watched, waiting, cached, current, history>> /\ PassUnchanged

\* The engine's process restarts: its memory and what was on its way are gone.
Restart ==
  /\ Fault
  /\ watched' = [t \in Trades |-> NoTrade]
  /\ waiting' = [t \in Trades |-> "absent"]
  /\ cached' = [a \in Accounts |-> NoEntry]
  /\ current' = "older" /\ mode' = "boot" /\ changed' = {}
  /\ pass' = [p \in Passes |-> NoPass] /\ tick' = NoTick /\ calls' = {}
  /\ alone' = {} /\ late' = {} /\ mixed' = FALSE
  /\ UNCHANGED <<split, row, account, market, local, writes>>

-----------------------------------------------------------------------------
Routes == \E t \in Trades :
  Open(t) \/ Modify(t) \/ ClosePart(t) \/ Close(t) \/ Cancel(t)
Engine ==
  \/ \E t \in Trades : Fill(t) \/ CheckSLTP(t) \/ CancelPending(t) \/ Move(t)
  \/ \E a \in Accounts : End(a) \/ SwitchStatus(a)
Sync == \E c \in calls : Lookup(c) \/ ApplyCall(c)
Tick == Scan \/ TickCommit \/ TickSync
Reconcile(p) ==
  \/ StartPass(p)
  \/ ReadAccounts(p) \/ ApplyAccounts(p)
  \/ ReadTrades(p) \/ ApplyTrades(p)
  \/ ReadPending(p) \/ ApplyPending(p)
  \/ ReadRealized(p) \/ ApplyRealized(p)
Faults ==
  \/ \E c \in calls : Lose(c)
  \/ \E p \in Passes : FailPass(p)
  \/ TickFail \/ Restart

Next == Routes \/ Engine \/ Sync \/ Tick \/ (\E p \in Passes : Reconcile(p)) \/ Faults

\* Calls are applied and queries answered; the interval starts passes; no
\* fairness for the routes, the market or a fault.
Fairness == WF_vars(Sync) /\ WF_vars(Tick) /\ \A p \in Passes : WF_vars(Reconcile(p))
Spec == Init /\ [][Next]_vars /\ Fairness

-----------------------------------------------------------------------------
(* Properties.                                                              *)

\* What the watched trades of an account contribute to its floating total.
SumOf(a) == [t \in Trades |-> IF AccountOf[t] = a THEN watched[t].last ELSE 0]

\* The running total that the tick keeps by deltas is the sum of what the
\* watched trades of the account contribute: no order of additions, removals
\* and reloads counts a position twice or keeps one that left
\* (utils/tradeIndex.ts, addTrade, removeTrade and applyTradePnl).  It is not
\* where the entry was made behind its trades, until a pass ends; that happens
\* to an active account only if passes overlapped, an account was restored or
\* the boot failed.
FloatingSum ==
  \A a \in Accounts : Loaded(a) =>
    \/ cached[a].floating = SumOf(a)
    \/ a \in late /\ (account[a].active => mixed \/ mode = "off")

\* Pass p ends, and an open trade t leaves the index with it.
Evicts(p, t) ==
  /\ pass[p].pc # "idle" /\ pass'[p].pc = "idle" /\ faults' = faults
  /\ Indexed(t) /\ Live(t) /\ watched'[t].stamp = "absent"

\* A pass that ends, and has run alone with no account restored meanwhile,
\* never throws out a trade that is open, whenever during the pass it was
\* opened, filled or indexed again: what the trades query did not see carries
\* the stamp of the pass (utils/tradeIndex.ts, the generation stamps of
\* fullReconcileFromDB).
EvictKeepsOpen ==
  [][\A p \in Passes, t \in Trades : Evicts(p, t) => p \notin alone]_vars

\* The same of every pass.
EvictNeverOpen == [][\A p \in Passes, t \in Trades : ~Evicts(p, t)]_vars

\* What the index should hold of the database.
Synced ==
  /\ \A t \in Trades : Indexed(t) <=> Live(t)
  /\ \A t \in Trades : Queued(t) <=> row[t] = "pending" /\ account[AccountOf[t]].active
  /\ \A a \in Accounts : Loaded(a) <=> account[a].active
  /\ \A t \in Trades : Indexed(t) => watched[t].last = market[t]
  /\ \A a \in Active : /\ cached[a].balance = account[a].realised
                       /\ cached[a].floating = [t \in Trades |->
                            IF Live(t) /\ AccountOf[t] = a THEN market[t] ELSE 0]

\* Between two passes.
Quiet == \A p \in Passes : At(p, "idle")

\* Once the writes stop, every index that is armed comes to agree with the
\* database between two passes and stays so, whatever was lost, reordered or
\* applied twice before (services/tradeIndexSync.ts: the engine's bounded
\* reconcile is the recovery mechanism).
Converges == []<>Quiet /\ <>[](mode # "off" /\ Quiet => Synced)

\* What the cached total of the day should come to be as well.
TodayConverges ==
  <>[](mode # "off" /\ Quiet =>
         \A a \in Active : cached[a].today = account[a].realised)
=============================================================================
