-------------------------- MODULE TradeIndexProofs --------------------------
(***************************************************************************)
(* Theorems about TradeIndex: the index is always well typed; a            *)
(* reconciliation that has run alone, with no account restored meanwhile,  *)
(* never evicts an open trade; and the floating total of an account is the *)
(* sum of its watched trades unless its entry was made behind them.        *)
(***************************************************************************)
EXTENDS TradeIndex, TLAPS

\* Phases of a pass after its accounts, and after its trades, were applied.
AfterAccounts == {"trades", "gotTrades", "pending", "gotPending",
                  "realized", "gotRealized"}
AfterTrades   == {"pending", "gotPending", "realized", "gotRealized"}

\* An account's entry lists trades of that account, and none when it has no entry.
IdsInv == \A a \in Accounts : /\ cached[a].ids \subseteq Book(a)
                              /\ ~Loaded(a) => cached[a].ids = {}

\* A call speaks of a trade of its account, and one that adds to the cached
\* balance says how much.
CallsInv ==
  \A c \in calls :
    /\ c.type # "ended" => c.trade \in Trades /\ c.account = AccountOf[c.trade]
    /\ c.balance = Own => c.type # "ended" /\ c.pnl \in Int

\* What has never been open is in no list of open trades.
Unopened(t) == row[t] \in {"none", "pending"}
UnopenedInv ==
  \A t \in Trades : Unopened(t) =>
    /\ ~Indexed(t)
    /\ \A c \in calls : c.type \in {"open", "filled"} => c.trade # t
    /\ \A p \in Passes : pass[p].pc = "gotTrades" => t \notin pass[p].rows

\* No pass runs beside one that is alone, and it owns the generation.
AloneInv ==
  \A p \in alone, q \in Passes : pass[q].pc # "idle" => q = p /\ current = p

\* Once a pass that runs alone has read and applied the accounts, its stamp is
\* on every active one that has an entry.
AccountsInv ==
  \A p \in alone :
    /\ pass[p].pc = "gotAccounts" => Active \subseteq pass[p].accts
    /\ pass[p].pc \in AfterAccounts =>
         \A a \in Active : Loaded(a) => cached[a].stamp = p

\* A live trade of the index is in the rows it read or has its stamp.
TradesInv ==
  \A p \in alone, t \in Trades : Indexed(t) /\ Live(t) =>
    /\ pass[p].pc = "gotTrades" => t \in pass[p].rows \/ watched[t].stamp = p
    /\ pass[p].pc \in AfterTrades => watched[t].stamp = p

StampInv == IdsInv /\ UnopenedInv /\ AloneInv /\ AccountsInv /\ TradesInv

-----------------------------------------------------------------------------
(* Types.                                                                   *)

Entry == [stamp : Stamps, balance : Money, today : Money, floating : Money,
          ids : SUBSET Trades, orders : SUBSET Trades]

LEMMA ZeroType == Zero \in Money
BY DEF Zero, Money

LEMMA PlusType ==
  ASSUME NEW sum \in Money, NEW t \in Trades, NEW d \in Int
  PROVE  Plus(sum, t, d) \in Money
BY DEF Plus, Money

LEMMA NoEntryType == NoEntry \in Entry /\ NoTrade \in [stamp : Stamps, last : Int]
BY ZeroType DEF NoEntry, NoTrade, Entry, Stamps

LEMMA FloatedType ==
  ASSUME NEW e \in Entry, NEW t \in Trades, NEW d \in Int
  PROVE  /\ Floated(e, t, d) \in Entry
         /\ Floated(e, t, d).stamp = e.stamp
         /\ Floated(e, t, d).ids = e.ids
         /\ Floated(e, t, d).orders = e.orders
<1>1. Plus(e.floating, t, d) \in Money
  BY PlusType DEF Entry
<1>. DEFINE f == Plus(e.floating, t, d)
<1>2. Floated(e, t, d) = IF e.stamp = "absent" THEN e ELSE [e EXCEPT !.floating = f]
  BY DEF Floated
<1>3. f \in Money
  BY <1>1
<1>. HIDE DEF f
<1>. QED
  BY <1>2, <1>3 DEF Entry

LEMMA UpsertedType ==
  ASSUME NEW e \in Entry, NEW b \in Money, NEW s \in Stamps
  PROVE  /\ Upserted(e, b, s) \in Entry
         /\ Upserted(e, b, s).stamp = s
         /\ Upserted(e, b, s).ids = e.ids
BY DEF Upserted, Entry

LEMMA AddedType ==
  ASSUME StateOK, NEW e \in Entry, NEW t \in Trades
  PROVE  /\ Added(e, t) \in Entry
         /\ Added(e, t).stamp = e.stamp
         /\ Added(e, t).ids \subseteq e.ids \cup {t}
         /\ e.stamp = "absent" => Added(e, t).ids = e.ids
<1>1. market[t] - watched[t].last \in Int
  <2>1. market[t] \in Int
    BY TradeIndexAssumption DEF StateOK
  <2>2. watched[t].last \in Int
    BY DEF StateOK
  <2>. QED
    BY <2>1, <2>2
<1>. DEFINE f == Floated(e, t, market[t] - watched[t].last)
<1>2. /\ f \in Entry
      /\ f.stamp = e.stamp
      /\ f.ids = e.ids
  BY <1>1, FloatedType
<1>3. Added(e, t) = IF e.stamp = "absent" THEN e
                    ELSE [f EXCEPT !.ids = @ \cup {t}]
  BY DEF Added
<1>. HIDE DEF f
<1>. QED
  BY <1>2, <1>3 DEF Entry

LEMMA RemovedType ==
  ASSUME StateOK, NEW e \in Entry, NEW t \in Trades
  PROVE  /\ Removed(e, t) \in Entry
         /\ Removed(e, t).stamp = e.stamp
         /\ Removed(e, t).ids \subseteq e.ids
<1>1. -watched[t].last \in Int
  BY DEF StateOK
<1>. DEFINE f == Floated(e, t, -watched[t].last)
<1>2. /\ f \in Entry
      /\ f.stamp = e.stamp
      /\ f.ids = e.ids
  BY <1>1, FloatedType
<1>3. Removed(e, t) = IF e.stamp = "absent" \/ ~Indexed(t) THEN e
                      ELSE [f EXCEPT !.ids = @ \ {t}]
  BY DEF Removed
<1>. HIDE DEF f
<1>. QED
  BY <1>2, <1>3 DEF Entry

LEMMA UnqueuedType ==
  ASSUME NEW e \in Entry, NEW t \in Trades
  PROVE  /\ Unqueued(e, t) \in Entry
         /\ Unqueued(e, t).stamp = e.stamp
         /\ Unqueued(e, t).ids = e.ids
BY DEF Unqueued, Entry

LEMMA RealisedType ==
  ASSUME NEW e \in Entry, NEW t \in Trades, NEW pnl \in Int \cup {Null}
  PROVE  /\ Realised(e, t, pnl) \in Entry
         /\ Realised(e, t, pnl).stamp = e.stamp
         /\ Realised(e, t, pnl).ids = e.ids
<1>1. CASE e.stamp = "absent" \/ pnl = Null
  BY <1>1 DEF Realised
<1>2. CASE ~(e.stamp = "absent" \/ pnl = Null)
  <2>. DEFINE s == Plus(e.today, t, pnl)
  <2>1. s \in Money
    BY <1>2, PlusType DEF Entry
  <2>2. Realised(e, t, pnl) = [e EXCEPT !.today = s]
    BY <1>2 DEF Realised
  <2>. HIDE DEF s
  <2>. QED
    BY <2>1, <2>2 DEF Entry
<1>. QED
  BY <1>1, <1>2

CallSet == [type : Kinds, account : Accounts, trade : Trades \cup {Null},
            pnl : Int \cup {Null}, balance : Money \cup {Own, Null},
            found : Money \cup {Unread, Null}]
RowSet     == [Trades -> {"none", "pending", "open", "closed"}]
AccountSet == [Accounts -> [active : BOOLEAN, realised : Money]]
WatchedSet == [Trades -> [stamp : Stamps, last : Int]]
PassSet == [pc : {"idle", "accounts", "gotAccounts", "trades", "gotTrades",
                  "pending", "gotPending", "realized", "gotRealized"},
            accts : SUBSET Accounts, balances : [Accounts -> Money],
            rows : SUBSET Trades, needs : SUBSET Accounts]
TickSet == [pc : {"idle", "act", "sync"}, pnls : Money, hit : SUBSET Trades]

\* The parts of StateOK, as the proofs of the steps use them.
LEMMA TypeParts ==
  StateOK <=>
    /\ split \in BOOLEAN
    /\ row \in RowSet
    /\ account \in AccountSet
    /\ market \in [Trades -> Pnls]
    /\ watched \in WatchedSet
    /\ waiting \in [Trades -> Stamps]
    /\ cached \in [Accounts -> Entry]
    /\ current \in Passes \cup {"older"}
    /\ mode \in {"boot", "armed", "off"}
    /\ pass \in [Passes -> PassSet]
    /\ tick \in TickSet
    /\ changed \subseteq Trades
    /\ calls \subseteq CallSet
    /\ local \in [Accounts -> Money \cup {Null}]
    /\ writes \in 0..MaxWrites
    /\ faults \in 0..MaxFaults
BY DEF StateOK, Entry, CallSet, RowSet, AccountSet, WatchedSet, PassSet, TickSet

LEMMA MarketType ==
  ASSUME StateOK
  PROVE  \A t \in Trades : market[t] \in Int
BY TradeIndexAssumption DEF StateOK

LEMMA RebalancedType ==
  ASSUME NEW e \in Entry, NEW c \in CallSet,
         c.trade \in Trades, c.balance = Own => c.pnl \in Int
  PROVE  /\ Rebalanced(e, c) \in Entry
         /\ Rebalanced(e, c).stamp = e.stamp
         /\ Rebalanced(e, c).ids = e.ids
<1>1. CASE e.stamp = "absent" \/ c.balance = Null
  BY <1>1 DEF Rebalanced
<1>2. CASE ~(e.stamp = "absent" \/ c.balance = Null)
  <2>. DEFINE b == IF c.balance = Own THEN Plus(e.balance, c.trade, c.pnl)
                   ELSE c.balance
  <2>1. b \in Money
    <3>1. CASE c.balance = Own
      BY <3>1, PlusType DEF Entry
    <3>2. CASE c.balance # Own
      BY <1>2, <3>2 DEF CallSet
    <3>. QED
      BY <3>1, <3>2
  <2>2. Rebalanced(e, c) = [e EXCEPT !.balance = b]
    BY <1>2 DEF Rebalanced
  <2>. HIDE DEF b
  <2>. QED
    BY <2>1, <2>2 DEF Entry
<1>. QED
  BY <1>1, <1>2

-----------------------------------------------------------------------------
TypeInv == StateOK /\ CallsInv

LEMMA TypeInit == Init => TypeInv
<1>. SUFFICES ASSUME Init PROVE TypeInv
  OBVIOUS
<1>1. Zero \in Money
  BY ZeroType
<1>2. NoPass \in PassSet /\ NoTick \in TickSet
  BY <1>1 DEF NoPass, NoTick, PassSet, TickSet
<1>3. account \in AccountSet
  BY <1>1 DEF Init, AccountSet
<1>4. row \in RowSet
  BY DEF Init, RowSet
<1>5. watched \in WatchedSet /\ cached \in [Accounts -> Entry]
  BY NoEntryType DEF Init, WatchedSet
<1>6. waiting \in [Trades -> Stamps]
  BY DEF Init, Stamps
<1>7. writes \in 0..MaxWrites /\ faults \in 0..MaxFaults
  BY TradeIndexAssumption DEF Init
<1>. QED
  BY <1>2, <1>3, <1>4, <1>5, <1>6, <1>7, TypeParts DEF Init, TypeInv, CallsInv

LEMMA NewCall ==
  ASSUME TypeInv, NEW type \in Kinds, NEW t \in Trades,
         NEW pnl \in Int \cup {Null}, NEW b \in Money \cup {Own, Null},
         type # "ended", b = Own => pnl \in Int,
         calls' = calls \cup {Call(type, AccountOf[t], t, pnl, b)}
  PROVE  calls' \subseteq CallSet /\ CallsInv'
<1>. DEFINE c == Call(type, AccountOf[t], t, pnl, b)
<1>1. AccountOf[t] \in Accounts
  BY TradeIndexAssumption
<1>2. /\ c \in CallSet
      /\ c.type = type /\ c.trade = t /\ c.account = AccountOf[t]
      /\ c.balance = b /\ c.pnl = pnl
      /\ calls' = calls \cup {c}
  BY <1>1 DEF CallSet, Call
<1>. HIDE DEF c
<1>3. calls \subseteq CallSet
  BY TypeParts DEF TypeInv
<1>4. CallsInv'
  BY <1>2 DEF CallsInv, TypeInv
<1>. QED
  BY <1>2, <1>3, <1>4

LEMMA SameCalls ==
  ASSUME TypeInv, calls' \subseteq calls
  PROVE  calls' \subseteq CallSet /\ CallsInv'
<1>1. calls \subseteq CallSet
  BY TypeParts DEF TypeInv
<1>. QED
  BY <1>1 DEF CallsInv, TypeInv

LEMMA EarnType ==
  ASSUME TypeInv, NEW t \in Trades, Earn(t)
  PROVE  account' \in AccountSet
<1>1. AccountOf[t] \in Accounts
  BY TradeIndexAssumption
<1>2. market[t] \in Int /\ account \in AccountSet
  BY MarketType, TypeParts DEF TypeInv
<1>. DEFINE s == Plus(account[AccountOf[t]].realised, t, market[t])
<1>3. s \in Money
  BY <1>1, <1>2, PlusType DEF AccountSet
<1>4. account' = [account EXCEPT ![AccountOf[t]].realised = s]
  BY DEF Earn
<1>. HIDE DEF s
<1>. QED
  BY <1>1, <1>2, <1>3, <1>4 DEF AccountSet

LEMMA LocalisedType ==
  ASSUME TypeInv, NEW t \in Trades, NEW d \in Int, NEW loads \in BOOLEAN,
         account' \in AccountSet, Localised(t, d, loads)
  PROVE  local' \in [Accounts -> Money \cup {Null}]
<1>. DEFINE a == AccountOf[t]
<1>1. a \in Accounts
  BY TradeIndexAssumption
<1>2. local \in [Accounts -> Money \cup {Null}]
  BY TypeParts DEF TypeInv
<1>3. account'[a].realised \in Money
  BY <1>1 DEF AccountSet
<1>4. local[a] # Null => Plus(local[a], t, d) \in Money
  BY <1>1, <1>2, PlusType
<1>5. \/ local' = local
      \/ local[a] # Null /\ local' = [local EXCEPT ![a] = Plus(local[a], t, d)]
      \/ local' = [local EXCEPT ![a] = account'[a].realised]
  BY <1>1, <1>2 DEF Localised
<1>. HIDE DEF a
<1>6. CASE local' = local
  BY <1>2, <1>6
<1>7. CASE local[a] # Null /\ local' = [local EXCEPT ![a] = Plus(local[a], t, d)]
  BY <1>1, <1>2, <1>4, <1>7
<1>8. CASE local' = [local EXCEPT ![a] = account'[a].realised]
  BY <1>1, <1>2, <1>3, <1>8
<1>. QED
  BY <1>5, <1>6, <1>7, <1>8

LEMMA PublishedType ==
  ASSUME TypeInv, NEW t \in Trades
  PROVE  Published(t, market[t]) \in Money \cup {Own, Null}
<1>1. AccountOf[t] \in Accounts /\ market[t] \in Int
  BY TradeIndexAssumption, MarketType DEF TypeInv
<1>2. local[AccountOf[t]] \in Money \cup {Null}
  BY <1>1, TypeParts DEF TypeInv
<1>3. local[AccountOf[t]] # Null => Plus(local[AccountOf[t]], t, market[t]) \in Money
  BY <1>1, <1>2, PlusType
<1>. QED
  BY <1>3 DEF Published

LEMMA WriteType ==
  ASSUME TypeInv, Write
  PROVE  writes' \in 0..MaxWrites
<1>1. writes \in 0..MaxWrites
  BY TypeParts DEF TypeInv
<1>. QED
  BY <1>1, TradeIndexAssumption DEF Write

LEMMA FaultType ==
  ASSUME TypeInv, Fault
  PROVE  faults' \in 0..MaxFaults
<1>1. faults \in 0..MaxFaults
  BY TypeParts DEF TypeInv
<1>. QED
  BY <1>1, TradeIndexAssumption DEF Fault

\* A step that leaves the index, its passes and the tick alone.
LEMMA RouteStep ==
  ASSUME TypeInv, Untouched, writes' \in 0..MaxWrites,
         row' \in RowSet, account' \in AccountSet,
         calls' \subseteq CallSet, CallsInv',
         local' \in [Accounts -> Money \cup {Null}]
  PROVE  TypeInv'
<1>1. StateOK'
  BY TypeParts DEF TypeInv, Untouched, StateOK, Entry, CallSet, RowSet,
                   AccountSet, WatchedSet, PassSet, TickSet
<1>. QED
  BY <1>1 DEF TypeInv

LEMMA RouteTypes ==
  ASSUME TypeInv, NEW t \in Trades,
         Open(t) \/ Modify(t) \/ ClosePart(t) \/ Close(t) \/ Cancel(t)
  PROVE  TypeInv'
<1>1. /\ row \in RowSet /\ account \in AccountSet
      /\ local \in [Accounts -> Money \cup {Null}]
      /\ market[t] \in Int
  BY TypeParts, MarketType DEF TypeInv
<1>2. Published(t, market[t]) \in Money \cup {Own, Null}
  BY PublishedType
<1>3. {"open", "pending", "closed", "cancelled"} \subseteq Kinds
  BY DEF Kinds
<1>4. \A how \in {"open", "pending", "closed"} : [row EXCEPT ![t] = how] \in RowSet
  BY <1>1 DEF RowSet
<1>5. Null # Own /\ Null \in Int \cup {Null} /\ Null \in Money \cup {Own, Null}
  BY TradeIndexAssumption
<1>6. CASE Open(t)
  <2>1. PICK how \in {"open", "pending"} :
          /\ row' = [row EXCEPT ![t] = how]
          /\ calls' = calls \cup {Call(how, AccountOf[t], t, Null, Null)}
    BY <1>6 DEF Open
  <2>2. calls' \subseteq CallSet /\ CallsInv'
    BY <1>3, <1>5, <2>1, NewCall
  <2>3. account' \in AccountSet /\ row' \in RowSet
    BY <1>1, <1>4, <1>6, <2>1 DEF Open
  <2>4. local' \in [Accounts -> Money \cup {Null}]
    <3>. DEFINE d == 0
    <3>1. d \in Int
      OBVIOUS
    <3>2. Localised(t, d, TRUE)
      BY <1>6, Zenon DEF Open
    <3>. HIDE DEF d
    <3>. QED
      BY <3>2, <2>3, <3>1, LocalisedType
  <2>. QED
    BY <1>6, <2>2, <2>3, <2>4, WriteType, RouteStep
     DEF Open, RouteUnchanged
<1>7. CASE Modify(t)
  <2>. DEFINE type == row[t]
  <2>3. type \in {"open", "pending"}
    BY <1>7 DEF Modify
  <2>4. calls' = calls \cup {Call(type, AccountOf[t], t, Null, Null)}
    BY <1>7 DEF Modify
  <2>. HIDE DEF type
  <2>1. calls' \subseteq CallSet /\ CallsInv'
    BY <1>3, <1>5, <2>3, <2>4, NewCall
  <2>2. account' \in AccountSet /\ row' \in RowSet
    BY <1>1, <1>7 DEF Modify
  <2>5. local' \in [Accounts -> Money \cup {Null}]
    <3>. DEFINE d == 0
    <3>1. d \in Int
      OBVIOUS
    <3>2. Localised(t, d, TRUE)
      BY <1>7, Zenon DEF Modify
    <3>. HIDE DEF d
    <3>. QED
      BY <3>2, <2>2, <3>1, LocalisedType
  <2>. QED
    BY <1>7, <2>1, <2>2, <2>5, WriteType, RouteStep
     DEF Modify, RouteUnchanged
<1>8. CASE ClosePart(t)
  <2>1. calls' \subseteq CallSet /\ CallsInv'
    <3>. DEFINE b == Published(t, market[t])
    <3>1. calls' = calls \cup {Call("open", AccountOf[t], t, market[t], b)}
      BY <1>8 DEF ClosePart
    <3>2. b \in Money \cup {Own, Null}
      BY <1>2
    <3>. HIDE DEF b
    <3>. QED
      BY <1>1, <1>3, <3>1, <3>2, NewCall
  <2>2. account' \in AccountSet /\ row' \in RowSet
    BY <1>1, <1>8, EarnType DEF ClosePart
  <2>3. local' \in [Accounts -> Money \cup {Null}]
    BY <1>1, <1>8, <2>2, LocalisedType DEF ClosePart
  <2>. QED
    BY <1>8, <2>1, <2>2, <2>3, WriteType, RouteStep
     DEF ClosePart, RouteUnchanged
<1>9. CASE Close(t)
  <2>1. calls' \subseteq CallSet /\ CallsInv'
    <3>. DEFINE b == Published(t, market[t])
    <3>1. calls' = calls \cup {Call("closed", AccountOf[t], t, market[t], b)}
      BY <1>9 DEF Close
    <3>2. b \in Money \cup {Own, Null}
      BY <1>2
    <3>. HIDE DEF b
    <3>. QED
      BY <1>1, <1>3, <3>1, <3>2, NewCall
  <2>2. account' \in AccountSet /\ row' \in RowSet
    BY <1>4, <1>9, EarnType DEF Close
  <2>3. local' \in [Accounts -> Money \cup {Null}]
    BY <1>1, <1>9, <2>2, LocalisedType DEF Close
  <2>. QED
    BY <1>9, <2>1, <2>2, <2>3, WriteType, RouteStep
     DEF Close, RouteUnchanged
<1>10. CASE Cancel(t)
  <2>1. calls' \subseteq CallSet /\ CallsInv'
    <3>1. CASE split
      BY <1>10, <3>1, SameCalls DEF Cancel
    <3>2. CASE ~split
      BY <1>3, <1>5, <1>10, <3>2, NewCall DEF Cancel
    <3>. QED
      BY <3>1, <3>2
  <2>2. /\ account' \in AccountSet /\ row' \in RowSet
        /\ local' \in [Accounts -> Money \cup {Null}]
    BY <1>1, <1>4, <1>10 DEF Cancel
  <2>. QED
    BY <1>10, <2>1, <2>2, WriteType, RouteStep
     DEF Cancel, RouteUnchanged
<1>. QED
  BY <1>6, <1>7, <1>8, <1>9, <1>10

LEMMA EngineTypes ==
  ASSUME TypeInv, NEW t \in Trades,
         Fill(t) \/ CheckSLTP(t) \/ CancelPending(t)
  PROVE  TypeInv'
<1>1. /\ row \in RowSet /\ account \in AccountSet
      /\ local \in [Accounts -> Money \cup {Null}]
      /\ market[t] \in Int
  BY TypeParts, MarketType DEF TypeInv
<1>2. {"filled", "swept", "cancelled"} \subseteq Kinds
  BY DEF Kinds
<1>3. \A how \in {"open", "closed"} : [row EXCEPT ![t] = how] \in RowSet
  BY <1>1 DEF RowSet
<1>4. Null # Own /\ Null \in Int \cup {Null} /\ Null \in Money \cup {Own, Null}
  BY TradeIndexAssumption
<1>5. Write /\ Untouched /\ UNCHANGED local
  BY DEF Fill, CheckSLTP, CancelPending, Works, EngineUnchanged, RouteUnchanged
<1>6. account' \in AccountSet
  BY <1>1, EarnType DEF Fill, CheckSLTP, CancelPending
<1>7. row' \in RowSet
  BY <1>3 DEF Fill, CheckSLTP, CancelPending
<1>8. calls' \subseteq CallSet /\ CallsInv'
  <2>1. CASE Fill(t)
    BY <1>2, <1>4, <2>1, NewCall DEF Fill
  <2>2. CASE CheckSLTP(t)
    BY <1>1, <1>2, <1>4, <2>2, NewCall DEF CheckSLTP
  <2>3. CASE CancelPending(t)
    BY <1>2, <1>4, <2>3, NewCall DEF CancelPending
  <2>. QED
    BY <2>1, <2>2, <2>3
<1>. QED
  BY <1>1, <1>5, <1>6, <1>7, <1>8, WriteType, RouteStep

LEMMA EndType ==
  ASSUME TypeInv, NEW a \in Accounts, End(a)
  PROVE  TypeInv'
<1>1. /\ row \in RowSet /\ account \in AccountSet /\ calls \subseteq CallSet
      /\ local \in [Accounts -> Money \cup {Null}]
  BY TypeParts DEF TypeInv
<1>2. row' \in RowSet
  BY <1>1 DEF End, RowSet
<1>. DEFINE r == [t \in Trades |->
                    IF AccountOf[t] = a /\ row[t] = "open"
                    THEN account[a].realised[t] + market[t]
                    ELSE account[a].realised[t]]
<1>3. r \in Money
  <2>1. \A t \in Trades : account[a].realised[t] \in Int /\ market[t] \in Int
    BY <1>1, MarketType DEF TypeInv, AccountSet, Money
  <2>. QED
    BY <2>1 DEF Money
<1>4. account' = [account EXCEPT ![a] = [active |-> FALSE, realised |-> r]]
  BY DEF End
<1>. HIDE DEF r
<1>5. account' \in AccountSet
  BY <1>1, <1>3, <1>4 DEF AccountSet
<1>. DEFINE c == Call("ended", a, Null, Null, Null)
<1>6. /\ c \in CallSet /\ c.type = "ended" /\ c.balance = Null
      /\ calls' = calls \/ calls' = calls \cup {c}
  BY DEF CallSet, Call, Kinds, End
<1>. HIDE DEF c
<1>7. calls' \subseteq CallSet
  BY <1>1, <1>6
<1>8. CallsInv'
  BY <1>6, TradeIndexAssumption DEF CallsInv, TypeInv
<1>9. Write /\ Untouched /\ UNCHANGED local
  BY DEF End, Works, EngineUnchanged, RouteUnchanged
<1>. QED
  BY <1>1, <1>2, <1>5, <1>7, <1>8, <1>9, WriteType, RouteStep

LEMMA SwitchType ==
  ASSUME TypeInv, NEW a \in Accounts, SwitchStatus(a)
  PROVE  TypeInv'
<1>1. /\ row \in RowSet /\ account \in AccountSet
      /\ local \in [Accounts -> Money \cup {Null}]
  BY TypeParts DEF TypeInv
<1>2. account' \in AccountSet
  <2>1. account' = [account EXCEPT ![a] =
                      [account[a] EXCEPT !.active = ~account[a].active]]
    BY <1>1 DEF SwitchStatus, AccountSet
  <2>2. account[a] \in [active : BOOLEAN, realised : Money]
    BY <1>1 DEF AccountSet
  <2>3. [account[a] EXCEPT !.active = ~account[a].active]
          \in [active : BOOLEAN, realised : Money]
    BY <2>2
  <2>. QED
    BY <1>1, <2>1, <2>3 DEF AccountSet
<1>3. /\ row' \in RowSet /\ local' \in [Accounts -> Money \cup {Null}]
      /\ Untouched /\ Write /\ calls' = calls
  BY <1>1 DEF SwitchStatus
<1>4. calls' \subseteq CallSet /\ CallsInv'
  BY <1>3, SameCalls
<1>. QED
  BY <1>2, <1>3, <1>4, WriteType, RouteStep

-----------------------------------------------------------------------------
(* The calls.                                                               *)

\* A step that changes the index and the calls only.
LEMMA CallStep ==
  ASSUME TypeInv, CallUnchanged, watched' \in WatchedSet,
         waiting' \in [Trades -> Stamps], cached' \in [Accounts -> Entry],
         calls' \subseteq CallSet, CallsInv'
  PROVE  TypeInv'
<1>1. StateOK'
  BY TypeParts DEF TypeInv, CallUnchanged, StateOK, Entry, CallSet, RowSet,
                   AccountSet, WatchedSet, PassSet, TickSet
<1>. QED
  BY <1>1 DEF TypeInv

LEMMA LookupType ==
  ASSUME TypeInv, NEW c \in calls, Lookup(c)
  PROVE  TypeInv'
<1>1. /\ calls \subseteq CallSet /\ account \in AccountSet
      /\ watched \in WatchedSet /\ waiting \in [Trades -> Stamps]
      /\ cached \in [Accounts -> Entry]
  BY TypeParts DEF TypeInv
<1>. DEFINE f == IF account[c.account].active
                 THEN account[c.account].realised ELSE Null
            d == [c EXCEPT !.found = f]
<1>2. f \in Money \cup {Unread, Null}
  BY <1>1 DEF CallSet, AccountSet
<1>3. calls' = (calls \ {c}) \cup {d}
  BY DEF Lookup
<1>. HIDE DEF f
<1>4. d \in CallSet /\ d.type = c.type /\ d.trade = c.trade
      /\ d.account = c.account /\ d.balance = c.balance /\ d.pnl = c.pnl
  BY <1>1, <1>2 DEF CallSet
<1>. HIDE DEF d
<1>5. calls' \subseteq CallSet /\ CallsInv'
  BY <1>1, <1>3, <1>4 DEF CallsInv, TypeInv
<1>. QED
  BY <1>1, <1>5, CallStep DEF Lookup, CallUnchanged

\* What a call to apply carries, and the entry it is applied to.
LEMMA CallParts ==
  ASSUME TypeInv, NEW c \in calls
  PROVE  /\ c \in CallSet
         /\ c.account \in Accounts /\ cached[c.account] \in Entry
         /\ c.pnl \in Int \cup {Null}
         /\ c.type # "ended" => c.trade \in Trades /\ c.account = AccountOf[c.trade]
         /\ c.balance = Own => c.type # "ended" /\ c.pnl \in Int
         /\ current \in Stamps
<1>1. calls \subseteq CallSet /\ cached \in [Accounts -> Entry]
      /\ current \in Passes \cup {"older"}
  BY TypeParts DEF TypeInv
<1>. QED
  BY <1>1 DEF CallSet, CallsInv, TypeInv, Stamps

LEMMA EnsuredType ==
  ASSUME TypeInv, NEW c \in calls
  PROVE  /\ Ensured(c) \in Entry
         /\ Ensured(c).ids = cached[c.account].ids
         /\ Ensured(c).stamp \in {cached[c.account].stamp, current}
<1>1. /\ cached[c.account] \in Entry /\ current \in Stamps
      /\ c.found \in Money \cup {Unread, Null}
  BY CallParts DEF CallSet
<1>2. CASE c.found \in {Unread, Null}
  BY <1>1, <1>2 DEF Ensured
<1>3. CASE c.found \notin {Unread, Null}
  BY <1>1, <1>3, UpsertedType DEF Ensured
<1>. QED
  BY <1>2, <1>3

LEMMA CarriedType ==
  ASSUME TypeInv, NEW c \in calls, c.type # "ended"
  PROVE  /\ Carried(c) \in CallSet /\ Carried(c).trade \in Trades
         /\ Carried(c).balance = Own => Carried(c).pnl \in Int
BY CallParts, TradeIndexAssumption DEF Carried, CallSet

LEMMA WatchType ==
  ASSUME TypeInv, NEW t \in Trades
  PROVE  /\ Watch(t) \in [stamp : Stamps, last : Int]
         /\ Watch(t).stamp = current
<1>1. current \in Stamps /\ market[t] \in Int
  BY TypeParts, MarketType DEF TypeInv, Stamps
<1>. QED
  BY <1>1 DEF Watch

\* The entry of the call's account after the call, by kind.
OpenedEntry(c) ==
  Rebalanced(Realised(Added(Ensured(c), c.trade), c.trade, c.pnl), Carried(c))
ClosedEntry(c) ==
  LET e == Removed(cached[c.account], c.trade)
      f == IF c.type = "closed" THEN Unqueued(e, c.trade) ELSE e
  IN Rebalanced(Realised(f, c.trade, c.pnl), c)

LEMMA OpenedEntryType ==
  ASSUME TypeInv, NEW c \in calls, c.type = "open"
  PROVE  /\ OpenedEntry(c) \in Entry
         /\ OpenedEntry(c).stamp \in {cached[c.account].stamp, current}
         /\ OpenedEntry(c).stamp = Ensured(c).stamp
         /\ OpenedEntry(c).ids \subseteq cached[c.account].ids \cup {c.trade}
         /\ OpenedEntry(c).stamp = "absent" =>
              OpenedEntry(c).ids = cached[c.account].ids
<1>1. c.trade \in Trades /\ c.pnl \in Int \cup {Null}
  BY CallParts
<1>. DEFINE e == Ensured(c)
            f == Added(e, c.trade)
            g == Realised(f, c.trade, c.pnl)
            h == Rebalanced(g, Carried(c))
<1>2. /\ e \in Entry /\ e.ids = cached[c.account].ids
      /\ e.stamp \in {cached[c.account].stamp, current}
  BY EnsuredType
<1>. HIDE DEF e
<1>3. /\ f \in Entry /\ f.stamp = e.stamp
      /\ f.ids \subseteq e.ids \cup {c.trade}
      /\ e.stamp = "absent" => f.ids = e.ids
  BY <1>1, <1>2, AddedType DEF TypeInv
<1>. HIDE DEF f
<1>4. g \in Entry /\ g.stamp = f.stamp /\ g.ids = f.ids
  BY <1>1, <1>3, RealisedType
<1>. HIDE DEF g
<1>5. h \in Entry /\ h.stamp = g.stamp /\ h.ids = g.ids
  <2>1. /\ Carried(c) \in CallSet /\ Carried(c).trade \in Trades
        /\ Carried(c).balance = Own => Carried(c).pnl \in Int
    BY CarriedType
  <2>. QED
    BY <1>4, <2>1, RebalancedType
<1>6. OpenedEntry(c) = h /\ Ensured(c) = e
  BY DEF OpenedEntry, e, f, g
<1>. HIDE DEF h
<1>. QED
  BY <1>2, <1>3, <1>4, <1>5, <1>6

LEMMA ClosedEntryType ==
  ASSUME TypeInv, NEW c \in calls, c.type \in {"closed", "swept"}
  PROVE  /\ ClosedEntry(c) \in Entry
         /\ ClosedEntry(c).stamp = cached[c.account].stamp
         /\ ClosedEntry(c).ids \subseteq cached[c.account].ids
<1>1. /\ c \in CallSet /\ c.trade \in Trades /\ c.pnl \in Int \cup {Null}
      /\ c.balance = Own => c.pnl \in Int
      /\ cached[c.account] \in Entry
  BY CallParts
<1>. DEFINE e == Removed(cached[c.account], c.trade)
            f == IF c.type = "closed" THEN Unqueued(e, c.trade) ELSE e
            g == Realised(f, c.trade, c.pnl)
            h == Rebalanced(g, c)
<1>2. /\ e \in Entry /\ e.stamp = cached[c.account].stamp
      /\ e.ids \subseteq cached[c.account].ids
  BY <1>1, RemovedType DEF TypeInv
<1>. HIDE DEF e
<1>3. f \in Entry /\ f.stamp = e.stamp /\ f.ids = e.ids
  BY <1>1, <1>2, UnqueuedType
<1>. HIDE DEF f
<1>4. g \in Entry /\ g.stamp = f.stamp /\ g.ids = f.ids
  BY <1>1, <1>3, RealisedType
<1>. HIDE DEF g
<1>5. h \in Entry /\ h.stamp = g.stamp /\ h.ids = g.ids
  BY <1>1, <1>4, RebalancedType
<1>6. ClosedEntry(c) = h
  BY DEF ClosedEntry, e, f, g
<1>. HIDE DEF h
<1>. QED
  BY <1>2, <1>3, <1>4, <1>5, <1>6

\* What a call does to the entry of its account, and to no other.
LEMMA CallEntry ==
  ASSUME TypeInv, NEW c \in calls, ApplyCall(c)
  PROVE  \E e \in Entry :
           /\ cached' = [cached EXCEPT ![c.account] = e]
           /\ c.type # "ended" => e.stamp \in {cached[c.account].stamp, current}
           /\ e.ids \subseteq cached[c.account].ids
                \cup {t \in Trades : c.type \in {"open", "filled"} /\ t = c.trade}
           /\ e.stamp = "absent" => /\ e.ids \subseteq cached[c.account].ids
                                    /\ c.type = "ended" => e.ids = {}
           /\ c.type = "ended" => e = NoEntry
<1>1. /\ c \in CallSet /\ cached[c.account] \in Entry
      /\ c.type # "ended" => c.trade \in Trades
      /\ cached \in [Accounts -> Entry] /\ c.account \in Accounts
  BY CallParts, TypeParts DEF TypeInv
<1>2. CASE SyncOpened(c)
  <2>1. cached' = [cached EXCEPT ![c.account] = OpenedEntry(c)]
    BY <1>2 DEF SyncOpened, OpenedEntry
  <2>. QED
    BY <1>1, <1>2, <2>1, OpenedEntryType DEF SyncOpened
<1>3. CASE SyncPending(c)
  <2>. DEFINE e == IF Ensured(c).stamp = "absent" THEN Ensured(c)
                   ELSE [Ensured(c) EXCEPT !.orders = @ \cup {c.trade}]
  <2>1. cached' = [cached EXCEPT ![c.account] = e]
    BY <1>3 DEF SyncPending
  <2>2. e \in Entry /\ e.stamp = Ensured(c).stamp /\ e.ids = Ensured(c).ids
    BY <1>1, <1>3, EnsuredType DEF SyncPending, Entry
  <2>. HIDE DEF e
  <2>. QED
    BY <1>3, <2>1, <2>2, EnsuredType DEF SyncPending
<1>4. CASE SyncClosed(c)
  <2>1. cached' = [cached EXCEPT ![c.account] = ClosedEntry(c)]
    BY <1>4 DEF SyncClosed, ClosedEntry
  <2>. QED
    BY <1>1, <1>4, <2>1, ClosedEntryType DEF SyncClosed
<1>5. CASE SyncFilled(c)
  <2>. DEFINE e == Unqueued(cached[c.account], c.trade)
  <2>1. e \in Entry /\ e.stamp = cached[c.account].stamp
        /\ e.ids = cached[c.account].ids
    BY <1>1, <1>5, UnqueuedType DEF SyncFilled
  <2>2. CASE c.type = "filled"
    <3>. DEFINE f == Added(e, c.trade)
    <3>1. cached' = [cached EXCEPT ![c.account] = f]
      BY <1>5, <2>2 DEF SyncFilled
    <3>. HIDE DEF e
    <3>2. /\ f \in Entry /\ f.stamp = e.stamp
          /\ f.ids \subseteq e.ids \cup {c.trade}
          /\ e.stamp = "absent" => f.ids = e.ids
      BY <1>1, <2>1, <2>2, AddedType DEF TypeInv
    <3>. HIDE DEF f
    <3>. QED
      BY <1>1, <2>1, <2>2, <3>1, <3>2
  <2>3. CASE c.type # "filled"
    <3>1. cached' = [cached EXCEPT ![c.account] = e]
      BY <1>5, <2>3 DEF SyncFilled
    <3>2. c.type # "ended"
      BY <1>5 DEF SyncFilled
    <3>. HIDE DEF e
    <3>. QED
      BY <2>1, <3>1, <3>2
  <2>. QED
    BY <2>2, <2>3
<1>6. CASE SyncEnded(c)
  <2>1. NoEntry.ids = {}
    BY DEF NoEntry
  <2>. QED
    BY <1>6, <2>1, NoEntryType DEF SyncEnded
<1>. QED
  BY <1>2, <1>3, <1>4, <1>5, <1>6 DEF ApplyCall

LEMMA ApplyType ==
  ASSUME TypeInv, NEW c \in calls, ApplyCall(c)
  PROVE  TypeInv'
<1>1. /\ watched \in WatchedSet /\ waiting \in [Trades -> Stamps]
      /\ cached \in [Accounts -> Entry]
  BY TypeParts DEF TypeInv
<1>2. cached' \in [Accounts -> Entry]
  BY <1>1, CallEntry
<1>3. c.type # "ended" => c.trade \in Trades
  BY CallParts
<1>4. watched' \in WatchedSet
  <2>1. c.type # "ended" => Watch(c.trade) \in [stamp : Stamps, last : Int]
    BY <1>3, WatchType
  <2>2. NoTrade \in [stamp : Stamps, last : Int]
    BY NoEntryType
  <2>3. \/ watched' = watched
        \/ /\ c.type # "ended"
           /\ watched' = [watched EXCEPT ![c.trade] = Watch(c.trade)]
        \/ watched' = [watched EXCEPT ![c.trade] = NoTrade]
        \/ watched' = [t \in Trades |-> IF t \in cached[c.account].ids
                                        THEN NoTrade ELSE watched[t]]
    BY DEF ApplyCall, SyncOpened, SyncPending, SyncClosed, SyncFilled, SyncEnded
  <2>. QED
    BY <1>1, <2>1, <2>2, <2>3 DEF WatchedSet
<1>5. waiting' \in [Trades -> Stamps]
  <2>1. current \in Stamps /\ "absent" \in Stamps
    BY CallParts DEF Stamps
  <2>2. \/ waiting' = waiting
        \/ \E s \in {current, "absent"} : waiting' = [waiting EXCEPT ![c.trade] = s]
        \/ waiting' = [t \in Trades |-> IF AccountOf[t] = c.account
                                        THEN "absent" ELSE waiting[t]]
    BY DEF ApplyCall, SyncOpened, SyncPending, SyncClosed, SyncFilled, SyncEnded
  <2>. QED
    BY <1>1, <2>1, <2>2
<1>6. calls' \subseteq CallSet /\ CallsInv'
  BY SameCalls DEF ApplyCall
<1>. QED
  BY <1>2, <1>4, <1>5, <1>6, CallStep DEF ApplyCall

LEMMA LoseType ==
  ASSUME TypeInv, NEW c \in calls, Lose(c)
  PROVE  TypeInv'
<1>1. calls' \subseteq CallSet /\ CallsInv'
  BY SameCalls DEF Lose
<1>2. faults' \in 0..MaxFaults
  BY FaultType DEF Lose
<1>3. StateOK'
  BY <1>1, <1>2, TypeParts DEF TypeInv, Lose, StateOK, Entry, CallSet, RowSet,
                   AccountSet, WatchedSet, PassSet, TickSet
<1>. QED
  BY <1>1, <1>3 DEF TypeInv

-----------------------------------------------------------------------------
(* The tick.                                                                *)

LEMMA TickStep ==
  ASSUME TypeInv, TickUnchanged, calls' = calls,
         row' \in RowSet, account' \in AccountSet, market' \in [Trades -> Pnls],
         watched' \in WatchedSet, cached' \in [Accounts -> Entry],
         tick' \in TickSet, changed' \subseteq Trades,
         writes' \in 0..MaxWrites, faults' \in 0..MaxFaults
  PROVE  TypeInv'
<1>1. CallsInv' /\ calls' \subseteq CallSet
  BY SameCalls
<1>2. StateOK'
  BY <1>1, TypeParts DEF TypeInv, TickUnchanged, StateOK, Entry, CallSet, RowSet,
                   AccountSet, WatchedSet, PassSet, TickSet
<1>. QED
  BY <1>1, <1>2 DEF TypeInv

\* The sums of an entry are changed trade by trade.
LEMMA SumType ==
  ASSUME NEW sum \in Money, NEW S, NEW d \in [Trades -> Int]
  PROVE  [t \in Trades |-> IF t \in S THEN sum[t] + d[t] ELSE sum[t]] \in Money
<1>1. \A t \in Trades : sum[t] \in Int /\ d[t] \in Int
  BY DEF Money
<1>. QED
  BY <1>1 DEF Money

\* The parts of the state a tick reads or keeps.
LEMMA TickParts ==
  ASSUME TypeInv
  PROVE  /\ row \in RowSet /\ account \in AccountSet
         /\ market \in [Trades -> Pnls] /\ market \in [Trades -> Int]
         /\ watched \in WatchedSet /\ cached \in [Accounts -> Entry]
         /\ tick \in TickSet /\ changed \subseteq Trades
         /\ writes \in 0..MaxWrites /\ faults \in 0..MaxFaults
BY TypeParts, TradeIndexAssumption DEF TypeInv

LEMMA NoTickType == NoTick \in TickSet /\ NoPass \in PassSet
BY ZeroType DEF NoTick, TickSet, NoPass, PassSet

LEMMA MoveType ==
  ASSUME TypeInv, NEW t \in Trades, Move(t)
  PROVE  TypeInv'
<1>1. market' \in [Trades -> Pnls] /\ changed' \subseteq Trades
  BY TickParts DEF Move
<1>. QED
  BY <1>1, TickParts, WriteType, TickStep DEF Move

LEMMA ScanType ==
  ASSUME TypeInv, Scan
  PROVE  TypeInv'
<1>. DEFINE seen == {t \in changed : Indexed(t)}
            up(a) == [t \in Trades |-> IF t \in seen \cap Book(a)
                       THEN cached[a].floating[t] + market[t] - watched[t].last
                       ELSE cached[a].floating[t]]
            e(a) == IF ~Loaded(a) THEN cached[a]
                    ELSE [cached[a] EXCEPT !.floating = up(a)]
<1>1. /\ cached' = [a \in Accounts |-> e(a)]
      /\ watched' = [t \in Trades |-> IF t \in seen
                        THEN [watched[t] EXCEPT !.last = market[t]]
                        ELSE watched[t]]
      /\ \E hit \in SUBSET seen :
           tick' = IF hit = {} THEN NoTick
                   ELSE [pc |-> "act", hit |-> hit,
                         pnls |-> [t \in Trades |-> IF t \in hit
                                     THEN market[t] ELSE 0]]
      /\ changed' = {}
  BY DEF Scan
<1>2. seen \subseteq Trades
  BY TickParts
<1>3. \A a \in Accounts : up(a) \in Money
  <2>. SUFFICES ASSUME NEW a \in Accounts PROVE up(a) \in Money
    OBVIOUS
  <2>1. cached[a].floating \in Money
    BY TickParts DEF Entry
  <2>2. \A t \in Trades : /\ cached[a].floating[t] \in Int
                          /\ market[t] \in Int /\ watched[t].last \in Int
    BY <2>1, TickParts DEF Money, WatchedSet
  <2>. QED
    BY <2>2 DEF Money
<1>. HIDE DEF seen, up
<1>4. \A a \in Accounts : e(a) \in Entry
  BY <1>3, TickParts DEF Entry
<1>. HIDE DEF e
<1>5. cached' \in [Accounts -> Entry]
  BY <1>1, <1>4
<1>6. watched' \in WatchedSet
  BY <1>1, TickParts DEF WatchedSet
<1>7. tick' \in TickSet
  <2>1. PICK hit \in SUBSET seen :
           tick' = IF hit = {} THEN NoTick
                   ELSE [pc |-> "act", hit |-> hit,
                         pnls |-> [t \in Trades |-> IF t \in hit
                                     THEN market[t] ELSE 0]]
    BY <1>1
  <2>2. [t \in Trades |-> IF t \in hit THEN market[t] ELSE 0] \in Money
    BY TickParts DEF Money
  <2>. QED
    BY <1>2, <2>1, <2>2, NoTickType DEF TickSet
<1>. QED
  BY <1>1, <1>5, <1>6, <1>7, TickParts, TickStep DEF Scan

LEMMA TickCommitType ==
  ASSUME TypeInv, TickCommit
  PROVE  TypeInv'
<1>1. PICK owned \in SUBSET {t \in tick.hit : row[t] = "open"} :
       /\ row' = [t \in Trades |-> IF t \in owned THEN "closed" ELSE row[t]]
       /\ account' = [a \in Accounts |->
            [account[a] EXCEPT !.realised = [t \in Trades |->
               IF t \in owned \cap Book(a) THEN @[t] + tick.pnls[t] ELSE @[t]]]]
       /\ tick' = IF owned = {} THEN NoTick
                  ELSE [tick EXCEPT !.pc = "sync", !.hit = owned]
  BY DEF TickCommit
<1>2. row' \in RowSet
  BY <1>1, TickParts DEF RowSet
<1>3. tick' \in TickSet
  BY <1>1, TickParts, NoTickType DEF TickSet
<1>. DEFINE up(a) == [t \in Trades |-> IF t \in owned \cap Book(a)
                       THEN account[a].realised[t] + tick.pnls[t]
                       ELSE account[a].realised[t]]
<1>4. \A a \in Accounts : up(a) \in Money
  BY TickParts, SumType DEF TickSet, AccountSet, Money
<1>5. account' = [a \in Accounts |-> [account[a] EXCEPT !.realised = up(a)]]
  BY <1>1
<1>. HIDE DEF up
<1>6. account' \in AccountSet
  BY <1>4, <1>5, TickParts DEF AccountSet
<1>. QED
  BY <1>2, <1>3, <1>6, TickParts, TickStep DEF TickCommit

LEMMA TickSyncType ==
  ASSUME TypeInv, TickSync
  PROVE  /\ TypeInv'
         /\ \A a \in Accounts : /\ cached'[a].stamp = cached[a].stamp
                                /\ cached'[a].ids \subseteq cached[a].ids
<1>. DEFINE gone(a) == tick.hit \cap Book(a)
            earned(a, sum) == [t \in Trades |-> IF t \in gone(a)
                                THEN sum[t] + tick.pnls[t] ELSE sum[t]]
            fl(a) == [t \in Trades |-> IF t \in gone(a)
                        THEN cached[a].floating[t] - watched[t].last
                        ELSE cached[a].floating[t]]
            today(a) == earned(a, cached[a].today)
            bal(a)   == earned(a, cached[a].balance)
            ids(a)   == cached[a].ids \ {t \in gone(a) : Indexed(t)}
            e(a) == IF ~Loaded(a) THEN cached[a]
                    ELSE [cached[a] EXCEPT !.ids = ids(a), !.floating = fl(a),
                                           !.today = today(a), !.balance = bal(a)]
<1>1. cached' = [a \in Accounts |-> e(a)]
  BY DEF TickSync
<1>2. \A a \in Accounts : /\ cached[a].today \in Money /\ cached[a].balance \in Money
                          /\ cached[a].floating \in Money
  BY TickParts DEF Entry
<1>3. tick.pnls \in Money /\ \A t \in Trades : watched[t].last \in Int
  BY TickParts DEF TickSet, WatchedSet
<1>4. \A a \in Accounts : fl(a) \in Money
  <2>. SUFFICES ASSUME NEW a \in Accounts PROVE fl(a) \in Money
    OBVIOUS
  <2>1. \A t \in Trades : cached[a].floating[t] \in Int /\ watched[t].last \in Int
    BY <1>2, <1>3 DEF Money
  <2>. QED
    BY <2>1 DEF Money
<1>5. \A a \in Accounts : today(a) \in Money /\ bal(a) \in Money
  <2>. SUFFICES ASSUME NEW a \in Accounts PROVE today(a) \in Money /\ bal(a) \in Money
    OBVIOUS
  <2>1. \A t \in Trades : /\ cached[a].today[t] \in Int
                          /\ cached[a].balance[t] \in Int /\ tick.pnls[t] \in Int
    BY <1>2, <1>3 DEF Money
  <2>. QED
    BY <2>1 DEF Money
<1>6. \A a \in Accounts : ids(a) \subseteq cached[a].ids
  OBVIOUS
<1>. HIDE DEF fl, today, bal, ids
<1>7. \A a \in Accounts : /\ e(a) \in Entry /\ e(a).stamp = cached[a].stamp
                          /\ e(a).ids \subseteq cached[a].ids
  <2>. SUFFICES ASSUME NEW a \in Accounts
                PROVE  /\ e(a) \in Entry /\ e(a).stamp = cached[a].stamp
                       /\ e(a).ids \subseteq cached[a].ids
    OBVIOUS
  <2>1. cached[a] \in Entry
    BY TickParts
  <2>. QED
    BY <1>4, <1>5, <1>6, <2>1 DEF Entry
<1>. HIDE DEF e
<1>8. cached' \in [Accounts -> Entry]
  BY <1>1, <1>7
<1>9. watched' \in WatchedSet
  BY TickParts, NoEntryType DEF TickSync, WatchedSet
<1>10. TypeInv'
  BY <1>8, <1>9, TickParts, NoTickType, TickStep DEF TickSync
<1>. QED
  BY <1>1, <1>7, <1>10

LEMMA TickFailType ==
  ASSUME TypeInv, TickFail
  PROVE  TypeInv'
BY TickParts, NoTickType, FaultType, TickStep DEF TickFail

-----------------------------------------------------------------------------
(* The reconciliation.                                                      *)

LEMMA PassStep ==
  ASSUME TypeInv, PassUnchanged,
         watched' \in WatchedSet, waiting' \in [Trades -> Stamps],
         cached' \in [Accounts -> Entry], current' \in Passes \cup {"older"},
         mode' \in {"boot", "armed", "off"}, pass' \in [Passes -> PassSet],
         faults' \in 0..MaxFaults
  PROVE  TypeInv'
<1>1. CallsInv' /\ calls' \subseteq CallSet
  BY SameCalls DEF PassUnchanged
<1>2. StateOK'
  BY <1>1, TypeParts DEF TypeInv, PassUnchanged, StateOK, Entry, CallSet, RowSet,
                   AccountSet, WatchedSet, PassSet, TickSet
<1>. QED
  BY <1>1, <1>2 DEF TypeInv

LEMMA PassParts ==
  ASSUME TypeInv
  PROVE  /\ watched \in WatchedSet /\ waiting \in [Trades -> Stamps]
         /\ cached \in [Accounts -> Entry] /\ current \in Passes \cup {"older"}
         /\ mode \in {"boot", "armed", "off"} /\ pass \in [Passes -> PassSet]
         /\ faults \in 0..MaxFaults
         /\ Active \subseteq Accounts
         /\ [a \in Accounts |-> account[a].realised] \in [Accounts -> Money]
BY TypeParts DEF TypeInv, Active, AccountSet

LEMMA StartType ==
  ASSUME TypeInv, NEW p \in Passes, StartPass(p)
  PROVE  TypeInv'
<1>1. \A s \in Stamps : Aged(p, s) \in Stamps
  BY DEF Aged, Stamps
<1>2. watched' \in WatchedSet
  BY <1>1, PassParts DEF StartPass, WatchedSet
<1>3. waiting' \in [Trades -> Stamps]
  BY <1>1, PassParts DEF StartPass
<1>4. cached' \in [Accounts -> Entry]
  BY <1>1, PassParts DEF StartPass, Entry
<1>5. pass' \in [Passes -> PassSet]
  <2>1. [NoPass EXCEPT !.pc = "accounts"] \in PassSet
    BY NoTickType DEF PassSet
  <2>. QED
    BY <2>1, PassParts DEF StartPass, Step
<1>. QED
  BY <1>2, <1>3, <1>4, <1>5, PassParts, PassStep DEF StartPass

\* A query is answered.
LEMMA ReadType ==
  ASSUME TypeInv, NEW p \in Passes,
         ReadAccounts(p) \/ ReadTrades(p) \/ ReadPending(p) \/ ReadRealized(p)
  PROVE  TypeInv'
<1>1. pass[p] \in PassSet
  BY PassParts
<1>2. pass' \in [Passes -> PassSet]
  <2>. DEFINE b == [a \in Accounts |-> account[a].realised]
  <2>1. b \in [Accounts -> Money] /\ Active \subseteq Accounts
    BY PassParts
  <2>2. CASE ReadAccounts(p)
    <3>. DEFINE q == [pass[p] EXCEPT !.pc = "gotAccounts", !.accts = Active,
                                     !.balances = b]
    <3>1. pass' = [pass EXCEPT ![p] = q]
      BY <2>2 DEF ReadAccounts
    <3>. HIDE DEF b
    <3>2. q \in PassSet
      BY <1>1, <2>1 DEF PassSet
    <3>. HIDE DEF q
    <3>. QED
      BY <3>1, <3>2, PassParts
  <2>3. CASE ReadRealized(p)
    <3>. DEFINE q == [pass[p] EXCEPT !.pc = "gotRealized", !.balances = b]
    <3>1. pass' = [pass EXCEPT ![p] = q]
      BY <2>3 DEF ReadRealized
    <3>. HIDE DEF b
    <3>2. q \in PassSet
      BY <1>1, <2>1 DEF PassSet
    <3>. HIDE DEF q
    <3>. QED
      BY <3>1, <3>2, PassParts
  <2>4. CASE ReadTrades(p)
    <3>. DEFINE q == [pass[p] EXCEPT !.pc = "gotTrades",
                                     !.rows = {t \in Trades : Live(t)}]
    <3>1. pass' = [pass EXCEPT ![p] = q]
      BY <2>4 DEF ReadTrades
    <3>2. q \in PassSet
      BY <1>1 DEF PassSet
    <3>. HIDE DEF q
    <3>. QED
      BY <3>1, <3>2, PassParts
  <2>5. CASE ReadPending(p)
    <3>. DEFINE q == [pass[p] EXCEPT !.pc = "gotPending",
                        !.rows = {t \in Trades : row[t] = "pending"
                                     /\ account[AccountOf[t]].active}]
    <3>1. pass' = [pass EXCEPT ![p] = q]
      BY <2>5 DEF ReadPending
    <3>2. q \in PassSet
      BY <1>1 DEF PassSet
    <3>. HIDE DEF q
    <3>. QED
      BY <3>1, <3>2, PassParts
  <2>. QED
    BY <2>2, <2>3, <2>4, <2>5
<1>3. UNCHANGED <<watched, waiting, cached, current, mode, faults>> /\ PassUnchanged
  BY DEF ReadAccounts, ReadTrades, ReadPending, ReadRealized
<1>. QED
  BY <1>2, <1>3, PassParts, PassStep

LEMMA StepType ==
  ASSUME TypeInv, NEW p \in Passes, NEW pc \in {"trades", "pending", "accounts"},
         Step(p, pc)
  PROVE  pass' \in [Passes -> PassSet]
<1>1. [NoPass EXCEPT !.pc = pc] \in PassSet
  BY NoTickType DEF PassSet
<1>. QED
  BY <1>1, PassParts DEF Step

LEMMA ApplyAccountsType ==
  ASSUME TypeInv, NEW p \in Passes, ApplyAccounts(p)
  PROVE  /\ TypeInv'
         /\ \A a \in Accounts :
              /\ cached'[a].ids = cached[a].ids
              /\ a \in pass[p].accts => cached'[a].stamp = p
<1>. DEFINE new == [a \in Accounts |->
                      IF a \in pass[p].accts
                      THEN Upserted(cached[a], pass[p].balances[a], p)
                      ELSE cached[a]]
<1>1. cached' = new
  BY DEF ApplyAccounts
<1>2. \A a \in Accounts : cached[a] \in Entry /\ pass[p].balances[a] \in Money
  BY PassParts DEF PassSet
<1>3. p \in Stamps
  BY DEF Stamps
<1>4. \A a \in Accounts : new[a] \in Entry
  BY <1>2, <1>3, UpsertedType
<1>5. \A a \in Accounts : new[a].ids = cached[a].ids
  BY <1>2, <1>3, UpsertedType
<1>6. \A a \in Accounts : a \in pass[p].accts => new[a].stamp = p
  BY <1>2, <1>3, UpsertedType
<1>7. new \in [Accounts -> Entry]
  BY <1>4
<1>. HIDE DEF new
<1>8. TypeInv'
  BY <1>1, <1>7, StepType, PassParts, PassStep DEF ApplyAccounts
<1>. QED
  BY <1>1, <1>5, <1>6, <1>8

LEMMA ApplyTradesType ==
  ASSUME TypeInv, NEW p \in Passes, ApplyTrades(p)
  PROVE  /\ TypeInv'
         /\ \A a \in Accounts :
              /\ cached'[a].stamp = cached[a].stamp
              /\ cached'[a].ids \subseteq cached[a].ids \cup Book(a)
<1>. DEFINE added(a) == pass[p].rows \cap Book(a)
            mine(a) == cached[a].stamp = p
            ids(a) == (IF mine(a) THEN {} ELSE cached[a].ids) \cup added(a)
            orders(a) == IF mine(a) THEN {} ELSE cached[a].orders
            fl(a) == [t \in Trades |-> IF t \in added(a)
                        THEN cached[a].floating[t] - watched[t].last
                        ELSE cached[a].floating[t]]
            e(a) == IF ~Loaded(a) THEN cached[a]
                    ELSE [cached[a] EXCEPT !.ids = ids(a), !.orders = orders(a),
                                           !.floating = fl(a)]
<1>1. cached' = [a \in Accounts |-> e(a)]
  BY DEF ApplyTrades
<1>2. \A a \in Accounts : /\ ids(a) \subseteq cached[a].ids \cup Book(a)
                          /\ ids(a) \subseteq Trades /\ orders(a) \subseteq Trades
  BY PassParts DEF Entry, Book
<1>3. \A a \in Accounts : fl(a) \in Money
  <2>. SUFFICES ASSUME NEW a \in Accounts PROVE fl(a) \in Money
    OBVIOUS
  <2>1. \A t \in Trades : cached[a].floating[t] \in Int /\ watched[t].last \in Int
    BY PassParts DEF Entry, Money, WatchedSet
  <2>. QED
    BY <2>1 DEF Money
<1>. HIDE DEF ids, orders, fl
<1>4. \A a \in Accounts : /\ e(a) \in Entry /\ e(a).stamp = cached[a].stamp
                          /\ e(a).ids \subseteq cached[a].ids \cup Book(a)
  <2>. SUFFICES ASSUME NEW a \in Accounts
                PROVE  /\ e(a) \in Entry /\ e(a).stamp = cached[a].stamp
                       /\ e(a).ids \subseteq cached[a].ids \cup Book(a)
    OBVIOUS
  <2>1. cached[a] \in Entry
    BY PassParts
  <2>. QED
    BY <1>2, <1>3, <2>1 DEF Entry
<1>. HIDE DEF e
<1>5. cached' \in [Accounts -> Entry]
  BY <1>1, <1>4
<1>6. watched' \in WatchedSet
  <2>1. [stamp |-> p, last |-> 0] \in [stamp : Stamps, last : Int]
    BY DEF Stamps
  <2>. QED
    BY <2>1, PassParts DEF ApplyTrades, WatchedSet
<1>7. TypeInv'
  BY <1>5, <1>6, StepType, PassParts, PassStep DEF ApplyTrades
<1>. QED
  BY <1>1, <1>4, <1>7

\* What eviction leaves: well-typed entries with no trade they did not have,
\* and every trade of the pass that no evicted account lists.
LEMMA EvictType ==
  ASSUME TypeInv, NEW p \in Passes, NEW queue \in [Trades -> Stamps],
         NEW books \in [Accounts -> Entry], Evict(p, queue, books)
  PROVE  /\ watched' \in WatchedSet /\ waiting' \in [Trades -> Stamps]
         /\ cached' \in [Accounts -> Entry] /\ mode' \in {"boot", "armed", "off"}
         /\ pass' \in [Passes -> PassSet]
         /\ \A a \in Accounts : cached'[a].ids \subseteq books[a].ids
         /\ \A t \in Trades :
              /\ watched'[t].stamp # "absent" => watched[t].stamp = p
              /\ (/\ watched[t].stamp = p
                  /\ \A a \in Accounts : t \in books[a].ids => books[a].stamp = p)
                 => watched'[t].stamp = p
         /\ pass' = [pass EXCEPT ![p] = NoPass]
<1>. DEFINE taken == UNION {books[a].ids : a \in {b \in Accounts : books[b].stamp # p}}
            left  == UNION {books[a].orders : a \in {b \in Accounts : books[b].stamp # p}}
            kept  == {t \in Trades : watched[t].stamp = p} \ taken
            keptQ == {t \in Trades : queue[t] = p} \ left
            ids(a) == books[a].ids \ {t \in Trades : Indexed(t) /\ t \notin kept}
            orders(a) == books[a].orders \ {t \in Trades : queue[t] # "absent"
                                                           /\ t \notin keptQ}
            fl(a) == [t \in Trades |-> IF t \in kept \cap Book(a) THEN market[t] ELSE 0]
            new == [a \in Accounts |->
                      IF books[a].stamp # p THEN NoEntry
                      ELSE [books[a] EXCEPT !.ids = ids(a), !.orders = orders(a),
                                            !.floating = fl(a)]]
<1>1. /\ watched' = [t \in Trades |-> IF t \in kept
                       THEN [stamp |-> p, last |-> market[t]] ELSE NoTrade]
      /\ waiting' = [t \in Trades |-> IF t \in keptQ THEN p ELSE "absent"]
      /\ cached' = new
      /\ mode' = "armed"
      /\ pass' = [pass EXCEPT ![p] = NoPass]
  BY DEF Evict
<1>2. \A t \in Trades : market[t] \in Int
  BY MarketType DEF TypeInv
<1>3. p \in Stamps /\ "absent" \in Stamps /\ p # "absent"
  BY TradeIndexAssumption DEF Stamps
<1>4. watched' \in WatchedSet
  <2>1. NoTrade \in [stamp : Stamps, last : Int]
    BY NoEntryType
  <2>2. \A t \in Trades : [stamp |-> p, last |-> market[t]] \in [stamp : Stamps, last : Int]
    BY <1>2, <1>3
  <2>. HIDE DEF kept
  <2>. QED
    BY <1>1, <2>1, <2>2 DEF WatchedSet
<1>5. waiting' \in [Trades -> Stamps]
  BY <1>1, <1>3
<1>6. \A t \in Trades : /\ t \in kept => watched[t].stamp = p
                        /\ t \in kept => watched'[t].stamp = p
                        /\ t \notin kept => watched'[t].stamp = "absent"
  BY <1>1 DEF NoTrade
<1>7. \A t \in Trades : (/\ watched[t].stamp = p
                         /\ \A a \in Accounts : t \in books[a].ids => books[a].stamp = p)
                        => t \in kept
  OBVIOUS
<1>8. \A a \in Accounts : /\ ids(a) \subseteq books[a].ids /\ ids(a) \subseteq Trades
                          /\ orders(a) \subseteq Trades
  BY DEF Entry
<1>9. \A a \in Accounts : fl(a) \in Money
  BY <1>2 DEF Money
<1>. HIDE DEF kept, ids, orders, fl
<1>10. \A a \in Accounts : new[a] \in Entry
  <2>. SUFFICES ASSUME NEW a \in Accounts PROVE new[a] \in Entry
    OBVIOUS
  <2>1. books[a] \in Entry
    OBVIOUS
  <2>2. CASE books[a].stamp # p
    BY <2>2, NoEntryType
  <2>3. CASE books[a].stamp = p
    <3>1. new[a] = [books[a] EXCEPT !.ids = ids(a), !.orders = orders(a),
                                    !.floating = fl(a)]
      BY <2>3
    <3>. HIDE DEF new
    <3>. QED
      BY <1>8, <1>9, <2>1, <3>1 DEF Entry
  <2>. QED
    BY <2>2, <2>3
<1>11. \A a \in Accounts : new[a].ids \subseteq books[a].ids
  <2>. SUFFICES ASSUME NEW a \in Accounts PROVE new[a].ids \subseteq books[a].ids
    OBVIOUS
  <2>1. CASE books[a].stamp # p
    BY <2>1 DEF NoEntry
  <2>2. CASE books[a].stamp = p
    <3>1. new[a] = [books[a] EXCEPT !.ids = ids(a), !.orders = orders(a),
                                    !.floating = fl(a)]
      BY <2>2
    <3>2. books[a] \in Entry
      OBVIOUS
    <3>. HIDE DEF new
    <3>. QED
      BY <1>8, <3>1, <3>2 DEF Entry
  <2>. QED
    BY <2>1, <2>2
<1>12. new \in [Accounts -> Entry]
  BY <1>10
<1>. HIDE DEF new
<1>13. pass' \in [Passes -> PassSet]
  BY <1>1, PassParts, NoTickType
<1>14. \A t \in Trades :
         /\ watched'[t].stamp # "absent" => watched[t].stamp = p
         /\ (/\ watched[t].stamp = p
             /\ \A a \in Accounts : t \in books[a].ids => books[a].stamp = p)
            => watched'[t].stamp = p
  BY <1>6, <1>7
<1>. QED
  BY <1>1, <1>4, <1>5, <1>11, <1>12, <1>13, <1>14

\* The orders and the accounts a pass has after its pending query.
Queue(p) == [t \in Trades |-> IF t \in pass[p].rows THEN p ELSE waiting[t]]
Books(p) == [a \in Accounts |->
               IF ~Loaded(a) THEN cached[a]
               ELSE [cached[a] EXCEPT !.orders = @ \cup (pass[p].rows \cap Book(a))]]
Dues(p)  == {a \in Accounts : Books(p)[a].stamp = p /\ Books(p)[a].today = Zero}

LEMMA BooksType ==
  ASSUME TypeInv, NEW p \in Passes
  PROVE  /\ Queue(p) \in [Trades -> Stamps] /\ Books(p) \in [Accounts -> Entry]
         /\ \A a \in Accounts : /\ Books(p)[a].stamp = cached[a].stamp
                                /\ Books(p)[a].ids = cached[a].ids
<1>1. p \in Stamps /\ pass[p].rows \subseteq Trades
  BY PassParts DEF Stamps, PassSet
<1>2. Queue(p) \in [Trades -> Stamps]
  BY <1>1, PassParts DEF Queue
<1>3. \A a \in Accounts : /\ Books(p)[a] \in Entry
                          /\ Books(p)[a].stamp = cached[a].stamp
                          /\ Books(p)[a].ids = cached[a].ids
  BY <1>1, PassParts DEF Books, Entry
<1>. QED
  BY <1>2, <1>3 DEF Books

\* The accounts a pass has after its query of what they realised.
Seeded(p) == [a \in Accounts |->
                IF a \in pass[p].needs /\ Loaded(a)
                THEN [cached[a] EXCEPT !.today = pass[p].balances[a]]
                ELSE cached[a]]

LEMMA SeededType ==
  ASSUME TypeInv, NEW p \in Passes
  PROVE  /\ Seeded(p) \in [Accounts -> Entry]
         /\ \A a \in Accounts : /\ Seeded(p)[a].stamp = cached[a].stamp
                                /\ Seeded(p)[a].ids = cached[a].ids
<1>1. \A a \in Accounts : pass[p].balances[a] \in Money
  BY PassParts DEF PassSet
<1>2. \A a \in Accounts : /\ Seeded(p)[a] \in Entry
                          /\ Seeded(p)[a].stamp = cached[a].stamp
                          /\ Seeded(p)[a].ids = cached[a].ids
  BY <1>1, PassParts DEF Seeded, Entry
<1>. QED
  BY <1>2 DEF Seeded

\* How a pass ends, or goes on to its last query.
LEMMA PendingCases ==
  ASSUME NEW p \in Passes, ApplyPending(p)
  PROVE  \/ Evict(p, Queue(p), Books(p))
         \/ /\ waiting' = Queue(p) /\ cached' = Books(p)
            /\ pass' = [pass EXCEPT ![p] =
                          [NoPass EXCEPT !.pc = "realized", !.needs = Dues(p)]]
            /\ UNCHANGED <<watched, mode, late>>
BY DEF ApplyPending, Queue, Books, Dues

LEMMA ApplyPendingType ==
  ASSUME TypeInv, NEW p \in Passes, ApplyPending(p)
  PROVE  TypeInv'
<1>1. UNCHANGED <<current, faults>> /\ PassUnchanged
  BY DEF ApplyPending
<1>2. CASE Evict(p, Queue(p), Books(p))
  BY <1>1, <1>2, BooksType, EvictType, PassParts, PassStep
<1>3. CASE /\ waiting' = Queue(p) /\ cached' = Books(p)
           /\ pass' = [pass EXCEPT ![p] =
                         [NoPass EXCEPT !.pc = "realized", !.needs = Dues(p)]]
           /\ UNCHANGED <<watched, mode, late>>
  <2>. DEFINE q == [NoPass EXCEPT !.pc = "realized", !.needs = Dues(p)]
  <2>1. q \in PassSet
    BY NoTickType DEF PassSet, Dues
  <2>. HIDE DEF q
  <2>2. pass' \in [Passes -> PassSet]
    BY <1>3, <2>1, PassParts DEF q
  <2>. QED
    BY <1>1, <1>3, <2>2, BooksType, PassParts, PassStep
<1>. QED
  BY <1>2, <1>3, PendingCases

LEMMA ApplyRealizedType ==
  ASSUME TypeInv, NEW p \in Passes, ApplyRealized(p)
  PROVE  TypeInv' /\ Evict(p, waiting, Seeded(p))
<1>1. UNCHANGED <<current, faults>> /\ PassUnchanged /\ Evict(p, waiting, Seeded(p))
  BY DEF ApplyRealized, Seeded
<1>. QED
  BY <1>1, SeededType, EvictType, PassParts, PassStep

LEMMA FailType ==
  ASSUME TypeInv, NEW p \in Passes, FailPass(p)
  PROVE  TypeInv'
<1>1. pass' \in [Passes -> PassSet]
  BY PassParts, NoTickType DEF FailPass
<1>. QED
  BY <1>1, PassParts, FaultType, PassStep DEF FailPass

LEMMA RestartType ==
  ASSUME TypeInv, Restart
  PROVE  TypeInv'
<1>1. /\ watched' \in WatchedSet /\ cached' \in [Accounts -> Entry]
      /\ waiting' \in [Trades -> Stamps]
  BY NoEntryType DEF Restart, WatchedSet, Stamps
<1>2. pass' \in [Passes -> PassSet] /\ tick' \in TickSet
  BY NoTickType DEF Restart
<1>3. calls' \subseteq CallSet /\ CallsInv' /\ changed' \subseteq Trades
  BY DEF Restart, CallsInv
<1>4. faults' \in 0..MaxFaults
  BY FaultType DEF Restart
<1>5. StateOK'
  BY <1>1, <1>2, <1>3, <1>4, TypeParts
     DEF TypeInv, Restart, StateOK, Entry, CallSet, RowSet, AccountSet,
         WatchedSet, PassSet, TickSet
<1>. QED
  BY <1>3, <1>5 DEF TypeInv

LEMMA TypeNext == TypeInv /\ [Next]_vars => TypeInv'
<1>. SUFFICES ASSUME TypeInv, [Next]_vars PROVE TypeInv'
  OBVIOUS
<1>1. CASE Routes
  BY <1>1, RouteTypes DEF Routes
<1>2. CASE Engine
  BY <1>2, EngineTypes, MoveType, EndType, SwitchType DEF Engine
<1>3. CASE Sync
  BY <1>3, LookupType, ApplyType DEF Sync
<1>4. CASE Tick
  BY <1>4, ScanType, TickCommitType, TickSyncType DEF Tick
<1>5. CASE \E p \in Passes : Reconcile(p)
  BY <1>5, StartType, ReadType, ApplyAccountsType, ApplyTradesType,
     ApplyPendingType, ApplyRealizedType DEF Reconcile
<1>6. CASE Faults
  BY <1>6, LoseType, FailType, TickFailType, RestartType DEF Faults
<1>7. CASE UNCHANGED vars
  <2>1. StateOK'
    BY <1>7 DEF TypeInv, StateOK, vars
  <2>2. CallsInv'
    BY <1>7 DEF TypeInv, CallsInv, vars
  <2>. QED
    BY <2>1, <2>2 DEF TypeInv
<1>. QED
  BY <1>1, <1>2, <1>3, <1>4, <1>5, <1>6, <1>7 DEF Next

LEMMA HistoryNext ==
  ASSUME TypeInv, HistoryOK, [Next]_vars
  PROVE  HistoryOK'
<1>1. \/ alone' \in {alone, {}} \/ \E p \in Passes : alone' = {p}
  BY DEF Next, Routes, Engine, Sync, Tick, Reconcile, Faults, Open, Modify, ClosePart,
         Close, Cancel, Fill, CheckSLTP, CancelPending, Move, End, SwitchStatus, Lookup,
         ApplyCall, Scan, TickCommit, TickSync, TickFail, StartPass, ReadAccounts,
         ApplyAccounts, ReadTrades, ApplyTrades, ReadPending, ApplyPending,
         ReadRealized, ApplyRealized, Lose, FailPass, Restart, EngineUnchanged,
         RouteUnchanged, CallUnchanged, TickUnchanged, PassUnchanged, vars, history
<1>2. mixed' \in {mixed, TRUE, FALSE}
  BY DEF Next, Routes, Engine, Sync, Tick, Reconcile, Faults, Open, Modify, ClosePart,
         Close, Cancel, Fill, CheckSLTP, CancelPending, Move, End, SwitchStatus, Lookup,
         ApplyCall, Scan, TickCommit, TickSync, TickFail, StartPass, ReadAccounts,
         ApplyAccounts, ReadTrades, ApplyTrades, ReadPending, ApplyPending,
         ReadRealized, ApplyRealized, Lose, FailPass, Restart, EngineUnchanged,
         RouteUnchanged, CallUnchanged, TickUnchanged, PassUnchanged, vars, history
<1>3. late' \subseteq Accounts
  <2>1. ASSUME NEW made \in SUBSET Accounts, MakeEntries(made)
        PROVE  late' \subseteq Accounts
    BY <2>1 DEF MakeEntries, HistoryOK
  <2>2. ASSUME NEW c \in calls, ApplyCall(c)
        PROVE  late' \subseteq Accounts
    <3>1. Made(c) \subseteq Accounts
      BY CallParts DEF Made
    <3>. QED
      BY <2>1, <2>2, <3>1 DEF ApplyCall
  <2>3. ASSUME NEW p \in Passes, ApplyAccounts(p)
        PROVE  late' \subseteq Accounts
    <3>1. {a \in pass[p].accts : ~Loaded(a)} \subseteq Accounts
      BY PassParts DEF PassSet
    <3>. QED
      BY <2>1, <2>3, <3>1 DEF ApplyAccounts
  <2>4. \/ late' \in {late, {}}
        \/ \E c \in calls : ApplyCall(c)
        \/ \E p \in Passes : ApplyAccounts(p)
    BY DEF Next, Routes, Engine, Sync, Tick, Reconcile, Faults, Open, Modify,
           ClosePart, Close, Cancel, Fill, CheckSLTP, CancelPending, Move, End,
           SwitchStatus, Lookup, Scan, TickCommit, TickSync, TickFail, StartPass,
           ReadAccounts, ReadTrades, ApplyTrades, ReadPending, ApplyPending, Evict,
           ReadRealized, ApplyRealized, Lose, FailPass, Restart, EngineUnchanged,
           RouteUnchanged, CallUnchanged, TickUnchanged, PassUnchanged, vars, history
  <2>. QED
    BY <2>2, <2>3, <2>4 DEF HistoryOK
<1>. QED
  BY <1>1, <1>2, <1>3 DEF HistoryOK

\* Every state of the index is well typed: the floating totals, stamps and
\* lists of ids of utils/tradeIndex.ts stay within their types whatever the
\* order of calls, ticks, passes and faults.
THEOREM IndexTyped == Spec => []TypeOK
<1>1. Init => TypeInv /\ HistoryOK
  BY TypeInit DEF Init, HistoryOK
<1>2. TypeInv /\ HistoryOK /\ [Next]_vars => (TypeInv /\ HistoryOK)'
  BY TypeNext, HistoryNext
<1>3. TypeInv /\ HistoryOK => TypeOK
  BY DEF TypeInv, TypeOK
<1>. QED
  BY <1>1, <1>2, <1>3, PTL DEF Spec

-----------------------------------------------------------------------------
(* Eviction.  TypeInv bounds the entries, StampInv follows the stamps.       *)

IInv == TypeInv /\ HistoryOK /\ StampInv

LEMMA StampInit == Init => StampInv
<1>. SUFFICES ASSUME Init PROVE StampInv
  OBVIOUS
<1>1. /\ \A a \in Accounts : cached[a].ids = {}
      /\ \A t \in Trades : ~Indexed(t)
      /\ calls = {} /\ \A p \in Passes : pass[p].pc = "idle"
  BY DEF Init, NoEntry, NoTrade, NoPass, Indexed
<1>. QED
  BY <1>1 DEF Init, StampInv, IdsInv, UnopenedInv, AloneInv, AccountsInv,
              TradesInv, AfterAccounts, AfterTrades

\* The entry of an account keeps its stamp, takes the generation's or is
\* removed, and lists only trades of its own.
Kept(a) ==
  /\ cached'[a].ids \subseteq cached[a].ids \cup Book(a)
  /\ cached'[a].stamp \in {cached[a].stamp, current, "absent"}
  /\ cached'[a].stamp = "absent" =>
       \/ cached'[a].ids = {}
       \/ cached[a].stamp = "absent" /\ cached'[a].ids \subseteq cached[a].ids

\* A step that is not one of a pass: no trade is opened a second time, no
\* account becomes active, and what enters the index carries the generation.
LEMMA StampStep ==
  ASSUME IInv, UNCHANGED <<current, pass, alone>>,
         \A a \in Accounts : account'[a].active => account[a].active,
         \A t \in Trades : ~Unopened(t) =>
           ~Unopened(t)' /\ (row'[t] = "open" => row[t] = "open"),
         \A c \in calls' :
           \/ \E d \in calls : /\ d.type = c.type /\ d.trade = c.trade
                               /\ d.account = c.account
           \/ c.type \in {"open", "filled"} /\ row'[c.trade] = "open"
           \/ c.type \notin {"open", "filled"},
         \A c \in calls : c.account \in Accounts,
         \A t \in Trades : watched'[t].stamp # "absent" =>
           \/ watched'[t].stamp = watched[t].stamp
           \/ watched'[t].stamp = current /\ ~Unopened(t),
         \A a \in Accounts : Kept(a)
  PROVE  StampInv'
<1>. USE DEF IInv, StampInv
<1>1. IdsInv'
  BY DEF IdsInv, Book, Kept, Loaded
<1>2. AloneInv'
  BY DEF AloneInv
<1>3. \A t \in Trades : Indexed(t) => ~Unopened(t)
  BY DEF UnopenedInv
<1>4. UnopenedInv'
  <2>. SUFFICES ASSUME NEW t \in Trades, Unopened(t)'
                PROVE  /\ ~Indexed(t)'
                       /\ \A c \in calls' : c.type \in {"open", "filled"} => c.trade # t
                       /\ \A p \in Passes : pass'[p].pc = "gotTrades"
                                              => t \notin pass'[p].rows
    BY DEF UnopenedInv
  <2>1. Unopened(t)
    OBVIOUS
  <2>2. ~Indexed(t)'
    BY <1>3, <2>1 DEF Indexed
  <2>3. \A c \in calls' : c.type \in {"open", "filled"} => c.trade # t
    <3>. SUFFICES ASSUME NEW c \in calls', c.type \in {"open", "filled"}, c.trade = t
                  PROVE  FALSE
      OBVIOUS
    <3>1. row'[t] # "open"
      BY DEF Unopened
    <3>2. PICK d \in calls : d.type = c.type /\ d.trade = c.trade
      BY <3>1
    <3>. QED
      BY <2>1, <3>2 DEF UnopenedInv
  <2>. QED
    BY <2>1, <2>2, <2>3 DEF UnopenedInv
<1>5. AccountsInv'
  <2>. SUFFICES ASSUME NEW p \in alone
                PROVE  /\ pass[p].pc = "gotAccounts" => Active' \subseteq pass[p].accts
                       /\ pass[p].pc \in AfterAccounts =>
                            \A a \in Active' : Loaded(a)' => cached'[a].stamp = p
    BY DEF AccountsInv
  <2>1. p \in Passes /\ Active' \subseteq Active
    BY DEF HistoryOK, Active
  <2>2. pass[p].pc \in AfterAccounts => current = p
    BY <2>1 DEF AloneInv, AfterAccounts
  <2>3. ASSUME NEW a \in Active', Loaded(a)', pass[p].pc \in AfterAccounts
        PROVE  cached'[a].stamp = p
    <3>1. a \in Active /\ a \in Accounts /\ Kept(a)
      BY <2>1 DEF Active
    <3>2. cached'[a].stamp \in {cached[a].stamp, current} /\ cached'[a].stamp # "absent"
      BY <2>3, <3>1 DEF Kept, Loaded
    <3>. QED
      BY <2>2, <2>3, <3>1, <3>2 DEF AccountsInv, Loaded
  <2>. QED
    BY <2>1, <2>3 DEF AccountsInv
<1>6. TradesInv'
  <2>. SUFFICES ASSUME NEW p \in alone, NEW t \in Trades, Indexed(t)', Live(t)'
                PROVE  /\ pass'[p].pc = "gotTrades"
                            => t \in pass'[p].rows \/ watched'[t].stamp = p
                       /\ pass'[p].pc \in AfterTrades => watched'[t].stamp = p
    BY DEF TradesInv
  <2>1. CASE watched'[t].stamp = watched[t].stamp
    <3>1. Indexed(t) /\ ~Unopened(t)
      BY <1>3, <2>1 DEF Indexed
    <3>2. AccountOf[t] \in Accounts
      BY TradeIndexAssumption
    <3>3. Live(t)
      BY <3>1, <3>2 DEF Live
    <3>. QED
      BY <2>1, <3>1, <3>3 DEF TradesInv
  <2>2. CASE watched'[t].stamp = current
    BY <2>2 DEF AloneInv, HistoryOK, AfterTrades
  <2>. QED
    BY <2>1, <2>2 DEF Indexed
<1>. QED
  BY <1>1, <1>2, <1>4, <1>5, <1>6

\* What the step lemma needs of the calls that are already on their way.
LEMMA OldCalls ==
  ASSUME IInv
  PROVE  /\ \A c \in calls : c.account \in Accounts
         /\ \A t \in Trades : AccountOf[t] \in Accounts
         /\ \A a \in Accounts, t \in Trades :
              /\ account[a].active \in BOOLEAN
              /\ row[t] \in {"none", "pending", "open", "closed"}
BY CallParts, TradeIndexAssumption, TickParts DEF IInv, RowSet, AccountSet

LEMMA CallFields ==
  ASSUME NEW type, NEW a, NEW t, NEW pnl, NEW balance
  PROVE  /\ Call(type, a, t, pnl, balance).type = type
         /\ Call(type, a, t, pnl, balance).account = a
         /\ Call(type, a, t, pnl, balance).trade = t
BY DEF Call

\* A call about t is added, and it says "open" or "filled" only of a row that is.
LEMMA AddedCall ==
  ASSUME NEW t, NEW c, calls' = calls \cup {c}, c.trade = t,
         \/ c.type \notin {"open", "filled"}
         \/ c.type \in {"open", "filled"} /\ row'[t] = "open"
  PROVE  \A d \in calls' :
           \/ \E e \in calls : /\ e.type = d.type /\ e.trade = d.trade
                               /\ e.account = d.account
           \/ d.type \in {"open", "filled"} /\ row'[d.trade] = "open"
           \/ d.type \notin {"open", "filled"}
OBVIOUS

LEMMA RouteStamps ==
  ASSUME IInv, NEW t \in Trades,
         Open(t) \/ Modify(t) \/ ClosePart(t) \/ Close(t) \/ Cancel(t)
  PROVE  StampInv'
<1>1. UNCHANGED <<current, pass, alone, watched, cached>>
  BY DEF Open, Modify, ClosePart, Close, Cancel, RouteUnchanged, Untouched, history
<1>2. \A a \in Accounts : account'[a].active = account[a].active
  <2>1. CASE Earn(t)
    BY <2>1, OldCalls, TickParts DEF Earn, IInv, AccountSet
  <2>2. CASE UNCHANGED account
    BY <2>2
  <2>. QED
    BY <2>1, <2>2 DEF Open, Modify, ClosePart, Close, Cancel
<1>3. \/ row' = row
      \/ /\ row[t] = "none"
         /\ \E how \in {"open", "pending"} : row' = [row EXCEPT ![t] = how]
      \/ row' = [row EXCEPT ![t] = "closed"]
  BY DEF Open, Modify, ClosePart, Close, Cancel
<1>4. row \in RowSet
  BY TickParts DEF IInv
<1>5. \A u \in Trades : ~Unopened(u) =>
        ~Unopened(u)' /\ (row'[u] = "open" => row[u] = "open")
  BY <1>3, <1>4 DEF Unopened, RowSet
<1>7. \A c \in calls' :
        \/ \E d \in calls : /\ d.type = c.type /\ d.trade = c.trade
                            /\ d.account = c.account
        \/ c.type \in {"open", "filled"} /\ row'[c.trade] = "open"
        \/ c.type \notin {"open", "filled"}
  <2>1. CASE Open(t)
    <3>1. PICK how \in {"open", "pending"} :
            /\ row' = [row EXCEPT ![t] = how]
            /\ calls' = calls \cup {Call(how, AccountOf[t], t, Null, Null)}
      BY <2>1 DEF Open
    <3>2. row'[t] = how
      BY <1>4, <3>1 DEF RowSet
    <3>. QED
      BY <3>1, <3>2, CallFields, AddedCall
  <2>2. CASE Modify(t)
    <3>1. row' = row /\ row[t] \in {"open", "pending"}
      BY <2>2 DEF Modify
    <3>2. calls' = calls \cup {Call(row[t], AccountOf[t], t, Null, Null)}
      BY <2>2 DEF Modify
    <3>. QED
      BY <3>1, <3>2, CallFields, AddedCall
  <2>3. CASE ClosePart(t)
    BY <2>3, CallFields, AddedCall DEF ClosePart
  <2>4. CASE Close(t)
    BY <2>4, CallFields, AddedCall DEF Close
  <2>5. CASE Cancel(t)
    BY <2>5, CallFields, AddedCall DEF Cancel
  <2>. QED
    BY <2>1, <2>2, <2>3, <2>4, <2>5
<1>8. \A a \in Accounts : account'[a].active => account[a].active
  BY <1>2
<1>9. /\ \A u \in Trades : watched'[u].stamp = watched[u].stamp
      /\ \A a \in Accounts : Kept(a)
  BY <1>1 DEF Kept
<1>. QED
  BY <1>1, <1>5, <1>7, <1>8, <1>9, OldCalls, StampStep

LEMMA EngineStamps ==
  ASSUME IInv, NEW t \in Trades,
         Fill(t) \/ CheckSLTP(t) \/ CancelPending(t)
  PROVE  StampInv'
<1>1. UNCHANGED <<current, pass, alone, watched, cached>>
  BY DEF Fill, CheckSLTP, CancelPending, EngineUnchanged, RouteUnchanged, Untouched,
         history
<1>2. \A a \in Accounts : account'[a].active = account[a].active
  <2>1. CASE Earn(t)
    BY <2>1, OldCalls, TickParts DEF Earn, IInv, AccountSet
  <2>2. CASE UNCHANGED account
    BY <2>2
  <2>. QED
    BY <2>1, <2>2 DEF Fill, CheckSLTP, CancelPending
<1>3. \/ row[t] = "pending" /\ row' = [row EXCEPT ![t] = "open"]
      \/ row' = [row EXCEPT ![t] = "closed"]
  BY DEF Fill, CheckSLTP, CancelPending
<1>4. row \in RowSet
  BY TickParts DEF IInv
<1>5. \A u \in Trades : ~Unopened(u) =>
        ~Unopened(u)' /\ (row'[u] = "open" => row[u] = "open")
  BY <1>3, <1>4 DEF Unopened, RowSet
<1>7. \A c \in calls' :
        \/ \E d \in calls : /\ d.type = c.type /\ d.trade = c.trade
                            /\ d.account = c.account
        \/ c.type \in {"open", "filled"} /\ row'[c.trade] = "open"
        \/ c.type \notin {"open", "filled"}
  <2>1. CASE Fill(t)
    <3>1. row'[t] = "open"
      BY <1>4, <2>1 DEF Fill, RowSet
    <3>2. calls' = calls \cup {Call("filled", AccountOf[t], t, Null, Null)}
      BY <2>1 DEF Fill
    <3>. QED
      BY <3>1, <3>2, CallFields, AddedCall
  <2>2. CASE CheckSLTP(t)
    BY <2>2, CallFields, AddedCall DEF CheckSLTP
  <2>3. CASE CancelPending(t)
    BY <2>3, CallFields, AddedCall DEF CancelPending
  <2>. QED
    BY <2>1, <2>2, <2>3
<1>8. \A a \in Accounts : account'[a].active => account[a].active
  BY <1>2
<1>9. /\ \A u \in Trades : watched'[u].stamp = watched[u].stamp
      /\ \A a \in Accounts : Kept(a)
  BY <1>1 DEF Kept
<1>. QED
  BY <1>1, <1>5, <1>7, <1>8, <1>9, OldCalls, StampStep

LEMMA EndStamps ==
  ASSUME IInv, NEW a \in Accounts, End(a)
  PROVE  StampInv'
<1>1. UNCHANGED <<current, pass, alone, watched, cached>>
  BY DEF End, EngineUnchanged, RouteUnchanged, Untouched, history
<1>7. \A b \in Accounts : Kept(b)
  BY <1>1 DEF Kept
<1>2. row' = [t \in Trades |->
                IF AccountOf[t] = a /\ row[t] \in {"open", "pending"}
                THEN "closed" ELSE row[t]]
  BY DEF End
<1>3. \A t \in Trades : ~Unopened(t) =>
        ~Unopened(t)' /\ (row'[t] = "open" => row[t] = "open")
  BY <1>2 DEF Unopened
<1>. DEFINE sum == [t \in Trades |->
                      IF AccountOf[t] = a /\ row[t] = "open"
                      THEN account[a].realised[t] + market[t]
                      ELSE account[a].realised[t]]
<1>4. account' = [account EXCEPT ![a] = [active |-> FALSE, realised |-> sum]]
  BY DEF End
<1>. HIDE DEF sum
<1>5. /\ ~account'[a].active
      /\ \A b \in Accounts : account'[b].active => account[b].active
  BY <1>4, TickParts DEF IInv, AccountSet
<1>6. calls' = calls \/ \E c : /\ calls' = calls \cup {c}
                               /\ c.type = "ended" /\ c.account = a
  BY DEF End, Call
<1>. QED
  BY <1>1, <1>3, <1>5, <1>6, <1>7, OldCalls, StampStep

LEMMA SwitchStamps ==
  ASSUME IInv, NEW a \in Accounts, SwitchStatus(a)
  PROVE  StampInv'
<1>1. UNCHANGED <<current, pass, watched, cached, row, calls>>
  BY DEF SwitchStatus, Untouched
<1>2. \A t \in Trades : Unopened(t)' = Unopened(t)
  BY <1>1 DEF Unopened
<1>3. CASE account[a].active
  <2>1. account' = [account EXCEPT ![a].active = FALSE] /\ UNCHANGED alone
    BY <1>3 DEF SwitchStatus
  <2>2. \A b \in Accounts : account'[b].active => account[b].active
    BY <2>1, TickParts DEF IInv, AccountSet
  <2>3. \A b \in Accounts : Kept(b)
    BY <1>1 DEF Kept
  <2>. QED
    BY <1>1, <1>2, <2>1, <2>2, <2>3, OldCalls, StampStep
<1>4. CASE ~account[a].active
  <2>1. alone' = {}
    BY <1>4 DEF SwitchStatus
  <2>2. IdsInv' /\ UnopenedInv'
    BY <1>1, <1>2 DEF IInv, StampInv, IdsInv, UnopenedInv, Loaded, Indexed
  <2>3. AloneInv' /\ AccountsInv' /\ TradesInv'
    BY <2>1 DEF AloneInv, AccountsInv, TradesInv
  <2>. QED
    BY <2>2, <2>3 DEF StampInv
<1>. QED
  BY <1>3, <1>4

LEMMA LookupStamps ==
  ASSUME IInv, NEW c \in calls, Lookup(c)
  PROVE  StampInv'
<1>1. UNCHANGED <<current, pass, alone, watched, cached, row, account>>
  BY DEF Lookup, CallUnchanged
<1>5. \A a \in Accounts : Kept(a)
  BY <1>1 DEF Kept
<1>2. c \in CallSet
  BY CallParts DEF IInv
<1>3. \A d \in calls' : d \in calls \/ (/\ d.type = c.type /\ d.trade = c.trade
                                       /\ d.account = c.account)
  BY <1>2 DEF Lookup, CallSet
<1>4. \A t \in Trades : Unopened(t)' = Unopened(t)
  BY <1>1 DEF Unopened
<1>. QED
  BY <1>1, <1>3, <1>4, <1>5, OldCalls, StampStep

LEMMA ApplyStamps ==
  ASSUME IInv, NEW c \in calls, ApplyCall(c)
  PROVE  StampInv'
<1>1. UNCHANGED <<current, pass, alone, row, account>> /\ calls' \subseteq calls
  BY DEF ApplyCall, CallUnchanged
<1>2. \A t \in Trades : Unopened(t)' = Unopened(t)
  BY <1>1 DEF Unopened
<1>3. /\ c.account \in Accounts
      /\ c.type # "ended" => c.trade \in Trades /\ c.account = AccountOf[c.trade]
  BY CallParts DEF IInv
<1>4. PICK e \in Entry :
        /\ cached' = [cached EXCEPT ![c.account] = e]
        /\ c.type # "ended" => e.stamp \in {cached[c.account].stamp, current}
        /\ e.ids \subseteq cached[c.account].ids
             \cup {t \in Trades : c.type \in {"open", "filled"} /\ t = c.trade}
        /\ e.stamp = "absent" => /\ e.ids \subseteq cached[c.account].ids
                                 /\ c.type = "ended" => e.ids = {}
        /\ c.type = "ended" => e = NoEntry
  BY CallEntry DEF IInv
<1>5. \A a \in Accounts \ {c.account} : cached'[a] = cached[a]
  BY <1>4, PassParts DEF IInv
<1>6. Kept(c.account)
  <2>1. cached'[c.account] = e /\ current # "absent"
    BY <1>3, <1>4, PassParts, TradeIndexAssumption DEF IInv
  <2>2. e.stamp \in {cached[c.account].stamp, current, "absent"}
    BY <1>4 DEF NoEntry
  <2>. QED
    BY <1>3, <1>4, <2>1, <2>2 DEF Kept, Book
<1>8. \A a \in Accounts : Kept(a)
  BY <1>5, <1>6 DEF Kept
<1>7. \A t \in Trades : watched'[t].stamp # "absent" =>
        \/ watched'[t].stamp = watched[t].stamp
        \/ watched'[t].stamp = current /\ ~Unopened(t)
  <2>1. c.type # "ended" => Watch(c.trade).stamp = current
    BY <1>3, WatchType DEF IInv
  <2>2. \/ watched' = watched
        \/ /\ c.type \in {"open", "filled"}
           /\ watched' = [watched EXCEPT ![c.trade] = Watch(c.trade)]
        \/ watched' = [watched EXCEPT ![c.trade] = NoTrade]
        \/ watched' = [t \in Trades |-> IF t \in cached[c.account].ids
                                        THEN NoTrade ELSE watched[t]]
    BY DEF ApplyCall, SyncOpened, SyncPending, SyncClosed, SyncFilled, SyncEnded
  <2>3. c.type \in {"open", "filled"} => ~Unopened(c.trade)
    BY <1>3 DEF IInv, StampInv, UnopenedInv
  <2>4. watched \in WatchedSet /\ NoTrade.stamp = "absent"
    BY PassParts DEF IInv, NoTrade
  <2>. QED
    BY <2>1, <2>2, <2>3, <2>4 DEF WatchedSet
<1>. QED
  BY <1>1, <1>2, <1>7, <1>8, OldCalls, StampStep

LEMMA TickStamps ==
  ASSUME IInv, Scan \/ TickCommit \/ TickSync \/ TickFail
               \/ (\E t \in Trades : Move(t)) \/ (\E c \in calls : Lose(c))
  PROVE  StampInv'
<1>1. UNCHANGED <<current, pass, alone>> /\ calls' \subseteq calls
  BY DEF Scan, TickCommit, TickSync, TickFail, Move, Lose, TickUnchanged, history
<1>2. \A a \in Accounts : account'[a].active => account[a].active
  <2>1. CASE TickCommit
    <3>1. PICK owned \in SUBSET {t \in tick.hit : row[t] = "open"} :
            account' = [a \in Accounts |->
              [account[a] EXCEPT !.realised = [t \in Trades |->
                 IF t \in owned \cap Book(a) THEN @[t] + tick.pnls[t] ELSE @[t]]]]
      BY <2>1 DEF TickCommit
    <3>. SUFFICES ASSUME NEW a \in Accounts
                  PROVE  account'[a].active = account[a].active
      OBVIOUS
    <3>. DEFINE sum == [t \in Trades |-> IF t \in owned \cap Book(a)
                          THEN account[a].realised[t] + tick.pnls[t]
                          ELSE account[a].realised[t]]
    <3>2. account'[a] = [account[a] EXCEPT !.realised = sum]
      BY <3>1
    <3>. HIDE DEF sum
    <3>. QED
      BY <3>2, TickParts DEF IInv, AccountSet
  <2>2. CASE UNCHANGED account
    BY <2>2
  <2>. QED
    BY <2>1, <2>2 DEF Scan, TickSync, TickFail, Move, Lose
<1>3. \A t \in Trades : ~Unopened(t) =>
        ~Unopened(t)' /\ (row'[t] = "open" => row[t] = "open")
  <2>1. \/ row' = row
        \/ \E owned : row' = [t \in Trades |-> IF t \in owned THEN "closed" ELSE row[t]]
    BY DEF Scan, TickCommit, TickSync, TickFail, Move, Lose
  <2>. QED
    BY <2>1 DEF Unopened
<1>4. \A t \in Trades : watched'[t].stamp \in {watched[t].stamp, "absent"}
  <2>1. \/ watched' = watched
        \/ \E seen : watched' = [t \in Trades |->
             IF t \in seen THEN [watched[t] EXCEPT !.last = market[t]]
             ELSE watched[t]]
        \/ \E gone : watched' = [t \in Trades |->
             IF t \in gone THEN NoTrade ELSE watched[t]]
    BY DEF Scan, TickCommit, TickSync, TickFail, Move, Lose
  <2>2. NoTrade.stamp = "absent" /\ watched \in WatchedSet
    BY PassParts DEF NoTrade, IInv
  <2>. QED
    BY <2>1, <2>2 DEF WatchedSet
<1>5. \A a \in Accounts : /\ cached'[a].stamp = cached[a].stamp
                          /\ cached'[a].ids \subseteq cached[a].ids
  <2>1. CASE Scan
    <3>. SUFFICES ASSUME NEW a \in Accounts
                  PROVE  /\ cached'[a].stamp = cached[a].stamp
                         /\ cached'[a].ids = cached[a].ids
      OBVIOUS
    <3>1. \E f : cached'[a] = IF ~Loaded(a) THEN cached[a]
                              ELSE [cached[a] EXCEPT !.floating = f]
      BY <2>1 DEF Scan
    <3>2. cached[a] \in Entry
      BY PassParts DEF IInv
    <3>. QED
      BY <3>1, <3>2 DEF Entry
  <2>2. CASE TickSync
    BY <2>2, TickSyncType DEF IInv
  <2>3. CASE UNCHANGED cached
    BY <2>3
  <2>. QED
    BY <2>1, <2>2, <2>3 DEF TickCommit, TickFail, Move, Lose
<1>6. \A a \in Accounts : Kept(a)
  BY <1>5 DEF Kept
<1>. QED
  BY <1>1, <1>2, <1>3, <1>4, <1>6, OldCalls, StampStep

-----------------------------------------------------------------------------
(* The steps of a pass.                                                     *)

\* A pass writes neither rows nor calls: what is left are the accounts and the
\* trades it stamps, and the rows it has read.
LEMMA PassStamps ==
  ASSUME IInv, PassUnchanged,
         \A a \in Accounts : /\ cached'[a].ids \subseteq cached[a].ids \cup Book(a)
                             /\ cached'[a].stamp = "absent" => cached'[a].ids = {},
         \A t \in Trades : watched'[t].stamp # "absent" => ~Unopened(t),
         \A p \in Passes : pass'[p].pc = "gotTrades"
                             => \A t \in pass'[p].rows : ~Unopened(t),
         AloneInv', AccountsInv', TradesInv'
  PROVE  StampInv'
<1>1. IdsInv'
  BY DEF IInv, StampInv, IdsInv, Book, Loaded
<1>2. UnopenedInv'
  BY DEF IInv, StampInv, UnopenedInv, PassUnchanged, Unopened, Indexed
<1>. QED
  BY <1>1, <1>2 DEF StampInv

\* What a pass finds in the index, or has read of the trades, has been open.
LEMMA SeenOpened ==
  ASSUME IInv
  PROVE  /\ \A t \in Trades : watched[t].stamp # "absent" => ~Unopened(t)
         /\ \A q \in Passes : pass[q].pc = "gotTrades"
                                => \A t \in pass[q].rows : ~Unopened(t)
         /\ \A a \in Accounts : cached[a].stamp = "absent" => cached[a].ids = {}
<1>1. \A q \in Passes : pass[q].rows \subseteq Trades
  BY PassParts DEF IInv, PassSet
<1>. QED
  BY <1>1 DEF IInv, StampInv, UnopenedInv, IdsInv, Indexed, Loaded

\* While a pass is under way no other is alone.
LEMMA OnlyMine ==
  ASSUME IInv, NEW p \in Passes, pass[p].pc # "idle"
  PROVE  /\ \A q \in alone : q = p /\ current = p
         /\ \A q \in alone, r \in Passes : pass[r].pc # "idle" => r = p
BY DEF IInv, StampInv, AloneInv

\* A step of a pass under way, as far as being alone goes.
LEMMA StillAlone ==
  ASSUME IInv, NEW p \in Passes, pass[p].pc # "idle", UNCHANGED <<alone, current>>,
         \A q \in Passes \ {p} : pass'[q] = pass[q]
  PROVE  AloneInv'
BY OnlyMine DEF AloneInv

LEMMA StartStamps ==
  ASSUME IInv, NEW p \in Passes, StartPass(p)
  PROVE  StampInv'
<1>1. /\ pass'[p].pc = "accounts" /\ current' = p
      /\ \A q \in Passes \ {p} : pass'[q] = pass[q]
  BY PassParts DEF StartPass, Step, NoPass, IInv
<1>2. \A a \in Accounts : /\ cached'[a].ids = cached[a].ids
                          /\ cached'[a].stamp = "absent" => cached[a].stamp = "absent"
  <2>. SUFFICES ASSUME NEW a \in Accounts
                PROVE  /\ cached'[a].ids = cached[a].ids
                       /\ cached'[a].stamp = Aged(p, cached[a].stamp)
    BY TradeIndexAssumption DEF Aged
  <2>1. cached[a] \in Entry
        /\ cached'[a] = [cached[a] EXCEPT !.stamp = Aged(p, cached[a].stamp)]
    BY PassParts DEF StartPass, IInv
  <2>. QED
    BY <2>1 DEF Entry
<1>3. \A t \in Trades : watched'[t].stamp # "absent" => watched[t].stamp # "absent"
  <2>. SUFFICES ASSUME NEW t \in Trades
                PROVE  watched'[t].stamp = Aged(p, watched[t].stamp)
    BY TradeIndexAssumption DEF Aged
  <2>1. watched[t] \in [stamp : Stamps, last : Int]
    BY PassParts DEF IInv, WatchedSet
  <2>2. watched'[t] = [watched[t] EXCEPT !.stamp = Aged(p, watched[t].stamp)]
    BY DEF StartPass
  <2>. QED
    BY <2>1, <2>2
<1>4. \/ alone' = {}
      \/ alone' = {p} /\ \A q \in Passes \ {p} : pass'[q].pc = "idle"
  BY <1>1 DEF StartPass, At
<1>5. AloneInv' /\ AccountsInv' /\ TradesInv'
  BY <1>1, <1>4 DEF AloneInv, AccountsInv, TradesInv, AfterAccounts, AfterTrades
<1>6. PassUnchanged
  BY DEF StartPass
<1>7. /\ \A a \in Accounts : /\ cached'[a].ids \subseteq cached[a].ids \cup Book(a)
                             /\ cached'[a].stamp = "absent" => cached'[a].ids = {}
      /\ \A t \in Trades : watched'[t].stamp # "absent" => ~Unopened(t)
      /\ \A q \in Passes : pass'[q].pc = "gotTrades"
                             => \A t \in pass'[q].rows : ~Unopened(t)
  BY <1>1, <1>2, <1>3, SeenOpened
<1>. QED
  BY <1>5, <1>6, <1>7, PassStamps

LEMMA ReadStamps ==
  ASSUME IInv, NEW p \in Passes,
         ReadAccounts(p) \/ ReadTrades(p) \/ ReadPending(p) \/ ReadRealized(p)
  PROVE  StampInv'
<1>1. UNCHANGED <<watched, cached, current, alone>> /\ PassUnchanged
  BY DEF ReadAccounts, ReadTrades, ReadPending, ReadRealized, history
<1>2. pass \in [Passes -> PassSet]
  BY PassParts DEF IInv
<1>3. \/ /\ pass[p].pc = "accounts" /\ pass'[p].pc = "gotAccounts"
         /\ pass'[p].accts = Active
      \/ /\ pass[p].pc = "trades" /\ pass'[p].pc = "gotTrades"
         /\ pass'[p].rows = {t \in Trades : Live(t)}
      \/ pass[p].pc = "pending" /\ pass'[p].pc = "gotPending"
      \/ pass[p].pc = "realized" /\ pass'[p].pc = "gotRealized"
  <2>1. CASE ReadAccounts(p)
    BY <2>1, <1>2 DEF ReadAccounts, At, PassSet
  <2>2. CASE ReadTrades(p)
    BY <2>2, <1>2 DEF ReadTrades, At, PassSet
  <2>3. CASE ReadPending(p)
    BY <2>3, <1>2 DEF ReadPending, At, PassSet
  <2>4. CASE ReadRealized(p)
    BY <2>4, <1>2 DEF ReadRealized, At, PassSet
  <2>. QED
    BY <2>1, <2>2, <2>3, <2>4
<1>4. \A q \in Passes \ {p} : pass'[q] = pass[q]
  BY <1>2 DEF ReadAccounts, ReadTrades, ReadPending, ReadRealized
<1>5. AloneInv' /\ \A q \in alone' : q = p
  BY <1>1, <1>3, <1>4, StillAlone, OnlyMine
<1>6. AccountsInv'
  BY <1>1, <1>3, <1>5 DEF IInv, StampInv, AccountsInv, AfterAccounts, Active, Loaded,
                          PassUnchanged
<1>7. TradesInv'
  BY <1>1, <1>3, <1>5 DEF IInv, StampInv, TradesInv, AfterTrades, Indexed, Live,
                          PassUnchanged
<1>8. \A q \in Passes : pass'[q].pc = "gotTrades"
                          => \A t \in pass'[q].rows : ~Unopened(t)
  BY <1>3, <1>4, SeenOpened DEF Live, Unopened
<1>. QED
  BY <1>1, <1>5, <1>6, <1>7, <1>8, SeenOpened, PassStamps

LEMMA ApplyAccountsStamps ==
  ASSUME IInv, NEW p \in Passes, ApplyAccounts(p)
  PROVE  StampInv'
<1>1. /\ UNCHANGED <<watched, current, alone>> /\ PassUnchanged
      /\ pass[p].pc = "gotAccounts" /\ pass'[p].pc = "trades"
      /\ \A q \in Passes \ {p} : pass'[q] = pass[q]
  BY PassParts DEF ApplyAccounts, At, Step, IInv, NoPass
<1>2. \A a \in Accounts :
        /\ cached'[a].ids = cached[a].ids
        /\ a \in pass[p].accts => cached'[a].stamp = p
        /\ cached'[a].stamp = "absent" => cached[a].stamp = "absent"
  BY ApplyAccountsType, TradeIndexAssumption DEF IInv, ApplyAccounts
<1>3. AloneInv' /\ \A q \in alone' : q = p
  BY <1>1, StillAlone, OnlyMine
<1>4. AccountsInv'
  <2>. SUFFICES ASSUME p \in alone PROVE \A a \in Active' : cached'[a].stamp = p
    BY <1>1, <1>3 DEF AccountsInv
  <2>1. Active \subseteq pass[p].accts
    BY <1>1 DEF IInv, StampInv, AccountsInv
  <2>2. Active' = Active /\ Active \subseteq Accounts
    BY <1>1 DEF Active, PassUnchanged
  <2>. QED
    BY <1>2, <2>1, <2>2
<1>5. TradesInv'
  BY <1>1, <1>3 DEF TradesInv, AfterTrades
<1>6. /\ \A a \in Accounts : /\ cached'[a].ids \subseteq cached[a].ids \cup Book(a)
                             /\ cached'[a].stamp = "absent" => cached'[a].ids = {}
      /\ \A t \in Trades : watched'[t].stamp # "absent" => ~Unopened(t)
      /\ \A q \in Passes : pass'[q].pc = "gotTrades"
                             => \A t \in pass'[q].rows : ~Unopened(t)
  BY <1>1, <1>2, SeenOpened
<1>. QED
  BY <1>1, <1>3, <1>4, <1>5, <1>6, PassStamps

LEMMA ApplyTradesStamps ==
  ASSUME IInv, NEW p \in Passes, ApplyTrades(p)
  PROVE  StampInv'
<1>1. /\ UNCHANGED <<current, alone>> /\ PassUnchanged
      /\ pass[p].pc = "gotTrades" /\ pass'[p].pc = "pending"
      /\ \A q \in Passes \ {p} : pass'[q] = pass[q]
  BY PassParts DEF ApplyTrades, At, Step, IInv, NoPass, history
<1>2. \A a \in Accounts :
        /\ cached'[a].stamp = cached[a].stamp
        /\ cached'[a].ids \subseteq cached[a].ids \cup Book(a)
        /\ cached[a].stamp = "absent" => cached'[a] = cached[a]
  BY ApplyTradesType DEF IInv, ApplyTrades, Loaded
<1>3. \A t \in Trades : IF t \in pass[p].rows THEN watched'[t].stamp = p
                        ELSE watched'[t] = watched[t]
  BY DEF ApplyTrades
<1>4. AloneInv' /\ \A q \in alone' : q = p
  BY <1>1, StillAlone, OnlyMine
<1>5. AccountsInv'
  BY <1>1, <1>2, <1>4 DEF IInv, StampInv, AccountsInv, AfterAccounts, Active, Loaded,
                          PassUnchanged
<1>6. TradesInv'
  <2>. SUFFICES ASSUME p \in alone, NEW t \in Trades, Indexed(t)', Live(t)'
                PROVE  watched'[t].stamp = p
    BY <1>1, <1>4 DEF TradesInv, AfterTrades
  <2>1. t \notin pass[p].rows => watched[t].stamp = p
    BY <1>1, <1>3 DEF IInv, StampInv, TradesInv, Indexed, Live, PassUnchanged
  <2>. QED
    BY <1>3, <2>1
<1>7. \A t \in Trades : watched'[t].stamp # "absent" => ~Unopened(t)
  BY <1>1, <1>3, SeenOpened
<1>8. /\ \A a \in Accounts : cached'[a].stamp = "absent" => cached'[a].ids = {}
      /\ \A q \in Passes : pass'[q].pc = "gotTrades"
                             => \A t \in pass'[q].rows : ~Unopened(t)
  BY <1>1, <1>2, SeenOpened
<1>. QED
  BY <1>1, <1>2, <1>4, <1>5, <1>6, <1>7, <1>8, PassStamps

\* A pass that ends leaves nothing to show.
LEMMA EndedStamps ==
  ASSUME IInv, NEW p \in Passes, PassUnchanged, pass[p].pc # "idle",
         UNCHANGED <<current, alone>>, pass' = [pass EXCEPT ![p] = NoPass],
         \A a \in Accounts : /\ cached'[a].ids \subseteq cached[a].ids
                             /\ cached'[a].stamp = "absent" => cached'[a].ids = {},
         \A t \in Trades : watched'[t].stamp # "absent" => watched[t].stamp # "absent"
  PROVE  StampInv'
<1>1. pass'[p].pc = "idle" /\ \A q \in Passes \ {p} : pass'[q] = pass[q]
  BY PassParts DEF NoPass, IInv
<1>2. AloneInv' /\ \A q \in alone' : q = p
  BY <1>1, StillAlone, OnlyMine
<1>3. AccountsInv' /\ TradesInv'
  BY <1>1, <1>2 DEF AccountsInv, TradesInv, AfterAccounts, AfterTrades
<1>4. \A q \in Passes : pass'[q].pc = "gotTrades"
                          => \A t \in pass'[q].rows : ~Unopened(t)
  BY <1>1, SeenOpened
<1>. QED
  BY <1>2, <1>3, <1>4, SeenOpened, PassStamps

\* No entry of an evicted account lists a trade of an active one.
LEMMA EvictKeeps ==
  ASSUME IInv, NEW p \in Passes, NEW queue \in [Trades -> Stamps],
         NEW books \in [Accounts -> Entry], Evict(p, queue, books),
         pass[p].pc \in AfterTrades,
         \A a \in Accounts : books[a].stamp = cached[a].stamp
                             /\ books[a].ids = cached[a].ids
  PROVE  /\ p \in alone =>
              \A t \in Trades : Indexed(t) /\ Live(t) => watched'[t].stamp = p
         /\ \A a \in Accounts : /\ cached'[a].ids \subseteq cached[a].ids
                                /\ cached'[a].stamp = "absent" => cached'[a].ids = {}
         /\ \A t \in Trades : watched'[t].stamp # "absent"
                                => watched[t].stamp # "absent"
         /\ pass' = [pass EXCEPT ![p] = NoPass]
<1>1. /\ \A a \in Accounts : cached'[a].ids \subseteq books[a].ids
      /\ \A t \in Trades :
           /\ watched'[t].stamp # "absent" => watched[t].stamp = p
           /\ (/\ watched[t].stamp = p
               /\ \A a \in Accounts : t \in books[a].ids => books[a].stamp = p)
              => watched'[t].stamp = p
      /\ pass' = [pass EXCEPT ![p] = NoPass]
  BY EvictType DEF IInv
<1>2. p # "absent"
  BY TradeIndexAssumption
<1>3. ASSUME p \in alone, NEW t \in Trades, Indexed(t), Live(t)
      PROVE  watched'[t].stamp = p
  <2>1. watched[t].stamp = p
    BY <1>3 DEF IInv, StampInv, TradesInv
  <2>2. AccountOf[t] \in Active
    BY <1>3, TradeIndexAssumption DEF Live, Active
  <2>3. \A a \in Active : cached[a].stamp \in {p, "absent"}
    BY <1>3 DEF IInv, StampInv, AccountsInv, AfterAccounts, AfterTrades, Loaded
  <2>4. \A a \in Accounts : t \in books[a].ids =>
                              a = AccountOf[t] /\ cached[a].stamp # "absent"
    BY SeenOpened DEF IInv, StampInv, IdsInv, Book
  <2>. QED
    BY <1>1, <2>1, <2>2, <2>3, <2>4
<1>4. ASSUME NEW a \in Accounts, cached'[a].stamp = "absent"
      PROVE  cached'[a].ids = {}
  <2>1. CASE books[a].stamp # p
    BY <2>1 DEF Evict, NoEntry
  <2>2. CASE books[a].stamp = p
    <3>1. \E i, o, f : cached'[a] = [books[a] EXCEPT !.ids = i, !.orders = o,
                                                     !.floating = f]
      BY <2>2 DEF Evict
    <3>. QED
      BY <1>2, <1>4, <2>2, <3>1 DEF Entry
  <2>. QED
    BY <2>1, <2>2
<1>. QED
  BY <1>1, <1>2, <1>3, <1>4

LEMMA ApplyPendingStamps ==
  ASSUME IInv, NEW p \in Passes, ApplyPending(p)
  PROVE  /\ StampInv'
         /\ p \in alone /\ pass'[p].pc = "idle" =>
              \A t \in Trades : Indexed(t) /\ Live(t) => watched'[t].stamp = p
<1>1. /\ UNCHANGED <<current, faults, alone>> /\ PassUnchanged
      /\ pass[p].pc = "gotPending"
  BY DEF ApplyPending, At
<1>2. /\ Queue(p) \in [Trades -> Stamps] /\ Books(p) \in [Accounts -> Entry]
      /\ \A a \in Accounts : /\ Books(p)[a].stamp = cached[a].stamp
                             /\ Books(p)[a].ids = cached[a].ids
  BY BooksType DEF IInv
<1>3. CASE Evict(p, Queue(p), Books(p))
  BY <1>1, <1>2, <1>3, EvictKeeps, EndedStamps DEF AfterTrades
<1>4. CASE /\ waiting' = Queue(p) /\ cached' = Books(p)
           /\ pass' = [pass EXCEPT ![p] =
                         [NoPass EXCEPT !.pc = "realized", !.needs = Dues(p)]]
           /\ UNCHANGED <<watched, mode, late>>
  <2>1. pass'[p].pc = "realized" /\ \A q \in Passes \ {p} : pass'[q] = pass[q]
    BY <1>4, PassParts DEF IInv, NoPass
  <2>2. AloneInv' /\ \A q \in alone' : q = p
    BY <1>1, <2>1, StillAlone, OnlyMine
  <2>3. AccountsInv'
    BY <1>1, <1>2, <1>4, <2>1, <2>2
       DEF IInv, StampInv, AccountsInv, AfterAccounts, Active, Loaded, PassUnchanged
  <2>4. TradesInv'
    BY <1>1, <1>4, <2>1, <2>2
       DEF IInv, StampInv, TradesInv, AfterTrades, Indexed, Live, PassUnchanged
  <2>5. /\ \A a \in Accounts : /\ cached'[a].ids \subseteq cached[a].ids \cup Book(a)
                               /\ cached'[a].stamp = "absent" => cached'[a].ids = {}
        /\ \A t \in Trades : watched'[t].stamp # "absent" => ~Unopened(t)
        /\ \A q \in Passes : pass'[q].pc = "gotTrades"
                               => \A t \in pass'[q].rows : ~Unopened(t)
    BY <1>2, <1>4, <2>1, SeenOpened
  <2>. QED
    BY <1>1, <2>1, <2>2, <2>3, <2>4, <2>5, PassStamps
<1>. QED
  BY <1>3, <1>4, PendingCases

LEMMA ApplyRealizedStamps ==
  ASSUME IInv, NEW p \in Passes, ApplyRealized(p)
  PROVE  /\ StampInv'
         /\ p \in alone =>
              \A t \in Trades : Indexed(t) /\ Live(t) => watched'[t].stamp = p
<1>1. /\ UNCHANGED <<current, faults, alone>> /\ PassUnchanged
      /\ pass[p].pc = "gotRealized" /\ waiting \in [Trades -> Stamps]
  BY PassParts DEF ApplyRealized, At, IInv
<1>2. /\ Seeded(p) \in [Accounts -> Entry]
      /\ \A a \in Accounts : /\ Seeded(p)[a].stamp = cached[a].stamp
                             /\ Seeded(p)[a].ids = cached[a].ids
  BY SeededType DEF IInv
<1>3. Evict(p, waiting, Seeded(p))
  BY ApplyRealizedType DEF IInv
<1>. QED
  BY <1>1, <1>2, <1>3, EvictKeeps, EndedStamps DEF AfterTrades

LEMMA FailStamps ==
  ASSUME IInv, NEW p \in Passes, FailPass(p)
  PROVE  StampInv'
<1>1. /\ PassUnchanged /\ UNCHANGED <<watched, cached, current, alone>>
      /\ pass[p].pc # "idle" /\ pass' = [pass EXCEPT ![p] = NoPass]
  BY DEF FailPass, history
<1>. QED
  BY <1>1, SeenOpened, EndedStamps

LEMMA RestartStamps ==
  ASSUME IInv, Restart
  PROVE  StampInv'
<1>1. /\ \A a \in Accounts : cached'[a].ids = {}
      /\ \A t \in Trades : ~Indexed(t)'
      /\ calls' = {} /\ \A p \in Passes : pass'[p].pc = "idle"
      /\ alone' = {}
  BY DEF Restart, NoEntry, NoTrade, NoPass, Indexed
<1>. QED
  BY <1>1 DEF StampInv, IdsInv, UnopenedInv, AloneInv, AccountsInv, TradesInv

LEMMA IInvNext ==
  ASSUME IInv, [Next]_vars
  PROVE  IInv'
<1>1. TypeInv' /\ HistoryOK'
  BY TypeNext, HistoryNext DEF IInv
<1>2. StampInv'
  <2>1. CASE Routes
    BY <2>1, RouteStamps DEF Routes
  <2>2. CASE Engine
    BY <2>2, EngineStamps, TickStamps, EndStamps, SwitchStamps DEF Engine
  <2>3. CASE Sync
    BY <2>3, LookupStamps, ApplyStamps DEF Sync
  <2>4. CASE Tick
    BY <2>4, TickStamps DEF Tick
  <2>5. CASE \E p \in Passes : Reconcile(p)
    BY <2>5, StartStamps, ReadStamps, ApplyAccountsStamps, ApplyTradesStamps,
       ApplyPendingStamps, ApplyRealizedStamps DEF Reconcile
  <2>6. CASE Faults
    BY <2>6, TickStamps, FailStamps, RestartStamps DEF Faults
  <2>7. CASE UNCHANGED vars
    BY <2>7 DEF vars, history, IInv, StampInv, IdsInv, UnopenedInv, AloneInv,
                AccountsInv, TradesInv, Unopened, Indexed, Live, Active, Loaded
  <2>. QED
    BY <2>1, <2>2, <2>3, <2>4, <2>5, <2>6, <2>7 DEF Next
<1>. QED
  BY <1>1, <1>2 DEF IInv

LEMMA EvictStep ==
  ASSUME IInv, [Next]_vars, NEW p \in Passes, NEW t \in Trades, Evicts(p, t)
  PROVE  p \notin alone
<1>. SUFFICES ASSUME p \in alone PROVE FALSE
  OBVIOUS
<1>1. /\ pass[p].pc # "idle" /\ pass'[p].pc = "idle" /\ faults' = faults
      /\ Indexed(t) /\ Live(t) /\ watched'[t].stamp = "absent" /\ p # "absent"
  BY TradeIndexAssumption DEF Evicts
<1>2. pass' # pass
  BY <1>1
<1>3. ~Fault
  BY <1>1, TickParts DEF Fault, IInv
<1>4. PICK q \in Passes : Reconcile(q)
  BY <1>2, <1>3
     DEF Next, Routes, Engine, Sync, Tick, Faults, Open, Modify, ClosePart, Close,
         Cancel, Fill, CheckSLTP, CancelPending, Move, End, SwitchStatus, Lookup,
         ApplyCall, Scan, TickCommit, TickSync, TickFail, Lose, FailPass, Restart,
         EngineUnchanged, RouteUnchanged, Untouched, CallUnchanged, TickUnchanged, vars
<1>5. pass \in [Passes -> PassSet]
  BY PassParts DEF IInv
<1>6. \E n : pass' = [pass EXCEPT ![q] = n]
  BY <1>4 DEF Reconcile, StartPass, ReadAccounts, ApplyAccounts, ReadTrades,
         ApplyTrades, ReadPending, ApplyPending, ReadRealized, ApplyRealized, Step, Evict
<1>7. q = p
  BY <1>1, <1>5, <1>6
<1>8. ~ApplyPending(p) /\ ~ApplyRealized(p)
  BY <1>1, ApplyPendingStamps, ApplyRealizedStamps
<1>9. ~StartPass(p) /\ ~ApplyAccounts(p) /\ ~ApplyTrades(p)
  BY <1>1, <1>5 DEF StartPass, ApplyAccounts, ApplyTrades, Step, NoPass
<1>10. ~ReadAccounts(p) /\ ~ReadTrades(p)
  BY <1>1, <1>5 DEF ReadAccounts, ReadTrades, PassSet
<1>11. ~ReadPending(p) /\ ~ReadRealized(p)
  BY <1>1, <1>5 DEF ReadPending, ReadRealized, PassSet
<1>. QED
  BY <1>4, <1>7, <1>8, <1>9, <1>10, <1>11 DEF Reconcile

\* A reconciliation that has run alone since it began, with no account restored
\* meanwhile, never throws an open trade out of the index: passes before and
\* after it may overlap and accounts come back, for any number of trades,
\* accounts and passes and any order of commits, calls, ticks and restarts
\* (utils/tradeIndex.ts, the generation stamps of fullReconcileFromDB).
THEOREM EvictsOnlyGone == Spec => EvictKeepsOpen
<1>1. Init => IInv
  BY TypeInit, StampInit DEF IInv, Init, HistoryOK
<1>2. IInv /\ [Next]_vars => IInv'
  BY IInvNext
<1>3. IInv /\ [Next]_vars =>
        [\A p \in Passes, t \in Trades : Evicts(p, t) => p \notin alone]_vars
  BY EvictStep
<1>. QED
  BY <1>1, <1>2, <1>3, PTL DEF Spec, EvictKeepsOpen

-----------------------------------------------------------------------------
(* The floating total of an account.                                        *)

\* Where the floating total is to be relied on: an entry not made behind its
\* trades, and every active account while nothing was mixed.
Sure(a) == \/ Loaded(a) /\ a \notin late
           \/ account[a].active /\ ~mixed /\ mode # "off"

\* What is not in the index contributes nothing.
NothingInv ==
  /\ \A t \in Trades : ~Indexed(t) => watched[t].last = 0
  /\ \A a \in Accounts : ~Loaded(a) => cached[a].floating = Zero

\* Until the first pass is over no tick runs and no fill is told.
BootInv ==
  mode = "boot" => /\ changed = {} /\ tick.pc = "idle"
                   /\ \A c \in calls : c.type # "filled"

\* While nothing was mixed the active accounts are loaded once the index is
\* armed or the pass under way has applied them.
LoadedInv ==
  ~mixed =>
    /\ mode = "armed" => \A a \in Active : Loaded(a)
    /\ \A p \in Passes :
         /\ pass[p].pc # "idle" => p \in alone
         /\ pass[p].pc \in AfterAccounts => \A a \in Active : Loaded(a)

\* Then too an account whose end is told, or that ensureAccountLoaded did not
\* find, is not active.
GoneInv ==
  ~mixed => \A c \in calls :
    c.type = "ended" \/ c.found = Null => ~account[c.account].active

SumInv == \A a \in Accounts : Sure(a) => cached[a].floating = SumOf(a)

FloatInv == NothingInv /\ BootInv /\ LoadedInv /\ GoneInv /\ SumInv

\* As long as nothing was mixed an account that is not active stays so.
LEMMA ActivityFalls ==
  ASSUME ~mixed', TypeInv, [Next]_vars
  PROVE  \A a \in Accounts : account'[a].active => account[a].active
<1>1. account \in AccountSet
  BY TickParts
<1>2. CASE UNCHANGED account
  BY <1>2
<1>3. ASSUME NEW t \in Trades, Earn(t)
      PROVE  \A a \in Accounts : account'[a].active => account[a].active
  BY <1>1, <1>3 DEF Earn, AccountSet
<1>4. ASSUME NEW a \in Accounts, End(a)
      PROVE  \A b \in Accounts : account'[b].active => account[b].active
  BY <1>1, <1>4 DEF End, AccountSet
<1>5. ASSUME NEW a \in Accounts, SwitchStatus(a)
      PROVE  \A b \in Accounts : account'[b].active => account[b].active
  <2>1. account[a].active
    BY <1>5 DEF SwitchStatus
  <2>. QED
    BY <1>1, <1>5, <2>1 DEF SwitchStatus, AccountSet
<1>6. CASE TickCommit
  <2>1. PICK owned \in SUBSET {t \in tick.hit : row[t] = "open"} :
          account' = [a \in Accounts |->
            [account[a] EXCEPT !.realised = [t \in Trades |->
               IF t \in owned \cap Book(a) THEN @[t] + tick.pnls[t] ELSE @[t]]]]
    BY <1>6 DEF TickCommit
  <2>. SUFFICES ASSUME NEW a \in Accounts
                PROVE  account'[a].active = account[a].active
    OBVIOUS
  <2>. DEFINE sum == [t \in Trades |-> IF t \in owned \cap Book(a)
                        THEN account[a].realised[t] + tick.pnls[t]
                        ELSE account[a].realised[t]]
  <2>2. account'[a] = [account[a] EXCEPT !.realised = sum]
    BY <2>1
  <2>. HIDE DEF sum
  <2>. QED
    BY <1>1, <2>2 DEF AccountSet
<1>7. \/ UNCHANGED account \/ TickCommit
      \/ \E t \in Trades : Earn(t)
      \/ \E a \in Accounts : End(a) \/ SwitchStatus(a)
  BY DEF Next, Routes, Engine, Sync, Tick, Reconcile, Faults, Open, Modify, ClosePart,
         Close, Cancel, Fill, CheckSLTP, CancelPending, Move, Lookup, ApplyCall, Scan,
         TickSync, TickFail, StartPass, ReadAccounts, ApplyAccounts, ReadTrades,
         ApplyTrades, ReadPending, ApplyPending, ReadRealized, ApplyRealized, Lose,
         FailPass, Restart, CallUnchanged, TickUnchanged, PassUnchanged, vars
<1>. QED
  BY <1>2, <1>3, <1>4, <1>5, <1>6, <1>7

\* The sum, trade by trade.
LEMMA SumParts ==
  ASSUME NEW a
  PROVE  \A t \in Trades : SumOf(a)[t] = IF AccountOf[t] = a THEN watched[t].last ELSE 0
BY DEF SumOf

\* A step that leaves the index alone.
LEMMA QuietFloat ==
  ASSUME IInv, FloatInv, UNCHANGED <<watched, cached, late>>,
         mode' = mode \/ mode' = "off",
         mode' = "boot" => changed' = changed /\ tick' = tick,
         \A c \in calls' : mode' = "boot" /\ c.type = "filled"
                            => \E d \in calls : d.type = "filled",
         mixed' # mixed => mixed' = TRUE,
         ~mixed' =>
           /\ alone' = alone
           /\ \A p \in Passes :
                /\ pass'[p].pc # "idle" => pass[p].pc # "idle"
                /\ pass'[p].pc \in AfterAccounts => pass[p].pc \in AfterAccounts
           /\ \A a \in Accounts : account'[a].active => account[a].active
           /\ \A c \in calls' :
                /\ c.account \in Accounts
                /\ c.type = "ended" \/ c.found = Null =>
                     \/ \E d \in calls : /\ d.type = "ended" \/ d.found = Null
                                         /\ d.account = c.account
                     \/ ~account'[c.account].active
  PROVE  FloatInv'
<1>1. NothingInv'
  BY DEF FloatInv, NothingInv, Indexed, Loaded
<1>2. BootInv'
  BY DEF FloatInv, BootInv
<1>3. LoadedInv'
  BY DEF FloatInv, LoadedInv, Active, Loaded
<1>4. GoneInv'
  BY DEF FloatInv, GoneInv
<1>5. SumInv'
  <2>1. \A a \in Accounts : SumOf(a)' = SumOf(a)
    BY DEF SumOf
  <2>2. \A a \in Accounts : Sure(a)' => Sure(a)
    BY DEF Sure, Loaded
  <2>. QED
    BY <2>1, <2>2 DEF FloatInv, SumInv
<1>. QED
  BY <1>1, <1>2, <1>3, <1>4, <1>5 DEF FloatInv

\* The calls a route or the engine makes have asked nothing yet.
LEMMA CallAsked ==
  ASSUME NEW type, NEW a, NEW t, NEW pnl, NEW balance
  PROVE  /\ Call(type, a, t, pnl, balance).type = type
         /\ Call(type, a, t, pnl, balance).account = a
         /\ Call(type, a, t, pnl, balance).found # Null
BY TradeIndexAssumption DEF Call

LEMMA WriteFloat ==
  ASSUME IInv, FloatInv,
         ~mixed' => \A a \in Accounts : account'[a].active => account[a].active,
         Routes \/ Engine
  PROVE  FloatInv'
<1>1. /\ UNCHANGED <<watched, cached, mode, tick, pass, late>>
      /\ mode = "boot" => UNCHANGED changed
      /\ UNCHANGED <<alone, mixed>> \/ mixed' = TRUE
  BY DEF Routes, Engine, Open, Modify, ClosePart, Close, Cancel, Fill, CheckSLTP,
         CancelPending, Move, End, SwitchStatus, EngineUnchanged, RouteUnchanged,
         TickUnchanged, Untouched, history
<1>2. \A c \in calls' :
        c \in calls \/ /\ c.account \in Accounts /\ c.found # Null
                       /\ mode = "boot" => c.type # "filled"
                       /\ c.type = "ended" => ~account'[c.account].active
  <2>1. \A t \in Trades : AccountOf[t] \in Accounts
    BY TradeIndexAssumption
  <2>2. CASE Routes
    <3>1. PICK t \in Trades : Open(t) \/ Modify(t) \/ ClosePart(t) \/ Close(t) \/ Cancel(t)
      BY <2>2 DEF Routes
    <3>2. CASE Open(t)
      BY <2>1, <3>2, CallAsked DEF Open
    <3>3. CASE Modify(t)
      BY <2>1, <3>3, CallAsked DEF Modify
    <3>4. CASE ClosePart(t)
      BY <2>1, <3>4, CallAsked DEF ClosePart
    <3>5. CASE Close(t)
      BY <2>1, <3>5, CallAsked DEF Close
    <3>6. CASE Cancel(t)
      BY <2>1, <3>6, CallAsked DEF Cancel
    <3>. QED
      BY <3>1, <3>2, <3>3, <3>4, <3>5, <3>6
  <2>3. ASSUME NEW t \in Trades, Fill(t) \/ CheckSLTP(t) \/ CancelPending(t)
        PROVE  \A c \in calls' :
                 c \in calls \/ /\ c.account \in Accounts /\ c.found # Null
                                /\ mode = "boot" => c.type # "filled"
                                /\ c.type = "ended" => ~account'[c.account].active
    BY <2>1, <2>3, CallAsked DEF Fill, CheckSLTP, CancelPending, Works
  <2>4. ASSUME NEW a \in Accounts, End(a)
        PROVE  \A c \in calls' :
                 c \in calls \/ /\ c.account \in Accounts /\ c.found # Null
                                /\ mode = "boot" => c.type # "filled"
                                /\ c.type = "ended" => ~account'[c.account].active
    <3>1. ~account'[a].active
      BY <2>4, TickParts DEF End, IInv, AccountSet
    <3>. QED
      BY <2>4, <3>1, CallAsked DEF End
  <2>5. CASE UNCHANGED calls
    BY <2>5
  <2>. QED
    BY <2>2, <2>3, <2>4, <2>5 DEF Engine, Move, SwitchStatus
<1>3. \A c \in calls : c.account \in Accounts
  BY OldCalls
<1>. QED
  BY <1>1, <1>2, <1>3, QuietFloat

LEMMA LookupFloat ==
  ASSUME IInv, FloatInv, NEW c \in calls, Lookup(c)
  PROVE  FloatInv'
<1>1. /\ UNCHANGED <<watched, cached, mode, changed, tick, account>>
      /\ UNCHANGED <<pass, alone, late, mixed>>
  BY DEF Lookup, CallUnchanged
<1>2. /\ c \in CallSet /\ c.account \in Accounts
      /\ account[c.account].active => account[c.account].realised # Null
  <2>1. account[c.account].realised \in Money
    BY CallParts, TickParts DEF IInv, AccountSet
  <2>. QED
    BY <2>1, CallParts, TradeIndexAssumption DEF IInv, Money
<1>3. \A d \in calls' :
        d \in calls \/ /\ d.account = c.account /\ d.type = c.type
                       /\ d.found = Null => ~account[c.account].active
  BY <1>2 DEF Lookup, CallSet
<1>4. \A d \in calls : d.account \in Accounts
  BY OldCalls
<1>. QED
  BY <1>1, <1>2, <1>3, <1>4, QuietFloat
-----------------------------------------------------------------------------
\* What the parts of a call do to the floating total of an entry.

LEMMA AddedFloat ==
  ASSUME StateOK, NEW e \in Entry, NEW t \in Trades
  PROVE  Added(e, t).floating =
           IF e.stamp = "absent" THEN e.floating
           ELSE [e.floating EXCEPT ![t] = @ + (market[t] - watched[t].last)]
<1>. DEFINE d == market[t] - watched[t].last
            s == Plus(e.floating, t, d)
            f == Floated(e, t, d)
<1>1. f = IF e.stamp = "absent" THEN e ELSE [e EXCEPT !.floating = s]
  BY DEF Floated
<1>2. Added(e, t) = IF e.stamp = "absent" THEN e ELSE [f EXCEPT !.ids = @ \cup {t}]
  BY DEF Added
<1>3. s = [e.floating EXCEPT ![t] = @ + d]
  BY DEF Plus
<1>. HIDE DEF s, f
<1>4. e.stamp # "absent" => f.floating = s /\ Added(e, t).floating = f.floating
  BY <1>1, <1>2 DEF Entry
<1>. QED
  BY <1>2, <1>3, <1>4

LEMMA RemovedFloat ==
  ASSUME StateOK, NEW e \in Entry, NEW t \in Trades
  PROVE  Removed(e, t).floating =
           IF e.stamp = "absent" \/ ~Indexed(t) THEN e.floating
           ELSE [e.floating EXCEPT ![t] = @ + (-watched[t].last)]
<1>. DEFINE d == -watched[t].last
            s == Plus(e.floating, t, d)
            f == Floated(e, t, d)
<1>1. f = IF e.stamp = "absent" THEN e ELSE [e EXCEPT !.floating = s]
  BY DEF Floated
<1>2. Removed(e, t) = IF e.stamp = "absent" \/ ~Indexed(t) THEN e
                      ELSE [f EXCEPT !.ids = @ \ {t}]
  BY DEF Removed
<1>3. s = [e.floating EXCEPT ![t] = @ + d]
  BY DEF Plus
<1>. HIDE DEF s, f
<1>4. e.stamp # "absent" =>
        f.floating = s /\ (Indexed(t) => Removed(e, t).floating = f.floating)
  BY <1>1, <1>2 DEF Entry
<1>. QED
  BY <1>2, <1>3, <1>4

LEMMA OthersFloat ==
  ASSUME NEW e \in Entry, NEW t, NEW pnl, NEW c
  PROVE  /\ Unqueued(e, t).floating = e.floating
         /\ Realised(e, t, pnl).floating = e.floating
         /\ Rebalanced(e, c).floating = e.floating
<1>1. Unqueued(e, t).floating = e.floating
  BY DEF Unqueued, Entry
<1>2. \A s : [e EXCEPT !.today = s].floating = e.floating
             /\ [e EXCEPT !.balance = s].floating = e.floating
  BY DEF Entry
<1>3. Realised(e, t, pnl).floating = e.floating
  <2>. DEFINE s == Plus(e.today, t, pnl)
  <2>1. Realised(e, t, pnl) = IF e.stamp = "absent" \/ pnl = Null THEN e
                              ELSE [e EXCEPT !.today = s]
    BY DEF Realised
  <2>. HIDE DEF s
  <2>. QED
    BY <1>2, <2>1
<1>4. Rebalanced(e, c).floating = e.floating
  <2>. DEFINE s == IF c.balance = Own THEN Plus(e.balance, c.trade, c.pnl)
                             ELSE c.balance
  <2>1. Rebalanced(e, c) = IF e.stamp = "absent" \/ c.balance = Null THEN e
                           ELSE [e EXCEPT !.balance = s]
    BY DEF Rebalanced
  <2>. HIDE DEF s
  <2>. QED
    BY <1>2, <2>1
<1>. QED
  BY <1>1, <1>3, <1>4

LEMMA EnsuredFloat ==
  ASSUME IInv, FloatInv, NEW c \in calls, c.type \in {"open", "pending"}, Ready(c)
  PROVE  /\ Ensured(c).floating = cached[c.account].floating
         /\ Ensured(c).stamp = "absent" =>
              /\ cached[c.account].floating = Zero
              /\ ~Loaded(c.account)
              /\ ~mixed => ~account[c.account].active
<1>1. /\ cached[c.account] \in Entry /\ current # "absent" /\ c.account \in Accounts
      /\ c.found \in Money \cup {Unread, Null}
  BY CallParts, PassParts, TradeIndexAssumption DEF IInv, CallSet
<1>2. CASE c.found \in {Unread, Null}
  <2>1. Ensured(c) = cached[c.account]
    BY <1>2 DEF Ensured
  <2>2. ~Loaded(c.account) => c.found = Null
    BY <1>2 DEF Ready, Needs
  <2>. QED
    BY <1>1, <2>1, <2>2 DEF FloatInv, NothingInv, GoneInv, Loaded
<1>3. CASE c.found \notin {Unread, Null}
  <2>1. Ensured(c) = [cached[c.account] EXCEPT !.balance = c.found, !.stamp = current]
    BY <1>3 DEF Ensured, Upserted
  <2>. QED
    BY <1>1, <2>1 DEF Entry
<1>. QED
  BY <1>2, <1>3

\* A call changes one entry and the trades of its account: it is enough that
\* the entry's total is what these trades then contribute.
LEMMA CallFloat ==
  ASSUME IInv, FloatInv, NEW c \in calls, ApplyCall(c), NEW e \in Entry,
         cached' = [cached EXCEPT ![c.account] = e],
         \A t \in Trades : AccountOf[t] # c.account => watched'[t] = watched[t],
         \A t \in Trades : watched'[t].stamp = "absent" => watched'[t].last = 0,
         e.stamp = "absent" =>
           /\ e.floating = Zero
           /\ ~mixed /\ account[c.account].active => ~Loaded(c.account),
         Sure(c.account)' => \A t \in Trades :
           e.floating[t] = IF AccountOf[t] = c.account THEN watched'[t].last ELSE 0
  PROVE  FloatInv'
<1>1. /\ UNCHANGED <<mode, changed, tick, account, pass, alone, mixed>>
      /\ calls' \subseteq calls
  BY DEF ApplyCall, CallUnchanged
<1>2. c.account \in Accounts
  BY OldCalls
<1>3. cached'[c.account] = e /\ \A a \in Accounts \ {c.account} : cached'[a] = cached[a]
  BY <1>2, PassParts DEF IInv
<1>4. NothingInv'
  BY <1>3 DEF FloatInv, NothingInv, Indexed, Loaded
<1>5. BootInv' /\ GoneInv'
  BY <1>1 DEF FloatInv, BootInv, GoneInv
<1>6. LoadedInv'
  <2>1. \A a \in Accounts : ~mixed /\ account[a].active /\ Loaded(a) => Loaded(a)'
    BY <1>3 DEF Loaded
  <2>. QED
    BY <1>1, <2>1 DEF FloatInv, LoadedInv, Active
<1>7. SumInv'
  <2>. SUFFICES ASSUME NEW a \in Accounts, Sure(a)'
                PROVE  cached'[a].floating = SumOf(a)'
    BY DEF SumInv
  <2>1. CASE a = c.account
    <3>1. e.floating \in Money /\ SumOf(a)' = [t \in Trades |-> IF AccountOf[t] = a
                                                 THEN watched'[t].last ELSE 0]
      BY DEF Entry, SumOf
    <3>2. \A t \in Trades :
            e.floating[t] = IF AccountOf[t] = a THEN watched'[t].last ELSE 0
      BY <2>1
    <3>. QED
      BY <1>3, <2>1, <3>1, <3>2 DEF Money
  <2>2. CASE a # c.account
    <3>1. cached'[a] = cached[a] /\ (a \in late => a \in late')
      BY <1>3, <2>2 DEF ApplyCall, MakeEntries, Made
    <3>2. Sure(a)
      BY <1>1, <3>1 DEF Sure, Loaded
    <3>3. cached[a].floating = SumOf(a)
      BY <3>2 DEF FloatInv, SumInv
    <3>4. \A t \in Trades : AccountOf[t] = a => watched'[t] = watched[t]
      BY <2>2
    <3>5. SumOf(a)' = SumOf(a)
      BY <3>4 DEF SumOf
    <3>. QED
      BY <3>1, <3>3, <3>5
  <2>. QED
    BY <2>1, <2>2
<1>. QED
  BY <1>4, <1>5, <1>6, <1>7 DEF FloatInv

\* Only the answer of ensureAccountLoaded makes an entry for a call's account.
LEMMA MadeEntry ==
  ASSUME IInv, NEW c \in calls, ApplyCall(c), ~Loaded(c.account), Made(c) = {}
  PROVE  ~Loaded(c.account)'
<1>1. /\ c.account \in Accounts /\ cached[c.account] \in Entry
      /\ cached[c.account].stamp = "absent" /\ cached \in [Accounts -> Entry]
      /\ c.type # "ended" => c.trade \in Trades
      /\ TypeInv /\ StateOK
  BY CallParts, PassParts DEF IInv, TypeInv, Loaded
<1>2. c.type \in {"open", "pending"} => Ensured(c) = cached[c.account]
  BY DEF Made, Needs, Ensured
<1>3. CASE SyncOpened(c)
  <2>1. cached' = [cached EXCEPT ![c.account] = OpenedEntry(c)] /\ c.type = "open"
    BY <1>3 DEF SyncOpened, OpenedEntry
  <2>2. OpenedEntry(c).stamp = "absent"
    BY <1>1, <1>2, <2>1, OpenedEntryType
  <2>. QED
    BY <1>1, <2>1, <2>2 DEF Loaded
<1>4. CASE SyncPending(c)
  BY <1>1, <1>2, <1>4 DEF SyncPending, Loaded
<1>5. CASE SyncClosed(c)
  <2>1. /\ cached' = [cached EXCEPT ![c.account] = ClosedEntry(c)]
        /\ c.type \in {"closed", "swept"}
    BY <1>5 DEF SyncClosed, ClosedEntry
  <2>2. ClosedEntry(c).stamp = "absent"
    BY <1>1, <2>1, ClosedEntryType
  <2>. QED
    BY <1>1, <2>1, <2>2 DEF Loaded
<1>6. CASE SyncFilled(c)
  <2>. DEFINE x == Unqueued(cached[c.account], c.trade)
  <2>1. c.type # "ended"
    BY <1>6 DEF SyncFilled
  <2>2. x \in Entry /\ x.stamp = "absent"
    BY <1>1, <2>1, UnqueuedType
  <2>3. cached' = [cached EXCEPT ![c.account] = x]
        \/ cached' = [cached EXCEPT ![c.account] = Added(x, c.trade)]
    BY <1>6 DEF SyncFilled
  <2>. HIDE DEF x
  <2>4. Added(x, c.trade).stamp = "absent"
    BY <1>1, <2>1, <2>2, AddedType
  <2>. QED
    BY <1>1, <2>2, <2>3, <2>4 DEF Loaded
<1>7. CASE SyncEnded(c)
  BY <1>1, <1>7 DEF SyncEnded, NoEntry, Loaded
<1>. QED
  BY <1>3, <1>4, <1>5, <1>6, <1>7 DEF ApplyCall

LEMMA ApplyFloat ==
  ASSUME IInv, FloatInv, NEW c \in calls, ApplyCall(c)
  PROVE  FloatInv'
<1>. DEFINE a == c.account
            t == c.trade
<1>1. /\ a \in Accounts /\ cached[a] \in Entry /\ c.pnl \in Int \cup {Null}
      /\ c.type # "ended" => t \in Trades /\ a = AccountOf[t]
      /\ StateOK /\ current # "absent"
  BY CallParts, PassParts, TradeIndexAssumption DEF IInv, TypeInv
<1>2. /\ watched \in WatchedSet /\ cached[a].floating \in Money
      /\ \A u \in Trades : watched[u].last \in Int /\ market[u] \in Int
  BY <1>1, PassParts, MarketType DEF IInv, WatchedSet, Entry
<1>3. NoTrade.stamp = "absent" /\ NoTrade.last = 0
  BY DEF NoTrade
<1>4. c.type # "ended" => Watch(t).stamp # "absent" /\ Watch(t).last = market[t]
  BY <1>1 DEF Watch
<1>5. /\ \A u \in Trades : watched[u].stamp = "absent" => watched[u].last = 0
      /\ ~Loaded(a) => cached[a].floating = Zero
      /\ cached[a].stamp = "absent" <=> ~Loaded(a)
  BY <1>1 DEF FloatInv, NothingInv, Indexed, Loaded
\* Where the total is to be relied on afterwards it was right before, of an
\* entry that the call makes as well: its trades were worth nothing.
<1>6. c.type # "ended" /\ Sure(a)' =>
        \A u \in Trades : cached[a].floating[u] =
                            IF AccountOf[u] = a THEN watched[u].last ELSE 0
  <2>. SUFFICES ASSUME c.type # "ended", Sure(a)', NEW u \in Trades
                PROVE  cached[a].floating[u] = IF AccountOf[u] = a THEN watched[u].last ELSE 0
    OBVIOUS
  <2>1. UNCHANGED <<account, mode, mixed>> /\ MakeEntries(Made(c))
    BY DEF ApplyCall, CallUnchanged
  <2>2. CASE Sure(a)
    BY <1>1, <2>2, SumParts DEF FloatInv, SumInv
  <2>3. CASE ~Sure(a)
    <3>1. Loaded(a)' /\ a \notin late'
      BY <2>1, <2>3 DEF Sure
    <3>2. ~Loaded(a)
      BY <2>1, <2>3, <3>1 DEF Sure, MakeEntries, Made, Needs
    <3>3. Made(c) = {a}
      BY <3>1, <3>2, MadeEntry DEF Made
    <3>4. \A t2 \in Book(a) : watched[t2].last = 0
      BY <2>1, <3>1, <3>3 DEF MakeEntries
    <3>. QED
      BY <1>5, <3>2, <3>4 DEF Book, Zero
  <2>. QED
    BY <2>2, <2>3
<1>7. \A u \in Trades : Zero[u] = 0
  BY DEF Zero
\* An added trade: the entry's total gains what the trade is worth now.
<1>8. ASSUME NEW x \in Entry, x.floating = cached[a].floating, c.type # "ended",
             NEW e \in Entry, e.stamp = x.stamp, e.floating = Added(x, t).floating,
             x.stamp = "absent" =>
               /\ x.floating = Zero /\ ~Loaded(a)
               /\ ~(account[a].active /\ ~mixed /\ mode # "off"),
             cached' = [cached EXCEPT ![a] = e],
             watched' = [watched EXCEPT ![t] = Watch(t)]
      PROVE  FloatInv'
  <2>1. e.floating = IF x.stamp = "absent" THEN x.floating
                     ELSE [cached[a].floating EXCEPT ![t] = @ + (market[t] - watched[t].last)]
    BY <1>1, <1>8, AddedFloat
  <2>2. /\ watched'[t].last = market[t] /\ watched'[t].stamp # "absent"
        /\ \A u \in Trades : u # t => watched'[u] = watched[u]
    BY <1>1, <1>2, <1>4, <1>8 DEF WatchedSet
  <2>3. Sure(a)' =>
          \A u \in Trades :
            e.floating[u] = IF AccountOf[u] = a THEN watched'[u].last ELSE 0
    <3>. SUFFICES ASSUME Sure(a)', NEW u \in Trades
                  PROVE  e.floating[u] = IF AccountOf[u] = a THEN watched'[u].last ELSE 0
      OBVIOUS
    <3>5. cached'[a] = e /\ UNCHANGED <<account, mode, mixed>>
      BY <1>1, <1>8, PassParts DEF IInv, ApplyCall, CallUnchanged
    <3>6. x.stamp # "absent"
      BY <1>8, <3>5 DEF Sure, Loaded
    <3>1. e.floating = [cached[a].floating EXCEPT ![t] = @ + (market[t] - watched[t].last)]
      BY <2>1, <3>6
    <3>2. cached[a].floating[u] = IF AccountOf[u] = a THEN watched[u].last ELSE 0
      BY <1>6, <1>8
    <3>3. CASE u = t
      <4>1. e.floating[u] = watched[t].last + (market[t] - watched[t].last)
        BY <1>1, <1>2, <1>8, <3>1, <3>2, <3>3 DEF Money
      <4>. QED
        BY <1>1, <1>2, <1>8, <2>2, <3>3, <4>1
    <3>4. CASE u # t
      BY <1>2, <2>2, <3>1, <3>2, <3>4 DEF Money
    <3>. QED
      BY <3>3, <3>4
  <2>4. /\ \A u \in Trades : AccountOf[u] # a => watched'[u] = watched[u]
        /\ \A u \in Trades : watched'[u].stamp = "absent" => watched'[u].last = 0
    BY <1>1, <1>5, <1>8, <2>2
  <2>5. e.stamp = "absent" => e.floating = Zero /\ ~Loaded(a)
    BY <1>8, <2>1
  <2>. QED
    BY <1>8, <2>3, <2>4, <2>5, CallFloat
\* The trades stay as they are, and so does the total.
<1>9. ASSUME c.type # "ended", UNCHANGED watched,
             NEW e \in Entry, e.floating = cached[a].floating,
             cached' = [cached EXCEPT ![a] = e],
             e.stamp = "absent" => ~Loaded(a)
      PROVE  FloatInv'
  BY <1>5, <1>6, <1>9, CallFloat
<1>10. CASE SyncOpened(c)
  <2>1. c.type = "open" /\ Ready(c)
    BY <1>10 DEF SyncOpened
  <2>. DEFINE x == Ensured(c)
              y == Added(x, t)
              z == Realised(y, t, c.pnl)
              e == OpenedEntry(c)
  <2>2. x \in Entry
    BY EnsuredType DEF IInv
  <2>3. /\ x.floating = cached[a].floating
        /\ x.stamp = "absent" => /\ cached[a].floating = Zero /\ ~Loaded(a)
                                 /\ ~mixed => ~account[a].active
    BY <2>1, EnsuredFloat
  <2>4. y \in Entry /\ y.stamp = x.stamp
    BY <1>1, <2>1, <2>2, AddedType
  <2>5. z \in Entry /\ z.stamp = y.stamp /\ z.floating = y.floating
    <3>1. y \in Entry /\ t \in Trades /\ c.pnl \in Int \cup {Null}
      BY <1>1, <2>1, <2>4
    <3>. HIDE DEF y
    <3>2. z \in Entry /\ z.stamp = y.stamp
      BY <3>1, RealisedType
    <3>3. z.floating = y.floating
      BY <3>1, OthersFloat
    <3>. QED
      BY <3>2, <3>3
  <2>6. e = Rebalanced(z, Carried(c)) /\ e \in Entry
    BY <2>1, OpenedEntryType DEF IInv, OpenedEntry
  <2>7. e.floating = z.floating
    BY <2>5, <2>6, OthersFloat
  <2>8. e.stamp = z.stamp
    <3>1. /\ Carried(c) \in CallSet /\ Carried(c).trade \in Trades
          /\ Carried(c).balance = Own => Carried(c).pnl \in Int
      BY <2>1, CarriedType DEF IInv
    <3>. QED
      BY <2>5, <2>6, <3>1, RebalancedType
  <2>9. /\ cached' = [cached EXCEPT ![a] = e]
        /\ watched' = [watched EXCEPT ![t] = Watch(t)]
    BY <1>10 DEF SyncOpened, OpenedEntry
  <2>. HIDE DEF x, y, z, e
  <2>10. e.stamp = x.stamp /\ e.floating = Added(x, t).floating
    BY <2>4, <2>5, <2>7, <2>8 DEF y
  <2>. QED
    BY <1>8, <2>1, <2>2, <2>3, <2>6, <2>9, <2>10
<1>11. CASE SyncPending(c)
  <2>1. c.type = "pending" /\ Ready(c) /\ UNCHANGED watched
    BY <1>11 DEF SyncPending
  <2>. DEFINE x == Ensured(c)
              e == IF x.stamp = "absent" THEN x ELSE [x EXCEPT !.orders = @ \cup {t}]
  <2>2. x \in Entry /\ x.stamp \in {cached[a].stamp, current}
    BY EnsuredType DEF IInv
  <2>3. x.floating = cached[a].floating
    BY <2>1, EnsuredFloat
  <2>4. cached' = [cached EXCEPT ![a] = e]
    BY <1>11 DEF SyncPending
  <2>. HIDE DEF x
  <2>5. e \in Entry /\ e.stamp = x.stamp /\ e.floating = x.floating
    BY <1>1, <2>1, <2>2 DEF Entry
  <2>. HIDE DEF e
  <2>6. e.stamp = "absent" => ~Loaded(a)
    BY <1>1, <2>2, <2>5 DEF Loaded
  <2>. QED
    BY <1>9, <2>1, <2>3, <2>4, <2>5, <2>6
<1>12. CASE SyncClosed(c)
  <2>1. c.type \in {"closed", "swept"} /\ watched' = [watched EXCEPT ![t] = NoTrade]
    BY <1>12 DEF SyncClosed
  <2>. DEFINE x == Removed(cached[a], t)
              y == IF c.type = "closed" THEN Unqueued(x, t) ELSE x
              z == Realised(y, t, c.pnl)
              e == ClosedEntry(c)
  <2>2. x \in Entry
    BY <1>1, <2>1, RemovedType
  <2>3. y \in Entry /\ y.floating = x.floating
    BY <1>1, <2>1, <2>2, UnqueuedType, OthersFloat
  <2>4. z \in Entry /\ z.floating = y.floating
    <3>1. y \in Entry /\ t \in Trades /\ c.pnl \in Int \cup {Null}
      BY <1>1, <2>1, <2>3
    <3>. HIDE DEF x, y
    <3>2. z \in Entry
      BY <3>1, RealisedType
    <3>3. z.floating = y.floating
      BY <3>1, OthersFloat
    <3>. QED
      BY <3>2, <3>3
  <2>5. e = Rebalanced(z, c) /\ e \in Entry /\ e.stamp = cached[a].stamp
    BY <2>1, ClosedEntryType DEF IInv, ClosedEntry
  <2>6. e.floating = z.floating
    BY <2>4, <2>5, OthersFloat
  <2>7. cached' = [cached EXCEPT ![a] = e]
    BY <1>12 DEF SyncClosed, ClosedEntry
  <2>8. x.floating = IF cached[a].stamp = "absent" \/ ~Indexed(t) THEN cached[a].floating
                     ELSE [cached[a].floating EXCEPT ![t] = @ + (-watched[t].last)]
    BY <1>1, <2>1, RemovedFloat
  <2>. HIDE DEF x, y, z, e
  <2>9. /\ watched'[t].last = 0 /\ watched'[t].stamp = "absent"
        /\ \A u \in Trades : u # t => watched'[u] = watched[u]
    BY <1>1, <1>2, <1>3, <2>1 DEF WatchedSet
  <2>10. /\ \A u \in Trades : AccountOf[u] # a => watched'[u] = watched[u]
         /\ \A u \in Trades : watched'[u].stamp = "absent" => watched'[u].last = 0
    BY <1>1, <1>5, <2>1, <2>9
  <2>11. e.stamp = "absent" => e.floating = Zero /\ ~Loaded(a)
    BY <1>5, <2>3, <2>4, <2>5, <2>6, <2>8
  <2>12. Sure(a)' =>
           \A u \in Trades :
             e.floating[u] = IF AccountOf[u] = a THEN watched'[u].last ELSE 0
    <3>. SUFFICES ASSUME Sure(a)', NEW u \in Trades
                  PROVE  e.floating[u] = IF AccountOf[u] = a THEN watched'[u].last ELSE 0
      OBVIOUS
    <3>1. \A v \in Trades : cached[a].floating[v] =
                              IF AccountOf[v] = a THEN watched[v].last ELSE 0
      BY <1>6, <2>1
    <3>2. CASE cached[a].stamp = "absent" \/ ~Indexed(t)
      <4>1. e.floating = cached[a].floating
        BY <2>3, <2>4, <2>6, <2>8, <3>2
      <4>2. cached[a].floating[t] = 0
        BY <1>1, <1>5, <1>7, <2>1, <3>1, <3>2 DEF Indexed
      <4>. QED
        BY <1>1, <2>1, <2>9, <3>1, <4>1, <4>2
    <3>3. CASE ~(cached[a].stamp = "absent" \/ ~Indexed(t))
      <4>1. e.floating = [cached[a].floating EXCEPT ![t] = @ + (-watched[t].last)]
        BY <2>3, <2>4, <2>6, <2>8, <3>3
      <4>2. cached[a].floating[t] = watched[t].last
        BY <1>1, <2>1, <3>1
      <4>3. e.floating[t] = watched[t].last + (-watched[t].last)
        BY <1>1, <1>2, <2>1, <4>1, <4>2 DEF Money
      <4>4. u # t => e.floating[u] = cached[a].floating[u]
        BY <1>2, <4>1 DEF Money
      <4>. QED
        BY <1>1, <1>2, <2>1, <2>9, <3>1, <4>3, <4>4
    <3>. QED
      BY <3>2, <3>3
  <2>. QED
    BY <2>5, <2>7, <2>10, <2>11, <2>12, CallFloat
<1>13. CASE SyncFilled(c)
  <2>. DEFINE x == Unqueued(cached[a], t)
  <2>1. c.type \in {"filled", "cancelled"}
    BY <1>13 DEF SyncFilled
  <2>2. x \in Entry /\ x.stamp = cached[a].stamp /\ x.floating = cached[a].floating
    BY <1>1, <2>1, UnqueuedType, OthersFloat
  <2>3. CASE c.type = "filled"
    <3>1. /\ cached' = [cached EXCEPT ![a] = Added(x, t)]
          /\ watched' = [watched EXCEPT ![t] = Watch(t)]
      BY <1>13, <2>3 DEF SyncFilled
    <3>. HIDE DEF x
    <3>2. Added(x, t) \in Entry /\ Added(x, t).stamp = x.stamp
      BY <1>1, <2>1, <2>2, AddedType
    <3>3. mode # "boot"
      BY <2>3 DEF FloatInv, BootInv
    <3>4. x.stamp = "absent" => /\ x.floating = Zero /\ ~Loaded(a)
                                /\ ~(account[a].active /\ ~mixed /\ mode # "off")
      BY <1>1, <1>5, <2>2, <3>3, PassParts DEF IInv, FloatInv, LoadedInv, Active
    <3>. QED
      BY <1>8, <2>1, <2>2, <3>1, <3>2, <3>4
  <2>4. CASE c.type # "filled"
    <3>1. cached' = [cached EXCEPT ![a] = x] /\ UNCHANGED watched
      BY <1>13, <2>4 DEF SyncFilled
    <3>. HIDE DEF x
    <3>. QED
      BY <1>5, <1>9, <2>1, <2>2, <3>1
  <2>. QED
    BY <2>3, <2>4
<1>14. CASE SyncEnded(c)
  <2>1. /\ c.type = "ended"
        /\ watched' = [u \in Trades |-> IF u \in cached[a].ids THEN NoTrade ELSE watched[u]]
        /\ cached' = [cached EXCEPT ![a] = NoEntry]
    BY <1>14 DEF SyncEnded
  <2>2. /\ ~mixed => ~account[a].active
        /\ cached[a].ids \subseteq Book(a)
    BY <1>1, <2>1 DEF IInv, StampInv, IdsInv, FloatInv, GoneInv
  <2>3. NoEntry \in Entry /\ NoEntry.floating = Zero /\ NoEntry.stamp = "absent"
    BY NoEntryType DEF NoEntry
  <2>4. /\ \A u \in Trades : AccountOf[u] # a => watched'[u] = watched[u]
        /\ \A u \in Trades : watched'[u].stamp = "absent" => watched'[u].last = 0
    BY <1>3, <1>5, <2>1, <2>2 DEF Book
  <2>5. ~Sure(a)'
    <3>1. cached'[a] = NoEntry /\ UNCHANGED <<account, mixed>>
      BY <1>1, <2>1, PassParts DEF IInv, ApplyCall, CallUnchanged
    <3>. QED
      BY <2>2, <2>3, <3>1 DEF Sure, Loaded
  <2>. QED
    BY <2>1, <2>2, <2>3, <2>4, <2>5, CallFloat
<1>. QED
  BY <1>10, <1>11, <1>12, <1>13, <1>14 DEF ApplyCall
-----------------------------------------------------------------------------
\* The price tick and the reconciliation.

\* A step that changes the index itself, account by account and trade by trade.
LEMMA IndexFloat ==
  ASSUME FloatInv, UNCHANGED <<account, calls>>, cached' \in [Accounts -> Entry],
         mode' = mode \/ mode' = "armed",
         mode' = "boot" => changed' = {} /\ tick'.pc = "idle",
         mixed' = mixed \/ mixed' = TRUE,
         LoadedInv',
         \A t \in Trades : watched'[t].stamp = "absent" => watched'[t].last = 0,
         \A a \in Accounts : cached'[a].stamp = "absent" => cached'[a].floating = Zero,
         \A a \in Accounts, t \in Trades : Sure(a)' =>
           cached'[a].floating[t] = IF AccountOf[t] = a THEN watched'[t].last ELSE 0
  PROVE  FloatInv'
<1>1. NothingInv'
  BY DEF NothingInv, Indexed, Loaded
<1>2. BootInv' /\ GoneInv'
  BY DEF FloatInv, BootInv, GoneInv
<1>3. SumInv'
  <2>. SUFFICES ASSUME NEW a \in Accounts, Sure(a)'
                PROVE  cached'[a].floating = SumOf(a)'
    BY DEF SumInv
  <2>1. cached'[a].floating \in Money
    BY DEF Entry
  <2>2. \A t \in Trades : cached'[a].floating[t] =
                            IF AccountOf[t] = a THEN watched'[t].last ELSE 0
    OBVIOUS
  <2>3. SumOf(a)' = [t \in Trades |-> IF AccountOf[t] = a THEN watched'[t].last ELSE 0]
    BY DEF SumOf
  <2>. QED
    BY <2>1, <2>2, <2>3 DEF Money
<1>. QED
  BY <1>1, <1>2, <1>3 DEF FloatInv

\* What the floating totals are before a step, trade by trade.
LEMMA FloatParts ==
  ASSUME IInv, FloatInv
  PROVE  /\ \A t \in Trades : watched[t].stamp = "absent" => watched[t].last = 0
         /\ \A a \in Accounts : cached[a].stamp = "absent" => cached[a].floating = Zero
         /\ \A a \in Accounts, t \in Trades : Sure(a) =>
              cached[a].floating[t] = IF AccountOf[t] = a THEN watched[t].last ELSE 0
         /\ \A a \in Accounts : cached[a] \in Entry /\ cached[a].floating \in Money
         /\ \A t \in Trades : watched[t].last \in Int /\ market[t] \in Int
         /\ Active \subseteq Accounts
<1>1. /\ \A t \in Trades : watched[t].stamp = "absent" => watched[t].last = 0
      /\ \A a \in Accounts : cached[a].stamp = "absent" => cached[a].floating = Zero
  BY DEF FloatInv, NothingInv, Indexed, Loaded
<1>2. \A a \in Accounts, t \in Trades : Sure(a) =>
        cached[a].floating[t] = IF AccountOf[t] = a THEN watched[t].last ELSE 0
  BY SumParts DEF FloatInv, SumInv
<1>3. /\ \A a \in Accounts : cached[a] \in Entry /\ cached[a].floating \in Money
      /\ \A t \in Trades : watched[t].last \in Int /\ market[t] \in Int
  BY PassParts, MarketType DEF IInv, TypeInv, Entry, WatchedSet
<1>. QED
  BY <1>1, <1>2, <1>3 DEF Active

LEMMA TickQuietFloat ==
  ASSUME IInv, FloatInv, TickCommit \/ TickFail,
         ~mixed' => \A a \in Accounts : account'[a].active => account[a].active
  PROVE  FloatInv'
<1>1. UNCHANGED <<watched, cached, mode, calls, pass, history>> /\ tick.pc = "act"
  BY DEF TickCommit, TickFail, TickUnchanged
<1>2. mode # "boot"
  BY <1>1 DEF FloatInv, BootInv
<1>. QED
  BY <1>1, <1>2, OldCalls, QuietFloat DEF history

\* A step of the tick keeps the entries, and a total that is to be relied on is
\* that of an account that has one.
LEMMA TickLoaded ==
  ASSUME IInv, FloatInv, TickUnchanged, UNCHANGED account, mode # "boot",
         \A a \in Accounts : Loaded(a)' = Loaded(a)
  PROVE  /\ \A a \in Accounts : Sure(a)' => Sure(a) /\ Loaded(a)
         /\ LoadedInv' /\ UNCHANGED <<mode, mixed>>
<1>1. UNCHANGED <<mode, pass, alone, late, mixed>>
  BY DEF TickUnchanged, history
<1>2. \A a \in Accounts : Sure(a)' => Sure(a)
  BY <1>1 DEF Sure
<1>3. \A a \in Accounts : Sure(a) => Loaded(a)
  BY PassParts DEF Sure, IInv, FloatInv, LoadedInv, Active
<1>4. LoadedInv'
  BY <1>1 DEF FloatInv, LoadedInv, Active
<1>. QED
  BY <1>1, <1>2, <1>3, <1>4

LEMMA ScanFloat ==
  ASSUME IInv, FloatInv, Scan
  PROVE  FloatInv'
<1>. DEFINE seen == {t \in changed : Indexed(t)}
            up(a) == [t \in Trades |-> IF t \in seen \cap Book(a)
                       THEN cached[a].floating[t] + market[t] - watched[t].last
                       ELSE cached[a].floating[t]]
            e(a) == IF ~Loaded(a) THEN cached[a]
                    ELSE [cached[a] EXCEPT !.floating = up(a)]
<1>1. /\ cached' = [a \in Accounts |-> e(a)]
      /\ watched' = [t \in Trades |-> IF t \in seen
                        THEN [watched[t] EXCEPT !.last = market[t]]
                        ELSE watched[t]]
      /\ UNCHANGED <<account, calls>> /\ TickUnchanged /\ changed # {}
  BY DEF Scan
<1>2. mode # "boot"
  BY <1>1 DEF FloatInv, BootInv
<1>3. \A t \in Trades : /\ t \in seen => watched[t].stamp # "absent"
                        /\ t \in seen => watched'[t].last = market[t]
                        /\ t \notin seen => watched'[t].last = watched[t].last
                        /\ watched'[t].stamp = watched[t].stamp
  BY <1>1, PassParts DEF Indexed, IInv, WatchedSet
<1>4. \A a \in Accounts, t \in Trades :
        up(a)[t] = IF t \in seen /\ AccountOf[t] = a
                   THEN cached[a].floating[t] + market[t] - watched[t].last
                   ELSE cached[a].floating[t]
  BY DEF Book
<1>5. cached' \in [Accounts -> Entry]
  <2>1. TypeInv'
    BY ScanType DEF IInv
  <2>. QED
    BY <2>1, TypeParts DEF TypeInv, StateOK, Entry
<1>. HIDE DEF seen, up
<1>6. \A a \in Accounts : /\ e(a).stamp = cached[a].stamp
                          /\ e(a).floating = IF Loaded(a) THEN up(a) ELSE cached[a].floating
  BY FloatParts DEF Entry
<1>. HIDE DEF e
<1>7. /\ \A t \in Trades : watched'[t].stamp = "absent" => watched'[t].last = 0
      /\ \A a \in Accounts : cached'[a].stamp = "absent" => cached'[a].floating = Zero
      /\ \A a \in Accounts : Loaded(a)' = Loaded(a)
  BY <1>1, <1>3, <1>6, FloatParts DEF Loaded
<1>9. /\ \A a \in Accounts : Sure(a)' => Sure(a) /\ Loaded(a)
      /\ LoadedInv' /\ UNCHANGED <<mode, mixed>>
  BY <1>1, <1>2, <1>7, TickLoaded
<1>8. ASSUME NEW a \in Accounts, NEW t \in Trades, Sure(a)'
      PROVE  cached'[a].floating[t] = IF AccountOf[t] = a THEN watched'[t].last ELSE 0
  <2>1. Sure(a) /\ Loaded(a)
    BY <1>8, <1>9
  <2>2. cached'[a].floating[t] = up(a)[t]
    BY <1>1, <1>6, <2>1
  <2>3. /\ cached[a].floating[t] = IF AccountOf[t] = a THEN watched[t].last ELSE 0
        /\ market[t] \in Int /\ watched[t].last \in Int
    BY <2>1, FloatParts
  <2>. QED
    BY <1>3, <1>4, <2>1, <2>2, <2>3
<1>. QED
  BY <1>1, <1>2, <1>5, <1>7, <1>8, <1>9, IndexFloat

LEMMA TickSyncFloat ==
  ASSUME IInv, FloatInv, TickSync
  PROVE  FloatInv'
<1>. DEFINE gone(a) == tick.hit \cap Book(a)
            earned(a, sum) == [t \in Trades |-> IF t \in gone(a)
                                THEN sum[t] + tick.pnls[t] ELSE sum[t]]
            fl(a) == [t \in Trades |-> IF t \in gone(a)
                        THEN cached[a].floating[t] - watched[t].last
                        ELSE cached[a].floating[t]]
            today(a) == earned(a, cached[a].today)
            bal(a)   == earned(a, cached[a].balance)
            ids(a)   == cached[a].ids \ {t \in gone(a) : Indexed(t)}
            e(a) == IF ~Loaded(a) THEN cached[a]
                    ELSE [cached[a] EXCEPT !.ids = ids(a), !.floating = fl(a),
                                           !.today = today(a), !.balance = bal(a)]
<1>1. /\ cached' = [a \in Accounts |-> e(a)]
      /\ watched' = [t \in Trades |-> IF t \in tick.hit THEN NoTrade ELSE watched[t]]
      /\ UNCHANGED <<account, calls>> /\ TickUnchanged /\ tick.pc = "sync"
  BY DEF TickSync
<1>2. mode # "boot"
  BY <1>1 DEF FloatInv, BootInv
<1>3. \A t \in Trades : /\ t \in tick.hit => watched'[t].last = 0
                        /\ t \notin tick.hit => watched'[t] = watched[t]
  BY <1>1 DEF NoTrade
<1>4. \A a \in Accounts, t \in Trades :
        fl(a)[t] = IF t \in tick.hit /\ AccountOf[t] = a
                   THEN cached[a].floating[t] - watched[t].last
                   ELSE cached[a].floating[t]
  BY DEF Book
<1>5. cached' \in [Accounts -> Entry]
  <2>1. TypeInv'
    BY TickSyncType DEF IInv
  <2>. QED
    BY <2>1, TypeParts DEF TypeInv, StateOK, Entry
<1>. HIDE DEF fl, today, bal, ids
<1>6. \A a \in Accounts : /\ e(a).stamp = cached[a].stamp
                          /\ e(a).floating = IF Loaded(a) THEN fl(a) ELSE cached[a].floating
  BY FloatParts DEF Entry
<1>. HIDE DEF e
<1>7. /\ \A t \in Trades : watched'[t].stamp = "absent" => watched'[t].last = 0
      /\ \A a \in Accounts : cached'[a].stamp = "absent" => cached'[a].floating = Zero
      /\ \A a \in Accounts : Loaded(a)' = Loaded(a)
  BY <1>1, <1>3, <1>6, FloatParts DEF Loaded
<1>9. /\ \A a \in Accounts : Sure(a)' => Sure(a) /\ Loaded(a)
      /\ LoadedInv' /\ UNCHANGED <<mode, mixed>>
  BY <1>1, <1>2, <1>7, TickLoaded
<1>8. ASSUME NEW a \in Accounts, NEW t \in Trades, Sure(a)'
      PROVE  cached'[a].floating[t] = IF AccountOf[t] = a THEN watched'[t].last ELSE 0
  <2>1. Sure(a) /\ Loaded(a)
    BY <1>8, <1>9
  <2>2. cached'[a].floating[t] = fl(a)[t]
    BY <1>1, <1>6, <2>1
  <2>3. /\ cached[a].floating[t] = IF AccountOf[t] = a THEN watched[t].last ELSE 0
        /\ watched[t].last \in Int
    BY <2>1, FloatParts
  <2>. QED
    BY <1>3, <1>4, <2>1, <2>2, <2>3
<1>. QED
  BY <1>1, <1>2, <1>5, <1>7, <1>8, <1>9, IndexFloat
-----------------------------------------------------------------------------
LEMMA StartFloat ==
  ASSUME IInv, FloatInv, NEW p \in Passes, StartPass(p)
  PROVE  FloatInv'
<1>1. /\ UNCHANGED <<account, calls, mode, changed, tick, late>>
      /\ watched' = [t \in Trades |-> [watched[t] EXCEPT !.stamp = Aged(p, @)]]
      /\ cached' = [a \in Accounts |-> [cached[a] EXCEPT !.stamp = Aged(p, @)]]
  BY DEF StartPass, PassUnchanged
<1>2. \A s \in Stamps : Aged(p, s) = "absent" <=> s = "absent"
  BY TradeIndexAssumption DEF Aged
<1>3. \A t \in Trades : /\ watched'[t].stamp = "absent" <=> watched[t].stamp = "absent"
                        /\ watched'[t].last = watched[t].last
  BY <1>1, <1>2, PassParts DEF IInv, WatchedSet
<1>4. \A a \in Accounts : /\ cached'[a].stamp = "absent" <=> cached[a].stamp = "absent"
                          /\ cached'[a].floating = cached[a].floating
  BY <1>1, <1>2, PassParts DEF IInv, Entry
<1>5. cached' \in [Accounts -> Entry]
  <2>1. TypeInv'
    BY StartType DEF IInv
  <2>. QED
    BY <2>1, TypeParts DEF TypeInv, StateOK, Entry
<1>6. /\ pass'[p].pc = "accounts"
      /\ \A q \in Passes \ {p} : pass'[q] = pass[q]
      /\ \/ /\ UNCHANGED mixed /\ alone' = {p}
            /\ \A q \in Passes : pass[q].pc = "idle"
         \/ mixed' = TRUE
  BY PassParts DEF StartPass, Step, NoPass, IInv, At
<1>7. LoadedInv'
  <2>1. CASE mixed' = TRUE
    BY <2>1 DEF LoadedInv
  <2>2. CASE /\ mixed' = mixed /\ alone' = {p}
             /\ \A q \in Passes : pass[q].pc = "idle"
    <3>1. ~mixed /\ mode' = "armed" => \A a \in Active' : Loaded(a)'
      BY <1>1, <1>4 DEF FloatInv, LoadedInv, Active, Loaded
    <3>2. \A q \in Passes : /\ pass'[q].pc # "idle" => q \in alone'
                            /\ pass'[q].pc \notin AfterAccounts
      BY <1>6, <2>2 DEF AfterAccounts
    <3>. QED
      BY <2>2, <3>1, <3>2 DEF LoadedInv
  <2>. QED
    BY <1>6, <2>1, <2>2
<1>8. mode = "boot" => changed = {} /\ tick.pc = "idle"
  BY DEF FloatInv, BootInv
<1>9. \A a \in Accounts : Sure(a)' => Sure(a)
  BY <1>1, <1>4, <1>6 DEF Sure, Loaded
<1>10. \A a \in Accounts, t \in Trades : Sure(a)' =>
         cached'[a].floating[t] = IF AccountOf[t] = a THEN watched'[t].last ELSE 0
  BY <1>3, <1>4, <1>9, FloatParts
<1>11. /\ \A t \in Trades : watched'[t].stamp = "absent" => watched'[t].last = 0
       /\ \A a \in Accounts : cached'[a].stamp = "absent" => cached'[a].floating = Zero
  BY <1>3, <1>4, FloatParts
<1>12. /\ UNCHANGED <<account, calls>> /\ mode' = mode
       /\ mode' = "boot" => changed' = {} /\ tick'.pc = "idle"
       /\ mixed' = mixed \/ mixed' = TRUE
  BY <1>1, <1>6, <1>8
<1>. QED
  BY <1>5, <1>7, <1>10, <1>11, <1>12, IndexFloat

LEMMA ReadFloat ==
  ASSUME IInv, FloatInv, NEW p \in Passes,
         ReadAccounts(p) \/ ReadTrades(p) \/ ReadPending(p) \/ ReadRealized(p)
  PROVE  FloatInv'
<1>1. UNCHANGED <<watched, cached, mode, history>> /\ PassUnchanged
  BY DEF ReadAccounts, ReadTrades, ReadPending, ReadRealized
<1>2. /\ \A q \in Passes \ {p} : pass'[q] = pass[q]
      /\ pass[p].pc # "idle"
      /\ pass'[p].pc \in AfterAccounts => pass[p].pc \in AfterAccounts
  BY PassParts
     DEF IInv, PassSet, ReadAccounts, ReadTrades, ReadPending, ReadRealized, At,
         AfterAccounts
<1>. QED
  BY <1>1, <1>2, OldCalls, QuietFloat DEF PassUnchanged, history

\* A step of a pass under way keeps the active accounts loaded.
LEMMA PassLoaded ==
  ASSUME IInv, FloatInv, NEW p \in Passes, pass[p].pc # "idle", UNCHANGED account,
         UNCHANGED <<alone, mixed>>, \A q \in Passes \ {p} : pass'[q] = pass[q],
         mode' # mode \/ pass'[p].pc \in AfterAccounts =>
           (p \in alone => \A a \in Active : Loaded(a)'),
         \A a \in Active : ~mixed /\ Loaded(a) => Loaded(a)'
  PROVE  LoadedInv'
BY DEF FloatInv, LoadedInv, Active

LEMMA ApplyAccountsFloat ==
  ASSUME IInv, FloatInv, NEW p \in Passes, ApplyAccounts(p)
  PROVE  FloatInv'
<1>. DEFINE made == {a \in pass[p].accts : ~Loaded(a)}
<1>1. /\ UNCHANGED <<account, calls, mode, watched, changed, tick, alone, mixed>>
      /\ pass[p].pc = "gotAccounts" /\ MakeEntries(made)
      /\ \A q \in Passes \ {p} : pass'[q] = pass[q]
      /\ cached' = [a \in Accounts |->
           IF a \in pass[p].accts THEN Upserted(cached[a], pass[p].balances[a], p)
           ELSE cached[a]]
  BY DEF ApplyAccounts, PassUnchanged, At, Step
<1>2. p # "absent"
  BY TradeIndexAssumption
<1>3. \A a \in Accounts :
        /\ cached'[a].stamp = "absent" => cached[a].stamp = "absent"
        /\ a \notin pass[p].accts => cached'[a].stamp = cached[a].stamp
        /\ a \in pass[p].accts => cached'[a].stamp = p
        /\ cached'[a].floating = cached[a].floating
  BY <1>1, <1>2, PassParts DEF IInv, Entry, Upserted
<1>4. cached' \in [Accounts -> Entry]
  <2>1. TypeInv'
    BY ApplyAccountsType DEF IInv
  <2>. QED
    BY <2>1, TypeParts DEF TypeInv, StateOK, Entry
<1>5. LoadedInv'
  <2>1. p \in alone => \A a \in Active : Loaded(a)'
    BY <1>1, <1>2, <1>3 DEF IInv, StampInv, AccountsInv, Active, Loaded
  <2>2. \A a \in Active : Loaded(a) => Loaded(a)'
    BY <1>3 DEF Active, Loaded
  <2>. QED
    BY <1>1, <2>1, <2>2, PassLoaded
<1>6. mode = "boot" => changed = {} /\ tick.pc = "idle"
  BY DEF FloatInv, BootInv
<1>7. ASSUME NEW a \in Accounts, NEW t \in Trades, Sure(a)'
      PROVE  cached'[a].floating[t] = IF AccountOf[t] = a THEN watched'[t].last ELSE 0
  <2>1. CASE Sure(a)
    BY <1>1, <1>3, <2>1, FloatParts
  <2>2. CASE ~Sure(a)
    <3>1. Loaded(a)' /\ a \notin late'
      BY <1>1, <1>7, <2>2 DEF Sure
    <3>2. a \in made
      BY <1>1, <1>3, <2>2, <3>1 DEF Sure, MakeEntries, Loaded
    <3>3. AccountOf[t] = a => watched[t].last = 0
      BY <1>1, <3>1, <3>2 DEF MakeEntries, Book
    <3>4. cached[a].floating = Zero
      BY <3>2, FloatParts DEF Loaded
    <3>. QED
      BY <1>1, <1>3, <3>3, <3>4 DEF Zero
  <2>. QED
    BY <2>1, <2>2
<1>. QED
  BY <1>1, <1>3, <1>4, <1>5, <1>6, <1>7, FloatParts, IndexFloat

LEMMA ApplyTradesFloat ==
  ASSUME IInv, FloatInv, NEW p \in Passes, ApplyTrades(p)
  PROVE  FloatInv'
<1>. DEFINE added(a) == pass[p].rows \cap Book(a)
            mine(a) == cached[a].stamp = p
            ids(a) == (IF mine(a) THEN {} ELSE cached[a].ids) \cup added(a)
            orders(a) == IF mine(a) THEN {} ELSE cached[a].orders
            fl(a) == [t \in Trades |-> IF t \in added(a)
                        THEN cached[a].floating[t] - watched[t].last
                        ELSE cached[a].floating[t]]
            e(a) == IF ~Loaded(a) THEN cached[a]
                    ELSE [cached[a] EXCEPT !.ids = ids(a), !.orders = orders(a),
                                           !.floating = fl(a)]
<1>1. /\ UNCHANGED <<account, calls, mode, changed, tick, alone, late, mixed>>
      /\ cached' = [a \in Accounts |-> e(a)]
      /\ watched' = [t \in Trades |-> IF t \in pass[p].rows
                        THEN [stamp |-> p, last |-> 0] ELSE watched[t]]
  BY DEF ApplyTrades, PassUnchanged, history
<1>12. pass[p].pc = "gotTrades" /\ \A q \in Passes \ {p} : pass'[q] = pass[q]
  <2>1. pass[p].pc = "gotTrades"
    BY DEF ApplyTrades, At
  <2>2. pass' = [pass EXCEPT ![p] = [NoPass EXCEPT !.pc = "pending"]]
    BY DEF ApplyTrades, Step
  <2>. QED
    BY <2>1, <2>2
<1>2. p # "absent"
  BY TradeIndexAssumption
<1>3. \A a \in Accounts : Sure(a) => Loaded(a)
  BY <1>12 DEF Sure, FloatInv, LoadedInv, AfterAccounts, Active
<1>4. \A t \in Trades : /\ t \in pass[p].rows => watched'[t].last = 0
                        /\ t \notin pass[p].rows => watched'[t] = watched[t]
  BY <1>1
<1>5. \A a \in Accounts, t \in Trades :
        fl(a)[t] = IF t \in pass[p].rows /\ AccountOf[t] = a
                   THEN cached[a].floating[t] - watched[t].last
                   ELSE cached[a].floating[t]
  BY DEF Book
<1>6. cached' \in [Accounts -> Entry]
  <2>1. TypeInv'
    BY ApplyTradesType DEF IInv
  <2>. QED
    BY <2>1, TypeParts DEF TypeInv, StateOK, Entry
<1>. HIDE DEF fl, ids, orders
<1>7. \A a \in Accounts : /\ e(a).stamp = cached[a].stamp
                          /\ e(a).floating = IF Loaded(a) THEN fl(a) ELSE cached[a].floating
  BY FloatParts DEF Entry
<1>. HIDE DEF e
<1>8. /\ \A t \in Trades : watched'[t].stamp = "absent" => watched'[t].last = 0
      /\ \A a \in Accounts : cached'[a].stamp = "absent" => cached'[a].floating = Zero
      /\ \A a \in Accounts : Loaded(a)' = Loaded(a)
  BY <1>1, <1>4, <1>7, FloatParts DEF Loaded
<1>11. LoadedInv'
  BY <1>1, <1>8, <1>12, PassLoaded DEF FloatInv, LoadedInv, AfterAccounts, Active
<1>9. ASSUME NEW a \in Accounts, NEW t \in Trades, Sure(a)'
      PROVE  cached'[a].floating[t] = IF AccountOf[t] = a THEN watched'[t].last ELSE 0
  <2>1. Sure(a) /\ Loaded(a)
    BY <1>1, <1>3, <1>8, <1>9 DEF Sure
  <2>2. cached'[a].floating[t] = fl(a)[t]
    BY <1>1, <1>7, <2>1
  <2>3. /\ cached[a].floating[t] = IF AccountOf[t] = a THEN watched[t].last ELSE 0
        /\ watched[t].last \in Int
    BY <2>1, FloatParts
  <2>. QED
    BY <1>4, <1>5, <2>1, <2>2, <2>3
<1>10. mode = "boot" => changed = {} /\ tick.pc = "idle"
  BY DEF FloatInv, BootInv
<1>. QED
  BY <1>1, <1>6, <1>8, <1>9, <1>10, <1>11, IndexFloat

\* A pass that ends revalues what it keeps, whatever the totals were.
LEMMA EvictFloat ==
  ASSUME IInv, FloatInv, NEW p \in Passes, NEW queue \in [Trades -> Stamps],
         NEW books \in [Accounts -> Entry], Evict(p, queue, books),
         UNCHANGED <<account, calls, alone, mixed>>, pass[p].pc \in AfterAccounts,
         \A a \in Accounts : books[a].stamp = cached[a].stamp
  PROVE  FloatInv'
<1>. DEFINE taken == UNION {books[a].ids : a \in {b \in Accounts : books[b].stamp # p}}
            left  == UNION {books[a].orders : a \in {b \in Accounts : books[b].stamp # p}}
            kept  == {t \in Trades : watched[t].stamp = p} \ taken
            keptQ == {t \in Trades : queue[t] = p} \ left
            ids(a) == books[a].ids \ {t \in Trades : Indexed(t) /\ t \notin kept}
            orders(a) == books[a].orders \ {t \in Trades : queue[t] # "absent"
                                                           /\ t \notin keptQ}
            fl(a) == [t \in Trades |-> IF t \in kept \cap Book(a) THEN market[t] ELSE 0]
            new(a) == IF books[a].stamp # p THEN NoEntry
                      ELSE [books[a] EXCEPT !.ids = ids(a), !.orders = orders(a),
                                            !.floating = fl(a)]
<1>1. /\ watched' = [t \in Trades |-> IF t \in kept
                       THEN [stamp |-> p, last |-> market[t]] ELSE NoTrade]
      /\ cached' = [a \in Accounts |-> new(a)]
      /\ mode' = "armed"
  BY DEF Evict
<1>2. p # "absent"
  BY TradeIndexAssumption
<1>3. p \in alone /\ ~mixed => \A a \in Active : books[a].stamp = p /\ a \in Accounts
  BY FloatParts DEF IInv, StampInv, AccountsInv, FloatInv, LoadedInv
<1>4. \A a \in Accounts, t \in Trades :
        fl(a)[t] = IF t \in kept /\ AccountOf[t] = a THEN market[t] ELSE 0
  BY DEF Book
<1>5. cached' \in [Accounts -> Entry]
  BY EvictType DEF IInv
<1>6. \A t \in Trades : watched'[t].last = IF t \in kept THEN market[t] ELSE 0
  BY <1>1 DEF NoTrade
<1>7. \A t \in Trades : watched'[t].stamp = "absent" => watched'[t].last = 0
  BY <1>1, <1>2 DEF NoTrade
<1>. HIDE DEF kept, ids, orders, fl
<1>8. \A a \in Accounts :
        /\ books[a].stamp # p => new(a).floating = Zero /\ new(a).stamp = "absent"
        /\ books[a].stamp = p => new(a).floating = fl(a) /\ new(a).stamp = p
  BY DEF Entry, NoEntry
<1>. HIDE DEF new
<1>9. /\ \A a \in Accounts : cached'[a].stamp = "absent" => cached'[a].floating = Zero
      /\ \A a \in Accounts : Loaded(a)' <=> books[a].stamp = p
  BY <1>1, <1>2, <1>8 DEF Loaded
<1>10. ~mixed => p \in alone
  BY DEF FloatInv, LoadedInv, AfterAccounts
<1>11. LoadedInv'
  <2>1. ~mixed => \A a \in Active' : Loaded(a)'
    BY <1>3, <1>9, <1>10 DEF Active
  <2>2. \A q \in Passes : pass'[q].pc # "idle" => pass[q].pc # "idle"
    BY PassParts DEF Evict, NoPass, IInv
  <2>. QED
    BY <2>1, <2>2 DEF FloatInv, LoadedInv
<1>12. ASSUME NEW a \in Accounts, NEW t \in Trades, Sure(a)'
       PROVE  cached'[a].floating[t] = IF AccountOf[t] = a THEN watched'[t].last ELSE 0
  <2>1. books[a].stamp = p
    BY <1>3, <1>9, <1>10, <1>12 DEF Sure, Active
  <2>. QED
    BY <1>1, <1>4, <1>6, <1>8, <2>1
<1>. QED
  BY <1>1, <1>5, <1>7, <1>9, <1>11, <1>12, IndexFloat

LEMMA ApplyPendingFloat ==
  ASSUME IInv, FloatInv, NEW p \in Passes, ApplyPending(p)
  PROVE  FloatInv'
<1>1. /\ UNCHANGED <<account, calls, changed, tick, alone, mixed>>
      /\ pass[p].pc \in AfterAccounts
  BY DEF ApplyPending, PassUnchanged, At, AfterAccounts
<1>2. /\ Queue(p) \in [Trades -> Stamps] /\ Books(p) \in [Accounts -> Entry]
      /\ \A a \in Accounts : Books(p)[a].stamp = cached[a].stamp
  BY BooksType DEF IInv
<1>3. CASE Evict(p, Queue(p), Books(p))
  BY <1>1, <1>2, <1>3, EvictFloat
<1>4. CASE /\ waiting' = Queue(p) /\ cached' = Books(p)
           /\ pass' = [pass EXCEPT ![p] =
                         [NoPass EXCEPT !.pc = "realized", !.needs = Dues(p)]]
           /\ UNCHANGED <<watched, mode, late>>
  <2>1. \A a \in Accounts : Books(p)[a].floating = cached[a].floating
    BY FloatParts DEF Books, Entry
  <2>2. late' = late /\ \A a \in Accounts : Loaded(a)' = Loaded(a)
    BY <1>2, <1>4 DEF Loaded
  <2>3. \A q \in Passes \ {p} : pass'[q] = pass[q]
    BY <1>4
  <2>4. LoadedInv'
    BY <1>1, <1>4, <2>2, <2>3, PassLoaded DEF FloatInv, LoadedInv, AfterAccounts, Active
  <2>5. mode = "boot" => changed = {} /\ tick.pc = "idle"
    BY DEF FloatInv, BootInv
  <2>6. \A a \in Accounts : Sure(a)' => Sure(a)
    BY <1>1, <1>4, <2>2 DEF Sure
  <2>. QED
    BY <1>1, <1>2, <1>4, <2>1, <2>4, <2>5, <2>6, FloatParts, IndexFloat
<1>. QED
  BY <1>3, <1>4, PendingCases

LEMMA ApplyRealizedFloat ==
  ASSUME IInv, FloatInv, NEW p \in Passes, ApplyRealized(p)
  PROVE  FloatInv'
<1>1. /\ UNCHANGED <<account, calls, alone, mixed>> /\ pass[p].pc \in AfterAccounts
      /\ waiting \in [Trades -> Stamps]
  BY PassParts DEF ApplyRealized, PassUnchanged, At, AfterAccounts, IInv
<1>2. /\ Seeded(p) \in [Accounts -> Entry]
      /\ \A a \in Accounts : Seeded(p)[a].stamp = cached[a].stamp
  BY SeededType DEF IInv
<1>3. Evict(p, waiting, Seeded(p))
  BY ApplyRealizedType DEF IInv
<1>. QED
  BY <1>1, <1>2, <1>3, EvictFloat

-----------------------------------------------------------------------------
LEMMA FaultFloat ==
  ASSUME IInv, FloatInv,
         (\E c \in calls : Lose(c)) \/ (\E p \in Passes : FailPass(p))
  PROVE  FloatInv'
<1>1. /\ UNCHANGED <<watched, cached, account, changed, tick, history>>
      /\ calls' \subseteq calls
      /\ mode' = mode \/ mode' = "off"
  BY DEF Lose, FailPass, PassUnchanged
<1>2. \A q \in Passes : pass'[q] = pass[q] \/ pass'[q] = NoPass
  BY PassParts DEF Lose, FailPass, IInv
<1>3. \A q \in Passes :
        /\ pass'[q].pc # "idle" => pass[q].pc # "idle"
        /\ pass'[q].pc \in AfterAccounts => pass[q].pc \in AfterAccounts
  BY <1>2 DEF NoPass, AfterAccounts
<1>. QED
  BY <1>1, <1>3, OldCalls, QuietFloat DEF history

\* An empty index.
LEMMA EmptyFloat ==
  ASSUME watched = [t \in Trades |-> NoTrade], cached = [a \in Accounts |-> NoEntry],
         mode = "boot", changed = {}, tick = NoTick, calls = {},
         pass = [p \in Passes |-> NoPass]
  PROVE  FloatInv
<1>1. \A t \in Trades : watched[t].last = 0
  BY DEF NoTrade
<1>2. \A a \in Accounts : cached[a].floating = Zero /\ SumOf(a) = Zero
  BY <1>1 DEF NoEntry, SumOf, Zero
<1>. QED
  BY <1>1, <1>2 DEF FloatInv, NothingInv, BootInv, LoadedInv, GoneInv, SumInv, NoTick,
                    NoPass, AfterAccounts

LEMMA RestartFloat == Restart => FloatInv'
<1>1. SUFFICES ASSUME Restart PROVE FloatInv'
  OBVIOUS
<1>2. /\ watched' = [t \in Trades |-> NoTrade] /\ cached' = [a \in Accounts |-> NoEntry]
      /\ mode' = "boot" /\ changed' = {} /\ tick' = NoTick /\ calls' = {}
      /\ pass' = [p \in Passes |-> NoPass]
  BY <1>1 DEF Restart
<1>3. \A t \in Trades : watched'[t].last = 0
  BY <1>2 DEF NoTrade
<1>4. \A a \in Accounts : cached'[a].floating = Zero /\ SumOf(a)' = Zero
  BY <1>2, <1>3 DEF NoEntry, SumOf, Zero
<1>. QED
  BY <1>2, <1>3, <1>4 DEF FloatInv, NothingInv, BootInv, LoadedInv, GoneInv, SumInv,
                          NoTick, NoPass, AfterAccounts

LEMMA FloatNext ==
  ASSUME IInv, FloatInv, [Next]_vars
  PROVE  FloatInv'
<1>. ~mixed' => \A a \in Accounts : account'[a].active => account[a].active
  BY ActivityFalls DEF IInv
<1>1. CASE Routes \/ Engine
  BY <1>1, WriteFloat
<1>2. CASE Sync
  BY <1>2, LookupFloat, ApplyFloat DEF Sync
<1>3. CASE Tick
  BY <1>3, ScanFloat, TickQuietFloat, TickSyncFloat DEF Tick
<1>4. CASE \E p \in Passes : Reconcile(p)
  BY <1>4, StartFloat, ReadFloat, ApplyAccountsFloat, ApplyTradesFloat,
     ApplyPendingFloat, ApplyRealizedFloat DEF Reconcile
<1>5. CASE Faults
  BY <1>5, FaultFloat, TickQuietFloat, RestartFloat DEF Faults
<1>6. CASE UNCHANGED vars
  <2>1. UNCHANGED <<watched, cached, account, mode, changed, tick, calls, pass, history>>
    BY <1>6 DEF vars
  <2>. QED
    BY <2>1, OldCalls, QuietFloat DEF history
<1>. QED
  BY <1>1, <1>2, <1>3, <1>4, <1>5, <1>6 DEF Next

\* The floating total that additions, removals, ticks and reloads keep by deltas
\* is the sum of what the watched trades of the account contribute, for any
\* number of trades and passes and any order of calls, ticks, failures,
\* restores and restarts; where the entry was made behind its trades it may
\* differ, until a pass ends, and for an active account only if passes
\* overlapped, an account was restored or the boot failed
\* (utils/tradeIndex.ts, addTrade, removeTrade and applyTradePnl).
THEOREM FloatingSumHolds == Spec => []FloatingSum
<1>1. Init => IInv /\ FloatInv
  BY TypeInit, StampInit, EmptyFloat DEF IInv, Init, HistoryOK
<1>2. IInv /\ FloatInv /\ [Next]_vars => (IInv /\ FloatInv)'
  BY IInvNext, FloatNext
<1>3. FloatInv => FloatingSum
  BY DEF FloatInv, SumInv, Sure, FloatingSum
<1>. QED
  BY <1>1, <1>2, <1>3, PTL DEF Spec

=============================================================================
