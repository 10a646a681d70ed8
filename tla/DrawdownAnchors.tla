-------------------------- MODULE DrawdownAnchors --------------------------
(***************************************************************************)
(* The trailing drawdown of one account: the anchors in its database row   *)
(* (eod_peak_equity, eod_trailing_floor), the copy of the row in the       *)
(* engine's trade index (utils/tradeIndex.ts), the raises the price tick   *)
(* queues and a one-second timer writes (services/tradeEngine.ts, runTick  *)
(* and flushDirtyPeaks), the index's periodic reconciliation, the interval *)
(* pass checkFloatingDrawdown, and payouts, admin adjustments and resets,  *)
(* which move the anchors in the database only (domain/drawdownAnchors.js). *)
(*                                                                         *)
(* Every await between reading the anchors and writing them is a place     *)
(* where another of these can run, so each is split there.                 *)
(*                                                                         *)
(* Abstractions.  Trading PnL, realised or floating, is the number f a     *)
(* price step comes with, so closing a position changes nothing here.      *)
(* Floors are kept in hundredths.  The account's row has its peak (NULL    *)
(* only in rows older than the column), its model's limits are in the      *)
(* cache, and the daily-loss and profit-target tests are left out.         *)
(***************************************************************************)
EXTENDS Integers, FiniteSets

CONSTANTS
  Null,        \* SQL NULL, an unchanged field, nothing in progress
  NoRow,       \* what a reconciliation reads of an account that is not active
  Starting,    \* starting_balance
  Pnls,        \* the account's trading PnL at the prices that are tried
  Movements,   \* the amounts of payouts and adjustments, debits negative
  Balances,    \* bound: the balances capital movements may lead to
  MaxDrawdownPct,
  LockAts,     \* the peaks at which a funded floor locks; Null: not funded
  MaxFlights,  \* bound: flush statements running at once
  Steps        \* which of StepNames this instance takes

StepNames == {"tick", "interval", "reconcile", "restart", "failFlush", "failPass",
              "move", "reset", "suspend"}

ASSUME AnchorsAssumption ==
  /\ Starting \in Int /\ Pnls \subseteq Int /\ Movements \subseteq Int
  /\ Balances \subseteq Int
  /\ MaxDrawdownPct \in 1..99
  /\ LockAts \subseteq Int \cup {Null} /\ Null \notin Int
  /\ MaxFlights \in Nat
  /\ Steps \subseteq StepNames

VARIABLES
  row,       \* accounts: balance, peak and locked floor
  active,    \* accounts: status = 'active'
  lockAt,    \* a funded account's model: the peak its floor locks at, or Null
  entry,     \* tradeIndex: the account's entry, Null until it is loaded
  dirty,     \* _dirtyPeaks: the raise queued for the account
  flights,   \* flush statements sent to the database
  loading,   \* the row a reconciliation has read, NoRow, or Null while none runs
  candidate, \* the floor a tick found the account under, to be confirmed
  pass,      \* checkFloatingDrawdown: the row it read, then the raise it sends
  failedAt,  \* history: the equity the engine failed the account at, or Null
  high,      \* history: the highest raise judged and not lost by a named loss
  locked     \* history: has a raise ever reached lockAt

status  == <<active, lockAt, failedAt>>
engine  == <<entry, dirty, flights, loading, candidate, pass>>
history == <<high, locked>>
vars    == <<row, status, engine, history>>

Amount == Int \cup {Null}
Row    == [balance : Int, peak : Int, floor : Amount]
Raise  == [peak : Amount, floor : Amount]
Clean  == [peak |-> Null, floor |-> Null]

ASSUME NullAssumption == NoRow # Null /\ {Null, NoRow} \cap (Row \cup Raise) = {}
-----------------------------------------------------------------------------
(* higherPeakValue: Null is a field that did not change. *)
Higher(a, b) == IF a = Null THEN b ELSE IF b = Null \/ a > b THEN a ELSE b

TrailingFloor(peak) == peak * (100 - MaxDrawdownPct)
LockedFloor         == TrailingFloor(lockAt)

(* resolveEffectiveFloor: the floor that applies at this equity, and the     *)
(* fields of r it raises.                                                    *)
NextPeak(r, equity)  == Higher(r.peak, equity)
Locks(r, equity)     == lockAt # Null /\ NextPeak(r, equity) >= lockAt
NextFloor(r, equity) == IF Locks(r, equity) THEN Higher(r.floor, LockedFloor) ELSE r.floor

EffectiveFloor(r, equity) ==
  IF lockAt = Null THEN TrailingFloor(NextPeak(r, equity))
  ELSE Higher(TrailingFloor(NextPeak(r, equity)), NextFloor(r, equity))

Raised(r, equity) ==
  [peak  |-> IF NextPeak(r, equity) = r.peak THEN Null ELSE NextPeak(r, equity),
   floor |-> IF NextFloor(r, equity) = r.floor THEN Null ELSE NextFloor(r, equity)]

Breached(equity, floor) == equity * 100 <= floor

(* Fault: plain assignment in place of GREATEST. *)
GreatestAssigned(r, u) ==
  [r EXCEPT !.peak  = IF u.peak = Null THEN @ ELSE u.peak,
            !.floor = IF u.floor = Null THEN @ ELSE u.floor]

(* flushPeakEquityUpdates: GREATEST of the column and the value. *)
Greatest(r, u) == [r EXCEPT !.peak = Higher(@, u.peak), !.floor = Higher(@, u.floor)]

(* Where a raise the engine has judged by may be. *)
Held == ({row.peak, dirty.peak} \cup {u.peak : u \in flights}
           \cup (IF pass \in Raise THEN {pass.peak} ELSE {})) \ {Null}

(* A step that drops raises by design leaves owed the highest that is held,  *)
(* or n where something as high as n still is.                               *)
Owe(n) == \/ high' = n /\ \E v \in Held' : v >= n
          \/ high' \in Held' /\ \A v \in Held' : v < n /\ v <= high'

Reached(peak) == locked \/ (lockAt # Null /\ peak >= lockAt)
-----------------------------------------------------------------------------
(* The price tick.  Phase B of runTick is synchronous; its breach candidates *)
(* are confirmed by settleAccountOutcomes, which awaits the database.  The   *)
(* entry's own status is a copy, and the PnL g its totals hold is not the    *)
(* account's while a trade is unpriced or a sync message is late.            *)

(* The raise replaces what is queued, whatever that was. *)
Drops(u) == u # Clean /\ dirty.peak # Null /\ (u.peak = Null \/ u.peak < dirty.peak)

Tick(g) ==
  LET equity == entry.balance + g
      floor  == EffectiveFloor(entry, equity)
      u      == Raised(entry, equity)
      judged == Higher(high, u.peak)
  IN /\ "tick" \in Steps /\ entry # Null /\ candidate = Null
     /\ entry' = Greatest(entry, u)
     /\ dirty' = IF u = Clean THEN dirty ELSE u
     /\ candidate' = IF Breached(equity, floor) THEN floor ELSE Null
     /\ locked' = Reached(judged)
     /\ UNCHANGED <<row, flights, loading, pass, status>>
     /\ IF Drops(u) THEN Owe(judged) ELSE high' = judged

(* confirmAccountEquityBatch re-reads the balance of an account that is      *)
(* still active, the floor stays the candidate's; an equity on the floor     *)
(* stands down.  autoCloseAndFail takes the account out of the index.        *)
Confirm(f) ==
  LET equity == row.balance + f
      breach == active /\ equity * 100 < candidate
  IN /\ candidate # Null
     /\ active' = (active /\ ~breach)
     /\ failedAt' = IF breach THEN equity ELSE failedAt
     /\ entry' = IF breach THEN Null ELSE entry
     /\ candidate' = Null
     /\ UNCHANGED <<row, lockAt, dirty, flights, loading, pass, history>>
-----------------------------------------------------------------------------
(* flushDirtyPeaks: the queue is emptied when the statement is sent. *)

(* Fault: only batches with a locked floor are written. *)
StartFlushOfLocks ==
  /\ dirty.floor # Null /\ Cardinality(flights) < MaxFlights
  /\ flights' = flights \cup {dirty}
  /\ dirty' = Clean
  /\ UNCHANGED <<row, status, entry, loading, candidate, pass, history>>

StartFlush ==
  /\ dirty # Clean /\ Cardinality(flights) < MaxFlights
  /\ flights' = flights \cup {dirty}
  /\ dirty' = Clean
  /\ UNCHANGED <<row, status, entry, loading, candidate, pass, history>>

FlushDone(u) ==
  /\ u \in flights
  /\ row' = Greatest(row, u)
  /\ flights' = flights \ {u}
  /\ UNCHANGED <<status, entry, dirty, loading, candidate, pass, history>>

(* Fault: the failed batch overwrites what ticks queued meanwhile. *)
FlushFailsOverwriting(u) ==
  /\ "failFlush" \in Steps /\ u \in flights
  /\ dirty' = u
  /\ flights' = flights \ {u}
  /\ UNCHANGED <<row, status, entry, loading, candidate, pass, history>>

(* A failed batch goes back into the queue, by the higher of each field. *)
FlushFails(u) ==
  /\ "failFlush" \in Steps /\ u \in flights
  /\ dirty' = [peak  |-> Higher(dirty.peak, u.peak),
               floor |-> Higher(dirty.floor, u.floor)]
  /\ flights' = flights \ {u}
  /\ UNCHANGED <<row, status, entry, loading, candidate, pass, history>>
-----------------------------------------------------------------------------
(* fullReconcileFromDB, at boot and every 30 s: it reads the accounts that   *)
(* are active, upsertAccount replaces the entry with the row that was read,  *)
(* and an account that was not read is evicted.                              *)

StartReconcile ==
  /\ "tick" \in Steps /\ loading = Null
  /\ entry = Null \/ "reconcile" \in Steps
  /\ loading' = IF active THEN row ELSE NoRow
  /\ UNCHANGED <<row, status, entry, dirty, flights, candidate, pass, history>>

Reconcile ==
  /\ loading # Null
  /\ entry' = IF loading = NoRow THEN Null ELSE loading
  /\ loading' = Null
  /\ UNCHANGED <<row, status, dirty, flights, candidate, pass, history>>

(* What was queued and not stored is gone. *)
Restart ==
  /\ "restart" \in Steps
  /\ entry' = Null /\ dirty' = Clean /\ flights' = {}
  /\ loading' = Null /\ candidate' = Null /\ pass' = Null
  /\ UNCHANGED <<row, status, locked>>
  /\ Owe(high)
-----------------------------------------------------------------------------
(* checkFloatingDrawdown: read the rows, judge them at the prices read next, *)
(* and send the raises as one statement whose failure is only logged.        *)

StartPass ==
  /\ "interval" \in Steps /\ active /\ pass = Null
  /\ pass' = row
  /\ UNCHANGED <<row, status, entry, dirty, flights, loading, candidate, history>>

JudgePass(f) ==
  LET equity == pass.balance + f
      u      == Raised(pass, equity)
      judged == Higher(high, u.peak)
      breach == active /\ Breached(equity, EffectiveFloor(pass, equity))
  IN /\ pass \in Row
     /\ active' = (active /\ ~breach)
     /\ failedAt' = IF breach THEN row.balance + f ELSE failedAt
     /\ entry' = IF breach THEN Null ELSE entry
     /\ pass' = IF u = Clean THEN Null ELSE u
     /\ high' = judged
     /\ locked' = Reached(judged)
     /\ UNCHANGED <<row, lockAt, dirty, flights, loading, candidate>>

FinishPass ==
  /\ pass \in Raise
  /\ row' = Greatest(row, pass)
  /\ pass' = Null
  /\ UNCHANGED <<status, entry, dirty, flights, loading, candidate, history>>

(* The pass's raises are dropped: the next pass is to judge them again. *)
FailPass ==
  /\ "failPass" \in Steps /\ pass \in Raise
  /\ pass' = Null
  /\ UNCHANGED <<row, status, entry, dirty, flights, loading, candidate, locked>>
  /\ Owe(high)
-----------------------------------------------------------------------------
(* Account.adjustBalance and resetToStarting: the balance and the anchors    *)
(* move in one transaction; the engine's index and queue are told nothing.   *)

AtLeastZero(n) == IF n < 0 THEN 0 ELSE n

MoveCapital(d) ==
  /\ "move" \in Steps
  /\ row.balance + d \in Balances
  /\ row' = [row EXCEPT !.balance = @ + d, !.peak = AtLeastZero(@ + d)]
  /\ UNCHANGED <<status, engine, locked>>
  /\ Owe(AtLeastZero(high + d))

(* restore_with_reset: an evaluation account that is not active. *)
Reset ==
  /\ "reset" \in Steps /\ ~active /\ lockAt = Null
  /\ row' = [balance |-> Starting, peak |-> Starting, floor |-> Null]
  /\ active' = TRUE /\ failedAt' = Null
  /\ high' = Starting
  /\ UNCHANGED <<lockAt, engine, locked>>
-----------------------------------------------------------------------------
(* An administrator locks the account, which the index is not told, or the   *)
(* engine fails it by another rule and takes it out of the index;            *)
(* restore_active takes a failed or locked account back as it was.           *)

Suspend ==
  /\ "suspend" \in Steps /\ active
  /\ active' = FALSE
  /\ entry' \in {entry, Null}
  /\ UNCHANGED <<row, lockAt, failedAt, dirty, flights, loading, candidate, pass, history>>

Restore ==
  /\ "suspend" \in Steps /\ ~active
  /\ active' = TRUE /\ failedAt' = Null
  /\ UNCHANGED <<row, lockAt, engine, history>>
-----------------------------------------------------------------------------
Init ==
  /\ row = [balance |-> Starting, peak |-> Starting, floor |-> Null]
  /\ active = TRUE /\ failedAt = Null
  /\ lockAt \in LockAts
  /\ entry = Null /\ dirty = Clean /\ flights = {}
  /\ loading = Null /\ candidate = Null /\ pass = Null
  /\ high = Starting
  /\ locked = (lockAt # Null /\ Starting >= lockAt)

Judging == \E f \in Pnls : Tick(f) \/ Confirm(f) \/ JudgePass(f)
Writing == \/ StartFlush \/ \E u \in flights : FlushDone(u) \/ FlushFails(u)
           \/ FinishPass \/ FailPass
Reading == StartReconcile \/ Reconcile \/ StartPass
Capital == Reset \/ \E d \in Movements : MoveCapital(d)
Standing == Suspend \/ Restore

Next == Judging \/ Writing \/ Reading \/ Restart \/ Capital \/ Standing

Spec == Init /\ [][Next]_vars

(* The flush timer fires every second and a statement that was sent ends;    *)
(* the database does not refuse it for ever.                                 *)
Fairness ==
  /\ WF_vars(FinishPass)
  /\ WF_vars(StartFlush)
  /\ WF_vars(\E u \in flights : FlushDone(u) \/ FlushFails(u))
  /\ <>[][\A u \in flights : ~FlushFails(u)]_vars

FairSpec == Spec /\ Fairness
-----------------------------------------------------------------------------
(* Properties. *)

TypeOK ==
  /\ row \in Row /\ entry \in Row \cup {Null} /\ loading \in Row \cup {Null, NoRow}
  /\ dirty \in Raise /\ flights \subseteq Raise
  /\ candidate \in Amount /\ pass \in Row \cup Raise \cup {Null}
  /\ active \in BOOLEAN /\ lockAt \in LockAts /\ failedAt \in Amount
  /\ high \in Int /\ locked \in BOOLEAN

(* The floor the account's own history gives it. *)
FairFloor == IF locked THEN Higher(TrailingFloor(high), LockedFloor)
                       ELSE TrailingFloor(high)

(* services/drawdownService.ts:202: whatever flushes, passes, retries,       *)
(* reconciliations and restarts race, no trading step walks an anchor of the *)
(* database backwards; only a capital movement or a reset lowers it.         *)
AnchorsRise == [][Capital \/ /\ row'.peak >= row.peak
                             /\ Higher(row.floor, row'.floor) = row'.floor]_vars

(* tradeEngine.ts:1963: nothing stale in the engine fails an account: when   *)
(* it is failed, its equity is at or under the floor of its own highs.       *)
NoFalseBreach ==
  [][failedAt' \notin {failedAt, Null} => failedAt' * 100 <= FairFloor']_vars

(* tradeEngine.ts:2299: a raise the engine has judged by is in the database  *)
(* or still on its way there, failed flushes merged with newer raises        *)
(* included, until a restart, a failed pass, a tick on an entry reloaded     *)
(* behind the queue or a capital movement takes it away.                     *)
PeakKept == \E v \in Held : v >= high

(* Every high the engine judged by, and did not lose so, reaches the         *)
(* database in the end.                                                      *)
PeakPersisted == \A v \in {Starting + f : f \in {g \in Pnls : g > 0}} :
                   high >= v ~> row.peak >= v \/ high < v

(* tradeEngine.ts:2299: no raise is lost while the engine runs. *)
NoRaiseLost == [][Capital \/ high' >= high]_vars

(* services/drawdownService.ts:45: a funded floor that has locked is never   *)
(* dropped again: it is stored, on its way there, or follows from the peak.  *)
LockKept == locked /\ active =>
  \/ row.floor # Null \/ \E v \in Held : v >= lockAt
  \/ dirty.floor # Null \/ \E u \in flights : u.floor # Null
  \/ entry # Null /\ entry.floor # Null
=============================================================================
