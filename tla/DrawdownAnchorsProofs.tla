----------------------- MODULE DrawdownAnchorsProofs -----------------------
(***************************************************************************)
(* For every price, amount and limit: the anchors stay typed, no trading   *)
(* step lowers them in the database, and none of the raises the engine     *)
(* judged by is lost except by the steps that drop raises: a restart, a    *)
(* failed pass, a tick on an entry reloaded behind the queue, a payout.    *)
(***************************************************************************)
EXTENDS DrawdownAnchors, TLAPS

(* The row a pass has read and the raise it sends are told apart by their   *)
(* fields (checkFloatingDrawdown's accountMeta and pendingAnchorUpdates).   *)
LEMMA RowIsNoRaise == Row \cap Raise = {}
<1> SUFFICES ASSUME NEW r \in Row, r \in Raise PROVE FALSE
  OBVIOUS
<1>1. DOMAIN r = {"balance", "peak", "floor"}
  BY DEF Row
<1>2. DOMAIN r = {"peak", "floor"}
  BY DEF Raise
<1> QED BY <1>1, <1>2

(* A higher peak has a higher trailing floor (computeTrailingFloor). *)
LEMMA FloorRises ==
  ASSUME NEW a \in Int, NEW b \in Int, a <= b
  PROVE  /\ TrailingFloor(a) \in Int
         /\ TrailingFloor(a) <= TrailingFloor(b)
<1>1. MaxDrawdownPct \in 1..99
  BY AnchorsAssumption
<1>2. \A c \in Nat : a * c <= b * c
  OBVIOUS
<1> QED BY <1>1, <1>2 DEF TrailingFloor

(* higherPeakValue returns one of its arguments, and is at least each. *)
LEMMA HigherOf ==
  ASSUME NEW a \in Amount, NEW b \in Amount
  PROVE  /\ Higher(a, b) \in {a, b}
         /\ a # Null => Higher(a, b) # Null /\ Higher(a, b) >= a
         /\ b # Null => Higher(a, b) # Null /\ Higher(a, b) >= b
BY AnchorsAssumption DEF Higher, Amount

(* resolveEffectiveFloor works on any row and equity, and its raises are     *)
(* raises.                                                                   *)
LEMMA Resolved ==
  ASSUME NEW r \in Row, NEW equity \in Int, lockAt \in Amount
  PROVE  /\ NextPeak(r, equity) \in Int
         /\ NextPeak(r, equity) >= r.peak /\ NextPeak(r, equity) >= equity
         /\ NextFloor(r, equity) \in Amount
         /\ EffectiveFloor(r, equity) \in Int
         /\ Raised(r, equity) \in Raise
<1> DEFINE p == NextPeak(r, equity)
           g == NextFloor(r, equity)
<1>1. r.peak \in Int /\ r.floor \in Amount
  BY DEF Row
<1>2. p \in Int /\ p >= r.peak /\ p >= equity
  BY <1>1, AnchorsAssumption DEF NextPeak, Higher
<1>3. lockAt # Null => LockedFloor \in Int
  BY FloorRises DEF LockedFloor, Amount
<1>4. g \in Amount
  BY <1>1, <1>3, HigherOf DEF NextFloor, Locks, Amount
<1>5. TrailingFloor(p) \in Int
  BY <1>2, FloorRises
<1>6. EffectiveFloor(r, equity) \in Int
  BY <1>4, <1>5, AnchorsAssumption DEF EffectiveFloor, Amount, Higher
<1>7. Raised(r, equity) \in Raise
  BY <1>2, <1>4 DEF Raised, Raise, Amount
<1> QED BY <1>2, <1>4, <1>6, <1>7

(* A flush leaves a row with its balance, and raises its anchors or keeps them. *)
LEMMA Flushed ==
  ASSUME NEW r \in Row, NEW u \in Raise
  PROVE  /\ Greatest(r, u) \in Row
         /\ Greatest(r, u).balance = r.balance
         /\ Greatest(r, u).peak \in {r.peak, u.peak} \ {Null}
         /\ Greatest(r, u).floor \in {r.floor, u.floor}
         /\ Greatest(r, u).peak >= r.peak
         /\ Higher(r.floor, Greatest(r, u).floor) = Greatest(r, u).floor
<1> DEFINE p == Higher(r.peak, u.peak)
           g == Higher(r.floor, u.floor)
<1>1. /\ r.peak \in Int /\ r.floor \in Amount
      /\ u.peak \in Amount /\ u.floor \in Amount
  BY DEF Row, Raise
<1>2. p \in {r.peak, u.peak} \ {Null} /\ p \in Int /\ p >= r.peak
  BY <1>1, AnchorsAssumption DEF Higher, Amount
<1>3. g \in {r.floor, u.floor} /\ g \in Amount /\ Higher(r.floor, g) = g
  BY <1>1, AnchorsAssumption DEF Higher, Amount
<1> HIDE DEF p, g
<1>4. Greatest(r, u) = [r EXCEPT !.peak = p, !.floor = g]
  BY DEF Greatest, p, g
<1>5. /\ Greatest(r, u) \in Row
      /\ Greatest(r, u).balance = r.balance
      /\ Greatest(r, u).peak = p /\ Greatest(r, u).floor = g
  BY <1>2, <1>3, <1>4 DEF Row
<1> QED BY <1>2, <1>3, <1>5

(* An account's model locks its floor at one of LockAts, if at all. *)
LEMMA LockTyped == TypeOK => lockAt \in Amount
BY AnchorsAssumption DEF TypeOK, Amount

(* What a step leaves owed is a number, and is held. *)
LEMMA Owed ==
  ASSUME row' \in Row, dirty' \in Raise, flights' \subseteq Raise,
         NEW n \in Int, Owe(n)
  PROVE  high' \in Int /\ PeakKept'
<1>1. Held' \subseteq Int
  BY AnchorsAssumption DEF Held, Row, Raise, Amount
<1>2. CASE high' = n /\ \E v \in Held' : v >= n
  BY <1>2 DEF PeakKept
<1>3. CASE high' \in Held' /\ \A v \in Held' : v < n /\ v <= high'
  BY <1>1, <1>3 DEF PeakKept
<1> QED BY <1>2, <1>3 DEF Owe
-----------------------------------------------------------------------------
(* Type correctness. *)

(* The row starts from its starting balance, with nothing queued or loaded.  *)
LEMMA TypeInit == Init => TypeOK
BY AnchorsAssumption DEF Init, TypeOK, Row, Raise, Amount, Clean

(* Every step of the engine and the admin keeps every variable typed. *)
LEMMA TypeStep == TypeOK /\ [Next]_vars => TypeOK'
<1> SUFFICES ASSUME TypeOK, [Next]_vars PROVE TypeOK'
  OBVIOUS
<1> USE DEF TypeOK, engine, status, history
<1>1. row.balance \in Int /\ row.peak \in Int
  BY DEF Row
<1> lockAt \in Amount
  BY LockTyped
<1>2. ASSUME NEW f \in Pnls, Tick(f) PROVE TypeOK'
  <2> DEFINE equity == entry.balance + f
             u == Raised(entry, equity)
             judged == Higher(high, u.peak)
  <2>1. entry \in Row /\ equity \in Int
    BY <1>2, AnchorsAssumption DEF Tick, Row
  <2>2. u \in Raise /\ EffectiveFloor(entry, equity) \in Int
    BY <2>1, Resolved
  <2>3. judged \in Int
    BY <2>2, AnchorsAssumption DEF Higher, Raise, Amount
  <2>4. entry' \in Row /\ dirty' \in Raise /\ candidate' \in Amount
    BY <1>2, <2>1, <2>2, Flushed DEF Tick, Amount
  <2>5. locked' \in BOOLEAN /\ UNCHANGED <<row, flights, loading, pass, status>>
        /\ (high' = judged \/ Owe(judged))
    BY <1>2 DEF Tick, Reached
  <2> HIDE DEF judged
  <2>6. high' \in Int
    BY <2>3, <2>4, <2>5, Owed
  <2> QED BY <2>4, <2>5, <2>6
<1>3. ASSUME NEW f \in Pnls, Confirm(f) PROVE TypeOK'
  BY <1>1, <1>3, AnchorsAssumption DEF Confirm, Amount
<1>4. ASSUME NEW f \in Pnls, JudgePass(f) PROVE TypeOK'
  <2> DEFINE equity == pass.balance + f
             u == Raised(pass, equity)
             judged == Higher(high, u.peak)
  <2>1. pass \in Row /\ equity \in Int /\ row.balance + f \in Int
    BY <1>1, <1>4, AnchorsAssumption DEF JudgePass, Row
  <2>2. u \in Raise
    BY <2>1, Resolved
  <2>3. judged \in Int
    BY <2>2, AnchorsAssumption DEF Higher, Raise, Amount
  <2>4. high' \in Int /\ locked' \in BOOLEAN
    BY <1>4, <2>3 DEF JudgePass, Reached
  <2>5. pass' \in Row \cup Raise \cup {Null} /\ failedAt' \in Amount
        /\ active' \in BOOLEAN /\ entry' \in Row \cup {Null}
    BY <1>4, <2>1, <2>2 DEF JudgePass, Amount
  <2> QED BY <1>4, <2>4, <2>5 DEF JudgePass
<1>5. CASE StartFlush
  BY <1>5 DEF StartFlush, Clean, Raise, Amount
<1>6. ASSUME NEW u \in flights, FlushDone(u) PROVE TypeOK'
  <2>1. u \in Raise /\ Greatest(row, u) \in Row
    BY Flushed
  <2> QED BY <1>6, <2>1 DEF FlushDone
<1>7. ASSUME NEW u \in flights, FlushFails(u) PROVE TypeOK'
  <2>1. dirty.peak \in Amount /\ dirty.floor \in Amount
        /\ u.peak \in Amount /\ u.floor \in Amount
    BY DEF Raise
  <2>2. dirty' \in Raise
    BY <1>7, <2>1, HigherOf DEF FlushFails, Raise
  <2> QED BY <1>7, <2>2 DEF FlushFails
<1>8. CASE FinishPass
  BY <1>8, Flushed DEF FinishPass
<1>9. CASE StartPass \/ StartReconcile \/ Reconcile
  BY <1>9 DEF StartPass, StartReconcile, Reconcile
<1>10. CASE FailPass \/ Restart
  <2>1. /\ entry' \in Row \cup {Null} /\ loading' \in Row \cup {Null, NoRow}
        /\ row' \in Row /\ dirty' \in Raise /\ flights' \subseteq Raise
        /\ candidate' \in Amount /\ pass' = Null
        /\ UNCHANGED <<status, locked>> /\ Owe(high)
    BY <1>10 DEF FailPass, Restart, Clean, Raise, Amount
  <2> QED BY <2>1, Owed
<1>11. CASE Reset
  BY <1>11, AnchorsAssumption DEF Reset, Row, Amount
<1>12. ASSUME NEW d \in Movements, MoveCapital(d) PROVE TypeOK'
  <2>1. AtLeastZero(row.peak + d) \in Int /\ AtLeastZero(high + d) \in Int
    BY <1>1, AnchorsAssumption DEF AtLeastZero
  <2>2. row' \in Row
    BY <1>1, <1>12, <2>1, AnchorsAssumption DEF MoveCapital, Row
  <2>3. high' \in Int
    BY <1>12, <2>1, <2>2, Owed DEF MoveCapital
  <2> QED BY <1>12, <2>2, <2>3 DEF MoveCapital
<1>13. CASE Suspend \/ Restore
  BY <1>13 DEF Suspend, Restore, Amount
<1>14. CASE UNCHANGED vars
  BY <1>14 DEF vars
<1> QED
  BY <1>2, <1>3, <1>4, <1>5, <1>6, <1>7, <1>8, <1>9, <1>10, <1>11, <1>12, <1>13, <1>14
  DEF Next, Judging, Writing, Reading, Capital, Standing

(* Every variable keeps its shape, whatever the amounts and prices are. *)
THEOREM TypeCorrect == Spec => []TypeOK
BY TypeInit, TypeStep, PTL DEF Spec
-----------------------------------------------------------------------------
(* The anchors of the database. *)

(* Only a capital movement or a reset can lower an anchor of the row.        *)
LEMMA RiseStep ==
  TypeOK /\ [Next]_vars =>
    [Capital \/ /\ row'.peak >= row.peak
                /\ Higher(row.floor, row'.floor) = row'.floor]_vars
<1> SUFFICES ASSUME TypeOK, Next, ~Capital
             PROVE  /\ row'.peak >= row.peak
                    /\ Higher(row.floor, row'.floor) = row'.floor
  OBVIOUS
<1>1. /\ row \in Row /\ row.peak \in Int
      /\ Higher(row.floor, row.floor) = row.floor
  BY DEF TypeOK, Row, Higher
<1>2. ASSUME NEW u \in flights, FlushDone(u)
      PROVE  row'.peak >= row.peak /\ Higher(row.floor, row'.floor) = row'.floor
  <2>1. u \in Raise
    BY DEF TypeOK
  <2> QED BY <1>1, <1>2, <2>1, Flushed DEF FlushDone
<1>3. ASSUME FinishPass
      PROVE  row'.peak >= row.peak /\ Higher(row.floor, row'.floor) = row'.floor
  BY <1>1, <1>3, Flushed DEF FinishPass
<1>4. ASSUME UNCHANGED row
      PROVE  row'.peak >= row.peak /\ Higher(row.floor, row'.floor) = row'.floor
  BY <1>1, <1>4
<1>5. (\E u \in flights : FlushDone(u)) \/ FinishPass \/ UNCHANGED row
  BY DEF Next, Judging, Writing, Reading, Standing, Tick, Confirm, JudgePass,
         StartFlush, FlushFails, FailPass, StartReconcile, Reconcile, StartPass,
         Restart, Suspend, Restore
<1> QED BY <1>2, <1>3, <1>4, <1>5

(* Whatever flushes, retries, passes, reconciliations and restarts race, no  *)
(* trading step walks an anchor of the database backwards.                   *)
THEOREM AnchorsRiseHolds == Spec => AnchorsRise
BY TypeInit, TypeStep, RiseStep, PTL DEF Spec, AnchorsRise
-----------------------------------------------------------------------------
(* The raises of the engine. *)

(* At the start the row's peak is the account's own high. *)
LEMMA KeptInit == Init => PeakKept
BY AnchorsAssumption DEF Init, PeakKept, Held

(* A step after which something as high as the best raise is held, and no    *)
(* more is owed, keeps the raises.                                           *)
LEMMA StillHeld ==
  ASSUME TypeOK, TypeOK', NEW v \in Held, v >= high, high' = high,
         NEW x \in Held', x >= v
  PROVE  PeakKept'
<1>1. Held \subseteq Int /\ Held' \subseteq Int /\ high \in Int
  BY AnchorsAssumption DEF Held, TypeOK, Row, Raise, Amount
<1> QED BY <1>1 DEF PeakKept

(* Only the steps that say so take the last copy of a high away. *)
LEMMA KeptStep == TypeOK /\ PeakKept /\ [Next]_vars => PeakKept'
<1> SUFFICES ASSUME TypeOK, PeakKept, [Next]_vars PROVE PeakKept'
  OBVIOUS
<1> USE DEF engine, status, history
<1>1. TypeOK'
  BY TypeStep
<1>2. /\ row \in Row /\ row.peak \in Int /\ dirty \in Raise /\ flights \subseteq Raise
      /\ high \in Int /\ lockAt \in Amount
      /\ row' \in Row /\ dirty' \in Raise /\ flights' \subseteq Raise
  BY <1>1, LockTyped DEF TypeOK, Row
<1>3. Held \subseteq Int /\ Held' \subseteq Int
  BY <1>1, AnchorsAssumption DEF Held, TypeOK, Row, Raise, Amount
<1>4. PICK v \in Held : v >= high
  BY DEF PeakKept
<1>5. ASSUME high' = high, v \in Held' PROVE PeakKept'
  BY <1>1, <1>3, <1>4, <1>5, StillHeld
<1>6. ASSUME NEW f \in Pnls, Tick(f) PROVE PeakKept'
  <2>1. PICK u : u = Raised(entry, entry.balance + f)
    OBVIOUS
  <2>2. u \in Raise
    <3>1. entry \in Row /\ entry.balance + f \in Int
      BY <1>6, AnchorsAssumption DEF Tick, TypeOK, Row
    <3> QED BY <1>2, <2>1, <3>1, Resolved
  <2>3. PICK judged : judged = Higher(high, u.peak)
    OBVIOUS
  <2>4. /\ dirty' = (IF u = Clean THEN dirty ELSE u)
        /\ UNCHANGED <<row, flights, pass>>
        /\ IF Drops(u) THEN Owe(judged) ELSE high' = judged
    BY <1>6, <2>1, <2>3 DEF Tick
  <2>5. judged \in {high, u.peak} /\ judged \in Int /\ judged >= high
    BY <1>2, <2>2, <2>3, AnchorsAssumption DEF Higher, Raise, Amount
  <2>6. CASE Drops(u)
    BY <1>2, <2>4, <2>5, <2>6, Owed
  <2>7. CASE ~Drops(u) /\ u = Clean
    <3>1. high' = high /\ v \in Held'
      BY <1>2, <1>4, <2>3, <2>4, <2>7, AnchorsAssumption DEF Held, Clean, Higher
    <3> QED BY <1>5, <3>1
  <2>8. CASE ~Drops(u) /\ u # Clean
    <3>1. dirty' = u /\ high' = judged
      BY <2>4, <2>8
    <3>2. dirty.peak = Null \/ (u.peak # Null /\ ~(u.peak < dirty.peak))
      BY <2>8 DEF Drops
    <3>3. CASE judged = u.peak /\ u.peak # Null
      <4>1. u.peak \in Held' /\ u.peak >= high'
        BY <2>5, <3>1, <3>3 DEF Held
      <4> QED BY <4>1 DEF PeakKept
    <3>4. CASE judged = high /\ v # dirty.peak
      <4>1. v \in Held'
        BY <1>4, <2>4, <3>4 DEF Held
      <4> QED BY <1>5, <3>1, <3>4, <4>1
    <3>5. CASE judged = high /\ v = dirty.peak
      <4>1. v # Null /\ u.peak # Null /\ ~(u.peak < v)
        BY <1>4, <3>2, <3>5 DEF Held
      <4>2. u.peak \in Held' /\ u.peak >= v
        BY <1>3, <1>4, <2>2, <3>1, <4>1 DEF Held, Raise, Amount
      <4> QED BY <1>1, <1>4, <3>1, <3>5, <4>2, StillHeld
    <3> QED BY <2>5, <3>3, <3>4, <3>5, AnchorsAssumption
  <2> QED BY <2>6, <2>7, <2>8
<1>7. ASSUME NEW f \in Pnls, Confirm(f) PROVE PeakKept'
  BY <1>4, <1>5, <1>7 DEF Confirm, Held
<1>8. ASSUME NEW f \in Pnls, JudgePass(f) PROVE PeakKept'
  <2>1. PICK u : u = Raised(pass, pass.balance + f)
    OBVIOUS
  <2>2. pass \in Row /\ u \in Raise
    <3>1. pass \in Row /\ pass.balance + f \in Int
      BY <1>8, AnchorsAssumption DEF JudgePass, Row
    <3> QED BY <1>2, <2>1, <3>1, Resolved
  <2>3. /\ UNCHANGED <<row, dirty, flights>>
        /\ pass' = (IF u = Clean THEN Null ELSE u)
        /\ high' = Higher(high, u.peak)
    BY <1>8, <2>1 DEF JudgePass
  <2>4. v \in Held'
    BY <1>4, <2>2, <2>3, RowIsNoRaise DEF Held
  <2>5. CASE high' = high
    BY <1>5, <2>4, <2>5
  <2>6. CASE high' # high
    <3>1. u.peak # Null /\ high' = u.peak /\ u.peak \in Int
      BY <1>2, <2>2, <2>3, <2>6, AnchorsAssumption DEF Higher, Raise, Amount
    <3>2. pass' = u /\ u.peak \in Held'
      BY <2>2, <2>3, <3>1 DEF Held, Clean
    <3> QED BY <3>1, <3>2 DEF PeakKept
  <2> QED BY <2>5, <2>6
<1>9. CASE StartFlush
  BY <1>4, <1>5, <1>9 DEF StartFlush, Held
<1>10. ASSUME NEW u \in Raise, row' = Greatest(row, u), high' = high, dirty' = dirty,
              \/ flights' = flights \ {u} /\ UNCHANGED pass
              \/ UNCHANGED flights /\ pass = u
       PROVE  PeakKept'
  <2>1. row'.peak \in Held' /\ row'.peak >= row.peak
        /\ (u.peak # Null => row'.peak >= u.peak)
    <3>1. row'.peak = Higher(row.peak, u.peak)
      BY <1>2, <1>10 DEF Greatest, Row
    <3>2. row.peak \in Amount /\ u.peak \in Amount /\ row.peak # Null
      BY <1>2, <1>10, AnchorsAssumption DEF Raise, Amount
    <3>3. row'.peak # Null /\ row'.peak >= row.peak
          /\ (u.peak # Null => row'.peak >= u.peak)
      BY <3>1, <3>2, HigherOf
    <3> QED BY <3>3 DEF Held
  <2>2. CASE v = row.peak \/ v = u.peak
    <3>1. row'.peak >= v
      BY <1>4, <2>1, <2>2 DEF Held
    <3> QED BY <1>1, <1>4, <1>10, <2>1, <3>1, StillHeld
  <2>3. CASE v # row.peak /\ v # u.peak
    <3>1. v \in Held'
      BY <1>4, <1>10, <2>3 DEF Held
    <3> QED BY <1>5, <1>10, <3>1
  <2> QED BY <2>2, <2>3
<1>11. ASSUME NEW u \in flights, FlushDone(u) PROVE PeakKept'
  BY <1>2, <1>10, <1>11 DEF FlushDone
<1>12. ASSUME NEW u \in flights, FlushFails(u) PROVE PeakKept'
  <2>1. /\ UNCHANGED <<row, pass, high>> /\ flights' = flights \ {u}
        /\ dirty'.peak = Higher(dirty.peak, u.peak)
    BY <1>12 DEF FlushFails
  <2>2. dirty.peak \in Amount /\ u.peak \in Amount
    BY <1>2 DEF Raise
  <2>3. \A x \in {dirty.peak, u.peak} : x # Null => dirty'.peak # Null /\ dirty'.peak >= x
    BY <2>1, <2>2, HigherOf
  <2>4. CASE v \in {dirty.peak, u.peak}
    <3>1. dirty'.peak \in Held' /\ dirty'.peak >= v
      BY <1>4, <2>3, <2>4 DEF Held
    <3> QED BY <1>1, <1>4, <2>1, <3>1, StillHeld
  <2>5. CASE v \notin {dirty.peak, u.peak}
    <3>1. v \in Held'
      BY <1>4, <2>1, <2>5 DEF Held
    <3> QED BY <1>5, <2>1, <3>1
  <2> QED BY <2>4, <2>5
<1>13. CASE FinishPass
  BY <1>10, <1>13 DEF FinishPass
<1>14. CASE FailPass \/ Restart
  BY <1>2, <1>14, Owed DEF FailPass, Restart
<1>15. CASE StartReconcile \/ Reconcile \/ Suspend \/ Restore \/ UNCHANGED vars
  BY <1>4, <1>5, <1>15
  DEF StartReconcile, Reconcile, Suspend, Restore, vars, Held
<1>16. CASE StartPass
  <2>1. UNCHANGED <<row, dirty, flights, high>> /\ pass = Null
    BY <1>16 DEF StartPass
  <2>2. v \in Held'
    BY <1>4, <2>1, NullAssumption DEF Held
  <2> QED BY <1>5, <2>1, <2>2
<1>17. CASE Reset
  BY <1>17, AnchorsAssumption DEF Reset, Held, PeakKept
<1>18. ASSUME NEW d \in Movements, MoveCapital(d) PROVE PeakKept'
  <2>1. AtLeastZero(high + d) \in Int
    BY <1>2, AnchorsAssumption DEF AtLeastZero
  <2> QED BY <1>2, <1>18, <2>1, Owed DEF MoveCapital
<1> QED
  BY <1>6, <1>7, <1>8, <1>9, <1>11, <1>12, <1>13, <1>14, <1>15, <1>16, <1>17, <1>18
  DEF Next, Judging, Writing, Reading, Capital, Standing

(* flushDirtyPeaks empties its queue before the statement ends, and a batch  *)
(* that failed is merged with what ticks queued meanwhile: every high the    *)
(* engine judged by is stored or on its way, however many flushes fail, and  *)
(* whatever passes, reconciliations, restarts and payouts run beside them.   *)
THEOREM PeakKeptHolds == Spec => []PeakKept
BY TypeInit, TypeStep, KeptInit, KeptStep, PTL DEF Spec
=============================================================================
