-------------------------- MODULE SessionCloseProofs --------------------------
(***************************************************************************)
(* Theorems about SessionClose: a position is booked once, two runs of a   *)
(* job never work side by side, and no order that filled is cancelled.     *)
(***************************************************************************)
EXTENDS SessionClose, TLAPS

\* A run under way has a job, and a row in hand exactly in a transaction,
\* which has that row locked.
RunInv == \A s \in Sessions :
  /\ run[s].pc # "idle" => run[s].job \in Jobs
  /\ run[s].pc = "locked" => run[s].at \in Trades /\ rowlock[run[s].at] = s
  /\ run[s].pc # "locked" => run[s].at = Null

\* A row is locked only while it is open, and a request's row is not there yet.
RowsInv ==
  /\ \A t \in Trades : rowlock[t] # Null => row[t] = "open"
  /\ \A t \in admitted : row[t] = "none"

\* A run whose connection lives has the advisory lock of its job.
LockInv == \A s \in Sessions :
  run[s].pc # "idle" /\ ~run[s].lost => holder[run[s].job] = s

Inv == TypeOK /\ RunInv /\ RowsInv /\ LockInv /\ BookedOnce

\* Abbreviations of the specification that every proof looks through.
USE SessionCloseAssumption
    DEF At, Become, Goto, Does, Lock, SetRow, Book, Fault, rows, locks

-----------------------------------------------------------------------------
LEMMA RunTyped ==
  ASSUME NEW s \in Sessions, NEW r \in RunRecord, TypeOK, Become(s, r)
  PROVE  run' \in [Sessions -> RunRecord]
BY DEF TypeOK

(* What the steps make of a run's record. *)

LEMMA EndsTyped ==
  ASSUME NEW r \in RunRecord
  PROVE  [r EXCEPT !.pc = "unlock"] \in RunRecord
BY DEF RunRecord, Working

LEMMA LosesTyped ==
  ASSUME NEW r \in RunRecord
  PROVE  [r EXCEPT !.lost = TRUE] \in RunRecord
BY DEF RunRecord, Working

LEMMA LateTyped ==
  ASSUME NEW r \in RunRecord, NEW b \in BOOLEAN
  PROVE  [r EXCEPT !.late = @ \/ b] \in RunRecord
BY DEF RunRecord

LEMMA ReadTyped ==
  ASSUME NEW r \in RunRecord, NEW found \in SUBSET Trades,
         NEW next \in {"close", "unlock", "readOrders"}
  PROVE  [r EXCEPT !.pc = next, !.todo = found, !.owed = found] \in RunRecord
BY DEF RunRecord, Working

LEMMA OrdersTyped ==
  ASSUME NEW r \in RunRecord, NEW found \in SUBSET Trades,
         NEW next \in {"close", "unlock"}
  PROVE  [r EXCEPT !.orders = found, !.pc = next] \in RunRecord
BY DEF RunRecord, Working

LEMMA LeftTyped ==
  ASSUME NEW r \in RunRecord, NEW t, NEW counted \in BOOLEAN
  PROVE  [r EXCEPT !.pc = "close", !.at = Null, !.todo = @ \ {t},
                   !.errors = @ \/ counted] \in RunRecord
BY DEF RunRecord, Working

LEMMA TakenTyped ==
  ASSUME NEW r \in RunRecord, NEW t \in Trades
  PROVE  /\ [r EXCEPT !.pc = "locked", !.at = t] \in RunRecord
         /\ [r EXCEPT !.todo = @ \ {t}, !.owed = @ \ {t}] \in RunRecord
BY DEF RunRecord, Working

LEMMA OrderDoneTyped ==
  ASSUME NEW r \in RunRecord, NEW t
  PROVE  /\ [r EXCEPT !.orders = @ \ {t}] \in RunRecord
         /\ [r EXCEPT !.orders = @ \ {t}, !.errors = TRUE] \in RunRecord
BY DEF RunRecord, Working

(* A step of a run that takes and gives back no lock. *)
Hands == \A t \in Trades, s \in Sessions : rowlock[t] = s => run[s].at = t

LEMMA SameHands ==
  ASSUME Inv, NEW s \in Sessions, NEW r \in RunRecord, Become(s, r),
         UNCHANGED <<rowlock, holder>>,
         run[s].pc # "idle", r.pc # "idle", run[s].pc # "locked", r.pc # "locked",
         r.at = Null, r.job = run[s].job, r.lost = run[s].lost
  PROVE  /\ run' \in [Sessions -> RunRecord]
         /\ Hands'
         /\ RunInv'
         /\ LockInv'
BY DEF Inv, TypeOK, RunInv, LockInv, Hands

LEMMA BeginStep ==
  ASSUME Inv, NEW s \in Sessions, NEW j \in Jobs, Begin(s, j)
  PROVE  Inv'
<1>1. run' \in [Sessions -> RunRecord]
  <2>1. [Idle EXCEPT !.pc = "read", !.job = j] \in RunRecord
    BY DEF Inv, TypeOK, RunRecord, Working, Idle
  <2> QED BY <2>1, RunTyped DEF Inv, Begin
<1>2. TypeOK'
  BY <1>1 DEF Inv, TypeOK, RunInv, RunRecord, Idle, Begin
<1>3. RunInv'
  BY DEF Inv, TypeOK, RunInv, RowsInv, Idle, Begin
<1>4. RowsInv'
  BY DEF Inv, TypeOK, RowsInv, RunInv, Idle, Begin
<1>5. LockInv'
  BY DEF Inv, TypeOK, LockInv, RunInv, Idle, Begin
<1>6. BookedOnce'
  BY DEF Inv, TypeOK, BookedOnce, RowsInv, RunInv, Idle, Begin
<1> QED BY <1>2, <1>3, <1>4, <1>5, <1>6 DEF Inv

LEMMA UnlockStep ==
  ASSUME Inv, NEW s \in Sessions, Unlock(s)
  PROVE  Inv'
<1>1. run' \in [Sessions -> RunRecord]
  <2>1. Idle \in RunRecord
    BY DEF Inv, TypeOK, RunRecord, Working, Idle
  <2> QED BY <2>1, RunTyped DEF Inv, Unlock
<1>2. TypeOK'
  BY <1>1 DEF Inv, TypeOK, RunInv, RunRecord, Idle, Unlock
<1>3. RunInv'
  BY DEF Inv, TypeOK, RunInv, RowsInv, Idle, Unlock
<1>4. RowsInv'
  BY DEF Inv, TypeOK, RowsInv, RunInv, Idle, Unlock
<1>5. LockInv'
  BY DEF Inv, TypeOK, LockInv, RunInv, Idle, Unlock
<1>6. BookedOnce'
  BY DEF Inv, TypeOK, BookedOnce, RowsInv, RunInv, Idle, Unlock
<1> QED BY <1>2, <1>3, <1>4, <1>5, <1>6 DEF Inv

LEMMA UnlockFailsStep ==
  ASSUME Inv, NEW s \in Sessions, UnlockFails(s)
  PROVE  Inv'
<1>1. run' \in [Sessions -> RunRecord]
  <2>1. Idle \in RunRecord
    BY DEF Inv, TypeOK, RunRecord, Working, Idle
  <2> QED BY <2>1, RunTyped DEF Inv, UnlockFails
<1>2. TypeOK'
  BY <1>1 DEF Inv, TypeOK, RunInv, RunRecord, Idle, UnlockFails
<1>3. RunInv'
  BY DEF Inv, TypeOK, RunInv, RowsInv, Idle, UnlockFails
<1>4. RowsInv'
  BY DEF Inv, TypeOK, RowsInv, RunInv, Idle, UnlockFails
<1>5. LockInv'
  BY DEF Inv, TypeOK, LockInv, RunInv, Idle, UnlockFails
<1>6. BookedOnce'
  BY DEF Inv, TypeOK, BookedOnce, RowsInv, RunInv, Idle, UnlockFails
<1> QED BY <1>2, <1>3, <1>4, <1>5, <1>6 DEF Inv

LEMMA LoseConnectionStep ==
  ASSUME Inv, NEW s \in Sessions, LoseConnection(s)
  PROVE  Inv'
<1>1. run' \in [Sessions -> RunRecord]
  <2>1. [run[s] EXCEPT !.lost = TRUE] \in RunRecord
    BY LosesTyped DEF Inv, TypeOK
  <2> QED BY <2>1, RunTyped DEF Inv, LoseConnection
<1>2. TypeOK'
  BY <1>1 DEF Inv, TypeOK, RunInv, RunRecord, Idle, LoseConnection, Freed
<1>3. RunInv'
  BY DEF Inv, TypeOK, RunInv, RowsInv, Idle, LoseConnection, Freed
<1>4. RowsInv'
  BY DEF Inv, TypeOK, RowsInv, RunInv, Idle, LoseConnection, Freed
<1>5. LockInv'
  BY DEF Inv, TypeOK, LockInv, RunInv, Idle, LoseConnection, Freed
<1>6. BookedOnce'
  BY DEF Inv, TypeOK, BookedOnce, RowsInv, RunInv, Idle, LoseConnection, Freed
<1> QED BY <1>2, <1>3, <1>4, <1>5, <1>6 DEF Inv

LEMMA ReadOpenStep ==
  ASSUME Inv, NEW s \in Sessions, ReadOpen(s)
  PROVE  Inv'
<1> DEFINE found == {t \in Scope[run[s].job] : row[t] = "open"}
           next == CASE run[s].job = "weekend" -> "readOrders"
                     [] found = {}             -> "unlock"
                     [] OTHER                  -> "close"
           r == [run[s] EXCEPT !.pc = next, !.todo = found, !.owed = found]
<1>1. run[s] \in RunRecord
  BY DEF Inv, TypeOK
<1>2. found \in SUBSET Trades /\ next \in {"close", "unlock", "readOrders"}
  BY DEF Inv, TypeOK, RunInv, ReadOpen
<1>3. Become(s, r)
  BY DEF ReadOpen
<1>4. r \in RunRecord
  BY <1>1, <1>2, ReadTyped
<1>5. /\ run[s].pc \notin {"idle", "locked"} /\ r.pc \notin {"idle", "locked"}
      /\ r.at = Null /\ r.job = run[s].job /\ r.lost = run[s].lost
  BY <1>1, <1>2 DEF Inv, RunInv, RunRecord, ReadOpen
<1> HIDE DEF r
<1>6. /\ run' \in [Sessions -> RunRecord]
      /\ Hands'
      /\ RunInv'
      /\ LockInv'
  BY <1>3, <1>4, <1>5, SameHands DEF ReadOpen
<1>7. mark' \in [Processes -> SUBSET Jobs]
  BY DEF Inv, TypeOK, RunInv, ReadOpen, Marked
<1>8. TypeOK'
  BY <1>6, <1>7 DEF Inv, TypeOK, Hands, ReadOpen
<1>9. RowsInv' /\ BookedOnce'
  BY DEF Inv, TypeOK, RowsInv, BookedOnce, ReadOpen
<1> QED BY <1>6, <1>8, <1>9 DEF Inv

LEMMA ReadOrdersStep ==
  ASSUME Inv, NEW s \in Sessions, ReadOrders(s)
  PROVE  Inv'
<1> DEFINE found == {t \in Trades : row[t] = "pending"}
           next == IF run[s].todo \cup found = {} THEN "unlock" ELSE "close"
           r == [run[s] EXCEPT !.orders = found, !.pc = next]
<1>1. run[s] \in RunRecord
  BY DEF Inv, TypeOK
<1>2. found \in SUBSET Trades /\ next \in {"close", "unlock"}
  BY DEF Inv, TypeOK, RunInv, ReadOrders
<1>3. Become(s, r)
  BY DEF ReadOrders
<1>4. r \in RunRecord
  BY <1>1, <1>2, OrdersTyped
<1>5. /\ run[s].pc \notin {"idle", "locked"} /\ r.pc \notin {"idle", "locked"}
      /\ r.at = Null /\ r.job = run[s].job /\ r.lost = run[s].lost
  BY <1>1, <1>2 DEF Inv, RunInv, RunRecord, ReadOrders
<1> HIDE DEF r
<1>6. /\ run' \in [Sessions -> RunRecord]
      /\ Hands'
      /\ RunInv'
      /\ LockInv'
  BY <1>3, <1>4, <1>5, SameHands DEF ReadOrders
<1>8. TypeOK'
  BY <1>6 DEF Inv, TypeOK, Hands, ReadOrders
<1>9. RowsInv' /\ BookedOnce'
  BY DEF Inv, TypeOK, RowsInv, BookedOnce, ReadOrders
<1> QED BY <1>6, <1>8, <1>9 DEF Inv

LEMMA ReadFailsStep ==
  ASSUME Inv, NEW s \in Sessions, ReadFails(s)
  PROVE  Inv'
<1> DEFINE r == [run[s] EXCEPT !.pc = "unlock"]
<1>1. run[s] \in RunRecord
  BY DEF Inv, TypeOK
<1>3. Become(s, r)
  BY DEF ReadFails
<1>4. r \in RunRecord
  BY <1>1, EndsTyped
<1>5. /\ run[s].pc \notin {"idle", "locked"} /\ r.pc \notin {"idle", "locked"}
      /\ r.at = Null /\ r.job = run[s].job /\ r.lost = run[s].lost
  BY <1>1 DEF Inv, RunInv, RunRecord, ReadFails
<1> HIDE DEF r
<1>6. /\ run' \in [Sessions -> RunRecord]
      /\ Hands'
      /\ RunInv'
      /\ LockInv'
  BY <1>3, <1>4, <1>5, SameHands DEF ReadFails
<1>7. mark' \in [Processes -> SUBSET Jobs]
  BY DEF Inv, TypeOK, RunInv, ReadFails, Marked
<1>8. TypeOK'
  BY <1>6, <1>7 DEF Inv, TypeOK, Hands, ReadFails
<1>9. RowsInv' /\ BookedOnce'
  BY DEF Inv, TypeOK, RowsInv, BookedOnce, ReadFails
<1> QED BY <1>6, <1>8, <1>9 DEF Inv

LEMMA NoPriceStep ==
  ASSUME Inv, NEW s \in Sessions, NEW t \in Trades, NoPrice(s, t)
  PROVE  Inv'
<1> DEFINE counted == Does(s, {"news"})
           r == [run[s] EXCEPT !.pc = "close", !.at = Null, !.todo = @ \ {t},
                               !.errors = @ \/ counted]
<1>1. run[s] \in RunRecord
  BY DEF Inv, TypeOK
<1>2. counted \in BOOLEAN
  BY DEF Inv, TypeOK, RunInv, NoPrice
<1>3. Become(s, r)
  BY DEF NoPrice, Left
<1>4. r \in RunRecord
  BY <1>1, <1>2, LeftTyped
<1>5. /\ run[s].pc \notin {"idle", "locked"} /\ r.pc \notin {"idle", "locked"}
      /\ r.at = Null /\ r.job = run[s].job /\ r.lost = run[s].lost
  BY <1>1, <1>2 DEF Inv, RunInv, RunRecord, NoPrice
<1> HIDE DEF r
<1>6. /\ run' \in [Sessions -> RunRecord]
      /\ Hands'
      /\ RunInv'
      /\ LockInv'
  BY <1>3, <1>4, <1>5, SameHands DEF NoPrice
<1>8. TypeOK'
  BY <1>6 DEF Inv, TypeOK, Hands, NoPrice
<1>9. RowsInv' /\ BookedOnce'
  BY DEF Inv, TypeOK, RowsInv, BookedOnce, NoPrice
<1> QED BY <1>6, <1>8, <1>9 DEF Inv

LEMMA TradeFailsStep ==
  ASSUME Inv, NEW s \in Sessions, NEW t \in Trades, TradeFails(s, t)
  PROVE  Inv'
<1> DEFINE r == [run[s] EXCEPT !.pc = "close", !.at = Null, !.todo = @ \ {t},
                               !.errors = @ \/ TRUE]
<1>1. run[s] \in RunRecord
  BY DEF Inv, TypeOK
<1>3. Become(s, r)
  BY DEF TradeFails, Left
<1>4. r \in RunRecord
  BY <1>1, LeftTyped
<1>5. /\ run[s].pc \notin {"idle", "locked"} /\ r.pc \notin {"idle", "locked"}
      /\ r.at = Null /\ r.job = run[s].job /\ r.lost = run[s].lost
  BY <1>1 DEF Inv, RunInv, RunRecord, TradeFails
<1> HIDE DEF r
<1>6. /\ run' \in [Sessions -> RunRecord]
      /\ Hands'
      /\ RunInv'
      /\ LockInv'
  BY <1>3, <1>4, <1>5, SameHands DEF TradeFails
<1>8. TypeOK'
  BY <1>6 DEF Inv, TypeOK, Hands, TradeFails
<1>9. RowsInv' /\ BookedOnce'
  BY DEF Inv, TypeOK, RowsInv, BookedOnce, TradeFails
<1> QED BY <1>6, <1>8, <1>9 DEF Inv

LEMMA LockRowStep ==
  ASSUME Inv, NEW s \in Sessions, NEW t \in Trades, LockRow(s, t)
  PROVE  Inv'
<1> DEFINE taken == [run[s] EXCEPT !.pc = "locked", !.at = t]
           left  == [run[s] EXCEPT !.todo = @ \ {t}, !.owed = @ \ {t}]
<1>1. run[s] \in RunRecord /\ run[s].pc = "close" /\ run[s].at = Null
  BY DEF Inv, TypeOK, RunInv, LockRow
<1>2. taken \in RunRecord /\ left \in RunRecord
  BY <1>1, TakenTyped
<1>3. /\ left.pc = "close" /\ left.at = Null
      /\ left.job = run[s].job /\ left.lost = run[s].lost
  BY <1>1 DEF RunRecord
<1>4. /\ taken.pc = "locked" /\ taken.at = t
      /\ taken.job = run[s].job /\ taken.lost = run[s].lost
  BY <1>1 DEF RunRecord
<1>5. CASE row[t] = "open" /\ rowlock[t] = Null
  <2>1. Become(s, taken) /\ Lock(t, s)
    BY <1>5 DEF LockRow, Take
  <2> HIDE DEF taken
  <2>2. /\ run' \in [Sessions -> RunRecord]
        /\ Hands'
        /\ RunInv'
        /\ LockInv'
    BY <1>1, <1>2, <1>4, <1>5, <2>1 DEF Inv, TypeOK, RunInv, LockInv, Hands, LockRow
  <2>3. TypeOK'
    BY <2>1, <2>2 DEF Inv, TypeOK, Hands, LockRow
  <2>4. RowsInv' /\ BookedOnce'
    BY <1>5, <2>1 DEF Inv, TypeOK, RowsInv, BookedOnce, LockRow
  <2> QED BY <2>2, <2>3, <2>4 DEF Inv
<1>6. CASE ~(row[t] = "open" /\ rowlock[t] = Null)
  <2>1. Become(s, left) /\ UNCHANGED rowlock
    BY <1>6 DEF LockRow
  <2> HIDE DEF left
  <2>2. /\ run' \in [Sessions -> RunRecord]
        /\ Hands'
        /\ RunInv'
        /\ LockInv'
    BY <1>1, <1>2, <1>3, <2>1, SameHands DEF LockRow
  <2>3. TypeOK'
    BY <2>1, <2>2 DEF Inv, TypeOK, Hands, LockRow
  <2>4. RowsInv' /\ BookedOnce'
    BY <2>1 DEF Inv, TypeOK, RowsInv, BookedOnce, LockRow
  <2> QED BY <2>2, <2>3, <2>4 DEF Inv
<1> QED BY <1>5, <1>6

LEMMA CommitCloseStep ==
  ASSUME Inv, NEW s \in Sessions, CommitClose(s)
  PROVE  Inv'
<1>1. run' \in [Sessions -> RunRecord]
  <2>1. PICK c \in BOOLEAN : Become(s, [run[s] EXCEPT !.pc = "close", !.at = Null,
                     !.todo = @ \ {run[s].at}, !.errors = @ \/ c])
    BY DEF CommitClose, Left
  <2>2. [run[s] EXCEPT !.pc = "close", !.at = Null, !.todo = @ \ {run[s].at},
                       !.errors = @ \/ c] \in RunRecord
    BY LeftTyped DEF Inv, TypeOK
  <2> QED BY <2>1, <2>2, RunTyped DEF Inv
<1>2. TypeOK'
  BY <1>1 DEF Inv, TypeOK, RunInv, RunRecord, CommitClose, Left
<1>3. RunInv'
  BY DEF Inv, TypeOK, RunInv, RowsInv, RunRecord, CommitClose, Left
<1>4. RowsInv'
  BY DEF Inv, TypeOK, RowsInv, RunInv, RunRecord, CommitClose, Left
<1>5. LockInv'
  BY DEF Inv, TypeOK, LockInv, RunInv, RunRecord, CommitClose, Left
<1>6. BookedOnce'
  BY DEF Inv, TypeOK, BookedOnce, RowsInv, RunInv, RunRecord, CommitClose, Left
<1> QED BY <1>2, <1>3, <1>4, <1>5, <1>6 DEF Inv

LEMMA CloseFailsStep ==
  ASSUME Inv, NEW s \in Sessions, CloseFails(s)
  PROVE  Inv'
<1>1. run' \in [Sessions -> RunRecord]
  <2>1. PICK c \in BOOLEAN : Become(s, [run[s] EXCEPT !.pc = "close", !.at = Null,
                     !.todo = @ \ {run[s].at}, !.errors = @ \/ c])
    BY DEF CloseFails, Left
  <2>2. [run[s] EXCEPT !.pc = "close", !.at = Null, !.todo = @ \ {run[s].at},
                       !.errors = @ \/ c] \in RunRecord
    BY LeftTyped DEF Inv, TypeOK
  <2> QED BY <2>1, <2>2, RunTyped DEF Inv
<1>2. TypeOK'
  BY <1>1 DEF Inv, TypeOK, RunInv, RunRecord, CloseFails, Left
<1>3. RunInv'
  BY DEF Inv, TypeOK, RunInv, RowsInv, RunRecord, CloseFails, Left
<1>4. RowsInv'
  BY DEF Inv, TypeOK, RowsInv, RunInv, RunRecord, CloseFails, Left
<1>5. LockInv'
  BY DEF Inv, TypeOK, LockInv, RunInv, RunRecord, CloseFails, Left
<1>6. BookedOnce'
  BY DEF Inv, TypeOK, BookedOnce, RowsInv, RunInv, RunRecord, CloseFails, Left
<1> QED BY <1>2, <1>3, <1>4, <1>5, <1>6 DEF Inv

LEMMA CancelOrderStep ==
  ASSUME Inv, NEW s \in Sessions, NEW t \in Trades, CancelOrder(s, t)
  PROVE  Inv'
<1> DEFINE r == [run[s] EXCEPT !.orders = @ \ {t}]
<1>1. run[s] \in RunRecord
  BY DEF Inv, TypeOK
<1>3. Become(s, r)
  BY DEF CancelOrder
<1>4. r \in RunRecord
  BY <1>1, OrderDoneTyped
<1>5. /\ run[s].pc \notin {"idle", "locked"} /\ r.pc \notin {"idle", "locked"}
      /\ r.at = Null /\ r.job = run[s].job /\ r.lost = run[s].lost
  BY <1>1 DEF Inv, RunInv, RunRecord, CancelOrder
<1> HIDE DEF r
<1>6. /\ run' \in [Sessions -> RunRecord]
      /\ Hands'
      /\ RunInv'
      /\ LockInv'
  BY <1>3, <1>4, <1>5, SameHands DEF CancelOrder
<1>8. TypeOK'
  BY <1>6 DEF Inv, TypeOK, Hands, CancelOrder
<1>9. RowsInv' /\ BookedOnce'
  BY DEF Inv, TypeOK, RowsInv, BookedOnce, CancelOrder
<1> QED BY <1>6, <1>8, <1>9 DEF Inv

LEMMA CancelFailsStep ==
  ASSUME Inv, NEW s \in Sessions, NEW t \in Trades, CancelFails(s, t)
  PROVE  Inv'
<1> DEFINE r == [run[s] EXCEPT !.orders = @ \ {t}, !.errors = TRUE]
<1>1. run[s] \in RunRecord
  BY DEF Inv, TypeOK
<1>3. Become(s, r)
  BY DEF CancelFails
<1>4. r \in RunRecord
  BY <1>1, OrderDoneTyped
<1>5. /\ run[s].pc \notin {"idle", "locked"} /\ r.pc \notin {"idle", "locked"}
      /\ r.at = Null /\ r.job = run[s].job /\ r.lost = run[s].lost
  BY <1>1 DEF Inv, RunInv, RunRecord, CancelFails
<1> HIDE DEF r
<1>6. /\ run' \in [Sessions -> RunRecord]
      /\ Hands'
      /\ RunInv'
      /\ LockInv'
  BY <1>3, <1>4, <1>5, SameHands DEF CancelFails
<1>8. TypeOK'
  BY <1>6 DEF Inv, TypeOK, Hands, CancelFails
<1>9. RowsInv' /\ BookedOnce'
  BY DEF Inv, TypeOK, RowsInv, BookedOnce, CancelFails
<1> QED BY <1>6, <1>8, <1>9 DEF Inv

LEMMA FinishStep ==
  ASSUME Inv, NEW s \in Sessions, Finish(s)
  PROVE  Inv'
<1> DEFINE r == [run[s] EXCEPT !.pc = "unlock"]
<1>1. run[s] \in RunRecord
  BY DEF Inv, TypeOK
<1>3. Become(s, r)
  BY DEF Finish
<1>4. r \in RunRecord
  BY <1>1, EndsTyped
<1>5. /\ run[s].pc \notin {"idle", "locked"} /\ r.pc \notin {"idle", "locked"}
      /\ r.at = Null /\ r.job = run[s].job /\ r.lost = run[s].lost
  BY <1>1 DEF Inv, RunInv, RunRecord, Finish
<1> HIDE DEF r
<1>6. /\ run' \in [Sessions -> RunRecord]
      /\ Hands'
      /\ RunInv'
      /\ LockInv'
  BY <1>3, <1>4, <1>5, SameHands DEF Finish
<1>7. mark' \in [Processes -> SUBSET Jobs]
  BY DEF Inv, TypeOK, RunInv, Finish, Marked
<1>8. TypeOK'
  BY <1>6, <1>7 DEF Inv, TypeOK, Hands, Finish
<1>9. RowsInv' /\ BookedOnce'
  BY DEF Inv, TypeOK, RowsInv, BookedOnce, Finish
<1> QED BY <1>6, <1>8, <1>9 DEF Inv

LEMMA CloseIdleStep ==
  ASSUME Inv, NEW s \in Sessions, CloseIdle(s)
  PROVE  Inv'
<1>1. TypeOK'
  BY DEF Inv, TypeOK, CloseIdle, Freed
<1>3. RunInv'
  BY DEF Inv, TypeOK, RunInv, RowsInv, CloseIdle, Freed
<1>4. RowsInv'
  BY DEF Inv, TypeOK, RowsInv, RunInv, CloseIdle, Freed
<1>5. LockInv'
  BY DEF Inv, TypeOK, LockInv, RunInv, CloseIdle, Freed
<1>6. BookedOnce'
  BY DEF Inv, TypeOK, BookedOnce, RowsInv, RunInv, CloseIdle, Freed
<1> QED BY <1>1, <1>3, <1>4, <1>5, <1>6 DEF Inv

LEMMA CrashStep ==
  ASSUME Inv, NEW p \in Processes, Crash(p)
  PROVE  Inv'
<1>1. run' \in [Sessions -> RunRecord]
  <2>1. Idle \in RunRecord
    BY DEF Idle, RunRecord, Working
  <2> QED BY <2>1 DEF Inv, TypeOK, Crash
<1>2. TypeOK'
  BY <1>1 DEF Inv, TypeOK, RunInv, RunRecord, Idle, Crash, Freed
<1>3. RunInv'
  BY DEF Inv, TypeOK, RunInv, RowsInv, Idle, Crash, Freed
<1>4. RowsInv'
  BY DEF Inv, TypeOK, RowsInv, RunInv, Idle, Crash, Freed
<1>5. LockInv'
  BY DEF Inv, TypeOK, LockInv, RunInv, Idle, Crash, Freed
<1>6. BookedOnce'
  BY DEF Inv, TypeOK, BookedOnce, RowsInv, RunInv, Idle, Crash, Freed
<1> QED BY <1>2, <1>3, <1>4, <1>5, <1>6 DEF Inv

LEMMA WindowOpensStep ==
  ASSUME Inv, NEW j \in Jobs, WindowOpens(j)
  PROVE  Inv'
<1>1. ASSUME NEW s \in Sessions
      PROVE  /\ run'[s] \in RunRecord
             /\ run'[s].pc = run[s].pc /\ run'[s].at = run[s].at
             /\ run'[s].job = run[s].job /\ run'[s].lost = run[s].lost
  <2> DEFINE r == run[s]
             b == run[s].job = j
  <2>1. r \in RunRecord /\ b \in BOOLEAN
    BY DEF Inv, TypeOK
  <2>2. run'[s] = [r EXCEPT !.late = @ \/ b]
    BY DEF WindowOpens
  <2> HIDE DEF r, b
  <2>3. [r EXCEPT !.late = @ \/ b] \in RunRecord
    BY <2>1, LateTyped
  <2>4. LET x == [r EXCEPT !.late = @ \/ b]
        IN x.pc = r.pc /\ x.at = r.at /\ x.job = r.job /\ x.lost = r.lost
    BY <2>1 DEF RunRecord
  <2> QED BY <2>2, <2>3, <2>4 DEF r
<1>2. run' \in [Sessions -> RunRecord]
  BY <1>1 DEF WindowOpens
<1>3. TypeOK'
  BY <1>1, <1>2 DEF Inv, TypeOK, WindowOpens
<1>4. RunInv' /\ LockInv'
  BY <1>1 DEF Inv, RunInv, LockInv, WindowOpens
<1>5. RowsInv' /\ BookedOnce'
  BY DEF Inv, RowsInv, BookedOnce, WindowOpens
<1> QED BY <1>3, <1>4, <1>5 DEF Inv

LEMMA WindowShutsStep ==
  ASSUME Inv, NEW j \in Jobs, WindowShuts(j)
  PROVE  Inv'
<1>1. TypeOK'
  BY DEF Inv, TypeOK, WindowShuts
<1>3. RunInv'
  BY DEF Inv, TypeOK, RunInv, RowsInv, WindowShuts
<1>4. RowsInv'
  BY DEF Inv, TypeOK, RowsInv, RunInv, WindowShuts
<1>5. LockInv'
  BY DEF Inv, TypeOK, LockInv, RunInv, WindowShuts
<1>6. BookedOnce'
  BY DEF Inv, TypeOK, BookedOnce, RowsInv, RunInv, WindowShuts
<1> QED BY <1>1, <1>3, <1>4, <1>5, <1>6 DEF Inv

LEMMA RequestStep ==
  ASSUME Inv, NEW t \in Trades, Request(t)
  PROVE  Inv'
<1>1. TypeOK'
  BY DEF Inv, TypeOK, Request, Outside
<1>3. RunInv'
  BY DEF Inv, TypeOK, RunInv, RowsInv, Request, Outside
<1>4. RowsInv'
  BY DEF Inv, TypeOK, RowsInv, RunInv, Request, Outside
<1>5. LockInv'
  BY DEF Inv, TypeOK, LockInv, RunInv, Request, Outside
<1>6. BookedOnce'
  BY DEF Inv, TypeOK, BookedOnce, RowsInv, RunInv, Request, Outside
<1> QED BY <1>1, <1>3, <1>4, <1>5, <1>6 DEF Inv

LEMMA FillStep ==
  ASSUME Inv, NEW t \in Trades, Fill(t)
  PROVE  Inv'
<1>1. TypeOK'
  BY DEF Inv, TypeOK, Fill, Outside
<1>3. RunInv'
  BY DEF Inv, TypeOK, RunInv, RowsInv, Fill, Outside
<1>4. RowsInv'
  BY DEF Inv, TypeOK, RowsInv, RunInv, Fill, Outside
<1>5. LockInv'
  BY DEF Inv, TypeOK, LockInv, RunInv, Fill, Outside
<1>6. BookedOnce'
  BY DEF Inv, TypeOK, BookedOnce, RowsInv, RunInv, Fill, Outside
<1> QED BY <1>1, <1>3, <1>4, <1>5, <1>6 DEF Inv

LEMMA RouteTakeStep ==
  ASSUME Inv, NEW t \in Trades, RouteTake(t)
  PROVE  Inv'
<1>1. TypeOK'
  BY DEF Inv, TypeOK, RouteTake, Outside
<1>3. RunInv'
  BY DEF Inv, TypeOK, RunInv, RowsInv, RouteTake, Outside
<1>4. RowsInv'
  BY DEF Inv, TypeOK, RowsInv, RunInv, RouteTake, Outside
<1>5. LockInv'
  BY DEF Inv, TypeOK, LockInv, RunInv, RouteTake, Outside
<1>6. BookedOnce'
  BY DEF Inv, TypeOK, BookedOnce, RowsInv, RunInv, RouteTake, Outside
<1> QED BY <1>1, <1>3, <1>4, <1>5, <1>6 DEF Inv

LEMMA RouteCloseStep ==
  ASSUME Inv, NEW t \in Trades, RouteClose(t)
  PROVE  Inv'
<1>1. TypeOK'
  BY DEF Inv, TypeOK, RouteClose, Outside
<1>3. RunInv'
  BY DEF Inv, TypeOK, RunInv, RowsInv, RouteClose, Outside
<1>4. RowsInv'
  BY DEF Inv, TypeOK, RowsInv, RunInv, RouteClose, Outside
<1>5. LockInv'
  BY DEF Inv, TypeOK, LockInv, RunInv, RouteClose, Outside
<1>6. BookedOnce'
  BY DEF Inv, TypeOK, BookedOnce, RowsInv, RunInv, RouteClose, Outside
<1> QED BY <1>1, <1>3, <1>4, <1>5, <1>6 DEF Inv

LEMMA RouteRollbackStep ==
  ASSUME Inv, NEW t \in Trades, RouteRollback(t)
  PROVE  Inv'
<1>1. TypeOK'
  BY DEF Inv, TypeOK, RouteRollback, Outside
<1>3. RunInv'
  BY DEF Inv, TypeOK, RunInv, RowsInv, RouteRollback, Outside
<1>4. RowsInv'
  BY DEF Inv, TypeOK, RowsInv, RunInv, RouteRollback, Outside
<1>5. LockInv'
  BY DEF Inv, TypeOK, LockInv, RunInv, RouteRollback, Outside
<1>6. BookedOnce'
  BY DEF Inv, TypeOK, BookedOnce, RowsInv, RunInv, RouteRollback, Outside
<1> QED BY <1>1, <1>3, <1>4, <1>5, <1>6 DEF Inv

LEMMA InsertStep ==
  ASSUME Inv, NEW t \in Trades, NEW st \in {"open", "pending"}, Insert(t, st)
  PROVE  Inv'
<1>1. TypeOK'
  BY DEF Inv, TypeOK, Insert, Outside
<1>3. RunInv'
  BY DEF Inv, TypeOK, RunInv, RowsInv, Insert, Outside
<1>4. RowsInv'
  BY DEF Inv, TypeOK, RowsInv, RunInv, Insert, Outside
<1>5. LockInv'
  BY DEF Inv, TypeOK, LockInv, RunInv, Insert, Outside
<1>6. BookedOnce'
  BY DEF Inv, TypeOK, BookedOnce, RowsInv, RunInv, Insert, Outside
<1> QED BY <1>1, <1>3, <1>4, <1>5, <1>6 DEF Inv

-----------------------------------------------------------------------------
LEMMA Initially == Init => Inv
BY DEF Init, Inv, TypeOK, RunInv, RowsInv, LockInv, BookedOnce, Idle, RunRecord, Working

LEMMA Preserved ==
  ASSUME Inv, [Next]_vars
  PROVE  Inv'
<1>1. CASE Next
  <2>1. ASSUME NEW s \in Sessions, Work(s) \/ Breaks(s) \/ CloseIdle(s)
        PROVE  Inv'
    BY <2>1, ReadOpenStep, ReadOrdersStep, CommitCloseStep, FinishStep, UnlockStep,
       LockRowStep, CancelOrderStep, ReadFailsStep, CloseFailsStep, UnlockFailsStep,
       LoseConnectionStep, NoPriceStep, TradeFailsStep, CancelFailsStep, CloseIdleStep
       DEF Work, Breaks
  <2>2. ASSUME NEW t \in Trades, RouteStep(t)
        PROVE  Inv'
    BY <2>2, RequestStep, FillStep, RouteTakeStep, RouteCloseStep, RouteRollbackStep,
       InsertStep DEF RouteStep
  <2> QED BY <1>1, <2>1, <2>2, BeginStep, CrashStep, WindowOpensStep, WindowShutsStep
          DEF Next
<1>2. CASE UNCHANGED vars
  BY <1>2 DEF vars, Inv, TypeOK, RunInv, RowsInv, LockInv, BookedOnce
<1> QED BY <1>1, <1>2

(* The inductive invariant holds throughout: no row is locked but by the    *)
(* run that has it in hand, and no run without its advisory lock.           *)
THEOREM Invariance == Spec => []Inv
BY Initially, Preserved, PTL DEF Spec

(* Every variable keeps its type, and a row lock is its run's. *)
THEOREM TypeCorrect == Spec => []TypeOK
BY Invariance, PTL DEF Inv

(* Whatever closes a position, in whatever order, it is booked once. *)
THEOREM BookedOnceHolds == Spec => []BookedOnce
BY Invariance, PTL DEF Inv

(* The advisory lock admits one run of a job at a time, for any number of   *)
(* processes and connections, until a connection is lost.                   *)
THEOREM OneRunnerHolds == Spec => []OneRunner
<1>1. Inv => OneRunner
  BY DEF Inv, LockInv, OneRunner, Working
<1> QED BY <1>1, Invariance, PTL

\* A position that was closed stays so, an open one is at most closed.
LEMMA NeverCancelled ==
  ASSUME Inv, [Next]_vars, NEW t \in Trades, row[t] \in {"open", "closed"}
  PROVE  row'[t] \in {row[t], "closed"}
<1>1. ASSUME NEW s \in Sessions, Work(s) \/ Breaks(s) \/ CloseIdle(s)
      PROVE  row'[t] \in {row[t], "closed"}
  <2>1. CASE CommitClose(s)
    BY <2>1 DEF Inv, TypeOK, CommitClose
  <2>2. CASE \E u \in Trades : CancelOrder(s, u)
    BY <2>2 DEF Inv, TypeOK, CancelOrder
  <2>3. ASSUME ~CommitClose(s), \A u \in Trades : ~CancelOrder(s, u)
        PROVE  row' = row
    BY <1>1, <2>3 DEF Work, Breaks, CloseIdle, ReadOpen, ReadOrders, Finish, Unlock,
       LockRow, ReadFails, CloseFails, UnlockFails, LoseConnection, NoPrice,
       TradeFails, CancelFails
  <2> QED BY <2>1, <2>2, <2>3
<1>2. ASSUME NEW u \in Trades, RouteStep(u)
      PROVE  row'[t] \in {row[t], "closed"}
  BY <1>2 DEF Inv, TypeOK, RowsInv, RouteStep, Request, Fill, RouteTake,
     RouteClose, RouteRollback, Insert
<1>3. CASE UNCHANGED vars
  BY <1>3 DEF vars
<1> QED BY <1>1, <1>2, <1>3 DEF Next, Begin, Crash, WindowOpens, WindowShuts

(* An order that was filled, or a position that was closed, is not cancelled *)
(* by a run that read it as pending.                                         *)
THEOREM OpenNeverCancelledHolds == Spec => OpenNeverCancelled
<1>1. Inv /\ [Next]_vars =>
        [\A t \in Trades : row[t] \in {"open", "closed"} => row'[t] \in {row[t], "closed"}]_vars
  BY NeverCancelled
<1> QED BY <1>1, Invariance, PTL DEF Spec, OpenNeverCancelled

-----------------------------------------------------------------------------
(* The news job and its mark. *)

\* A row the news job has been through without an error is closed for good.
Cleared == {"readOrders", "close", "locked"}
Honest(r, rw) == r.job = "news" /\ r.pc \in Cleared /\ ~r.errors =>
                   \A t \in r.owed \ r.todo : rw[t] = "closed"
HonestInv == \A s \in Sessions : Honest(run[s], row)

LEMMA LeftHonest ==
  ASSUME NEW r \in RunRecord, NEW t, NEW counted \in BOOLEAN, NEW rw,
         Honest(r, rw), r.pc \in Cleared,
         r.job = "news" => counted \/ rw[t] = "closed"
  PROVE  Honest([r EXCEPT !.pc = "close", !.at = Null, !.todo = @ \ {t},
                          !.errors = @ \/ counted], rw)
BY DEF RunRecord, Honest

LEMMA OwnStepHonest ==
  ASSUME Inv, HonestInv, NEW s \in Sessions, Work(s) \/ Breaks(s)
  PROVE  Honest(run'[s], row')
<1> DEFINE r == run[s]
<1>1. r \in RunRecord /\ Honest(r, row)
  BY DEF Inv, TypeOK, HonestInv
<1>2. run \in [Sessions -> RunRecord] /\ DOMAIN row = Trades
  BY DEF Inv, TypeOK
<1>3. CASE ReadOpen(s)
  BY <1>1, <1>2, <1>3 DEF ReadOpen, Honest, RunRecord
<1>4. CASE ReadOrders(s)
  BY <1>1, <1>2, <1>4 DEF ReadOrders, Honest, RunRecord, Cleared
<1>5. CASE ReadFails(s) \/ Finish(s)
  <2>1. run'[s] = [r EXCEPT !.pc = "unlock"]
    BY <1>2, <1>5 DEF ReadFails, Finish
  <2> HIDE DEF r
  <2>2. run'[s].pc = "unlock"
    BY <1>1, <2>1 DEF RunRecord
  <2> QED BY <2>2 DEF Honest, Cleared
<1>6. CASE Unlock(s) \/ UnlockFails(s)
  BY <1>1, <1>2, <1>6 DEF Unlock, UnlockFails, Honest, Idle, Cleared
<1>7. CASE LoseConnection(s)
  BY <1>1, <1>2, <1>7 DEF LoseConnection, Honest, RunRecord
<1>8. ASSUME NEW t \in Trades, NoPrice(s, t)
      PROVE  Honest(run'[s], row')
  <2> DEFINE c == Does(s, {"news"})
             left == [r EXCEPT !.pc = "close", !.at = Null, !.todo = @ \ {t},
                               !.errors = @ \/ c]
  <2>1. c \in BOOLEAN /\ (r.job = "news" => c)
    OBVIOUS
  <2>2. /\ run'[s] = left
        /\ row' = row /\ r.pc \in Cleared
    BY <1>2, <1>8 DEF NoPrice, Left, Cleared
  <2> HIDE DEF r, c
  <2>3. Honest(left, row)
    BY <1>1, <2>1, <2>2, LeftHonest
  <2> QED BY <2>2, <2>3
<1>14. ASSUME NEW t \in Trades, TradeFails(s, t)
      PROVE  Honest(run'[s], row')
  <2> DEFINE c == TRUE
             left == [r EXCEPT !.pc = "close", !.at = Null, !.todo = @ \ {t},
                               !.errors = @ \/ c]
  <2>1. c \in BOOLEAN /\ (r.job = "news" => c)
    OBVIOUS
  <2>2. /\ run'[s] = left
        /\ row' = row /\ r.pc \in Cleared
    BY <1>2, <1>14 DEF TradeFails, Left, Cleared
  <2> HIDE DEF r, c
  <2>3. Honest(left, row)
    BY <1>1, <2>1, <2>2, LeftHonest
  <2> QED BY <2>2, <2>3
<1>9. CASE CloseFails(s)
  <2> DEFINE t == r.at
             left(c) == [r EXCEPT !.pc = "close", !.at = Null, !.todo = @ \ {t},
                                  !.errors = @ \/ c]
  <2>1. PICK c \in BOOLEAN : run'[s] = left(c) /\ (r.job = "news" => c)
    BY <1>1, <1>2, <1>9 DEF CloseFails, Left
  <2>2. row' = row /\ r.pc \in Cleared
    BY <1>9 DEF CloseFails, Cleared
  <2> HIDE DEF r, t
  <2>3. Honest(left(c), row)
    BY <1>1, <2>1, <2>2, LeftHonest
  <2> QED BY <2>1, <2>2, <2>3
<1>10. CASE CommitClose(s)
  <2> DEFINE t == r.at
             rw == [row EXCEPT ![t] = "closed"]
             c == FALSE
             left == [r EXCEPT !.pc = "close", !.at = Null, !.todo = @ \ {t},
                               !.errors = @ \/ c]
  <2>1. t \in Trades
    BY <1>10 DEF Inv, RunInv, CommitClose
  <2>2. /\ run'[s] = left
        /\ row' = rw /\ r.pc \in Cleared /\ c \in BOOLEAN
    BY <1>2, <1>10 DEF CommitClose, Left, Cleared
  <2>3. rw[t] = "closed" /\ Honest(r, rw)
    BY <1>1, <1>2, <2>1 DEF Honest, RunRecord
  <2> HIDE DEF r, t, rw, c
  <2>4. Honest(left, rw)
    BY <1>1, <2>1, <2>2, <2>3, LeftHonest
  <2> QED BY <2>2, <2>4
<1>11. ASSUME NEW t \in Trades, LockRow(s, t)
       PROVE  Honest(run'[s], row')
  <2> DEFINE taken == [r EXCEPT !.pc = "locked", !.at = t]
             left  == [r EXCEPT !.todo = @ \ {t}, !.owed = @ \ {t}]
  <2>1. run'[s] = taken \/ run'[s] = left
    BY <1>2, <1>11 DEF LockRow, Take
  <2>2. row' = row /\ r.pc \in Cleared
    BY <1>11 DEF LockRow, Cleared
  <2> HIDE DEF r
  <2>3. Honest(taken, row) /\ Honest(left, row)
    BY <1>1, <2>2 DEF Honest, RunRecord
  <2> QED BY <2>1, <2>2, <2>3
<1>12. ASSUME NEW t \in Trades, CancelOrder(s, t)
       PROVE  Honest(run'[s], row')
  BY <1>1, <1>2, <1>12 DEF CancelOrder, Honest, RunRecord
<1>13. ASSUME NEW t \in Trades, CancelFails(s, t)
       PROVE  Honest(run'[s], row')
  BY <1>1, <1>2, <1>13 DEF CancelFails, Honest, RunRecord
<1> QED BY <1>3, <1>4, <1>5, <1>6, <1>7, <1>8, <1>9, <1>10, <1>11, <1>12, <1>13, <1>14
        DEF Work, Breaks

LEMMA StaysHonest ==
  ASSUME Inv, [Next]_vars, NEW r \in RunRecord, Honest(r, row)
  PROVE  Honest(r, row')
<1>1. \A t \in Trades : row[t] = "closed" => row'[t] = "closed"
  BY NeverCancelled
<1>2. r.owed \subseteq Trades
  BY DEF RunRecord
<1> QED BY <1>1, <1>2 DEF Honest

LEMMA HonestPreserved ==
  ASSUME Inv, HonestInv, [Next]_vars, NEW s \in Sessions
  PROVE  Honest(run'[s], row')
<1>1. run \in [Sessions -> RunRecord]
  BY DEF Inv, TypeOK
<1>2. CASE run'[s] = run[s]
  BY <1>1, <1>2, StaysHonest DEF HonestInv
<1>3. ASSUME NEW x \in Sessions, Work(x) \/ Breaks(x)
      PROVE  Honest(run'[s], row')
  <2>1. CASE x = s
    BY <1>3, <2>1, OwnStepHonest
  <2>2. CASE x # s
    <3>1. \E r : Become(x, r)
      BY <1>3 DEF Work, Breaks, ReadOpen, ReadOrders, CommitClose, Finish, Unlock,
         LockRow, CancelOrder, ReadFails, CloseFails, UnlockFails, LoseConnection,
         NoPrice, TradeFails, CancelFails, Left, Take
    <3> QED BY <1>1, <1>2, <2>2, <3>1
  <2> QED BY <2>1, <2>2
<1>4. ASSUME NEW x \in Sessions, NEW j \in Jobs, Begin(x, j)
      PROVE  Honest(run'[s], row')
  BY <1>1, <1>2, <1>4 DEF Begin, Idle, Honest, Cleared
<1>5. ASSUME NEW p \in Processes, Crash(p)
      PROVE  Honest(run'[s], row')
  BY <1>1, <1>2, <1>5 DEF Crash, Idle, Honest, Cleared
<1>6. ASSUME NEW j \in Jobs, WindowOpens(j)
      PROVE  Honest(run'[s], row')
  <2> DEFINE r == run[s]
             b == run[s].job = j
  <2>1. r \in RunRecord /\ Honest(r, row)
    BY <1>1 DEF HonestInv
  <2>2. run'[s] = [r EXCEPT !.late = @ \/ b] /\ row' = row
    BY <1>6 DEF WindowOpens
  <2> HIDE DEF r, b
  <2>3. Honest([r EXCEPT !.late = @ \/ b], row)
    BY <2>1 DEF Honest, RunRecord
  <2> QED BY <2>2, <2>3
<1>7. ASSUME \/ \E x \in Sessions : CloseIdle(x)
             \/ \E j \in Jobs : WindowShuts(j)
             \/ \E t \in Trades : RouteStep(t)
             \/ UNCHANGED vars
      PROVE  Honest(run'[s], row')
  <2>1. run' = run
    BY <1>7 DEF CloseIdle, WindowShuts, RouteStep, Request, Fill, RouteTake, RouteClose,
       RouteRollback, Insert, Outside, vars
  <2> QED BY <1>2, <2>1
<1> QED BY <1>3, <1>4, <1>5, <1>6, <1>7 DEF Next

(* A step that marks the news event is the end of the run that does it. *)
LEMMA MarksAtTheEnd ==
  ASSUME Inv, [Next]_vars, NEW s \in Sessions, Marks(s, "news")
  PROVE  Finish(s) /\ run[s].todo = {} /\ run[s].pc = "close" /\ ~run[s].errors
<1>1. /\ "news" \in mark'[ProcessOf[s]] /\ "news" \notin mark[ProcessOf[s]]
      /\ run[s].job = "news" /\ run'[s] # run[s]
      /\ ProcessOf[s] \in Processes /\ mark \in [Processes -> SUBSET Jobs]
      /\ run \in [Sessions -> RunRecord]
  BY DEF Marks, Inv, TypeOK
<1>2. PICK x \in Sessions : Finish(x) \/ ReadOpen(x) \/ ReadFails(x)
  <2>1. ASSUME NEW x \in Sessions, Work(x) \/ Breaks(x) \/ CloseIdle(x),
               ~Finish(x), ~ReadOpen(x), ~ReadFails(x)
        PROVE  mark' = mark
    BY <2>1 DEF Work, Breaks, CloseIdle, ReadOrders, CommitClose, Unlock, LockRow,
       CancelOrder, CloseFails, UnlockFails, LoseConnection, NoPrice, TradeFails,
       CancelFails
  <2>2. ASSUME NEW t \in Trades, RouteStep(t)
        PROVE  mark' = mark
    BY <2>2 DEF RouteStep, Request, Fill, RouteTake, RouteClose, RouteRollback, Insert,
       Outside
  <2>3. ASSUME NEW p \in Processes, Crash(p)
        PROVE  mark'[ProcessOf[s]] \subseteq mark[ProcessOf[s]]
    BY <1>1, <2>3 DEF Crash
  <2>4. ASSUME NEW j \in Jobs, WindowOpens(j)
        PROVE  mark'[ProcessOf[s]] \subseteq mark[ProcessOf[s]]
    BY <1>1, <2>4 DEF WindowOpens
  <2>5. ASSUME NEW j \in Jobs, WindowShuts(j) \/ \E x \in Sessions : Begin(x, j)
        PROVE  mark' = mark
    BY <2>5 DEF WindowShuts, Begin
  <2>6. ~UNCHANGED vars
    BY <1>1 DEF vars
  <2> QED BY <1>1, <2>1, <2>2, <2>3, <2>4, <2>5, <2>6 DEF Next
<1>3. x = s
  <2>1. \E r : Become(x, r)
    BY <1>2 DEF Finish, ReadOpen, ReadFails
  <2> QED BY <1>1, <2>1
<1>4. Finish(s)
  BY <1>1, <1>2, <1>3 DEF ReadOpen, ReadFails, Marked
<1>5. ~run[s].errors
  BY <1>1, <1>4 DEF Finish, Marked
<1> QED BY <1>4, <1>5 DEF Finish

(* The news job never sets its mark over a position that it read, could     *)
(* have closed and left open: what it says is done is done, whatever fails. *)
THEOREM MarkHonestHolds == Spec => MarkHonest
<1>1. Init => HonestInv
  BY DEF Init, HonestInv, Honest, Idle, Cleared
<1>2. Inv /\ HonestInv /\ [Next]_vars => HonestInv'
  BY HonestPreserved DEF HonestInv
<1>3. ASSUME Inv, HonestInv, [Next]_vars, NEW s \in Sessions, Marks(s, "news"),
             NEW t \in run[s].owed
      PROVE  row[t] # "open"
  BY <1>3, MarksAtTheEnd DEF HonestInv, Honest, Cleared, Marks
<1>4. Inv /\ HonestInv /\ [Next]_vars =>
        [\A s \in Sessions : Marks(s, "news") => \A t \in run[s].owed : row[t] # "open"]_vars
  BY <1>3
<1> QED BY <1>1, <1>2, <1>4, Invariance, PTL DEF Spec, MarkHonest
=============================================================================
