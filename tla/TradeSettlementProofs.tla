----------------------- MODULE TradeSettlementProofs -----------------------
(***************************************************************************)
(* What TradeSettlement guarantees for any number of accounts, rows,       *)
(* sessions and prices: the tables keep their shape, no row is settled     *)
(* twice, current_balance is the sum of what the trades table booked, an   *)
(* account's outcome is final, one leg of an OCO pair is filled at most    *)
(* and no account is committed to more positions than its cap.             *)
(*                                                                         *)
(* The inductive invariant says what the row locks are for.  A session     *)
(* that is about to settle a row holds that row's lock, or holds the lock  *)
(* of its account, which every other session needs before it can settle a  *)
(* row of that account; so a row in a session's hands is never booked yet. *)
(***************************************************************************)
EXTENDS TradeSettlement, FiniteSetTheorems, TLAPS

(* Every row has been credited exactly what it booked. *)
LedgerExact == \A t \in Trades : credit[t] = IF Booked(t) THEN trade[t].pnl ELSE 0

(* Only a closed or cancelled row has a PnL; orders and positions have a     *)
(* size, and an order has no open price yet.                                 *)
Unsettled == \A t \in Trades :
  /\ trade[t].status \in {"none", "pending", "open"} => ~Booked(t)
  /\ trade[t].status = "pending" => trade[t].open = Null
  /\ trade[t].status \in {"pending", "open"} => trade[t].lots > 0

(* Row t is a position whose result is still to be written. *)
Unbooked(t) == ~Booked(t) /\ trade[t].open # Null

OfOutcome == AutoClosers \cup Realised

(* A closer owns its rows, and owns or waits for their accounts. *)
CloserInv(p) ==
  At(p, "balance") =>
    /\ Runs(p, Closers)
    /\ \A t \in session[p].rows :
         /\ lock[t] = p /\ trade[t].status = "open"
         /\ AccountOf[t] \in session[p].want \/ lock[AccountOf[t]] = p
         /\ session[p].op = "close" => session[p].seen[t] = trade[t].lots

(* Whoever ends an account holds its row, still active, until COMMIT. *)
Ending(p) == \/ session[p].pc \in {"selectOpen", "waitOpen", "count"}
             \/ At(p, "waitPending") /\ Runs(p, OfOutcome)
             \/ At(p, "commit") /\ Runs(p, {"pass"})

EndingInv(p) ==
  /\ Ending(p) =>
       /\ session[p].acct \in Accounts
       /\ lock[session[p].acct] = p
       /\ status[session[p].acct] = "active"
       /\ \A t \in session[p].rows :
            lock[t] = p /\ Unbooked(t) /\ AccountOf[t] = session[p].acct
  /\ At(p, "waitOpen") => \A t \in session[p].want :
       /\ t \in Trades /\ AccountOf[t] = session[p].acct
       /\ Runs(p, Realised) => Unbooked(t)

(* A fill owns the order it is about to open. *)
FillInv(p) ==
  Runs(p, {"fill"}) /\ session[p].pc \in {"validate", "waitPending"} =>
    \A t \in session[p].rows : lock[t] = p /\ trade[t].status = "pending"

(* A session owns every order it is about to cancel with its own result. *)
DropInv(p) == \A t \in session[p].drop : lock[t] = p /\ trade[t].status = "pending"

(* Which job can be at which statement, and what it carries. *)
JobInv(p) ==
  /\ session[p].pc \in {"selectOpen", "waitOpen"} => Runs(p, OfOutcome)
  /\ At(p, "validate") => Runs(p, {"fill"})
  /\ At(p, "count") => Runs(p, {"pass"})
  /\ session[p].pc \in {"waitAccount", "snapshot"} => Runs(p, {"market", "order", "oco"})
  /\ At(p, "lockAccount") => /\ Runs(p, DOMAIN Outcome)
                             /\ session[p].acct \in Accounts /\ session[p].rows = {}
  /\ At(p, "waitAccount") => session[p].acct \in Accounts
  /\ Runs(p, {"close", "fill", "market"}) => session[p].price \in Int

SessionInv(p) == CloserInv(p) /\ EndingInv(p) /\ FillInv(p) /\ DropInv(p) /\ JobInv(p)

Inv == TypeOK /\ LedgerExact /\ Unsettled /\ \A p \in Procs : SessionInv(p)
-----------------------------------------------------------------------------
(* A session whose own state and locks do not change keeps its invariant when  *)
(* the rows another session writes are free or that session's, and a row that  *)
(* session books belongs to an account it has locked, or was no position yet.  *)
LEMMA OthersKeepInv ==
  ASSUME Inv, NEW p \in Procs, NEW q \in Procs \ {p},
         session'[q] = session[q],
         \A r \in Row : lock[r] = q => lock'[r] = q,
         \A a \in Accounts : status'[a] = status[a] \/ lock[a] = p,
         \A t \in Trades : \/ trade'[t] = trade[t]
                           \/ trade[t] = Absent
                           \/ /\ lock[t] \in {p, Null}
                              /\ \/ /\ trade'[t].pnl = trade[t].pnl
                                    /\ trade'[t].open = trade[t].open
                                 \/ lock[AccountOf[t]] = p
                                 \/ trade[t].open = Null
  PROVE  SessionInv(q)'
<1>0. /\ p # q /\ q # Null /\ p # Null /\ session[q] \in Job /\ SessionInv(q)
      /\ session[q].rows \subseteq Trades /\ session[q].drop \subseteq Trades
  BY CoreAssumption DEF Inv, TypeOK, Job
<1>1. ASSUME NEW t \in Trades, lock[t] = q, trade[t].status # "none"
      PROVE  lock'[t] = q /\ trade'[t] = trade[t]
  BY <1>0, <1>1 DEF Row, Absent
<1>2. ASSUME NEW t \in Trades, lock[AccountOf[t]] = q
      PROVE  lock'[AccountOf[t]] = q
  BY <1>0, <1>2, CoreAssumption DEF Row
<1>3. CloserInv(q)'
  BY <1>0, <1>1, <1>2 DEF SessionInv, CloserInv, At, Runs
<1>4. EndingInv(q)'
  <2>1. ASSUME Ending(q), NEW t \in Trades, AccountOf[t] = session[q].acct, Unbooked(t)
        PROVE  Unbooked(t)'
    <3>1. lock[AccountOf[t]] # p /\ trade[t].open # Null /\ trade[t].pnl = Null
      BY <1>0, <2>1 DEF SessionInv, EndingInv, Unbooked, Booked
    <3> QED
      BY <3>1 DEF Unbooked, Booked, Absent
  <2>2. (Ending(q)' <=> Ending(q)) /\ (At(q, "waitOpen") => Ending(q))
    BY DEF Ending, At, Runs
  <2>3. Ending(q) => (session[q].acct \in Accounts /\ lock'[session[q].acct] = q
                       /\ status'[session[q].acct] = "active")
    BY <1>0 DEF SessionInv, EndingInv, Row
  <2>4. Ending(q) => \A t \in session[q].rows :
          lock'[t] = q /\ Unbooked(t)' /\ AccountOf[t] = session[q].acct
    BY <1>0, <2>1 DEF SessionInv, EndingInv, Row
  <2>5. At(q, "waitOpen") => \A t \in session[q].want :
          /\ t \in Trades /\ AccountOf[t] = session[q].acct
          /\ Runs(q, Realised) => Unbooked(t)'
    BY <1>0, <2>1, <2>2 DEF SessionInv, EndingInv
  <2> QED
    BY <2>2, <2>3, <2>4, <2>5 DEF EndingInv, At, Runs
<1>5. FillInv(q)'
  BY <1>0, <1>1 DEF SessionInv, FillInv, At, Runs
<1>6. DropInv(q)'
  BY <1>0, <1>1 DEF SessionInv, DropInv
<1>7. JobInv(q)'
  BY <1>0 DEF SessionInv, JobInv, At, Runs
<1> QED
  BY <1>3, <1>4, <1>5, <1>6, <1>7 DEF SessionInv

LEMMA IdleType == /\ Idle \in Job /\ Idle.op = "none" /\ Idle.pc = "idle"
                  /\ Idle.rows = {} /\ Idle.drop = {}
BY DEF Idle, Job, PCs

(* A session between two jobs has nothing to lose. *)
LEMMA IdleInv ==
  ASSUME NEW p \in Procs, session'[p] = Idle
  PROVE  SessionInv(p)'
BY IdleType
DEF SessionInv, CloserInv, EndingInv, Ending, FillInv, DropInv, JobInv, At, Runs

(* A session's step changes no other session. *)
LEMMA BecomeType ==
  ASSUME TypeOK, NEW p \in Procs, NEW job \in Job, Become(p, job)
  PROVE  /\ session' \in [Procs -> Job] /\ session'[p] = job
         /\ \A q \in Procs \ {p} : session'[q] = session[q]
BY DEF TypeOK, Become

(* Taking free locks takes them from nobody. *)
LEMMA TakingKeepsOthers ==
  ASSUME TypeOK, NEW p \in Procs, NEW R \in SUBSET Row, Taking(p, R),
         \A r \in R : IsFree(r)
  PROVE  /\ lock' \in [Row -> Procs \cup {Null}]
         /\ \A r \in Row : lock'[r] = IF r \in R THEN p ELSE lock[r]
         /\ \A q \in Procs \ {p} : \A r \in Row : lock[r] = q => lock'[r] = q
BY CoreAssumption DEF TypeOK, Taking, IsFree

(* COMMIT and ROLLBACK free only the session's own locks. *)
LEMMA EndTransactionKeepsOthers ==
  ASSUME TypeOK, NEW p \in Procs, EndTransaction(p)
  PROVE  /\ lock' \in [Row -> Procs \cup {Null}] /\ session' \in [Procs -> Job]
         /\ session'[p] = Idle
         /\ \A q \in Procs \ {p} : session'[q] = session[q]
         /\ \A q \in Procs \ {p} : \A r \in Row : lock[r] = q => lock'[r] = q
<1>1. Become(p, Idle)
  BY DEF EndTransaction
<1>2. /\ lock' \in [Row -> Procs \cup {Null}]
      /\ \A q \in Procs \ {p} : \A r \in Row : lock[r] = q => lock'[r] = q
  BY CoreAssumption DEF EndTransaction, TypeOK
<1> QED
  BY <1>1, <1>2, IdleType, BecomeType

(* A statement that writes no table keeps the invariant as soon as p's own *)
(* part of it holds again.                                                 *)
LEMMA QuietStep ==
  ASSUME Inv, NEW p \in Procs,
         UNCHANGED tables,
         lock' \in [Row -> Procs \cup {Null}],
         session' \in [Procs -> Job],
         \A q \in Procs \ {p} : session'[q] = session[q],
         \A q \in Procs \ {p} : \A r \in Row : lock[r] = q => lock'[r] = q,
         SessionInv(p)'
  PROVE  Inv'
<1>1. TypeOK'
  BY DEF Inv, TypeOK, tables
<1>2. LedgerExact' /\ Unsettled'
  BY DEF Inv, LedgerExact, Unsettled, Booked, tables
<1>3. ASSUME NEW q \in Procs \ {p} PROVE SessionInv(q)'
  BY <1>3, OthersKeepInv DEF tables
<1> QED
  BY <1>1, <1>2, <1>3 DEF Inv

(* A statement that takes the free locks R and leaves p with the given job. *)
LEMMA TakingStep ==
  ASSUME Inv, NEW p \in Procs, NEW job \in Job, NEW R \in SUBSET Row,
         Taking(p, R), \A r \in R : IsFree(r),
         Become(p, job), UNCHANGED tables, SessionInv(p)'
  PROVE  Inv'
BY QuietStep, TakingKeepsOthers, BecomeType DEF Inv

(* A statement that takes no lock. *)
LEMMA LocklessStep ==
  ASSUME Inv, NEW p \in Procs, NEW job \in Job,
         Become(p, job), UNCHANGED <<tables, lock>>, SessionInv(p)'
  PROVE  Inv'
<1>1. UNCHANGED tables /\ lock' = lock /\ lock' \in [Row -> Procs \cup {Null}]
  BY DEF Inv, TypeOK
<1> QED
  BY <1>1, QuietStep, BecomeType DEF Inv

LEMMA GiveUpKeepsInv ==
  ASSUME Inv, NEW p \in Procs, GiveUp(p)
  PROVE  Inv'
<1>1. TypeOK /\ EndTransaction(p) /\ UNCHANGED tables
  BY DEF GiveUp, Inv
<1>2. SessionInv(p)'
  BY <1>1, EndTransactionKeepsOthers, IdleInv
<1> QED
  BY <1>1, <1>2, EndTransactionKeepsOthers, QuietStep

(* A COMMIT keeps the invariant when the tables it writes keep theirs, and  *)
(* when it only writes rows nobody else relies on.                          *)
LEMMA CommitStep ==
  ASSUME Inv, NEW p \in Procs, EndTransaction(p),
         status' \in [Accounts -> AccountStatus],
         trade' \in [Trades -> TradeRow],
         credit' \in [Trades -> Int],
         failures' \in Nat,
         \A t \in Trades : trade'[t].status \in {"open", "closed"} => trade'[t].open # Null,
         LedgerExact', Unsettled',
         \A a \in Accounts : status'[a] = status[a] \/ lock[a] = p,
         \A t \in Trades : \/ trade'[t] = trade[t]
                           \/ trade[t] = Absent
                           \/ /\ lock[t] \in {p, Null}
                              /\ \/ /\ trade'[t].pnl = trade[t].pnl
                                    /\ trade'[t].open = trade[t].open
                                 \/ lock[AccountOf[t]] = p
                                 \/ trade[t].open = Null
  PROVE  Inv'
<1>1. /\ lock' \in [Row -> Procs \cup {Null}] /\ session' \in [Procs -> Job]
      /\ session'[p] = Idle
      /\ \A q \in Procs \ {p} : session'[q] = session[q]
      /\ \A q \in Procs \ {p} : \A r \in Row : lock[r] = q => lock'[r] = q
  BY EndTransactionKeepsOthers DEF Inv
<1>2. TypeOK'
  BY <1>1 DEF TypeOK, Unsettled
<1>3. ASSUME NEW q \in Procs \ {p} PROVE SessionInv(q)'
  BY <1>1, <1>3, OthersKeepInv
<1>4. SessionInv(p)'
  BY <1>1, IdleInv
<1> QED
  BY <1>2, <1>3, <1>4 DEF Inv

(* Starting a job only changes the session. *)
LEMMA BeginKeepsInv ==
  ASSUME Inv, NEW p \in Procs, NEW job \in Job, Begin(p, job),
         job.pc \in {"lock", "lockAccount", "update", "waitAccount"},
         job.pc = "lockAccount" => /\ job.op \in DOMAIN Outcome
                                   /\ job.acct \in Accounts /\ job.rows = {},
         job.pc = "waitAccount" => job.op \in {"market", "order", "oco"} /\ job.acct \in Accounts,
         job.op \in {"close", "fill", "market"} => job.price \in Int,
         job.drop = {}
  PROVE  Inv'
<1>1. Become(p, job) /\ UNCHANGED <<tables, lock>>
  BY DEF Begin
<1>2. session'[p] = job
  BY <1>1, BecomeType DEF Inv
<1>3. SessionInv(p)'
  BY <1>2
  DEF SessionInv, CloserInv, EndingInv, Ending, FillInv, DropInv, JobInv, At, Runs
<1> QED
  BY <1>1, <1>3, LocklessStep
-----------------------------------------------------------------------------
(* The statements that take locks or read, one lemma each. *)

(* The closers' first statement: every row it obtains was open and free. *)
LEMMA LockRowsKeepsInv ==
  ASSUME Inv, NEW p \in Procs, LockRows(p)
  PROVE  Inv'
<1> DEFINE s == session[p]
           owned == {t \in s.rows : trade[t].status = "open" /\ IsFree(t)}
           job == [s EXCEPT !.pc = "balance", !.rows = owned,
                            !.seen = IF s.op = "close" THEN Lots ELSE @,
                            !.want = {AccountOf[t] : t \in owned}]
<1>1. CASE GiveUp(p)
  BY <1>1, GiveUpKeepsInv
<1>2. CASE Taking(p, owned) /\ Become(p, job) /\ UNCHANGED tables
  <2>1. TypeOK /\ SessionInv(p) /\ At(p, "lock") /\ Runs(p, Closers) /\ s \in Job
    BY DEF Inv, LockRows, TypeOK
  <2>2. owned \subseteq Trades /\ owned \in SUBSET Row /\ \A r \in owned : IsFree(r)
    BY <2>1 DEF Job, Row
  <2>3. Lots \in [Trades -> Nat] /\ {AccountOf[t] : t \in owned} \in SUBSET Row
    BY <2>1, <2>2, CoreAssumption DEF Lots, TypeOK, TradeRow, Row
  <2>4. job \in Job
    BY <2>1, <2>2, <2>3 DEF Job, PCs
  <2>5. /\ job.pc = "balance" /\ job.op = s.op /\ job.rows = owned /\ job.drop = s.drop
        /\ job.price = s.price /\ job.want = {AccountOf[t] : t \in owned}
        /\ s.op = "close" => job.seen = Lots
    BY <2>1 DEF Job
  <2>6. /\ session'[p] = job /\ trade' = trade
        /\ \A r \in Row : lock'[r] = IF r \in owned THEN p ELSE lock[r]
    BY <1>2, <2>1, <2>2, <2>4, BecomeType, TakingKeepsOthers DEF tables
  <2>7. CloserInv(p)'
    BY <2>1, <2>2, <2>5, <2>6 DEF CloserInv, At, Runs, Lots
  <2>8. DropInv(p)'
    BY <2>1, <2>2, <2>5, <2>6 DEF SessionInv, DropInv, Job, Row
  <2>9. EndingInv(p)' /\ FillInv(p)' /\ JobInv(p)'
    BY <2>1, <2>5, <2>6
    DEF EndingInv, Ending, FillInv, JobInv, SessionInv, At, Runs, Closers
  <2> QED
    BY <1>2, <2>2, <2>4, <2>7, <2>8, <2>9, TakingStep DEF SessionInv
<1> QED
  BY <1>1, <1>2 DEF LockRows

LEMMA LockBalanceKeepsInv ==
  ASSUME Inv, NEW p \in Procs, NEW a \in Accounts, LockBalance(p, a)
  PROVE  Inv'
<1> DEFINE s == session[p]
           job == [s EXCEPT !.want = @ \ {a}]
<1>1. /\ TypeOK /\ SessionInv(p) /\ At(p, "balance") /\ s \in Job
      /\ Taking(p, {a}) /\ Become(p, job) /\ UNCHANGED tables
  BY DEF Inv, LockBalance, TypeOK
<1>2. {a} \in SUBSET Row /\ \A r \in {a} : IsFree(r)
  BY DEF LockBalance, Row
<1>3. job \in Job
  BY <1>1 DEF Job
<1>4. /\ job.pc = "balance" /\ job.op = s.op /\ job.rows = s.rows /\ job.drop = s.drop
      /\ job.price = s.price /\ job.want = s.want \ {a} /\ job.seen = s.seen
      /\ s.rows \subseteq Trades /\ s.drop \subseteq Trades
  BY <1>1 DEF Job, At
<1>5. /\ session'[p] = job /\ trade' = trade
      /\ \A r \in Row : lock'[r] = IF r = a THEN p ELSE lock[r]
  BY <1>1, <1>2, <1>3, BecomeType, TakingKeepsOthers DEF tables
<1>6. CloserInv(p)'
  <2>1. \A t \in s.rows : t \in Row /\ AccountOf[t] \in Row
    BY <1>4, CoreAssumption DEF Row
  <2> QED
    BY <1>1, <1>4, <1>5, <2>1 DEF SessionInv, CloserInv, At, Runs
<1>7. DropInv(p)'
  BY <1>1, <1>4, <1>5 DEF SessionInv, DropInv, Row
<1>8. EndingInv(p)' /\ FillInv(p)' /\ JobInv(p)'
  BY <1>1, <1>4, <1>5 DEF EndingInv, Ending, FillInv, JobInv, SessionInv, At, Runs
<1> QED
  BY <1>1, <1>2, <1>3, <1>6, <1>7, <1>8, TakingStep DEF SessionInv

(* SELECT ... FOR UPDATE SKIP LOCKED makes the account's outcome p's alone. *)
LEMMA LockAccountKeepsInv ==
  ASSUME Inv, NEW p \in Procs, LockAccount(p)
  PROVE  Inv'
<1> DEFINE s == session[p]
           where == IF s.op = "pass" THEN "count" ELSE "selectOpen"
           job == [s EXCEPT !.pc = where]
<1>1. CASE GiveUp(p)
  BY <1>1, GiveUpKeepsInv
<1>2. CASE /\ status[s.acct] = "active" /\ IsFree(s.acct)
           /\ Taking(p, {s.acct}) /\ Become(p, job) /\ UNCHANGED tables
  <2>1. /\ TypeOK /\ SessionInv(p) /\ At(p, "lockAccount") /\ s \in Job
        /\ Runs(p, DOMAIN Outcome) /\ s.acct \in Accounts /\ s.rows = {}
    BY DEF Inv, LockAccount, TypeOK, SessionInv, JobInv
  <2>2. {s.acct} \in SUBSET Row /\ \A r \in {s.acct} : IsFree(r)
    BY <1>2, <2>1 DEF Row
  <2>3. job \in Job
    BY <2>1 DEF Job, PCs
  <2>4. /\ job.pc = where /\ job.op = s.op /\ job.rows = {} /\ job.drop = s.drop
        /\ job.price = s.price /\ job.acct = s.acct
    BY <2>1 DEF Job
  <2>5. /\ session'[p] = job /\ trade' = trade /\ status' = status
        /\ \A r \in Row : lock'[r] = IF r = s.acct THEN p ELSE lock[r]
    BY <1>2, <2>1, <2>2, <2>3, BecomeType, TakingKeepsOthers DEF tables
  <2>6. EndingInv(p)'
    BY <1>2, <2>1, <2>4, <2>5 DEF EndingInv, Ending, At, Runs, Row
  <2>7. DropInv(p)'
    BY <2>1, <2>4, <2>5 DEF SessionInv, DropInv, Job, Row
  <2>8. CloserInv(p)' /\ FillInv(p)'
    BY <2>4, <2>5 DEF CloserInv, FillInv, At, Runs
  <2>9. JobInv(p)'
    BY <2>1, <2>4, <2>5
    DEF SessionInv, JobInv, At, Runs, Outcome, OfOutcome, AutoClosers, Realised
  <2> QED
    BY <1>2, <2>2, <2>3, <2>6, <2>7, <2>8, <2>9, TakingStep DEF SessionInv
<1> QED
  BY <1>1, <1>2 DEF LockAccount, Goto

(* The open rows of a locked account are positions nobody has settled. *)
LEMMA SelectOpenKeepsInv ==
  ASSUME Inv, NEW p \in Procs, SelectOpen(p)
  PROVE  Inv'
<1> DEFINE s == session[p]
           job == [s EXCEPT !.pc = "waitOpen", !.seen = Lots,
                            !.want = RowsOf(s.acct, "open")]
<1>1. /\ TypeOK /\ SessionInv(p) /\ At(p, "selectOpen") /\ s \in Job
      /\ Become(p, job) /\ UNCHANGED <<tables, lock>>
  BY DEF Inv, SelectOpen, TypeOK
<1>2. Lots \in [Trades -> Nat] /\ RowsOf(s.acct, "open") \subseteq Trades
  BY <1>1 DEF Lots, TypeOK, TradeRow, RowsOf
<1>3. job \in Job
  BY <1>1, <1>2 DEF Job, PCs, Row
<1>4. /\ job.pc = "waitOpen" /\ job.op = s.op /\ job.rows = s.rows /\ job.drop = s.drop
      /\ job.price = s.price /\ job.acct = s.acct /\ job.want = RowsOf(s.acct, "open")
  BY <1>1 DEF Job
<1>5. session'[p] = job /\ trade' = trade /\ status' = status /\ lock' = lock
  BY <1>1, <1>3, BecomeType DEF tables
<1>6. \A t \in RowsOf(s.acct, "open") :
        t \in Trades /\ AccountOf[t] = s.acct /\ Unbooked(t)
  BY <1>1 DEF Inv, Unsettled, TypeOK, RowsOf, Unbooked
<1>7. EndingInv(p)'
  BY <1>1, <1>4, <1>5, <1>6
  DEF SessionInv, EndingInv, Ending, At, Runs, Unbooked, Booked
<1>8. CloserInv(p)' /\ FillInv(p)' /\ DropInv(p)' /\ JobInv(p)'
  BY <1>1, <1>4, <1>5 DEF SessionInv, CloserInv, FillInv, DropInv, JobInv, At, Runs
<1> QED
  BY <1>1, <1>3, <1>7, <1>8, LocklessStep DEF SessionInv
(* Waiting for a position ends with its lock, and with it still unsettled. *)
LEMMA WaitOpenKeepsInv ==
  ASSUME Inv, NEW p \in Procs, NEW t \in Trades, WaitOpen(p, t)
  PROVE  Inv'
<1> DEFINE s == session[p]
           skip == [s EXCEPT !.want = @ \ {t}]
           take == [s EXCEPT !.want = @ \ {t}, !.rows = @ \cup {t},
                      !.seen[t] = IF Runs(p, Realised) THEN @ ELSE trade[t].lots]
<1>1. /\ TypeOK /\ SessionInv(p) /\ At(p, "waitOpen") /\ s \in Job /\ t \in s.want
      /\ IsFree(t) /\ UNCHANGED tables /\ Ending(p)
  BY DEF Inv, WaitOpen, TypeOK, Ending, At
<1>2. CASE Become(p, skip) /\ UNCHANGED lock
  <2>1. skip \in Job
    BY <1>1 DEF Job
  <2>2. /\ skip.pc = s.pc /\ skip.op = s.op /\ skip.rows = s.rows /\ skip.drop = s.drop
        /\ skip.price = s.price /\ skip.acct = s.acct /\ skip.want = s.want \ {t}
    BY <1>1 DEF Job
  <2>3. session'[p] = skip /\ trade' = trade /\ status' = status /\ lock' = lock
    BY <1>1, <1>2, <2>1, BecomeType DEF tables
  <2>4. EndingInv(p)'
    BY <1>1, <2>2, <2>3 DEF SessionInv, EndingInv, Ending, At, Runs, Unbooked, Booked
  <2>5. CloserInv(p)' /\ FillInv(p)' /\ DropInv(p)' /\ JobInv(p)'
    BY <1>1, <2>2, <2>3 DEF SessionInv, CloserInv, FillInv, DropInv, JobInv, At, Runs
  <2> QED
    BY <1>1, <1>2, <2>1, <2>4, <2>5, LocklessStep DEF SessionInv
<1>3. CASE /\ Runs(p, Realised) \/ trade[t].status = "open"
           /\ Taking(p, {t}) /\ Become(p, take)
  <2>1. {t} \in SUBSET Row /\ \A r \in {t} : IsFree(r)
    BY <1>1 DEF Row
  <2>2. take \in Job
    <3>1. trade[t].lots \in Nat /\ s.seen \in [Trades -> Nat]
      BY <1>1 DEF TypeOK, TradeRow, Job
    <3> QED
      BY <1>1, <3>1 DEF Job
  <2>3. /\ take.pc = s.pc /\ take.op = s.op /\ take.rows = s.rows \cup {t}
        /\ take.drop = s.drop /\ take.price = s.price /\ take.acct = s.acct
        /\ take.want = s.want \ {t}
    BY <1>1 DEF Job
  <2>4. /\ session'[p] = take /\ trade' = trade /\ status' = status
        /\ \A r \in Row : lock'[r] = IF r = t THEN p ELSE lock[r]
    BY <1>1, <1>3, <2>1, <2>2, BecomeType, TakingKeepsOthers DEF tables
  <2>5. Unbooked(t) /\ AccountOf[t] = s.acct
    BY <1>1, <1>3 DEF Inv, SessionInv, EndingInv, Unsettled, TypeOK, Unbooked
  <2>6. s.rows \subseteq Trades /\ s.drop \subseteq Trades
    BY <1>1 DEF Job
  <2>7. /\ s.acct \in Accounts /\ lock[s.acct] = p /\ status[s.acct] = "active"
        /\ \A r \in s.rows : lock[r] = p /\ Unbooked(r) /\ AccountOf[r] = s.acct
        /\ \A r \in s.want : /\ r \in Trades /\ AccountOf[r] = s.acct
                             /\ Runs(p, Realised) => Unbooked(r)
    BY <1>1 DEF SessionInv, EndingInv
  <2>8. lock'[s.acct] = p /\ \A r \in s.rows \cup {t} : lock'[r] = p
    BY <2>4, <2>6, <2>7 DEF Row
  <2>9. \A r \in Trades : Unbooked(r)' <=> Unbooked(r)
    BY <2>4 DEF Unbooked, Booked
  <2>10. EndingInv(p)'
    BY <2>3, <2>4, <2>5, <2>6, <2>7, <2>8, <2>9 DEF EndingInv, Ending, At, Runs
  <2>11. DropInv(p)'
    BY <1>1, <2>3, <2>4, <2>6 DEF SessionInv, DropInv, Row
  <2>12. CloserInv(p)' /\ FillInv(p)' /\ JobInv(p)'
    BY <1>1, <2>3, <2>4 DEF SessionInv, CloserInv, FillInv, JobInv, At, Runs
  <2> QED
    BY <1>1, <1>3, <2>1, <2>2, <2>10, <2>11, <2>12, TakingStep DEF SessionInv
<1> QED
  BY <1>2, <1>3 DEF WaitOpen

(* A row whose valuation failed is left out, open and unlocked. *)
LEMMA SkipUnpricedKeepsInv ==
  ASSUME Inv, NEW p \in Procs, NEW t \in Trades, SkipUnpriced(p, t)
  PROVE  Inv'
<1> DEFINE s == session[p]
           skip == [s EXCEPT !.want = @ \ {t}]
<1>1. /\ TypeOK /\ SessionInv(p) /\ At(p, "waitOpen") /\ s \in Job
      /\ Become(p, skip) /\ UNCHANGED <<tables, lock>>
  BY DEF Inv, SkipUnpriced, TypeOK
<1>2. skip \in Job
  BY <1>1 DEF Job
<1>3. /\ skip.pc = s.pc /\ skip.op = s.op /\ skip.rows = s.rows /\ skip.drop = s.drop
      /\ skip.price = s.price /\ skip.acct = s.acct /\ skip.want = s.want \ {t}
  BY <1>1 DEF Job
<1>4. session'[p] = skip /\ trade' = trade /\ status' = status /\ lock' = lock
  BY <1>1, <1>2, BecomeType DEF tables
<1>5. EndingInv(p)'
  BY <1>1, <1>3, <1>4 DEF SessionInv, EndingInv, Ending, At, Runs, Unbooked, Booked
<1>6. CloserInv(p)' /\ FillInv(p)' /\ DropInv(p)' /\ JobInv(p)'
  BY <1>1, <1>3, <1>4 DEF SessionInv, CloserInv, FillInv, DropInv, JobInv, At, Runs
<1> QED
  BY <1>1, <1>2, <1>5, <1>6, LocklessStep DEF SessionInv

LEMMA SelectPendingKeepsInv ==
  ASSUME Inv, NEW p \in Procs, SelectPending(p)
  PROVE  Inv'
<1> DEFINE s == session[p]
           job == [s EXCEPT !.pc = "waitPending", !.want = RowsOf(s.acct, "pending")]
<1>1. /\ TypeOK /\ SessionInv(p) /\ At(p, "waitOpen") /\ s \in Job
      /\ Become(p, job) /\ UNCHANGED <<tables, lock>> /\ Runs(p, OfOutcome)
  BY DEF Inv, SelectPending, TypeOK, SessionInv, JobInv, At
<1>2. job \in Job
  BY <1>1 DEF Job, PCs, Row, RowsOf
<1>3. /\ job.pc = "waitPending" /\ job.op = s.op /\ job.rows = s.rows
      /\ job.drop = s.drop /\ job.price = s.price /\ job.acct = s.acct
  BY <1>1 DEF Job
<1>4. session'[p] = job /\ trade' = trade /\ status' = status /\ lock' = lock
  BY <1>1, <1>2, BecomeType DEF tables
<1>5. EndingInv(p)'
  BY <1>1, <1>3, <1>4 DEF SessionInv, EndingInv, Ending, At, Runs, Unbooked, Booked
<1>6. FillInv(p)'
  BY <1>1, <1>3, <1>4 DEF FillInv, At, Runs, OfOutcome, AutoClosers, Realised
<1>7. CloserInv(p)' /\ DropInv(p)' /\ JobInv(p)'
  BY <1>1, <1>3, <1>4 DEF SessionInv, CloserInv, DropInv, JobInv, At, Runs
<1> QED
  BY <1>1, <1>2, <1>5, <1>6, <1>7, LocklessStep DEF SessionInv

(* An order that was waited for is cancelled only if it is pending still. *)
LEMMA WaitPendingKeepsInv ==
  ASSUME Inv, NEW p \in Procs, NEW t \in Trades, WaitPending(p, t)
  PROVE  Inv'
<1> DEFINE s == session[p]
           skip == [s EXCEPT !.want = @ \ {t}]
           take == [s EXCEPT !.want = @ \ {t}, !.drop = @ \cup {t}]
<1>1. /\ TypeOK /\ SessionInv(p) /\ At(p, "waitPending") /\ s \in Job
      /\ IsFree(t) /\ UNCHANGED tables /\ s.rows \subseteq Trades /\ s.drop \subseteq Trades
  BY DEF Inv, WaitPending, TypeOK, Job
<1>2. CASE Become(p, skip) /\ UNCHANGED lock
  <2>1. skip \in Job
    BY <1>1 DEF Job
  <2>2. /\ skip.pc = s.pc /\ skip.op = s.op /\ skip.rows = s.rows /\ skip.drop = s.drop
        /\ skip.price = s.price /\ skip.acct = s.acct
    BY <1>1 DEF Job
  <2>3. session'[p] = skip /\ trade' = trade /\ status' = status /\ lock' = lock
    BY <1>1, <1>2, <2>1, BecomeType DEF tables
  <2>4. EndingInv(p)'
    BY <1>1, <2>2, <2>3 DEF SessionInv, EndingInv, Ending, At, Runs, Unbooked, Booked
  <2>5. CloserInv(p)' /\ FillInv(p)' /\ DropInv(p)' /\ JobInv(p)'
    BY <1>1, <2>2, <2>3 DEF SessionInv, CloserInv, FillInv, DropInv, JobInv, At, Runs
  <2> QED
    BY <1>1, <1>2, <2>1, <2>4, <2>5, LocklessStep DEF SessionInv
<1>3. CASE trade[t].status = "pending" /\ Taking(p, {t}) /\ Become(p, take)
  <2>1. {t} \in SUBSET Row /\ \A r \in {t} : IsFree(r)
    BY <1>1 DEF Row
  <2>2. take \in Job
    BY <1>1 DEF Job
  <2>3. /\ take.pc = s.pc /\ take.op = s.op /\ take.rows = s.rows
        /\ take.drop = s.drop \cup {t} /\ take.price = s.price /\ take.acct = s.acct
    BY <1>1 DEF Job
  <2>4. /\ session'[p] = take /\ trade' = trade /\ status' = status
        /\ \A r \in Row : lock'[r] = IF r = t THEN p ELSE lock[r]
    BY <1>1, <1>3, <2>1, <2>2, BecomeType, TakingKeepsOthers DEF tables
  <2>5. \A r \in Row : lock[r] = p => lock'[r] = p
    BY <2>4
  <2>6. EndingInv(p)'
    BY <1>1, <2>3, <2>4, <2>5
    DEF SessionInv, EndingInv, Ending, At, Runs, Unbooked, Booked, Row
  <2>7. FillInv(p)' /\ DropInv(p)'
    BY <1>1, <1>3, <2>3, <2>4, <2>5 DEF SessionInv, FillInv, DropInv, At, Runs, Row
  <2>8. CloserInv(p)' /\ JobInv(p)'
    BY <1>1, <2>3, <2>4 DEF SessionInv, CloserInv, JobInv, At, Runs
  <2> QED
    BY <1>1, <1>3, <2>1, <2>2, <2>6, <2>7, <2>8, TakingStep DEF SessionInv
<1> QED
  BY <1>2, <1>3 DEF WaitPending

LEMMA CountOpenKeepsInv ==
  ASSUME Inv, NEW p \in Procs, CountOpen(p)
  PROVE  Inv'
<1> DEFINE s == session[p]
           job == [s EXCEPT !.pc = "commit"]
<1>1. CASE GiveUp(p)
  BY <1>1, GiveUpKeepsInv
<1>2. CASE Become(p, job) /\ UNCHANGED <<tables, lock>>
  <2>1. /\ TypeOK /\ SessionInv(p) /\ At(p, "count") /\ s \in Job /\ Runs(p, {"pass"})
    BY DEF Inv, CountOpen, TypeOK, SessionInv, JobInv, At
  <2>2. job \in Job
    BY <2>1 DEF Job, PCs
  <2>3. /\ job.pc = "commit" /\ job.op = s.op /\ job.rows = s.rows
        /\ job.drop = s.drop /\ job.price = s.price /\ job.acct = s.acct
    BY <2>1 DEF Job
  <2>4. session'[p] = job /\ trade' = trade /\ status' = status /\ lock' = lock
    BY <1>2, <2>1, <2>2, BecomeType DEF tables
  <2>5. EndingInv(p)'
    BY <2>1, <2>3, <2>4 DEF SessionInv, EndingInv, Ending, At, Runs, Unbooked, Booked
  <2>6. CloserInv(p)' /\ FillInv(p)' /\ DropInv(p)' /\ JobInv(p)'
    BY <2>1, <2>3, <2>4 DEF SessionInv, CloserInv, FillInv, DropInv, JobInv, At, Runs
  <2> QED
    BY <1>2, <2>2, <2>5, <2>6, LocklessStep DEF SessionInv
<1> QED
  BY <1>1, <1>2 DEF CountOpen, Goto

(* The order about to be filled is locked and still pending. *)
LEMMA LockOrderKeepsInv ==
  ASSUME Inv, NEW p \in Procs, LockOrder(p)
  PROVE  Inv'
<1> DEFINE s == session[p]
           job == [s EXCEPT !.pc = "validate"]
<1>1. CASE GiveUp(p)
  BY <1>1, GiveUpKeepsInv
<1>2. CASE /\ \A t \in s.rows : trade[t].status = "pending" /\ IsFree(t)
           /\ Taking(p, s.rows) /\ Become(p, job) /\ UNCHANGED tables
  <2>1. /\ TypeOK /\ SessionInv(p) /\ At(p, "lock") /\ s \in Job /\ Runs(p, {"fill"})
        /\ s.rows \subseteq Trades /\ s.drop \subseteq Trades
    BY DEF Inv, LockOrder, TypeOK, Job
  <2>2. s.rows \in SUBSET Row /\ \A r \in s.rows : IsFree(r)
    BY <1>2, <2>1 DEF Row
  <2>3. job \in Job
    BY <2>1 DEF Job, PCs
  <2>4. /\ job.pc = "validate" /\ job.op = s.op /\ job.rows = s.rows
        /\ job.drop = s.drop /\ job.price = s.price
    BY <2>1 DEF Job
  <2>5. /\ session'[p] = job /\ trade' = trade
        /\ \A r \in Row : lock'[r] = IF r \in s.rows THEN p ELSE lock[r]
    BY <1>2, <2>1, <2>2, <2>3, BecomeType, TakingKeepsOthers DEF tables
  <2>6. FillInv(p)' /\ DropInv(p)'
    BY <1>2, <2>1, <2>2, <2>4, <2>5 DEF SessionInv, FillInv, DropInv, At, Runs, Row
  <2>7. CloserInv(p)' /\ EndingInv(p)' /\ JobInv(p)'
    BY <2>1, <2>4, <2>5 DEF SessionInv, CloserInv, EndingInv, Ending, JobInv, At, Runs
  <2> QED
    BY <1>2, <2>2, <2>3, <2>6, <2>7, TakingStep DEF SessionInv
<1> QED
  BY <1>1, <1>2 DEF LockOrder, Goto

LEMMA ValidateOrderKeepsInv ==
  ASSUME Inv, NEW p \in Procs, NEW t \in Trades, ValidateOrder(p, t)
  PROVE  Inv'
<1> DEFINE s == session[p]
           sib == {u \in Trades : u = trade[t].sibling /\ trade[u].status = "pending"}
           dead == [s EXCEPT !.pc = "commit", !.rows = {}, !.drop = {t}]
           live == [s EXCEPT !.pc = "waitPending", !.want = sib]
<1>1. /\ TypeOK /\ SessionInv(p) /\ At(p, "validate") /\ s \in Job /\ Runs(p, {"fill"})
      /\ t \in s.rows /\ UNCHANGED <<tables, lock>>
  BY DEF Inv, ValidateOrder, TypeOK, SessionInv, JobInv, At
<1>2. dead \in Job /\ live \in Job
  BY <1>1 DEF Job, PCs, Row
<1>3. /\ dead.pc = "commit" /\ dead.op = s.op /\ dead.rows = {} /\ dead.drop = {t}
      /\ dead.price = s.price
      /\ live.pc = "waitPending" /\ live.op = s.op /\ live.rows = s.rows
      /\ live.drop = s.drop /\ live.price = s.price
  BY <1>1 DEF Job
<1>4. lock[t] = p /\ trade[t].status = "pending"
  BY <1>1 DEF SessionInv, FillInv, At
<1>5. CASE Become(p, dead)
  <2>1. session'[p] = dead /\ trade' = trade /\ lock' = lock
    BY <1>1, <1>2, <1>5, BecomeType DEF tables
  <2>2. SessionInv(p)'
    BY <1>1, <1>3, <1>4, <2>1
    DEF SessionInv, CloserInv, EndingInv, Ending, FillInv, DropInv, JobInv, At, Runs
  <2> QED
    BY <1>1, <1>2, <1>5, <2>2, LocklessStep
<1>6. CASE Become(p, live)
  <2>1. session'[p] = live /\ trade' = trade /\ lock' = lock
    BY <1>1, <1>2, <1>6, BecomeType DEF tables
  <2>2. EndingInv(p)'
    BY <1>1, <1>3, <2>1
    DEF EndingInv, Ending, At, Runs, OfOutcome, AutoClosers, Realised
  <2>3. CloserInv(p)' /\ FillInv(p)' /\ DropInv(p)' /\ JobInv(p)'
    BY <1>1, <1>3, <2>1 DEF SessionInv, CloserInv, FillInv, DropInv, JobInv, At, Runs
  <2> QED
    BY <1>1, <1>2, <1>6, <2>2, <2>3, LocklessStep DEF SessionInv
<1> QED
  BY <1>5, <1>6 DEF ValidateOrder

LEMMA LockForOpenKeepsInv ==
  ASSUME Inv, NEW p \in Procs, LockForOpen(p)
  PROVE  Inv'
<1> DEFINE s == session[p]
           job == [s EXCEPT !.pc = "snapshot", !.want = {}]
<1>1. CASE GiveUp(p)
  BY <1>1, GiveUpKeepsInv
<1>2. CASE Taking(p, {s.acct}) /\ Become(p, job) /\ UNCHANGED tables
  <2>1. /\ TypeOK /\ SessionInv(p) /\ At(p, "waitAccount") /\ s \in Job
        /\ Runs(p, {"market", "order", "oco"}) /\ s.drop \subseteq Trades /\ IsFree(s.acct)
    BY DEF Inv, LockForOpen, TypeOK, Job, SessionInv, JobInv, At
  <2>2. {s.acct} \in SUBSET Row /\ \A r \in {s.acct} : IsFree(r)
    BY <2>1 DEF Row, SessionInv, JobInv
  <2>3. job \in Job
    BY <2>1 DEF Job, PCs
  <2>4. /\ job.pc = "snapshot" /\ job.op = s.op /\ job.drop = s.drop
        /\ job.price = s.price
    BY <2>1 DEF Job
  <2>5. /\ session'[p] = job /\ trade' = trade
        /\ \A r \in Row : lock'[r] = IF r = s.acct THEN p ELSE lock[r]
    BY <1>2, <2>1, <2>2, <2>3, BecomeType, TakingKeepsOthers DEF tables
  <2>6. DropInv(p)'
    BY <2>1, <2>4, <2>5 DEF SessionInv, DropInv, Row
  <2>7. CloserInv(p)' /\ EndingInv(p)' /\ FillInv(p)' /\ JobInv(p)'
    BY <2>1, <2>4, <2>5
    DEF SessionInv, CloserInv, EndingInv, Ending, FillInv, JobInv, At, Runs
  <2> QED
    BY <1>2, <2>2, <2>3, <2>6, <2>7, TakingStep DEF SessionInv
<1> QED
  BY <1>1, <1>2 DEF LockForOpen

LEMMA CheckCapKeepsInv ==
  ASSUME Inv, NEW p \in Procs, CheckCap(p)
  PROVE  Inv'
<1> DEFINE s == session[p]
           job == [s EXCEPT !.pc = "commit"]
<1>1. CASE GiveUp(p)
  BY <1>1, GiveUpKeepsInv
<1>2. CASE Become(p, job) /\ UNCHANGED <<tables, lock>>
  <2>1. /\ TypeOK /\ SessionInv(p) /\ At(p, "snapshot") /\ s \in Job
        /\ Runs(p, {"market", "order", "oco"})
    BY DEF Inv, CheckCap, TypeOK, SessionInv, JobInv, At
  <2>2. job \in Job
    BY <2>1 DEF Job, PCs
  <2>3. job.pc = "commit" /\ job.op = s.op /\ job.drop = s.drop /\ job.price = s.price
    BY <2>1 DEF Job
  <2>4. session'[p] = job /\ trade' = trade /\ lock' = lock
    BY <1>2, <2>1, <2>2, BecomeType DEF tables
  <2>5. SessionInv(p)'
    BY <2>1, <2>3, <2>4
    DEF SessionInv, CloserInv, EndingInv, Ending, FillInv, DropInv, JobInv, At, Runs
  <2> QED
    BY <1>2, <2>2, <2>5, LocklessStep
<1> QED
  BY <1>1, <1>2 DEF CheckCap, Goto
-----------------------------------------------------------------------------
(* The statements that commit. *)

LEMMA ClosedRow ==
  ASSUME TypeOK, NEW t \in Trades, trade[t].open # Null,
         NEW n \in Nat, NEW px \in Int \cup {Null}
  PROVE  /\ Closed(t, n, px) \in TradeRow
         /\ Closed(t, n, px).status = "closed" /\ Closed(t, n, px).pnl \in Int
         /\ Closed(t, n, px).open = trade[t].open
<1>1. trade[t] \in TradeRow /\ trade[t].open \in Int
  BY DEF TypeOK, TradeRow
<1>2. ClosePrice(t, px) \in Int
  BY <1>1 DEF ClosePrice
<1>3. Pnl(n, trade[t].open, ClosePrice(t, px)) \in Int
  BY <1>1, <1>2 DEF Pnl
<1> QED
  BY <1>1, <1>2, <1>3 DEF Closed, TradeRow, TradeStatus

LEMMA CancelledRow ==
  ASSUME TypeOK, NEW t \in Trades
  PROVE  /\ Cancelled(t) \in TradeRow /\ Cancelled(t).status = "cancelled"
         /\ Cancelled(t).open = trade[t].open /\ Cancelled(t).pnl = trade[t].pnl
BY DEF TypeOK, TradeRow, TradeStatus, Cancelled

(* Settling rows nobody has booked, under their locks and their accounts'. *)
LEMMA SettleStep ==
  ASSUME Inv, NEW p \in Procs, EndTransaction(p),
         NEW C \in SUBSET Trades, NEW D \in SUBSET Trades,
         NEW n \in [Trades -> Nat], NEW px \in Int \cup {Null}, Settle(C, D, n, px),
         \A t \in C : lock[t] = p /\ Unbooked(t) /\ lock[AccountOf[t]] = p,
         \A t \in D : lock[t] = p /\ trade[t].status = "pending",
         status' \in [Accounts -> AccountStatus], failures' \in Nat,
         \A a \in Accounts : status'[a] = status[a] \/ lock[a] = p
  PROVE  Inv'
<1>1. TypeOK /\ LedgerExact /\ Unsettled
  BY DEF Inv
<1>2. \A t \in Trades : trade'[t] = IF t \in C THEN Closed(t, n[t], px)
                                    ELSE IF t \in D THEN Cancelled(t) ELSE trade[t]
  BY DEF Settle
<1>3. \A t \in C : /\ Closed(t, n[t], px) \in TradeRow
                   /\ Closed(t, n[t], px).status = "closed"
                   /\ Closed(t, n[t], px).pnl \in Int
                   /\ Closed(t, n[t], px).open = trade[t].open
                   /\ trade[t].open # Null /\ ~Booked(t)
  BY <1>1, ClosedRow DEF Unbooked
<1>4. \A t \in D : /\ Cancelled(t) \in TradeRow /\ Cancelled(t).status = "cancelled"
                   /\ Cancelled(t).open = trade[t].open /\ Cancelled(t).pnl = trade[t].pnl
  BY <1>1, CancelledRow
<1>5. trade' \in [Trades -> TradeRow]
  BY <1>1, <1>3, <1>4 DEF Settle, TypeOK
<1>6. credit' \in [Trades -> Int]
  BY <1>1, <1>3 DEF Settle, TypeOK
<1>7. LedgerExact'
  <2>1. ASSUME NEW t \in Trades
        PROVE  credit'[t] = IF trade'[t].pnl # Null THEN trade'[t].pnl ELSE 0
    <3>1. credit'[t] = IF t \in C THEN credit[t] + Closed(t, n[t], px).pnl ELSE credit[t]
      BY DEF Settle
    <3>2. credit[t] = IF trade[t].pnl # Null THEN trade[t].pnl ELSE 0
      BY <1>1 DEF LedgerExact, Booked
    <3> QED
      BY <1>2, <1>3, <1>4, <3>1, <3>2, CoreAssumption DEF Booked
  <2> QED
    BY <2>1 DEF LedgerExact, Booked
<1>8. Unsettled' /\ \A t \in Trades : trade'[t].status \in {"open", "closed"}
                                        => trade'[t].open # Null
  BY <1>1, <1>2, <1>3, <1>4 DEF Unsettled, Booked, TypeOK
<1>9. \A t \in Trades : \/ trade'[t] = trade[t]
                        \/ trade[t] = Absent
                        \/ /\ lock[t] \in {p, Null}
                           /\ \/ /\ trade'[t].pnl = trade[t].pnl
                                 /\ trade'[t].open = trade[t].open
                              \/ lock[AccountOf[t]] = p
                              \/ trade[t].open = Null
  BY <1>2, <1>4
<1> QED
  BY <1>5, <1>6, <1>7, <1>8, <1>9, CommitStep

LEMMA CommitCloseKeepsInv ==
  ASSUME Inv, NEW p \in Procs, CommitClose(p)
  PROVE  Inv'
<1> DEFINE s == session[p]
<1>1. /\ TypeOK /\ s \in Job /\ EndTransaction(p) /\ UNCHANGED <<status, failures>>
      /\ Settle(s.rows, {}, s.seen, s.price)
  BY DEF Inv, TypeOK, CommitClose
<1>2. /\ s.rows \in SUBSET Trades /\ s.seen \in [Trades -> Nat]
      /\ s.price \in Int \cup {Null}
  BY <1>1 DEF Job
<1>3. \A t \in s.rows : lock[t] = p /\ Unbooked(t) /\ lock[AccountOf[t]] = p
  <2>1. At(p, "balance") /\ s.want = {} /\ CloserInv(p) /\ Unsettled
    BY DEF CommitClose, Inv, SessionInv
  <2>2. \A t \in s.rows : lock[t] = p /\ trade[t].status = "open" /\ lock[AccountOf[t]] = p
    BY <2>1 DEF CloserInv
  <2> QED
    BY <1>1, <1>2, <2>1, <2>2 DEF Unsettled, Unbooked, TypeOK
<1>4. /\ status' \in [Accounts -> AccountStatus] /\ failures' \in Nat
      /\ \A a \in Accounts : status'[a] = status[a]
      /\ {} \in SUBSET Trades /\ \A t \in {} : lock[t] = p /\ trade[t].status = "pending"
  BY <1>1 DEF TypeOK
<1> QED
  BY <1>1, <1>2, <1>3, <1>4, SettleStep

(* The whole settlement of an account lands in one COMMIT. *)
LEMMA CommitOutcomeKeepsInv ==
  ASSUME Inv, NEW p \in Procs, CommitOutcome(p)
  PROVE  Inv'
<1> DEFINE s == session[p]
<1>1. /\ TypeOK /\ s \in Job /\ EndTransaction(p) /\ SessionInv(p) /\ Ending(p)
      /\ Settle(s.rows, s.drop, s.seen, s.price) /\ Runs(p, OfOutcome)
  BY DEF Inv, TypeOK, CommitOutcome, Ending, OfOutcome, Runs
<1>2. /\ s.rows \in SUBSET Trades /\ s.seen \in [Trades -> Nat]
      /\ s.drop \in SUBSET Trades /\ s.price \in Int \cup {Null}
  BY <1>1 DEF Job
<1>3. /\ s.acct \in Accounts /\ lock[s.acct] = p
      /\ \A t \in s.rows : lock[t] = p /\ Unbooked(t) /\ lock[AccountOf[t]] = p
      /\ \A t \in s.drop : lock[t] = p /\ trade[t].status = "pending"
  BY <1>1, <1>2 DEF SessionInv, EndingInv, DropInv
<1>4. Outcome[s.op] \in AccountStatus
  BY <1>1 DEF Outcome, AccountStatus, OfOutcome, AutoClosers, Realised, Runs
<1>5. status' \in [Accounts -> AccountStatus]
  BY <1>1, <1>4 DEF CommitOutcome, TypeOK
<1>6. failures' \in Nat
  BY <1>1 DEF CommitOutcome, TypeOK
<1>7. \A a \in Accounts : status'[a] = status[a] \/ lock[a] = p
  <2>1. \A a \in Accounts : status'[a] = status[a] \/ a = s.acct
    BY <1>1 DEF CommitOutcome, TypeOK
  <2> QED
    BY <1>3, <2>1
<1>8. \A t \in s.rows : lock[t] = p /\ Unbooked(t) /\ lock[AccountOf[t]] = p
  BY <1>3
<1>9. \A t \in s.drop : lock[t] = p /\ trade[t].status = "pending"
  BY <1>3
<1>10. EndTransaction(p) /\ Settle(s.rows, s.drop, s.seen, s.price)
  BY <1>1
<1> HIDE DEF s
<1> QED
  BY <1>2, <1>5, <1>6, <1>7, <1>8, <1>9, <1>10, SettleStep

LEMMA CommitPassKeepsInv ==
  ASSUME Inv, NEW p \in Procs, CommitPass(p)
  PROVE  Inv'
<1>1. /\ TypeOK /\ LedgerExact /\ Unsettled /\ SessionInv(p) /\ EndTransaction(p)
      /\ UNCHANGED <<trade, credit, failures>> /\ Ending(p)
      /\ status' = [status EXCEPT ![session[p].acct] = "passed"]
  BY DEF Inv, CommitPass, Ending
<1>2. lock[session[p].acct] = p
  BY <1>1 DEF SessionInv, EndingInv
<1>3. /\ status' \in [Accounts -> AccountStatus]
      /\ \A a \in Accounts : status'[a] = status[a] \/ lock[a] = p
  BY <1>1, <1>2 DEF TypeOK, AccountStatus
<1>4. LedgerExact' /\ Unsettled'
  BY <1>1 DEF LedgerExact, Unsettled, Booked
<1> QED
  BY <1>1, <1>3, <1>4, CommitStep DEF TypeOK

(* A commit that moves no money: rows keep their PnL, and a row that was a *)
(* position keeps its open price.                                          *)
LEMMA MoneylessCommit ==
  ASSUME Inv, NEW p \in Procs, EndTransaction(p),
         UNCHANGED <<status, credit, failures>>,
         trade' \in [Trades -> TradeRow],
         \A t \in Trades : \/ trade'[t] = trade[t]
                           \/ /\ trade[t] = Absent \/ lock[t] \in {p, Null}
                              /\ trade'[t].pnl = trade[t].pnl
                              /\ trade'[t].open = trade[t].open \/ trade[t].open = Null
                              /\ \/ trade'[t].status = "cancelled"
                                 \/ /\ ~Booked(t) /\ trade'[t].lots > 0
                                    /\ \/ /\ trade'[t].status = "open"
                                          /\ trade'[t].open # Null
                                       \/ /\ trade'[t].status = "pending"
                                          /\ trade'[t].open = Null
  PROVE  Inv'
<1>1. TypeOK /\ LedgerExact /\ Unsettled
  BY DEF Inv
<1>2. LedgerExact'
  BY <1>1 DEF LedgerExact, Booked
<1>3. Unsettled' /\ \A t \in Trades : trade'[t].status \in {"open", "closed"}
                                        => trade'[t].open # Null
  BY <1>1 DEF Unsettled, Booked, TypeOK
<1> QED
  BY <1>1, <1>2, <1>3, CommitStep DEF TypeOK

LEMMA CommitFillKeepsInv ==
  ASSUME Inv, NEW p \in Procs, CommitFill(p)
  PROVE  Inv'
<1> DEFINE s == session[p]
           opened(t) == [trade[t] EXCEPT !.status = "open", !.open = s.price]
<1>1. /\ TypeOK /\ Unsettled /\ SessionInv(p) /\ EndTransaction(p)
      /\ UNCHANGED <<status, credit, failures>>
      /\ trade' = [t \in Trades |-> IF t \in s.rows THEN opened(t)
                                    ELSE IF t \in s.drop THEN Cancelled(t) ELSE trade[t]]
  BY DEF Inv, CommitFill
<1>2. s.price \in Int
  BY <1>1 DEF SessionInv, JobInv, CommitFill, Runs
<1>3. \A t \in Trades : /\ opened(t) \in TradeRow /\ opened(t).status = "open"
                        /\ opened(t).open = s.price /\ opened(t).pnl = trade[t].pnl
                        /\ opened(t).lots = trade[t].lots
  BY <1>1, <1>2 DEF TypeOK, TradeRow, TradeStatus
<1>4. \A t \in s.rows : lock[t] = p /\ trade[t].status = "pending"
  BY <1>1 DEF SessionInv, FillInv, CommitFill, At
<1>5. \A t \in s.drop : lock[t] = p
  BY <1>1 DEF SessionInv, DropInv
<1>6. trade' \in [Trades -> TradeRow]
  BY <1>1, <1>3, CancelledRow DEF TypeOK
<1>7. s.price # Null
  BY <1>2, CoreAssumption
<1>8. \A t \in s.rows : t \in Trades =>
        /\ trade[t].pnl = Null /\ trade[t].open = Null /\ trade[t].lots > 0 /\ ~Booked(t)
  BY <1>1, <1>4 DEF Unsettled, Booked
<1>9. ASSUME NEW t \in Trades
      PROVE  \/ trade'[t] = trade[t]
             \/ /\ trade[t] = Absent \/ lock[t] \in {p, Null}
                /\ trade'[t].pnl = trade[t].pnl
                /\ trade'[t].open = trade[t].open \/ trade[t].open = Null
                /\ \/ trade'[t].status = "cancelled"
                   \/ /\ ~Booked(t) /\ trade'[t].lots > 0
                      /\ \/ /\ trade'[t].status = "open"
                            /\ trade'[t].open # Null
                         \/ /\ trade'[t].status = "pending"
                            /\ trade'[t].open = Null
  <2>1. CASE t \in s.rows
    <3>1. trade'[t] = opened(t)
      BY <1>1, <2>1
    <3> QED
      BY <1>3, <1>4, <1>7, <1>8, <2>1, <3>1
  <2>2. CASE t \notin s.rows /\ t \in s.drop
    <3>1. trade'[t] = Cancelled(t)
      BY <1>1, <2>2
    <3> QED
      BY <1>1, <1>5, <2>2, <3>1, CancelledRow
  <2>3. CASE t \notin s.rows /\ t \notin s.drop
    BY <1>1, <2>3
  <2> QED
    BY <2>1, <2>2, <2>3
<1>10. UNCHANGED <<status, credit, failures>> /\ EndTransaction(p)
  BY <1>1
<1> QED
  BY <1>6, <1>9, <1>10, MoneylessCommit

LEMMA CommitRefusalKeepsInv ==
  ASSUME Inv, NEW p \in Procs, CommitRefusal(p)
  PROVE  Inv'
<1>1. /\ TypeOK /\ EndTransaction(p) /\ UNCHANGED <<status, credit, failures>>
      /\ trade' = [t \in Trades |-> IF t \in session[p].drop THEN Cancelled(t)
                                                             ELSE trade[t]]
  BY DEF Inv, CommitRefusal
<1>2. \A t \in session[p].drop : lock[t] = p
  BY DEF Inv, SessionInv, DropInv
<1>3. trade' \in [Trades -> TradeRow]
  BY <1>1, CancelledRow DEF TypeOK
<1> QED
  BY <1>1, <1>2, <1>3, CancelledRow, MoneylessCommit

(* Even a row that has been filled meanwhile may be cancelled: no money moves. *)
LEMMA CancelDeadKeepsInv ==
  ASSUME Inv, NEW p \in Procs, NEW t \in Trades, CancelDead(p, t)
  PROVE  Inv'
<1>1. /\ TypeOK /\ EndTransaction(p) /\ UNCHANGED <<status, credit, failures>>
      /\ trade' = [trade EXCEPT ![t] = Cancelled(t)] /\ lock[t] = Null
  BY DEF Inv, CancelDead, IsFree
<1>2. trade' \in [Trades -> TradeRow]
  BY <1>1, CancelledRow DEF TypeOK
<1>3. \A u \in Trades : trade'[u] = IF u = t THEN Cancelled(t) ELSE trade[u]
  BY <1>1 DEF TypeOK
<1> QED
  BY <1>1, <1>2, <1>3, CancelledRow, MoneylessCommit

LEMMA CancelByTraderKeepsInv ==
  ASSUME Inv, NEW p \in Procs, NEW t \in Trades, CancelByTrader(p, t)
  PROVE  Inv'
<1>1. /\ TypeOK /\ EndTransaction(p) /\ UNCHANGED <<status, credit, failures>>
      /\ trade' = [trade EXCEPT ![t] = Cancelled(t)] \/ trade' = trade
      /\ lock[t] = Null
  BY DEF Inv, CancelByTrader, IsFree
<1>2. trade' \in [Trades -> TradeRow]
  BY <1>1, CancelledRow DEF TypeOK
<1>3. \A u \in Trades : trade'[u] = trade[u] \/ (u = t /\ trade'[u] = Cancelled(t))
  <2>1. CASE trade' = trade
    BY <2>1
  <2>2. CASE trade' = [trade EXCEPT ![t] = Cancelled(t)]
    BY <1>1, <2>2 DEF TypeOK
  <2> QED
    BY <1>1, <2>1, <2>2
<1> QED
  BY <1>1, <1>2, <1>3, CancelledRow, MoneylessCommit

LEMMA CommitOpenKeepsInv ==
  ASSUME Inv, NEW p \in Procs, NEW t \in Trades, CommitOpen(p, t)
  PROVE  Inv'
<1> DEFINE row == [Absent EXCEPT !.status = "open", !.lots = MaxLots,
                                 !.open = session[p].price]
<1>1. /\ TypeOK /\ EndTransaction(p) /\ UNCHANGED <<status, credit, failures>>
      /\ trade' = [trade EXCEPT ![t] = row] /\ trade[t] = Absent
      /\ session[p].price \in Int
  BY DEF Inv, CommitOpen, SessionInv, JobInv, Runs
<1>2. /\ row \in TradeRow /\ row.status = "open" /\ row.lots = MaxLots
      /\ row.open # Null /\ row.pnl = Null
      /\ Absent.pnl = Null /\ Absent.open = Null
  BY <1>1, CoreAssumption DEF Absent, TradeRow, TradeStatus
<1>3. /\ trade' \in [Trades -> TradeRow]
      /\ \A u \in Trades : trade'[u] = IF u = t THEN row ELSE trade[u]
  BY <1>1, <1>2 DEF TypeOK
<1> QED
  BY <1>1, <1>2, <1>3, CoreAssumption, MoneylessCommit DEF Booked

LEMMA CommitOrderKeepsInv ==
  ASSUME Inv, NEW p \in Procs, NEW t \in Trades, CommitOrder(p, t)
  PROVE  Inv'
<1> DEFINE row == [Absent EXCEPT !.status = "pending", !.lots = MaxLots]
<1>1. /\ TypeOK /\ EndTransaction(p) /\ UNCHANGED <<status, credit, failures>>
      /\ trade' = [trade EXCEPT ![t] = row] /\ trade[t] = Absent
  BY DEF Inv, CommitOrder
<1>2. /\ row \in TradeRow /\ row.status = "pending" /\ row.lots = MaxLots
      /\ row.open = Null /\ row.pnl = Null
      /\ Absent.pnl = Null /\ Absent.open = Null
  BY CoreAssumption DEF Absent, TradeRow, TradeStatus
<1>3. /\ trade' \in [Trades -> TradeRow]
      /\ \A u \in Trades : trade'[u] = IF u = t THEN row ELSE trade[u]
  BY <1>1, <1>2 DEF TypeOK
<1> QED
  BY <1>1, <1>2, <1>3, CoreAssumption, MoneylessCommit DEF Booked

LEMMA CommitOcoKeepsInv ==
  ASSUME Inv, NEW p \in Procs, NEW t \in Trades, NEW u \in Trades, CommitOco(p, t, u)
  PROVE  Inv'
<1> DEFINE leg(other) == [Absent EXCEPT !.status = "pending", !.lots = MaxLots,
                                        !.sibling = other]
<1>1. /\ TypeOK /\ EndTransaction(p) /\ UNCHANGED <<status, credit, failures>>
      /\ trade' = [trade EXCEPT ![t] = leg(u), ![u] = leg(t)]
      /\ trade[t] = Absent /\ trade[u] = Absent
  BY DEF Inv, CommitOco
<1>2. \A o \in Trades : /\ leg(o) \in TradeRow /\ leg(o).status = "pending"
                        /\ leg(o).lots = MaxLots /\ leg(o).open = Null /\ leg(o).pnl = Null
  BY CoreAssumption DEF Absent, TradeRow, TradeStatus
<1>3. Absent.pnl = Null /\ Absent.open = Null
  BY DEF Absent
<1>4. /\ trade' \in [Trades -> TradeRow]
      /\ \A r \in Trades : trade'[r] = IF r = u THEN leg(t)
                                       ELSE IF r = t THEN leg(u) ELSE trade[r]
  BY <1>1, <1>2 DEF TypeOK
<1> HIDE DEF leg
<1>5. ASSUME NEW r \in Trades
      PROVE  \/ trade'[r] = trade[r]
             \/ /\ trade[r] = Absent
                /\ trade'[r].pnl = trade[r].pnl /\ trade'[r].open = trade[r].open
                /\ ~Booked(r) /\ trade'[r].lots > 0
                /\ trade'[r].status = "pending" /\ trade'[r].open = Null
  <2>1. CASE r = u
    BY <1>1, <1>2, <1>3, <1>4, <2>1, CoreAssumption DEF Booked
  <2>2. CASE r = t /\ r # u
    BY <1>1, <1>2, <1>3, <1>4, <2>2, CoreAssumption DEF Booked
  <2> QED
    BY <1>4, <2>1, <2>2
<1> QED
  BY <1>1, <1>4, <1>5, MoneylessCommit
(* A partial close books the closed lots on a new row of the same account. *)
LEMMA CommitPartialCloseKeepsInv ==
  ASSUME Inv, NEW p \in Procs, NEW t \in Trades, NEW child \in Trades,
         CommitPartialClose(p, t, child)
  PROVE  Inv'
<1> DEFINE n == session[p].ask
           px == session[p].price
           pnl == Pnl(n, trade[t].open, px)
           part == [trade[t] EXCEPT !.lots = n, !.sibling = Null]
           rest == [trade[t] EXCEPT !.lots = @ - n]
           booked == [part EXCEPT !.status = "closed", !.close = px, !.pnl = pnl]
<1>1. /\ TypeOK /\ LedgerExact /\ Unsettled /\ CloserInv(p) /\ JobInv(p)
      /\ At(p, "balance") /\ Runs(p, {"close"}) /\ t \in session[p].rows
      /\ n < session[p].seen[t] /\ session[p] \in Job
      /\ EndTransaction(p) /\ UNCHANGED <<status, failures>>
      /\ trade[child] = Absent
  BY DEF CommitPartialClose, Inv, SessionInv, TypeOK
<1>2. /\ lock[t] = p /\ trade[t].status = "open" /\ n < trade[t].lots /\ n \in Nat
      /\ px \in Int
  BY <1>1 DEF CloserInv, JobInv, Runs, Job
<1>3. /\ trade[t] \in TradeRow /\ trade[t].open \in Int /\ trade[t].lots \in Nat
      /\ trade[t].pnl = Null /\ trade[t].open # Null
  BY <1>1, <1>2 DEF TypeOK, TradeRow, Unsettled, Booked
<1>4. pnl \in Int
  BY <1>2, <1>3 DEF Pnl
<1>5. /\ Absent.status = "none" /\ Absent.pnl = Null /\ Absent.open = Null
      /\ t # child
  BY <1>1, <1>2 DEF Absent
<1>6. /\ rest \in TradeRow /\ rest.status = "open" /\ rest.lots > 0
      /\ rest.pnl = Null /\ rest.open = trade[t].open
      /\ booked \in TradeRow /\ booked.status = "closed"
      /\ booked.pnl = pnl /\ booked.open = trade[t].open
  <2> HIDE DEF pnl
  <2>1. trade[t].lots - n \in Nat /\ trade[t].lots - n > 0
    BY <1>2, <1>3
  <2>2. part \in TradeRow /\ part.open = trade[t].open
    BY <1>2, <1>3, CoreAssumption DEF TradeRow
  <2> HIDE DEF part
  <2>3. /\ booked \in TradeRow /\ booked.status = "closed"
        /\ booked.pnl = pnl /\ booked.open = trade[t].open
    BY <1>2, <1>4, <2>2 DEF TradeRow, TradeStatus
  <2>4. /\ rest \in TradeRow /\ rest.status = "open" /\ rest.lots = trade[t].lots - n
        /\ rest.pnl = Null /\ rest.open = trade[t].open
    BY <1>2, <1>3, <2>1 DEF TradeRow
  <2> QED
    BY <2>1, <2>3, <2>4
<1>7. /\ trade' = [trade EXCEPT ![t] = rest, ![child] = booked]
      /\ credit' = [credit EXCEPT ![child] = @ + pnl]
  BY <1>1, <1>3 DEF CommitPartialClose, TypeOK, TradeRow
<1> HIDE DEF rest, booked, pnl
<1>8. /\ trade' \in [Trades -> TradeRow] /\ credit' \in [Trades -> Int]
      /\ \A r \in Trades : /\ trade'[r] = IF r = child THEN booked
                                          ELSE IF r = t THEN rest ELSE trade[r]
                           /\ credit'[r] = IF r = child THEN credit[r] + pnl ELSE credit[r]
  BY <1>1, <1>4, <1>6, <1>7 DEF TypeOK
<1>9. LedgerExact'
  <2>1. credit[child] = 0 /\ credit[t] = 0 /\ pnl # Null
    BY <1>1, <1>3, <1>4, <1>5, CoreAssumption DEF LedgerExact, Booked
  <2>2. ASSUME NEW r \in Trades
        PROVE  credit'[r] = IF trade'[r].pnl # Null THEN trade'[r].pnl ELSE 0
    <3>1. credit[r] = IF trade[r].pnl # Null THEN trade[r].pnl ELSE 0
      BY <1>1 DEF LedgerExact, Booked
    <3> QED
      BY <1>4, <1>5, <1>6, <1>8, <2>1, <3>1
  <2> QED
    BY <2>2 DEF LedgerExact, Booked
<1>10. Unsettled' /\ \A r \in Trades : trade'[r].status \in {"open", "closed"}
                                         => trade'[r].open # Null
  BY <1>1, <1>3, <1>6, <1>8 DEF Unsettled, Booked, TypeOK
<1>11. \A r \in Trades : \/ trade'[r] = trade[r]
                         \/ trade[r] = Absent
                         \/ /\ lock[r] \in {p, Null}
                            /\ \/ /\ trade'[r].pnl = trade[r].pnl
                                  /\ trade'[r].open = trade[r].open
                               \/ lock[AccountOf[r]] = p
                               \/ trade[r].open = Null
  BY <1>1, <1>2, <1>3, <1>6, <1>8
<1> QED
  BY <1>1, <1>8, <1>9, <1>10, <1>11, CommitStep DEF TypeOK
-----------------------------------------------------------------------------
(* The jobs a session can start with. *)
LEMMA StartJobKeepsInv ==
  ASSUME Inv, NEW p \in Procs, StartJob(p)
  PROVE  Inv'
<1>1. /\ Idle \in Job /\ Idle.op = "none" /\ Idle.pc = "idle" /\ Idle.rows = {}
      /\ Idle.drop = {} /\ Lots \in [Trades -> Nat] /\ Prices \subseteq Int
      /\ \A n \in 1..MaxLots : n \in Nat
  BY IdleType, CoreAssumption DEF Inv, TypeOK, TradeRow, Lots
<1>2. ASSUME NEW px \in Prices, NEW S \in SUBSET Trades, TriggerClose(p, S, px)
      PROVE  Inv'
  <2> DEFINE job == [Idle EXCEPT !.op = "trigger", !.pc = "lock", !.rows = S,
                                 !.seen = Lots, !.price = px]
  <2>1. job \in Job /\ job.pc = "lock" /\ job.op = "trigger" /\ job.drop = {}
    BY <1>1 DEF Job, PCs, OpNames
  <2>2. Begin(p, job)
    BY <1>2 DEF TriggerClose
  <2> QED
    BY <2>1, <2>2, BeginKeepsInv
<1>3. ASSUME NEW px \in Prices, NEW t \in Trades, BatchClose(p, t, px)
      PROVE  Inv'
  <2> DEFINE job == [Idle EXCEPT !.op = "batch", !.pc = "lock", !.rows = {t},
                                 !.seen = Lots, !.price = px]
  <2>1. job \in Job /\ job.pc = "lock" /\ job.op = "batch" /\ job.drop = {}
    BY <1>1 DEF Job, PCs, OpNames
  <2>2. Begin(p, job)
    BY <1>3 DEF BatchClose
  <2> QED
    BY <2>1, <2>2, BeginKeepsInv
<1>4. ASSUME NEW px \in Prices, NEW t \in Trades, FillPending(p, t, px)
      PROVE  Inv'
  <2> DEFINE job == [Idle EXCEPT !.op = "fill", !.pc = "lock", !.rows = {t}, !.price = px]
  <2>1. /\ job \in Job /\ job.pc = "lock" /\ job.op = "fill" /\ job.drop = {}
        /\ job.price \in Int
    BY <1>1 DEF Job, PCs, OpNames
  <2>2. Begin(p, job)
    BY <1>4 DEF FillPending
  <2> QED
    BY <2>1, <2>2, BeginKeepsInv
<1>5. ASSUME NEW px \in Prices, NEW t \in Trades, NEW n \in 1..MaxLots,
             ManualClose(p, t, px, n)
      PROVE  Inv'
  <2> DEFINE job == [Idle EXCEPT !.op = "close", !.pc = "lock", !.rows = {t},
                                 !.price = px, !.ask = n]
  <2>1. /\ job \in Job /\ job.pc = "lock" /\ job.op = "close" /\ job.drop = {}
        /\ job.price \in Int
    BY <1>1 DEF Job, PCs, OpNames
  <2>2. Begin(p, job)
    BY <1>5 DEF ManualClose
  <2> QED
    BY <2>1, <2>2, BeginKeepsInv
<1>6. ASSUME NEW px \in Prices, NEW a \in Accounts, NEW op \in {"market", "order", "oco"},
             RequestOpen(p, op, a, px)
      PROVE  Inv'
  <2> DEFINE job == [Idle EXCEPT !.op = op, !.pc = "waitAccount", !.acct = a,
                                 !.price = px, !.want = {a}]
  <2>1. /\ job \in Job /\ job.pc = "waitAccount" /\ job.op = op /\ job.drop = {}
        /\ job.price \in Int /\ job.acct = a
    BY <1>1 DEF Job, PCs, OpNames, Row
  <2>2. Begin(p, job)
    BY <1>6 DEF RequestOpen
  <2> QED
    BY <2>1, <2>2, BeginKeepsInv
<1>7. ASSUME NEW a \in Accounts, NEW px \in Prices \cup {Null}, NEW op \in DOMAIN Outcome,
             EndAccount(p, op, a, px)
      PROVE  Inv'
  <2> DEFINE job == [Idle EXCEPT !.op = op, !.pc = "lockAccount", !.acct = a, !.price = px]
  <2>1. op \in {"autoFail", "autoPass", "failRealised", "expire", "pass"}
    BY DEF Outcome
  <2>2. /\ job \in Job /\ job.pc = "lockAccount" /\ job.op = op /\ job.drop = {}
        /\ job.acct = a /\ job.rows = {}
    BY <1>1, <2>1 DEF Job, PCs, OpNames
  <2>3. Begin(p, job)
    BY <1>7 DEF EndAccount
  <2> QED
    BY <2>1, <2>2, <2>3, BeginKeepsInv
<1>8. ASSUME NEW t \in Trades, NEW op \in {"cancelDead", "cancel"}, DecideCancel(p, op, t)
      PROVE  Inv'
  <2> DEFINE job == [Idle EXCEPT !.op = op, !.pc = "update", !.rows = {t}]
  <2>1. job \in Job /\ job.pc = "update" /\ job.op = op /\ job.drop = {}
    BY <1>1 DEF Job, PCs, OpNames
  <2>2. Begin(p, job)
    BY <1>8 DEF DecideCancel
  <2> QED
    BY <2>1, <2>2, BeginKeepsInv
<1> QED
  BY <1>2, <1>3, <1>4, <1>5, <1>6, <1>7, <1>8 DEF StartJob

LEMMA InitHasInv == Init => Inv
<1> SUFFICES ASSUME Init PROVE Inv
  OBVIOUS
<1>1. PICK px \in Prices : trade = [t \in Trades |->
       IF t \in InitOpen
       THEN [Absent EXCEPT !.status = "open", !.lots = MaxLots, !.open = px]
       ELSE IF t \in InitPending
       THEN [Absent EXCEPT !.status = "pending", !.lots = MaxLots, !.sibling = Sibling[t]]
       ELSE Absent]
  BY DEF Init
<1>2. \A t \in Trades :
        /\ trade[t] \in TradeRow /\ trade[t].pnl = Null
        /\ trade[t].status \in {"none", "pending", "open"}
        /\ trade[t].status = "open" => trade[t].open # Null
        /\ trade[t].status = "pending" => trade[t].open = Null
        /\ trade[t].status \in {"pending", "open"} => trade[t].lots > 0
  <2> DEFINE opened == [Absent EXCEPT !.status = "open", !.lots = MaxLots, !.open = px]
             order(t) == [Absent EXCEPT !.status = "pending", !.lots = MaxLots,
                                        !.sibling = Sibling[t]]
  <2>0. /\ px \in Int /\ px # Null /\ MaxLots \in Nat /\ MaxLots > 0
        /\ \A t \in Trades : Sibling[t] \in Trades \cup {Null}
    BY CoreAssumption
  <2>1. /\ opened \in TradeRow /\ opened.pnl = Null /\ opened.status = "open"
        /\ opened.open # Null /\ opened.lots > 0
    BY <2>0 DEF Absent, TradeRow, TradeStatus
  <2>2. \A t \in Trades :
          /\ order(t) \in TradeRow /\ order(t).pnl = Null /\ order(t).status = "pending"
          /\ order(t).open = Null /\ order(t).lots > 0
    BY <2>0 DEF Absent, TradeRow, TradeStatus
  <2>3. Absent \in TradeRow /\ Absent.pnl = Null /\ Absent.status = "none"
    BY CoreAssumption DEF Absent, TradeRow, TradeStatus
  <2>4. \A t \in Trades : trade[t] = IF t \in InitOpen THEN opened
                          ELSE IF t \in InitPending THEN order(t) ELSE Absent
    BY <1>1
  <2> HIDE DEF opened, order
  <2> QED
    BY <2>1, <2>2, <2>3, <2>4
<1>3. trade \in [Trades -> TradeRow]
  BY <1>1, <1>2
<1>4. TypeOK
  <2>1. /\ status \in [Accounts -> AccountStatus] /\ credit \in [Trades -> Int]
        /\ failures \in Nat
    <3>1. /\ status = [a \in Accounts |-> "active"] /\ failures = 0
          /\ credit = [t \in Trades |-> 0]
      BY DEF Init
    <3> QED
      BY <3>1 DEF AccountStatus
  <2>2. lock \in [Row -> Procs \cup {Null}] /\ session \in [Procs -> Job]
    BY IdleType DEF Init
  <2> QED
    BY <1>2, <1>3, <2>1, <2>2 DEF TypeOK
<1>5. LedgerExact /\ Unsettled
  BY <1>2 DEF Init, LedgerExact, Unsettled, Booked
<1>6. \A p \in Procs : SessionInv(p)
  BY IdleType
  DEF Init, SessionInv, CloserInv, EndingInv, Ending, FillInv, DropInv, JobInv, At, Runs
<1> QED
  BY <1>4, <1>5, <1>6 DEF Inv

LEMMA NextKeepsInv == Inv /\ [Next]_vars => Inv'
<1> SUFFICES ASSUME Inv, [Next]_vars PROVE Inv'
  OBVIOUS
<1>1. CASE UNCHANGED vars
  BY <1>1 DEF vars, tables, Inv, TypeOK, LedgerExact, Unsettled, Booked, SessionInv,
     CloserInv, EndingInv, Ending, FillInv, DropInv, JobInv, Unbooked, At, Runs
<1>2. ASSUME NEW p \in Procs, StartJob(p) PROVE Inv'
  BY <1>2, StartJobKeepsInv
<1>3. ASSUME NEW p \in Procs, Acquire(p) PROVE Inv'
  BY <1>3, LockBalanceKeepsInv, WaitOpenKeepsInv, WaitPendingKeepsInv,
     CancelDeadKeepsInv, CancelByTraderKeepsInv, LockForOpenKeepsInv DEF Acquire
<1>4. ASSUME NEW p \in Procs, NEW t \in Trades, NEW u \in Trades,
             CommitPartialClose(p, t, u)
      PROVE  Inv'
  BY <1>4, CommitPartialCloseKeepsInv
<1>5. ASSUME NEW p \in Procs, Proceed(p) PROVE Inv'
  BY <1>4, <1>5, LockRowsKeepsInv, LockAccountKeepsInv, LockOrderKeepsInv,
     SelectOpenKeepsInv, SelectPendingKeepsInv, CountOpenKeepsInv, CheckCapKeepsInv,
     CommitCloseKeepsInv, CommitOutcomeKeepsInv, CommitPassKeepsInv,
     CommitFillKeepsInv, CommitRefusalKeepsInv, ValidateOrderKeepsInv,
     CommitOpenKeepsInv, CommitOrderKeepsInv, CommitOcoKeepsInv DEF Proceed
<1>6. ASSUME NEW p \in Procs, Rollback(p) PROVE Inv'
  BY <1>6, GiveUpKeepsInv DEF Rollback
<1>7. ASSUME NEW p \in Procs, NEW t \in Trades, SkipUnpriced(p, t) PROVE Inv'
  BY <1>7, SkipUnpricedKeepsInv
<1> QED
  BY <1>1, <1>2, <1>3, <1>5, <1>6, <1>7 DEF Next
-----------------------------------------------------------------------------
(* What a step can do to an account's status and to the failure count. *)
Outcomes(a, o) ==
  /\ status[a] = "active" /\ o \in {"failed", "expired", "passed"}
  /\ status' = [status EXCEPT ![a] = o]
  /\ failures' = IF o = "failed" THEN failures + 1 ELSE failures

LEMMA StatusStep ==
  ASSUME Inv, [Next]_vars
  PROVE  \/ UNCHANGED <<status, failures>>
         \/ \E a \in Accounts, o \in {"failed", "expired", "passed"} : Outcomes(a, o)
<1>1. CASE UNCHANGED vars
  BY <1>1 DEF vars, tables
<1>2. ASSUME NEW p \in Procs, CommitOutcome(p)
      PROVE  \E a \in Accounts, o \in {"failed", "expired", "passed"} : Outcomes(a, o)
  <2> DEFINE a == session[p].acct
             o == Outcome[session[p].op]
  <2>1. Ending(p) /\ Runs(p, OfOutcome)
    BY <1>2 DEF CommitOutcome, Ending, OfOutcome, Runs
  <2>2. a \in Accounts /\ status[a] = "active"
    BY <2>1 DEF Inv, SessionInv, EndingInv
  <2>3. o \in {"failed", "expired", "passed"}
    BY <2>1 DEF Outcome, OfOutcome, AutoClosers, Realised, Runs
  <2>4. Outcomes(a, o)
    BY <1>2, <2>2, <2>3 DEF CommitOutcome, Outcomes
  <2> QED
    BY <2>2, <2>3, <2>4
<1>3. ASSUME NEW p \in Procs, CommitPass(p)
      PROVE  \E a \in Accounts, o \in {"failed", "expired", "passed"} : Outcomes(a, o)
  <2>1. Ending(p)
    BY <1>3 DEF CommitPass, Ending
  <2>2. session[p].acct \in Accounts /\ status[session[p].acct] = "active"
    BY <2>1 DEF Inv, SessionInv, EndingInv
  <2>3. Outcomes(session[p].acct, "passed")
    BY <1>3, <2>2 DEF CommitPass, Outcomes
  <2> QED
    BY <2>2, <2>3
<1>4. ASSUME NEW p \in Procs, StartJob(p) PROVE UNCHANGED <<status, failures>>
  BY <1>4 DEF StartJob, TriggerClose, BatchClose, FillPending, ManualClose,
     RequestOpen, EndAccount, DecideCancel, Begin, tables
<1>5. ASSUME NEW p \in Procs, Acquire(p) PROVE UNCHANGED <<status, failures>>
  BY <1>5 DEF Acquire, LockBalance, WaitOpen, WaitPending, CancelDead,
     CancelByTrader, LockForOpen, GiveUp, tables
<1>6. ASSUME NEW p \in Procs, Proceed(p), ~CommitOutcome(p), ~CommitPass(p)
      PROVE  UNCHANGED <<status, failures>>
  BY <1>6 DEF Proceed, LockRows, LockAccount, LockOrder, SelectOpen, SelectPending,
     CountOpen, CheckCap, CommitClose, CommitFill, CommitRefusal, ValidateOrder,
     CommitOpen, CommitOrder, CommitPartialClose, CommitOco, GiveUp, tables
<1>7. ASSUME NEW p \in Procs, Rollback(p) PROVE UNCHANGED <<status, failures>>
  BY <1>7 DEF Rollback, GiveUp, tables
<1>8. ASSUME NEW p \in Procs, NEW t \in Trades, SkipUnpriced(p, t)
      PROVE  UNCHANGED <<status, failures>>
  BY <1>8 DEF SkipUnpriced, tables
<1> QED
  BY <1>1, <1>2, <1>3, <1>4, <1>5, <1>6, <1>7, <1>8 DEF Next

(* What a step can do to a row that has been booked. *)
LEMMA BookedStep ==
  ASSUME Inv, [Next]_vars, NEW r \in Trades, Booked(r)
  PROVE  trade'[r].pnl = trade[r].pnl /\ trade'[r].close = trade[r].close
<1>0. TypeOK /\ trade[r].pnl # Null /\ trade[r] \in TradeRow /\ r \in Trades
  BY DEF Inv, Booked, TypeOK
<1> DEFINE Kept == trade'[r].pnl = trade[r].pnl /\ trade'[r].close = trade[r].close
<1>1. CASE UNCHANGED vars
  BY <1>1 DEF vars, tables
<1>2. ASSUME NEW p \in Procs, CommitClose(p) PROVE Kept
  <2>1. /\ At(p, "balance") /\ CloserInv(p) /\ Unsettled
        /\ Settle(session[p].rows, {}, session[p].seen, session[p].price)
    BY <1>2 DEF CommitClose, Inv, SessionInv
  <2>2. r \notin session[p].rows
    BY <2>1, <1>0 DEF CloserInv, Unsettled, Booked
  <2> QED
    BY <2>1, <2>2 DEF Settle
<1>3. ASSUME NEW p \in Procs, CommitOutcome(p) PROVE Kept
  <2>1. /\ Ending(p) /\ EndingInv(p) /\ Unsettled /\ DropInv(p)
        /\ Settle(session[p].rows, session[p].drop, session[p].seen, session[p].price)
    BY <1>3 DEF CommitOutcome, Inv, SessionInv, Ending, Runs, OfOutcome
  <2>2. r \notin session[p].rows /\ r \notin session[p].drop
    BY <2>1, <1>0 DEF EndingInv, Unbooked, DropInv, Unsettled
  <2> QED
    BY <2>1, <2>2 DEF Settle
<1>4. ASSUME NEW p \in Procs, NEW t \in Trades, NEW u \in Trades,
             CommitPartialClose(p, t, u)
      PROVE  Kept
  <2>1. /\ At(p, "balance") /\ CloserInv(p) /\ Unsettled /\ t \in session[p].rows
        /\ trade[u] = Absent
    BY <1>4 DEF CommitPartialClose, Inv, SessionInv
  <2>2. r # t /\ r # u
    BY <2>1, <1>0 DEF CloserInv, Unsettled, Booked, Absent
  <2> QED
    BY <1>0, <1>4, <2>2 DEF CommitPartialClose, TypeOK
<1>5. ASSUME NEW p \in Procs, CommitFill(p) PROVE Kept
  <2>1. Cancelled(r).pnl = trade[r].pnl /\ Cancelled(r).close = trade[r].close
    BY <1>0 DEF Cancelled, TradeRow
  <2> QED
    BY <1>0, <1>5, <2>1 DEF CommitFill, TradeRow
<1>6. ASSUME NEW p \in Procs, CommitRefusal(p) PROVE Kept
  BY <1>0, <1>6 DEF CommitRefusal, Cancelled, TradeRow
<1>7. ASSUME NEW p \in Procs, NEW t \in Trades, CancelDead(p, t) PROVE Kept
  BY <1>0, <1>7 DEF CancelDead, Cancelled, TradeRow, TypeOK
<1>8. ASSUME NEW p \in Procs, NEW t \in Trades, CancelByTrader(p, t) PROVE Kept
  BY <1>0, <1>8 DEF CancelByTrader, Cancelled, TradeRow, TypeOK
<1>9. ASSUME NEW p \in Procs, NEW t \in Trades, NEW u \in Trades,
             CommitOpen(p, t) \/ CommitOrder(p, t) \/ CommitOco(p, t, u)
      PROVE  Kept
  <2>1. trade[t] = Absent => r # t
    BY <1>0 DEF Absent
  <2>2. trade[u] = Absent => r # u
    BY <1>0 DEF Absent
  <2> QED
    BY <1>0, <1>9, <2>1, <2>2 DEF CommitOpen, CommitOrder, CommitOco, TypeOK
<1>10. ASSUME NEW p \in Procs, StartJob(p) PROVE Kept
  BY <1>10 DEF StartJob, TriggerClose, BatchClose, FillPending, ManualClose,
     RequestOpen, EndAccount, DecideCancel, Begin, tables
<1>11. ASSUME NEW p \in Procs, Acquire(p) PROVE Kept
  BY <1>7, <1>8, <1>11 DEF Acquire, LockBalance, WaitOpen, WaitPending, LockForOpen,
     GiveUp, tables
<1>12. ASSUME NEW p \in Procs, Proceed(p) PROVE Kept
  BY <1>2, <1>3, <1>4, <1>5, <1>6, <1>9, <1>12
  DEF Proceed, LockRows, LockAccount, LockOrder, SelectOpen, SelectPending,
     CountOpen, CheckCap, CommitPass, ValidateOrder, GiveUp, tables
<1>13. ASSUME NEW p \in Procs, Rollback(p) PROVE Kept
  BY <1>13 DEF Rollback, GiveUp, tables
<1>14. ASSUME NEW p \in Procs, NEW t \in Trades, SkipUnpriced(p, t) PROVE Kept
  BY <1>14 DEF SkipUnpriced, tables
<1> QED
  BY <1>1, <1>10, <1>11, <1>12, <1>13, <1>14 DEF Next
-----------------------------------------------------------------------------
(* Every reachable state satisfies the inductive invariant. *)
THEOREM Invariance == Spec => []Inv
BY InitHasInv, NextKeepsInv, PTL DEF Spec

(* The tables, the row locks and the sessions keep their shape. *)
THEOREM TypeCorrect == Spec => []TypeOK
<1>1. Inv => TypeOK
  BY DEF Inv
<1> QED
  BY <1>1, Invariance, PTL

(* The ledger identity of domain/account.js: whichever closers, auto-closers *)
(* and challenge checks race, current_balance is the starting balance plus   *)
(* the PnL of the rows booked on the account.                                *)
THEOREM LedgerCorrect == Spec => []LedgerBalanced
<1>1. Inv => LedgerBalanced
  <2> SUFFICES ASSUME Inv, NEW a \in Accounts PROVE Balance(a) = BookedBalance(a)
    BY DEF LedgerBalanced
  <2>1. \A t \in Trades :
          (IF AccountOf[t] = a THEN credit[t] ELSE 0)
            = (IF AccountOf[t] = a /\ Booked(t) THEN trade[t].pnl ELSE 0)
    BY DEF Inv, LedgerExact
  <2>2. [t \in Trades |-> IF AccountOf[t] = a THEN credit[t] ELSE 0]
          = [t \in Trades |-> IF AccountOf[t] = a /\ Booked(t) THEN trade[t].pnl ELSE 0]
    BY <2>1
  <2> QED
    BY <2>2 DEF Balance, BookedBalance
<1> QED
  BY <1>1, Invariance, PTL

(* A row's PnL and close price, once written, are never written again. *)
THEOREM SettledOnceHolds == Spec => SettledOnce
<1>1. Inv /\ [Next]_vars => [\A t \in Trades : Booked(t) =>
        trade'[t].pnl = trade[t].pnl /\ trade'[t].close = trade[t].close]_vars
  BY BookedStep
<1> QED
  BY <1>1, Invariance, PTL DEF Spec, SettledOnce

(* An account that has left 'active' keeps its outcome. *)
THEOREM OutcomeFinalHolds == Spec => OutcomeFinal
<1>1. Inv /\ [Next]_vars =>
        [\A a \in Accounts : status[a] # "active" => status'[a] = status[a]]_vars
  <2> SUFFICES ASSUME Inv, [Next]_vars, NEW a \in Accounts, status[a] # "active"
               PROVE  status'[a] = status[a]
    OBVIOUS
  <2> QED
    BY StatusStep DEF Outcomes, Inv, TypeOK
<1> QED
  BY <1>1, Invariance, PTL DEF Spec, OutcomeFinal

(* bbook_pnl.accounts_failed is the number of failed accounts. *)
THEOREM FailureCountedHolds == Spec => []FailureCounted
<1> DEFINE Failed == {a \in Accounts : status[a] = "failed"}
<1>1. Init => FailureCounted
  <2> SUFFICES ASSUME Init PROVE FailureCounted
    OBVIOUS
  <2>1. Failed = {} /\ failures = 0
    BY DEF Init
  <2> QED
    BY <2>1, FS_EmptySet DEF FailureCounted
<1>2. Inv /\ FailureCounted /\ [Next]_vars => FailureCounted'
  <2> SUFFICES ASSUME Inv, FailureCounted, [Next]_vars PROVE FailureCounted'
    OBVIOUS
  <2>1. CASE UNCHANGED <<status, failures>>
    BY <2>1 DEF FailureCounted
  <2>2. ASSUME NEW a \in Accounts, NEW o \in {"failed", "expired", "passed"},
               Outcomes(a, o)
        PROVE  FailureCounted'
    <3>1. /\ \A b \in Accounts : status'[b] = IF b = a THEN o ELSE status[b]
          /\ status[a] = "active"
      BY <2>2 DEF Outcomes, Inv, TypeOK
    <3>2. IsFiniteSet(Failed)
      BY CoreAssumption, FS_Subset
    <3>3. CASE o = "failed"
      <4>1. Failed' = Failed \cup {a} /\ a \notin Failed
        BY <3>1, <3>3
      <4>2. Cardinality(Failed') = Cardinality(Failed) + 1
        BY <3>2, <4>1, FS_AddElement
      <4> QED
        BY <2>2, <3>3, <4>2 DEF Outcomes, FailureCounted
    <3>4. CASE o # "failed"
      <4>1. Failed' = Failed
        BY <3>1, <3>4
      <4> QED
        BY <2>2, <3>4, <4>1 DEF Outcomes, FailureCounted
    <3> QED
      BY <3>3, <3>4
  <2> QED
    BY <2>1, <2>2, StatusStep
<1> QED
  BY <1>1, <1>2, Invariance, PTL DEF Spec
-----------------------------------------------------------------------------
(* Orders.  A second invariant, on top of the first: a fill that has passed *)
(* its checks has its sibling in hand or has found it dead, and a request   *)
(* that has passed its checks holds the account, where nobody else inserts. *)

(* The two legs of an OCO pair name each other. *)
Paired == \A t, u \in Trades :
  trade[t].sibling = u => u # t /\ trade[u].sibling = t

(* Once one leg is filled the other is neither filled nor still waiting. *)
OneLeg == \A t, u \in Trades :
  trade[t].sibling = u /\ Filled(t) => ~Filled(u) /\ trade[u].status # "pending"

(* A fill is about one order, and has its sibling in hand, is waiting for it, *)
(* or has found it dead.                                                      *)
FillingInv(p) ==
  Runs(p, {"fill"}) =>
    /\ \A t, u \in session[p].rows : t = u
    /\ At(p, "waitPending") =>
         \A t \in session[p].rows, u \in Trades :
           trade[t].sibling = u /\ trade[u].status = "pending" =>
             u \in session[p].want \cup session[p].drop

(* A request past its lock holds the account, and past the check a slot of it. *)
OpeningInv(p) ==
  /\ At(p, "snapshot") => session[p].acct \in Accounts /\ lock[session[p].acct] = p
  /\ At(p, "commit") /\ Runs(p, {"market", "order", "oco"}) =>
       /\ session[p].acct \in Accounts /\ lock[session[p].acct] = p
       /\ MaxOpen > 0 => Cardinality(Exposure(session[p].acct)) < MaxOpen

OrderSession(p) == FillingInv(p) /\ OpeningInv(p)

OrderInv == Paired /\ OneLeg /\ CapHolds /\ \A p \in Procs : OrderSession(p)
-----------------------------------------------------------------------------
(* How a transaction leaves a row: the order it was, or worse; or a new row  *)
(* that books a partial close.                                               *)
SameOrder(r) == /\ trade'[r].sibling = trade[r].sibling
                /\ trade'[r].status = "pending" => trade[r].status = "pending"
                /\ trade'[r].status = "open" => trade[r].status \in {"pending", "open"}
Kept(r)      == SameOrder(r) /\ trade'[r].open = trade[r].open
Child(r)     == /\ trade[r] = Absent
                /\ trade'[r].status = "closed" /\ trade'[r].sibling = Null

Untouched(q) == /\ session'[q] = session[q]
                /\ \A r \in Row : lock[r] = q => lock'[r] = q

Statement(p) == \/ StartJob(p) \/ Acquire(p) \/ Proceed(p) \/ Rollback(p)
                \/ \E t \in Trades : SkipUnpriced(p, t)

(* No statement changes another session or takes a lock from it. *)
LEMMA OthersUntouched ==
  ASSUME Inv, NEW p \in Procs, NEW q \in Procs \ {p}, Statement(p)
  PROVE  Untouched(q)
<1>0. /\ session \in [Procs -> Job] /\ lock \in [Row -> Procs \cup {Null}] /\ p # q
      /\ q # Null
  BY CoreAssumption DEF Inv, TypeOK
<1>1. ASSUME NEW job, Become(p, job) PROVE session'[q] = session[q]
  BY <1>0, <1>1 DEF Become
<1>2. ASSUME EndTransaction(p) PROVE Untouched(q)
  BY <1>0, <1>1, <1>2 DEF EndTransaction, Untouched
<1>3. ASSUME NEW job, Become(p, job), lock' = lock PROVE Untouched(q)
  BY <1>1, <1>3 DEF Untouched
<1>4. ASSUME NEW job, NEW R, Become(p, job), Taking(p, R), \A r \in R : IsFree(r)
      PROVE  Untouched(q)
  BY <1>0, <1>1, <1>4 DEF Untouched, Taking, IsFree
<1>5. ASSUME GiveUp(p) PROVE Untouched(q)
  BY <1>2, <1>5 DEF GiveUp
<1>6. CASE StartJob(p)
  BY <1>3, <1>6 DEF StartJob, TriggerClose, BatchClose, FillPending, ManualClose,
     RequestOpen, EndAccount, DecideCancel, Begin
<1>7. CASE Acquire(p)
  <2>1. ASSUME NEW a \in Accounts, LockBalance(p, a) PROVE Untouched(q)
    BY <1>4, <2>1 DEF LockBalance
  <2>2. ASSUME NEW t \in Trades, WaitOpen(p, t) PROVE Untouched(q)
    BY <1>3, <1>4, <2>2 DEF WaitOpen
  <2>3. ASSUME NEW t \in Trades, WaitPending(p, t) PROVE Untouched(q)
    BY <1>3, <1>4, <2>3 DEF WaitPending
  <2>4. ASSUME NEW t \in Trades, CancelDead(p, t) \/ CancelByTrader(p, t)
        PROVE  Untouched(q)
    BY <1>2, <2>4 DEF CancelDead, CancelByTrader
  <2>5. CASE LockForOpen(p)
    BY <1>4, <1>5, <2>5 DEF LockForOpen
  <2> QED
    BY <1>7, <2>1, <2>2, <2>3, <2>4, <2>5 DEF Acquire
<1>8. CASE Proceed(p)
  <2>1. CASE LockRows(p)
    BY <1>4, <1>5, <2>1 DEF LockRows
  <2>2. CASE LockAccount(p)
    BY <1>4, <1>5, <2>2 DEF LockAccount, Goto
  <2>3. CASE LockOrder(p)
    BY <1>4, <1>5, <2>3 DEF LockOrder, Goto
  <2>4. CASE SelectOpen(p) \/ SelectPending(p)
    BY <1>3, <2>4 DEF SelectOpen, SelectPending
  <2>5. CASE CountOpen(p) \/ CheckCap(p)
    BY <1>3, <1>5, <2>5 DEF CountOpen, CheckCap, Goto
  <2>6. CASE \E t \in Trades : ValidateOrder(p, t)
    BY <1>3, <2>6 DEF ValidateOrder
  <2> QED
    BY <1>2, <1>8, <2>1, <2>2, <2>3, <2>4, <2>5, <2>6
    DEF Proceed, CommitClose, CommitOutcome, CommitPass, CommitFill, CommitRefusal,
        CommitOpen, CommitOrder, CommitPartialClose, CommitOco
<1>9. CASE Rollback(p)
  BY <1>5, <1>9 DEF Rollback
<1>10. CASE \E t \in Trades : SkipUnpriced(p, t)
  BY <1>3, <1>10 DEF SkipUnpriced
<1> QED
  BY <1>6, <1>7, <1>8, <1>9, <1>10 DEF Statement

(* Rows that stay the orders they were keep the pairs and use no new slot. *)
LEMMA KeptOrders ==
  ASSUME Inv, OrderInv, \A r \in Trades : Kept(r) \/ Child(r)
  PROVE  Paired' /\ OneLeg'
<1>1. /\ \A r \in Trades : trade[r] = Absent => trade[r].sibling = Null
      /\ \A r \in Trades : r # Null
  BY CoreAssumption DEF Absent
<1>2. \A r \in Trades : trade'[r].sibling # Null => Kept(r)
  BY DEF Child
<1>3. \A r \in Trades : trade'[r].sibling = trade[r].sibling
  BY <1>1 DEF Child, Kept, SameOrder
<1>4. Paired'
  BY <1>3 DEF OrderInv, Paired
<1>5. OneLeg'
  <2> SUFFICES ASSUME NEW t \in Trades, NEW u \in Trades,
                      trade'[t].sibling = u, Filled(t)'
               PROVE  ~Filled(u)' /\ trade'[u].status # "pending"
    BY DEF OneLeg
  <2>1. trade[t].sibling = u /\ trade[u].sibling = t
    BY <1>3 DEF OrderInv, Paired
  <2>2. Kept(t) /\ Kept(u)
    BY <1>1, <1>2, <1>3, <2>1
  <2> QED
    BY <2>1, <2>2 DEF OrderInv, OneLeg, Kept, SameOrder, Filled
<1> QED
  BY <1>4, <1>5

LEMMA ExposureFinite ==
  ASSUME NEW a \in Accounts
  PROVE  /\ Exposure(a) \in SUBSET Trades /\ IsFiniteSet(Exposure(a))
         /\ IsFiniteSet(Commitments(a))
         /\ Cardinality(Commitments(a)) <= Cardinality(Exposure(a))
<1>1. Exposure(a) \in SUBSET Trades
  BY DEF Exposure, RowsOf
<1>2. IsFiniteSet(Exposure(a))
  BY <1>1, StartAssumption, FS_Subset
<1> DEFINE pair == [t \in Exposure(a) |-> {t, trade[t].sibling}]
<1>3. pair \in Surjection(Exposure(a), Commitments(a))
  BY DEF Commitments, Surjection
<1> QED
  BY <1>1, <1>2, <1>3, FS_Surjection

LEMMA KeptCap ==
  ASSUME CapHolds, \A r \in Trades : SameOrder(r) \/ Child(r)
  PROVE  CapHolds' /\ \A a \in Accounts : Exposure(a)' \subseteq Exposure(a)
<1> SUFFICES ASSUME NEW a \in Accounts
             PROVE  /\ MaxOpen > 0 => Cardinality(Commitments(a)') <= MaxOpen
                    /\ Exposure(a)' \subseteq Exposure(a)
  BY DEF CapHolds
<1>1. \A t \in Exposure(a)' :
        t \in Exposure(a) /\ {t, trade'[t].sibling} = {t, trade[t].sibling}
  BY DEF Exposure, RowsOf, SameOrder, Child
<1>2. Commitments(a)' \subseteq Commitments(a)
  BY <1>1 DEF Commitments
<1>3. Cardinality(Commitments(a)') <= Cardinality(Commitments(a))
  BY <1>2, ExposureFinite, FS_Subset
<1>4. Cardinality(Commitments(a)') \in Nat /\ Cardinality(Commitments(a)) \in Nat
  BY <1>2, ExposureFinite, FS_Subset, FS_CardinalityType
<1> QED
  BY <1>1, <1>3, <1>4, CoreAssumption DEF CapHolds

(* What a session knows of orders survives what the others do to them. *)
LEMMA OthersKeepOrders ==
  ASSUME Inv, OrderInv, NEW q \in Procs, Untouched(q),
         \A r \in Trades : SameOrder(r) \/ trade[r] = Absent,
         \A a \in Accounts : lock[a] = q => Exposure(a)' \subseteq Exposure(a)
  PROVE  OrderSession(q)'
<1>0. /\ session[q] \in Job /\ session[q].rows \subseteq Trades /\ OrderSession(q)
      /\ SessionInv(q)
  BY DEF Inv, TypeOK, Job, OrderInv
<1>1. FillingInv(q)'
  <2> SUFFICES ASSUME Runs(q, {"fill"}), At(q, "waitPending"),
                      NEW t \in session[q].rows, NEW u \in Trades,
                      trade'[t].sibling = u, trade'[u].status = "pending"
               PROVE  u \in session[q].want \cup session[q].drop
    BY <1>0 DEF OrderSession, FillingInv, Untouched, Runs, At
  <2>1. trade[t].status = "pending" /\ t \in Trades
    BY <1>0 DEF SessionInv, FillInv, At
  <2>2. trade[t].sibling = u
    BY <2>1 DEF SameOrder, Absent
  <2>3. trade[u].sibling = t /\ t # Null
    BY <2>1, <2>2, CoreAssumption DEF OrderInv, Paired
  <2>4. trade[u].status = "pending"
    BY <2>3 DEF SameOrder, Absent
  <2> QED
    BY <1>0, <2>2, <2>4 DEF OrderSession, FillingInv
<1>2. OpeningInv(q)'
  <2>1. ASSUME NEW a \in Accounts, lock[a] = q,
               MaxOpen > 0 => Cardinality(Exposure(a)) < MaxOpen
        PROVE  MaxOpen > 0 => Cardinality(Exposure(a)') < MaxOpen
    <3>1. Cardinality(Exposure(a)') <= Cardinality(Exposure(a))
      BY <2>1, ExposureFinite, FS_Subset
    <3>2. Cardinality(Exposure(a)') \in Nat /\ Cardinality(Exposure(a)) \in Nat
      BY <2>1, ExposureFinite, FS_Subset, FS_CardinalityType
    <3> QED
      BY <2>1, <3>1, <3>2, CoreAssumption
  <2> QED
    BY <1>0, <2>1 DEF OrderSession, OpeningInv, Untouched, Runs, At, Row
<1> QED
  BY <1>1, <1>2 DEF OrderSession

(* A statement that leaves every row the order it was, or books a child. *)
LEMMA KeepingStep ==
  ASSUME Inv, OrderInv, NEW p \in Procs, Statement(p),
         \A r \in Trades : Kept(r) \/ Child(r), OrderSession(p)'
  PROVE  OrderInv'
<1>1. \A r \in Trades : /\ SameOrder(r) \/ Child(r)
                        /\ SameOrder(r) \/ trade[r] = Absent
  BY DEF Kept, Child
<1>2. CapHolds' /\ \A a \in Accounts : Exposure(a)' \subseteq Exposure(a)
  BY <1>1, KeptCap DEF OrderInv
<1>3. ASSUME NEW q \in Procs \ {p} PROVE OrderSession(q)'
  BY <1>1, <1>2, <1>3, OthersUntouched, OthersKeepOrders
<1>4. Paired' /\ OneLeg'
  BY KeptOrders
<1> QED
  BY <1>2, <1>3, <1>4 DEF OrderInv

(* A statement that writes no table. *)
LEMMA QuietOrders ==
  ASSUME Inv, OrderInv, NEW p \in Procs, Statement(p), trade' = trade, OrderSession(p)'
  PROVE  OrderInv'
<1>1. \A r \in Trades : Kept(r)
  BY DEF Kept, SameOrder
<1> QED
  BY <1>1, KeepingStep

LEMMA IdleOrders ==
  ASSUME NEW p \in Procs, session'[p] = Idle
  PROVE  OrderSession(p)'
BY IdleType DEF OrderSession, FillingInv, OpeningInv, At, Runs

(* A session that neither fills nor opens knows nothing of orders. *)
LEMMA PlainSession ==
  ASSUME NEW p \in Procs, session'[p].op \notin {"fill", "market", "order", "oco"},
         session'[p].pc # "snapshot"
  PROVE  OrderSession(p)'
BY DEF OrderSession, FillingInv, OpeningInv, At, Runs

LEMMA GiveUpOrders ==
  ASSUME Inv, OrderInv, NEW p \in Procs, Statement(p), GiveUp(p)
  PROVE  OrderInv'
<1>1. session'[p] = Idle /\ trade' = trade
  BY EndTransactionKeepsOthers DEF GiveUp, tables, Inv
<1> QED
  BY <1>1, IdleOrders, QuietOrders

LEMMA StartOrders ==
  ASSUME Inv, OrderInv, NEW p \in Procs, StartJob(p)
  PROVE  OrderInv'
<1>0. session \in [Procs -> Job] /\ Statement(p)
  BY DEF Inv, TypeOK, Statement
<1> DEFINE Fresh == /\ session'[p].pc \notin {"snapshot", "commit", "waitPending"}
                    /\ session'[p].op = "fill" =>
                         \A t, u \in session'[p].rows : t = u
<1>1. Fresh
  <2>1. ASSUME NEW job, Begin(p, job),
               job.pc \notin {"snapshot", "commit", "waitPending"},
               job.op = "fill" => \A t, u \in job.rows : t = u
        PROVE  Fresh
    BY <1>0, <2>1 DEF Begin, Become
  <2>2. ASSUME NEW t \in Trades, NEW px, FillPending(p, t, px) PROVE Fresh
    BY <2>1, <2>2 DEF FillPending, Idle
  <2>3. ASSUME NEW S \in SUBSET Trades, NEW px, TriggerClose(p, S, px) PROVE Fresh
    BY <2>1, <2>3 DEF TriggerClose, Idle
  <2>4. ASSUME NEW t \in Trades, NEW px, BatchClose(p, t, px) PROVE Fresh
    BY <2>1, <2>4 DEF BatchClose, Idle
  <2>5. ASSUME NEW t \in Trades, NEW px, NEW n, ManualClose(p, t, px, n) PROVE Fresh
    BY <2>1, <2>5 DEF ManualClose, Idle
  <2>6. ASSUME NEW a \in Accounts, NEW op \in {"market", "order", "oco"}, NEW px,
               RequestOpen(p, op, a, px)
        PROVE  Fresh
    BY <2>1, <2>6 DEF RequestOpen, Idle
  <2>7. ASSUME NEW a \in Accounts, NEW op \in DOMAIN Outcome, NEW px,
               EndAccount(p, op, a, px)
        PROVE  Fresh
    BY <2>1, <2>7 DEF EndAccount, Idle, Outcome
  <2>8. ASSUME NEW t \in Trades, NEW op \in {"cancelDead", "cancel"},
               DecideCancel(p, op, t)
        PROVE  Fresh
    BY <2>1, <2>8 DEF DecideCancel, Idle
  <2> HIDE DEF Fresh
  <2> QED
    BY <2>2, <2>3, <2>4, <2>5, <2>6, <2>7, <2>8 DEF StartJob
<1>2. trade' = trade
  BY DEF StartJob, TriggerClose, BatchClose, FillPending, ManualClose,
     RequestOpen, EndAccount, DecideCancel, Begin, tables
<1>3. OrderSession(p)'
  BY <1>1 DEF OrderSession, FillingInv, OpeningInv, At, Runs
<1> QED
  BY <1>0, <1>2, <1>3, QuietOrders
-----------------------------------------------------------------------------
(* The statements of the jobs that neither fill nor open. *)
LEMMA PlainStatement ==
  ASSUME Inv, OrderInv, NEW p \in Procs, Statement(p),
         \/ LockRows(p) \/ LockAccount(p) \/ SelectOpen(p) \/ SelectPending(p)
         \/ CountOpen(p)
         \/ \E a \in Accounts : LockBalance(p, a)
         \/ \E t \in Trades : WaitOpen(p, t) \/ SkipUnpriced(p, t)
  PROVE  OrderInv'
<1>0. session \in [Procs -> Job] /\ SessionInv(p) /\ session[p] \in Job
  BY DEF Inv, TypeOK
<1>1. CASE GiveUp(p)
  BY <1>1, GiveUpOrders
<1>2. ASSUME ~GiveUp(p) PROVE OrderInv'
  <2>1. session[p].op \notin {"fill", "market", "order", "oco"}
    BY <1>0, <1>2 DEF SessionInv, CloserInv, JobInv, LockRows, LockAccount, SelectOpen,
       SelectPending, CountOpen, LockBalance, WaitOpen, SkipUnpriced, At, Runs, Closers,
       Snapshots, OfOutcome, AutoClosers, Realised, Outcome
  <2>2. /\ session'[p].op = session[p].op /\ session'[p].pc # "snapshot"
        /\ trade' = trade
    <3> DEFINE Goal == /\ session'[p].op = session[p].op /\ session'[p].pc # "snapshot"
                       /\ trade' = trade
    <3>1. ASSUME NEW job, Become(p, job), job.op = session[p].op, job.pc # "snapshot",
                 UNCHANGED tables
          PROVE  Goal
      BY <1>0, <3>1 DEF Become, tables
    <3>2. CASE LockRows(p)
      BY <1>0, <1>2, <3>1, <3>2 DEF LockRows, Job
    <3>3. CASE LockAccount(p) \/ CountOpen(p)
      BY <1>0, <1>2, <3>1, <3>3 DEF LockAccount, CountOpen, Goto, Job
    <3>4. CASE SelectOpen(p) \/ SelectPending(p)
      BY <1>0, <3>1, <3>4 DEF SelectOpen, SelectPending, Job
    <3>5. ASSUME NEW a \in Accounts, LockBalance(p, a) PROVE Goal
      BY <1>0, <3>1, <3>5 DEF LockBalance, At, Job
    <3>6. ASSUME NEW t \in Trades, WaitOpen(p, t) PROVE Goal
      BY <1>0, <3>1, <3>6 DEF WaitOpen, At, Job
    <3>7. ASSUME NEW t \in Trades, SkipUnpriced(p, t) PROVE Goal
      BY <1>0, <3>1, <3>7 DEF SkipUnpriced, At, Job
    <3> QED
      BY <3>2, <3>3, <3>4, <3>5, <3>6, <3>7
  <2> QED
    BY <2>1, <2>2, PlainSession, QuietOrders
<1> QED
  BY <1>1, <1>2

(* Waiting for a sibling ends with it in hand, or dead. *)
LEMMA WaitPendingOrders ==
  ASSUME Inv, OrderInv, NEW p \in Procs, NEW t \in Trades, Statement(p), WaitPending(p, t)
  PROVE  OrderInv'
<1> DEFINE s == session[p]
<1>1. session \in [Procs -> Job] /\ s \in Job /\ OrderSession(p) /\ s.pc = "waitPending"
  BY DEF Inv, TypeOK, OrderInv, WaitPending, At
<1>2. /\ session'[p].op = s.op /\ session'[p].pc = s.pc /\ session'[p].rows = s.rows
      /\ session'[p].want = s.want \ {t} /\ s.drop \subseteq session'[p].drop
      /\ trade[t].status = "pending" => t \in session'[p].drop
      /\ trade' = trade
  <2>1. CASE trade[t].status = "pending"
    <3> DEFINE job == [s EXCEPT !.want = @ \ {t}, !.drop = @ \cup {t}]
    <3>1. session'[p] = job /\ trade' = trade
      BY <1>1, <2>1 DEF WaitPending, Become, tables
    <3>2. /\ job.op = s.op /\ job.pc = s.pc /\ job.rows = s.rows
          /\ job.want = s.want \ {t} /\ job.drop = s.drop \cup {t}
      BY <1>1 DEF Job
    <3> QED
      BY <3>1, <3>2
  <2>2. CASE trade[t].status # "pending"
    BY <1>1, <2>2 DEF WaitPending, Become, Job, tables
  <2> QED
    BY <2>1, <2>2
<1>3. OrderSession(p)'
  BY <1>1, <1>2 DEF OrderSession, FillingInv, OpeningInv, At, Runs
<1> QED
  BY <1>2, <1>3, QuietOrders

LEMMA LockOrderOrders ==
  ASSUME Inv, OrderInv, NEW p \in Procs, Statement(p), LockOrder(p)
  PROVE  OrderInv'
<1>1. CASE GiveUp(p)
  BY <1>1, GiveUpOrders
<1>2. ASSUME ~GiveUp(p) PROVE OrderInv'
  <2>1. session \in [Procs -> Job] /\ session[p] \in Job /\ OrderSession(p)
    BY DEF Inv, TypeOK, OrderInv
  <2>2. /\ session'[p].op = session[p].op /\ session'[p].pc = "validate"
        /\ session'[p].rows = session[p].rows /\ trade' = trade
    BY <1>2, <2>1 DEF LockOrder, Goto, Become, Job, tables
  <2>3. OrderSession(p)'
    BY <2>1, <2>2 DEF OrderSession, FillingInv, OpeningInv, At, Runs
  <2> QED
    BY <2>2, <2>3, QuietOrders
<1> QED
  BY <1>1, <1>2

(* The order to be filled wants its sibling while that still waits. *)
LEMMA ValidateOrders ==
  ASSUME Inv, OrderInv, NEW p \in Procs, NEW t \in Trades, Statement(p),
         ValidateOrder(p, t)
  PROVE  OrderInv'
<1> DEFINE s == session[p]
           wanted == {u \in Trades : u = trade[t].sibling /\ trade[u].status = "pending"}
<1>1. /\ session \in [Procs -> Job] /\ s \in Job /\ OrderSession(p) /\ t \in s.rows
      /\ Runs(p, {"fill"}) /\ trade' = trade
  BY DEF Inv, TypeOK, OrderInv, ValidateOrder, SessionInv, JobInv, tables
<1>2. \/ session'[p].pc = "commit" /\ session'[p].op = s.op /\ session'[p].rows = {}
      \/ /\ session'[p].pc = "waitPending" /\ session'[p].op = s.op
         /\ session'[p].rows = s.rows /\ session'[p].want = wanted
  BY <1>1 DEF ValidateOrder, Become, Job
<1>3. FillingInv(p)'
  BY <1>1, <1>2 DEF OrderSession, FillingInv, At, Runs
<1>4. OpeningInv(p)'
  BY <1>1, <1>2 DEF OpeningInv, At, Runs
<1> QED
  BY <1>1, <1>3, <1>4, QuietOrders DEF OrderSession

LEMMA LockForOpenOrders ==
  ASSUME Inv, OrderInv, NEW p \in Procs, Statement(p), LockForOpen(p)
  PROVE  OrderInv'
<1>1. CASE GiveUp(p)
  BY <1>1, GiveUpOrders
<1>2. ASSUME ~GiveUp(p) PROVE OrderInv'
  <2> DEFINE s == session[p]
  <2>1. /\ session \in [Procs -> Job] /\ s \in Job /\ s.acct \in Accounts
        /\ s.op \in {"market", "order", "oco"} /\ lock \in [Row -> Procs \cup {Null}]
    BY DEF Inv, TypeOK, LockForOpen, SessionInv, JobInv, At, Runs
  <2>2. /\ session'[p].op = s.op /\ session'[p].pc = "snapshot"
        /\ session'[p].acct = s.acct /\ lock'[s.acct] = p /\ trade' = trade
    <3>1. /\ Become(p, [s EXCEPT !.pc = "snapshot", !.want = {}]) /\ UNCHANGED tables
          /\ Taking(p, {s.acct})
      BY <1>2 DEF LockForOpen
    <3>2. lock'[s.acct] = p
      BY <2>1, <3>1 DEF Taking, Row
    <3> QED
      BY <2>1, <3>1, <3>2 DEF Become, Job, tables
  <2>3. OrderSession(p)'
    BY <2>1, <2>2 DEF OrderSession, FillingInv, OpeningInv, At, Runs
  <2> QED
    BY <2>2, <2>3, QuietOrders
<1> QED
  BY <1>1, <1>2

LEMMA CheckCapOrders ==
  ASSUME Inv, OrderInv, NEW p \in Procs, Statement(p), CheckCap(p)
  PROVE  OrderInv'
<1>1. CASE GiveUp(p)
  BY <1>1, GiveUpOrders
<1>2. ASSUME ~GiveUp(p) PROVE OrderInv'
  <2> DEFINE s == session[p]
  <2>1. /\ session \in [Procs -> Job] /\ s \in Job /\ s.acct \in Accounts
        /\ s.op \in {"market", "order", "oco"} /\ lock[s.acct] = p
    BY DEF Inv, TypeOK, CheckCap, SessionInv, JobInv, OrderInv, OrderSession, OpeningInv,
       At, Runs
  <2>2. /\ session'[p].op = s.op /\ session'[p].pc = "commit" /\ session'[p].acct = s.acct
        /\ lock' = lock /\ trade' = trade
        /\ ~(MaxOpen > 0 /\ Cardinality(Exposure(s.acct)) >= MaxOpen)
    BY <1>2, <2>1 DEF CheckCap, Goto, Become, Job, tables
  <2>3. Cardinality(Exposure(s.acct)) \in Nat
    BY <2>1, ExposureFinite, FS_CardinalityType
  <2>4. MaxOpen > 0 => Cardinality(Exposure(s.acct)) < MaxOpen
    BY <2>2, <2>3, CoreAssumption
  <2>5. Exposure(s.acct)' = Exposure(s.acct)
    BY <2>2 DEF Exposure, RowsOf
  <2>6. OrderSession(p)'
    BY <2>1, <2>2, <2>4, <2>5 DEF OrderSession, FillingInv, OpeningInv, At, Runs
  <2> QED
    BY <2>2, <2>6, QuietOrders
<1> QED
  BY <1>1, <1>2
-----------------------------------------------------------------------------
(* The statements that commit. *)

LEMMA KeepingCommit ==
  ASSUME Inv, OrderInv, NEW p \in Procs, Statement(p), EndTransaction(p),
         \A r \in Trades : Kept(r) \/ Child(r)
  PROVE  OrderInv'
<1>1. session'[p] = Idle
  BY EndTransactionKeepsOthers DEF Inv
<1> QED
  BY <1>1, IdleOrders, KeepingStep

LEMMA ClosedOrder ==
  ASSUME TypeOK, NEW t \in Trades, NEW n, NEW px
  PROVE  /\ Closed(t, n, px).status = "closed"
         /\ Closed(t, n, px).open = trade[t].open
         /\ Closed(t, n, px).sibling = trade[t].sibling
         /\ Cancelled(t).status = "cancelled"
         /\ Cancelled(t).open = trade[t].open
         /\ Cancelled(t).sibling = trade[t].sibling
<1>1. trade[t] \in TradeRow
  BY DEF TypeOK
<1> QED
  BY <1>1 DEF Closed, Cancelled, TradeRow

LEMMA SettledKept ==
  ASSUME TypeOK, NEW C, NEW D, NEW n, NEW px, Settle(C, D, n, px)
  PROVE  \A r \in Trades : Kept(r)
<1> SUFFICES ASSUME NEW r \in Trades PROVE Kept(r)
  OBVIOUS
<1>1. \/ trade'[r] = Closed(r, n[r], px) \/ trade'[r] = Cancelled(r)
      \/ trade'[r] = trade[r]
  BY DEF Settle
<1> QED
  BY <1>1, ClosedOrder DEF Kept, SameOrder

LEMMA KeepingCommits ==
  ASSUME Inv, OrderInv, NEW p \in Procs, Statement(p),
         \/ CommitClose(p) \/ CommitOutcome(p) \/ CommitPass(p) \/ CommitRefusal(p)
         \/ \E t \in Trades : CancelDead(p, t) \/ CancelByTrader(p, t)
  PROVE  OrderInv'
<1>0. TypeOK
  BY DEF Inv
<1>1. EndTransaction(p)
  BY DEF CommitClose, CommitOutcome, CommitPass, CommitRefusal, CancelDead, CancelByTrader
<1>2. \A r \in Trades : Kept(r)
  <2>1. CASE CommitClose(p) \/ CommitOutcome(p)
    BY <1>0, <2>1, SettledKept DEF CommitClose, CommitOutcome
  <2>2. ASSUME NEW r \in Trades, trade'[r] = trade[r] \/ trade'[r] = Cancelled(r)
        PROVE  Kept(r)
    BY <1>0, <2>2, ClosedOrder DEF Kept, SameOrder
  <2>3. CASE CommitPass(p) \/ CommitRefusal(p)
    BY <2>2, <2>3 DEF CommitPass, CommitRefusal
  <2>4. ASSUME NEW t \in Trades, CancelDead(p, t) \/ CancelByTrader(p, t)
        PROVE  \A r \in Trades : Kept(r)
    BY <1>0, <2>2, <2>4 DEF CancelDead, CancelByTrader, TypeOK
  <2> QED
    BY <2>1, <2>3, <2>4
<1> QED
  BY <1>1, <1>2, KeepingCommit

LEMMA PartialCloseOrders ==
  ASSUME Inv, OrderInv, NEW p \in Procs, NEW t \in Trades, NEW child \in Trades,
         Statement(p), CommitPartialClose(p, t, child)
  PROVE  OrderInv'
<1> DEFINE n == session[p].ask
           px == session[p].price
           rest == [trade[t] EXCEPT !.lots = @ - n]
           part == [trade[t] EXCEPT !.lots = n, !.sibling = Null]
           booked == [part EXCEPT !.status = "closed", !.close = px,
                                  !.pnl = Pnl(n, trade[t].open, px)]
<1>1. /\ trade \in [Trades -> TradeRow] /\ trade[t] \in TradeRow /\ EndTransaction(p)
      /\ trade[child] = Absent /\ trade[t].status = "open"
      /\ trade' = [trade EXCEPT ![t].lots = @ - n, ![child] = booked]
  BY DEF Inv, TypeOK, SessionInv, CloserInv, CommitPartialClose
<1>2. child # t
  BY <1>1 DEF Absent
<1>3. /\ rest.status = trade[t].status /\ rest.open = trade[t].open
      /\ rest.sibling = trade[t].sibling
      /\ booked.status = "closed" /\ booked.sibling = Null
  BY <1>1 DEF TradeRow
<1>4. \A r \in Trades :
        trade'[r] = IF r = child THEN booked ELSE IF r = t THEN rest ELSE trade[r]
  BY <1>1, <1>2
<1> HIDE DEF rest, booked
<1>5. \A r \in Trades : Kept(r) \/ Child(r)
  BY <1>1, <1>3, <1>4 DEF Kept, SameOrder, Child
<1> QED
  BY <1>1, <1>5, KeepingCommit

(* A fill finds its sibling unfilled, and cancels it unless it is dead. *)
LEMMA FillOrders ==
  ASSUME Inv, OrderInv, NEW p \in Procs, Statement(p), CommitFill(p)
  PROVE  OrderInv'
<1> DEFINE s == session[p]
           filled(t) == [trade[t] EXCEPT !.status = "open", !.open = s.price]
<1>1. /\ TypeOK /\ EndTransaction(p) /\ s.want = {} /\ s.rows \subseteq Trades
      /\ \A t \in s.rows : trade[t].status = "pending"
      /\ \A t, u \in s.rows : t = u
      /\ \A t \in s.rows, u \in Trades :
           trade[t].sibling = u /\ trade[u].status = "pending" => u \in s.drop
  BY DEF Inv, TypeOK, Job, SessionInv, FillInv, OrderInv, OrderSession, FillingInv,
     CommitFill, At, Runs
<1>2. \A r \in Trades : trade'[r] = IF r \in s.rows THEN filled(r)
                                    ELSE IF r \in s.drop THEN Cancelled(r) ELSE trade[r]
  BY DEF CommitFill
<1>3. \A r \in Trades : filled(r).status = "open" /\ filled(r).sibling = trade[r].sibling
  BY <1>1 DEF TypeOK, TradeRow
<1> HIDE DEF filled
<1>4. \A r \in Trades : /\ SameOrder(r)
                        /\ r \notin s.rows => Kept(r)
                        /\ r \in s.drop \ s.rows => trade'[r].status = "cancelled"
  BY <1>1, <1>2, <1>3, ClosedOrder DEF SameOrder, Kept
<1>5. CapHolds' /\ \A a \in Accounts : Exposure(a)' \subseteq Exposure(a)
  BY <1>4, KeptCap DEF OrderInv
<1>6. Paired'
  BY <1>4 DEF OrderInv, Paired, SameOrder
<1>7. OneLeg'
  <2> SUFFICES ASSUME NEW t \in Trades, NEW u \in Trades,
                      trade'[t].sibling = u, Filled(t)'
               PROVE  ~Filled(u)' /\ trade'[u].status # "pending"
    BY DEF OneLeg
  <2>1. trade[t].sibling = u /\ trade[u].sibling = t /\ u # t
    BY <1>4 DEF OrderInv, Paired, SameOrder
  <2>2. CASE t \in s.rows
    <3>1. u \notin s.rows /\ Kept(u)
      BY <1>1, <1>4, <2>1, <2>2
    <3>2. ~Filled(u)
      BY <1>1, <2>1, <2>2 DEF OrderInv, OneLeg
    <3>3. trade'[u].status # "pending"
      BY <1>1, <1>4, <2>1, <2>2, <3>1 DEF Kept, SameOrder
    <3> QED
      BY <3>1, <3>2, <3>3 DEF Kept, Filled
  <2>3. CASE t \notin s.rows
    <3>1. Filled(t)
      BY <1>4, <2>3 DEF Kept, Filled
    <3>2. ~Filled(u) /\ trade[u].status # "pending"
      BY <2>1, <3>1 DEF OrderInv, OneLeg
    <3>3. Kept(u)
      BY <1>1, <1>4, <3>2
    <3> QED
      BY <3>2, <3>3 DEF Kept, SameOrder, Filled
  <2> QED
    BY <2>2, <2>3
<1>8. ASSUME NEW q \in Procs \ {p} PROVE OrderSession(q)'
  BY <1>4, <1>5, <1>8, OthersUntouched, OthersKeepOrders
<1>9. OrderSession(p)'
  BY <1>1, EndTransactionKeepsOthers, IdleOrders
<1> QED
  BY <1>5, <1>6, <1>7, <1>8, <1>9 DEF OrderInv

(* One more commitment of an account that had a slot left. *)
LEMMA SlotTaken ==
  ASSUME CapHolds, NEW a \in Accounts, NEW c,
         MaxOpen > 0 => Cardinality(Exposure(a)) < MaxOpen,
         \A r \in Trades : \/ trade'[r] = trade[r]
                           \/ AccountOf[r] = a /\ {r, trade'[r].sibling} = c
  PROVE  CapHolds' /\ \A b \in Accounts \ {a} : Exposure(b)' = Exposure(b)
<1>1. \A b \in Accounts \ {a} :
        Exposure(b)' = Exposure(b) /\ Commitments(b)' = Commitments(b)
  <2> SUFFICES ASSUME NEW b \in Accounts \ {a}
               PROVE  Exposure(b)' = Exposure(b) /\ Commitments(b)' = Commitments(b)
    OBVIOUS
  <2>1. \A r \in Trades : AccountOf[r] = b => trade'[r] = trade[r]
    OBVIOUS
  <2>2. Exposure(b)' = Exposure(b)
    BY <2>1 DEF Exposure, RowsOf
  <2>3. \A r \in Exposure(b) : trade'[r] = trade[r]
    BY <2>1 DEF Exposure, RowsOf
  <2> QED
    BY <2>2, <2>3 DEF Commitments
<1>2. MaxOpen > 0 => Cardinality(Commitments(a)') <= MaxOpen
  <2>1. \A r \in Exposure(a)' : \/ {r, trade'[r].sibling} = c
                                \/ r \in Exposure(a) /\ trade'[r] = trade[r]
    BY DEF Exposure, RowsOf
  <2>2. Commitments(a)' \subseteq Commitments(a) \cup {c}
    BY <2>1 DEF Commitments
  <2>3. /\ IsFiniteSet(Commitments(a) \cup {c})
        /\ Cardinality(Commitments(a) \cup {c}) <= Cardinality(Commitments(a)) + 1
    <3>1. IsFiniteSet(Commitments(a)) /\ Cardinality(Commitments(a)) \in Nat
      BY ExposureFinite, FS_CardinalityType
    <3>2. /\ IsFiniteSet(Commitments(a) \cup {c})
          /\ Cardinality(Commitments(a) \cup {c}) =
               IF c \in Commitments(a) THEN Cardinality(Commitments(a))
               ELSE Cardinality(Commitments(a)) + 1
      BY <3>1, FS_AddElement
    <3> QED
      BY <3>1, <3>2
  <2>4. /\ IsFiniteSet(Commitments(a)')
        /\ Cardinality(Commitments(a)') <= Cardinality(Commitments(a) \cup {c})
    BY <2>2, <2>3, FS_Subset
  <2>5. /\ Cardinality(Commitments(a)') \in Nat /\ Cardinality(Commitments(a)) \in Nat
        /\ Cardinality(Commitments(a) \cup {c}) \in Nat
        /\ Cardinality(Exposure(a)) \in Nat
        /\ Cardinality(Commitments(a)) <= Cardinality(Exposure(a))
    BY <2>3, <2>4, ExposureFinite, FS_CardinalityType
  <2> QED
    BY <2>3, <2>4, <2>5, CoreAssumption
<1> QED
  BY <1>1, <1>2 DEF CapHolds

(* New rows of one commitment, written by the session that holds the slot. *)
LEMMA InsertStep ==
  ASSUME Inv, OrderInv, NEW p \in Procs, Statement(p), EndTransaction(p), NEW c,
         At(p, "commit"), Runs(p, {"market", "order", "oco"}),
         \A r \in Trades : \/ trade'[r] = trade[r]
                           \/ /\ trade[r] = Absent /\ AccountOf[r] = session[p].acct
                              /\ {r, trade'[r].sibling} = c,
         Paired', OneLeg'
  PROVE  OrderInv'
<1> DEFINE a == session[p].acct
<1>1. /\ a \in Accounts /\ lock[a] = p
      /\ MaxOpen > 0 => Cardinality(Exposure(a)) < MaxOpen
  BY DEF OrderInv, OrderSession, OpeningInv
<1>2. CapHolds' /\ \A b \in Accounts \ {a} : Exposure(b)' = Exposure(b)
  BY <1>1, SlotTaken DEF OrderInv
<1>3. \A r \in Trades : SameOrder(r) \/ trade[r] = Absent
  BY DEF SameOrder
<1>4. ASSUME NEW q \in Procs \ {p} PROVE OrderSession(q)'
  <2>1. \A b \in Accounts : lock[b] = q => Exposure(b)' \subseteq Exposure(b)
    BY <1>1, <1>2, <1>4
  <2> QED
    BY <1>3, <1>4, <2>1, OthersUntouched, OthersKeepOrders
<1>5. OrderSession(p)'
  BY EndTransactionKeepsOthers, IdleOrders DEF Inv
<1> QED
  BY <1>2, <1>4, <1>5 DEF OrderInv

LEMMA OpenOrders ==
  ASSUME Inv, OrderInv, NEW p \in Procs, NEW t \in Trades, Statement(p), CommitOpen(p, t)
  PROVE  OrderInv'
<1> DEFINE row == [Absent EXCEPT !.status = "open", !.lots = MaxLots,
                                 !.open = session[p].price]
           c == {t, Null}
<1>1. /\ trade \in [Trades -> TradeRow] /\ EndTransaction(p) /\ trade[t] = Absent
      /\ At(p, "commit") /\ Runs(p, {"market", "order", "oco"})
      /\ AccountOf[t] = session[p].acct /\ trade' = [trade EXCEPT ![t] = row]
  BY DEF Inv, TypeOK, CommitOpen, Runs
<1>2. row.sibling = Null /\ Absent.sibling = Null /\ \A u \in Trades : u # Null
  BY CoreAssumption DEF Absent
<1>3. \A r \in Trades : trade'[r] = IF r = t THEN row ELSE trade[r]
  BY <1>1
<1> HIDE DEF row
<1>4. Paired' /\ OneLeg'
  BY <1>1, <1>2, <1>3 DEF OrderInv, Paired, OneLeg, Filled
<1>5. \A r \in Trades : \/ trade'[r] = trade[r]
                        \/ /\ trade[r] = Absent /\ AccountOf[r] = session[p].acct
                           /\ {r, trade'[r].sibling} = c
  BY <1>1, <1>2, <1>3
<1> HIDE DEF c
<1> QED
  BY <1>1, <1>4, <1>5, InsertStep

LEMMA PlacedOrders ==
  ASSUME Inv, OrderInv, NEW p \in Procs, NEW t \in Trades, Statement(p), CommitOrder(p, t)
  PROVE  OrderInv'
<1> DEFINE row == [Absent EXCEPT !.status = "pending", !.lots = MaxLots]
           c == {t, Null}
<1>1. /\ trade \in [Trades -> TradeRow] /\ EndTransaction(p) /\ trade[t] = Absent
      /\ At(p, "commit") /\ Runs(p, {"market", "order", "oco"})
      /\ AccountOf[t] = session[p].acct /\ trade' = [trade EXCEPT ![t] = row]
  BY DEF Inv, TypeOK, CommitOrder, Runs
<1>2. row.sibling = Null /\ Absent.sibling = Null /\ \A u \in Trades : u # Null
  BY CoreAssumption DEF Absent
<1>3. \A r \in Trades : trade'[r] = IF r = t THEN row ELSE trade[r]
  BY <1>1
<1> HIDE DEF row
<1>4. Paired' /\ OneLeg'
  BY <1>1, <1>2, <1>3 DEF OrderInv, Paired, OneLeg, Filled
<1>5. \A r \in Trades : \/ trade'[r] = trade[r]
                        \/ /\ trade[r] = Absent /\ AccountOf[r] = session[p].acct
                           /\ {r, trade'[r].sibling} = c
  BY <1>1, <1>2, <1>3
<1> HIDE DEF c
<1> QED
  BY <1>1, <1>4, <1>5, InsertStep

LEMMA OcoOrders ==
  ASSUME Inv, OrderInv, NEW p \in Procs, NEW t \in Trades, NEW u \in Trades,
         Statement(p), CommitOco(p, t, u)
  PROVE  OrderInv'
<1> DEFINE leg(other) == [Absent EXCEPT !.status = "pending", !.lots = MaxLots,
                                        !.sibling = other]
           c == {t, u}
<1>1. /\ trade \in [Trades -> TradeRow] /\ EndTransaction(p)
      /\ trade[t] = Absent /\ trade[u] = Absent /\ t # u
      /\ At(p, "commit") /\ Runs(p, {"market", "order", "oco"})
      /\ AccountOf[t] = session[p].acct /\ AccountOf[u] = session[p].acct
      /\ trade' = [trade EXCEPT ![t] = leg(u), ![u] = leg(t)]
  BY DEF Inv, TypeOK, CommitOco, Runs
<1>2. /\ leg(u).sibling = u /\ leg(t).sibling = t
      /\ leg(u).open = Null /\ leg(t).open = Null
      /\ Absent.sibling = Null /\ \A r \in Trades : r # Null
  BY CoreAssumption DEF Absent
<1>3. \A r \in Trades : trade'[r] = IF r = u THEN leg(t)
                                    ELSE IF r = t THEN leg(u) ELSE trade[r]
  BY <1>1
<1> HIDE DEF leg
<1>4. Paired' /\ OneLeg'
  BY <1>1, <1>2, <1>3 DEF OrderInv, Paired, OneLeg, Filled
<1>5. \A r \in Trades : \/ trade'[r] = trade[r]
                        \/ /\ trade[r] = Absent /\ AccountOf[r] = session[p].acct
                           /\ {r, trade'[r].sibling} = c
  BY <1>1, <1>2, <1>3
<1> HIDE DEF c
<1> QED
  BY <1>1, <1>4, <1>5, InsertStep
-----------------------------------------------------------------------------
LEMMA InitHasOrders == Init => OrderInv
<1> SUFFICES ASSUME Init PROVE OrderInv
  OBVIOUS
<1>1. PICK px \in Prices : trade = [t \in Trades |->
        IF t \in InitOpen
        THEN [Absent EXCEPT !.status = "open", !.lots = MaxLots, !.open = px]
        ELSE IF t \in InitPending
        THEN [Absent EXCEPT !.status = "pending", !.lots = MaxLots,
                         !.sibling = Sibling[t]]
        ELSE Absent]
  BY DEF Init
<1>2. \A t \in Trades :
        /\ trade[t].sibling = IF t \in InitPending THEN Sibling[t] ELSE Null
        /\ t \in InitPending => trade[t].open = Null
        /\ t # Null
        /\ trade[t].status = IF t \in InitOpen THEN "open"
                             ELSE IF t \in InitPending THEN "pending" ELSE "none"
  BY <1>1, CoreAssumption DEF Absent
<1>3. Paired
  BY <1>2, StartAssumption, CoreAssumption DEF Paired
<1>4. OneLeg
  <2> SUFFICES ASSUME NEW t \in Trades, NEW u \in Trades,
                      trade[t].sibling = u, Filled(t)
               PROVE  FALSE
    BY DEF OneLeg
  <2> QED
    BY <1>2 DEF Filled
<1>5. CapHolds
  <2> SUFFICES ASSUME NEW a \in Accounts, MaxOpen > 0
               PROVE  Cardinality(Commitments(a)) <= MaxOpen
    BY DEF CapHolds
  <2>1. Exposure(a) = {r \in InitOpen \cup InitPending : AccountOf[r] = a}
    BY <1>2, CoreAssumption DEF Exposure, RowsOf
  <2>2. \A t \in Exposure(a) : trade[t].sibling =
          IF t \in InitPending THEN Sibling[t] ELSE Null
    BY <1>2 DEF Exposure, RowsOf
  <2>3. Commitments(a) = {{t, IF t \in InitPending THEN Sibling[t] ELSE Null} :
                            t \in Exposure(a)}
    BY <2>2 DEF Commitments
  <2> QED
    BY <2>1, <2>3, StartAssumption
<1>6. \A p \in Procs : OrderSession(p)
  BY IdleType DEF Init, OrderSession, FillingInv, OpeningInv, At, Runs
<1> QED
  BY <1>3, <1>4, <1>5, <1>6 DEF OrderInv

LEMMA NextKeepsOrders == Inv /\ OrderInv /\ [Next]_vars => OrderInv'
<1> SUFFICES ASSUME Inv, OrderInv, [Next]_vars PROVE OrderInv'
  OBVIOUS
<1>1. CASE UNCHANGED vars
  <2>1. trade' = trade /\ lock' = lock /\ session' = session
    BY <1>1 DEF vars, tables
  <2>2. \A a \in Accounts : Exposure(a)' = Exposure(a)
    BY <2>1 DEF Exposure, RowsOf
  <2>3. CapHolds'
    BY <2>1, <2>2 DEF OrderInv, CapHolds, Commitments
  <2>4. Paired' /\ OneLeg'
    BY <2>1 DEF OrderInv, Paired, OneLeg, Filled
  <2>5. \A p \in Procs : OrderSession(p)'
    BY <2>1, <2>2 DEF OrderInv, OrderSession, FillingInv, OpeningInv, At, Runs
  <2> QED
    BY <2>3, <2>4, <2>5 DEF OrderInv
<1>2. ASSUME NEW p \in Procs, Statement(p) PROVE OrderInv'
  <2>1. CASE StartJob(p)
    BY <2>1, StartOrders
  <2>2. CASE Acquire(p)
    BY <1>2, <2>2, PlainStatement, WaitPendingOrders, KeepingCommits, LockForOpenOrders
    DEF Acquire
  <2>3. CASE Proceed(p)
    BY <1>2, <2>3, PlainStatement, LockOrderOrders, CheckCapOrders, ValidateOrders,
       KeepingCommits, FillOrders, OpenOrders, PlacedOrders, OcoOrders,
       PartialCloseOrders
    DEF Proceed
  <2>4. CASE Rollback(p)
    BY <1>2, <2>4, GiveUpOrders DEF Rollback
  <2>5. CASE \E t \in Trades : SkipUnpriced(p, t)
    BY <1>2, <2>5, PlainStatement
  <2> QED
    BY <1>2, <2>1, <2>2, <2>3, <2>4, <2>5 DEF Statement
<1> QED
  BY <1>1, <1>2 DEF Next, Statement

LEMMA OrdersInvariant == Spec => []OrderInv
BY InitHasOrders, NextKeepsOrders, Invariance, PTL DEF Spec

(* Of two OCO orders at most one is ever filled: the fill that could find the *)
(* other leg filled would have been cancelled with it (tradeEngine.ts).       *)
THEOREM OcoExclusiveHolds == Spec => []OcoExclusive
<1>1. OrderInv => OcoExclusive
  BY DEF OrderInv, OneLeg, OcoExclusive
<1> QED
  BY <1>1, OrdersInvariant, PTL

(* The position cap, checked under the account's row lock, is never exceeded, *)
(* whatever fills, cancels and closes run without that lock.                  *)
THEOREM CapHoldsAlways == Spec => []CapHolds
<1>1. OrderInv => CapHolds
  BY DEF OrderInv
<1> QED
  BY <1>1, OrdersInvariant, PTL
=============================================================================
