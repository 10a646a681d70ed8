----------------------------- MODULE SessionClose -----------------------------
(***************************************************************************)
(* The scheduled jobs that close positions at the end of a trading session *)
(* (services/weekendCloseService.ts), of a day (flatByCloseService.js) and *)
(* before news (newsCloseService.js), under the advisory lock that keeps   *)
(* two processes, or two ticks of one, from running a job at the same time *)
(* (utils/advisoryLock.ts, services/schedulerService.ts).                  *)
(*                                                                         *)
(* A run reads the rows it will close, then takes them one transaction at  *)
(* a time, while the routes and the engine open, fill and close others.    *)
(* When it has been through all of them it may mark the window as done in  *)
(* the memory of its process; a tick that finds the mark does nothing.     *)
(*                                                                         *)
(* A tick that finds its window shut, the mark set or the lock taken gives *)
(* its connection back and leaves nothing behind, so it is no step here.   *)
(* Prices, PnL and balances are one event: that a row was booked.          *)
(***************************************************************************)
EXTENDS Naturals, FiniteSets

CONSTANTS
  Trades,     \* rows of the trades table
  Sessions,   \* connections of the direct pool, one advisory-lock session each
  Processes,  \* processes that run the scheduler
  ProcessOf,  \* the process of each connection
  Jobs,       \* the jobs scheduled, of AllJobs
  Scope,      \* the trades each job may close
  Null, Route,
  MaxFaults   \* bound: failed statements, missing prices, lost connections, crashes

AllJobs == {"weekend", "flat", "news"}

ASSUME SessionCloseAssumption ==
  /\ ProcessOf \in [Sessions -> Processes]
  /\ Jobs \subseteq AllJobs
  /\ Scope \in [Jobs -> SUBSET Trades]
  /\ Null \notin Sessions \cup Trades \cup Jobs \cup {Route}
  /\ Route \notin Sessions
  /\ MaxFaults \in Nat

VARIABLES
  row,       \* trades.status
  booked,    \* how often the PnL of a row was added to the balance
  rowlock,   \* the run, or the route, that has the row FOR UPDATE
  admitted,  \* requests past the news check, their trade not yet inserted
  window,    \* of each job: shut, open, or open and reached by a tick
  holder,    \* the session that has the advisory lock of a job
  leaked,    \* jobs whose lock its session holds once more than it will release
  mark,      \* the jobs each process has done in this window
  run,       \* the run of each connection
  faults

rows  == <<row, booked, rowlock, admitted>>
locks == <<holder, leaked>>
vars  == <<row, booked, rowlock, admitted, window, holder, leaked, mark, run, faults>>

\* job, rows still to close, orders still to cancel, rows in hand; whether an
\* error was counted, the window has ended since, the connection still lives.
\* "owed" only records: the rows read, less those found closed or locked.
Idle == [pc |-> "idle", job |-> Null, todo |-> {}, orders |-> {}, at |-> Null,
         errors |-> FALSE, late |-> FALSE, lost |-> FALSE, owed |-> {}]

Working   == {"read", "readOrders", "close", "locked"}
RunRecord == [pc : Working \cup {"idle", "unlock"}, job : Jobs \cup {Null},
              todo : SUBSET Trades, orders : SUBSET Trades, at : Trades \cup {Null},
              errors : BOOLEAN, late : BOOLEAN, lost : BOOLEAN,
              owed : SUBSET Trades]

TypeOK ==
  /\ row \in [Trades -> {"none", "pending", "open", "closed", "cancelled"}]
  /\ booked \in [Trades -> Nat]
  /\ rowlock \in [Trades -> Sessions \cup {Route, Null}]
  /\ admitted \subseteq Trades
  /\ window \in [Jobs -> {"shut", "open", "reached"}]
  /\ holder \in [Jobs -> Sessions \cup {Null}]
  /\ leaked \subseteq Jobs
  /\ mark \in [Processes -> SUBSET Jobs]
  /\ run \in [Sessions -> RunRecord]
  /\ faults \in 0..MaxFaults
  /\ \A t \in Trades, s \in Sessions : rowlock[t] = s => run[s].at = t

At(s, pc)     == run[s].pc = pc
Become(s, r)  == run' = [run EXCEPT ![s] = r]
Goto(s, pc)   == Become(s, [run[s] EXCEPT !.pc = pc])
Does(s, jobs) == run[s].job \in jobs
IsOpen(j)     == window[j] # "shut"
Lock(t, by)   == rowlock' = [rowlock EXCEPT ![t] = by]
SetRow(t, st) == row' = [row EXCEPT ![t] = st]
Book(t)       == booked' = [booked EXCEPT ![t] = @ + 1]
Fault         == faults < MaxFaults /\ faults' = faults + 1

\* The mark the process leaves when its run, of the window it began in, ends.
Marked(s, done) ==
  mark' = [mark EXCEPT ![ProcessOf[s]] =
             IF done /\ ~run[s].late THEN @ \cup {run[s].job} ELSE @ \ {run[s].job}]
-----------------------------------------------------------------------------
(* The tick of a job, and its advisory lock. *)

(* Fault: the lock is not asked for. *)
BeginUnlocked(s, j) ==
  /\ At(s, "idle") /\ IsOpen(j) /\ j \notin mark[ProcessOf[s]]
  /\ holder' = [holder EXCEPT ![j] = s]
  /\ window' = [window EXCEPT ![j] = "reached"]
  /\ Become(s, [Idle EXCEPT !.pc = "read", !.job = j])
  /\ UNCHANGED <<rows, leaked, mark, faults>>

(* pg_try_advisory_lock, which a session that has the lock gets again; then *)
(* the early returns of the job: window and mark.                           *)
Begin(s, j) ==
  /\ At(s, "idle") /\ IsOpen(j) /\ j \notin mark[ProcessOf[s]]
  /\ holder[j] \in {Null, s}
  /\ holder' = [holder EXCEPT ![j] = s]
  /\ window' = [window EXCEPT ![j] = "reached"]
  /\ Become(s, [Idle EXCEPT !.pc = "read", !.job = j])
  /\ UNCHANGED <<rows, leaked, mark, faults>>

(* pg_advisory_unlock and release.  A connection that was lost has nothing *)
(* to unlock and is not pooled again.                                      *)
Unlock(s) ==
  LET j == run[s].job
  IN /\ At(s, "unlock")
     /\ Become(s, Idle)
     /\ holder' = [holder EXCEPT ![j] = IF run[s].lost \/ j \in leaked THEN @ ELSE Null]
     /\ UNCHANGED <<rows, window, leaked, mark, faults>>

(* The unlock fails on a connection that lives: caught, logged, released. *)
UnlockFails(s) ==
  /\ At(s, "unlock") /\ ~run[s].lost
  /\ Fault
  /\ leaked' = leaked \cup {run[s].job}
  /\ Become(s, Idle)
  /\ UNCHANGED <<rows, window, holder, mark>>

Freed(S) == /\ holder' = [j \in Jobs |-> IF holder[j] \in S THEN Null ELSE holder[j]]
            /\ leaked' = {j \in leaked : holder[j] \notin S}

(* The database drops the session of a run that goes on: the lock is free. *)
LoseConnection(s) ==
  /\ ~At(s, "idle") /\ ~run[s].lost
  /\ Fault
  /\ Freed({s})
  /\ Become(s, [run[s] EXCEPT !.lost = TRUE])
  /\ UNCHANGED <<rows, window, mark>>

(* A process dies: transactions roll back, its marks are forgotten. *)
Crash(p) ==
  LET own == {s \in Sessions : ProcessOf[s] = p}
  IN /\ Fault
     /\ Freed(own)
     /\ run' = [s \in Sessions |-> IF s \in own THEN Idle ELSE run[s]]
     /\ rowlock' = [t \in Trades |-> IF rowlock[t] \in own THEN Null ELSE rowlock[t]]
     /\ mark' = [mark EXCEPT ![p] = {}]
     /\ UNCHANGED <<row, booked, admitted, window>>
-----------------------------------------------------------------------------
(* The body of the jobs. *)

(* SELECT ... WHERE status = 'open'.  With no row the news job returns and  *)
(* the daily one sets its mark; the weekend one asks for the orders first.  *)
ReadOpen(s) ==
  LET found == {t \in Scope[run[s].job] : row[t] = "open"}
      next  == CASE run[s].job = "weekend" -> "readOrders"
                 [] found = {}             -> "unlock"
                 [] OTHER                  -> "close"
  IN /\ At(s, "read")
     /\ Become(s, [run[s] EXCEPT !.pc = next, !.todo = found, !.owed = found])
     /\ IF Does(s, {"flat"}) /\ found = {} THEN Marked(s, TRUE) ELSE UNCHANGED mark
     /\ UNCHANGED <<rows, window, locks, faults>>

(* SELECT ... WHERE status = 'pending'.  With neither, no mark. *)
ReadOrders(s) ==
  LET found == {t \in Trades : row[t] = "pending"}
  IN /\ At(s, "readOrders")
     /\ Become(s, [run[s] EXCEPT !.orders = found,
                     !.pc = IF run[s].todo \cup found = {} THEN "unlock" ELSE "close"])
     /\ UNCHANGED <<rows, window, locks, mark, faults>>

(* A query of the read, or getTradingRules, throws: the run is over, and    *)
(* only the news job touches its mark.                                      *)
ReadFails(s) ==
  /\ run[s].pc \in {"read", "readOrders"}
  /\ Fault
  /\ Goto(s, "unlock")
  /\ IF Does(s, {"news"}) THEN Marked(s, FALSE) ELSE UNCHANGED mark
  /\ UNCHANGED <<rows, window, locks>>

Left(s, t, counted) ==
  Become(s, [run[s] EXCEPT !.pc = "close", !.at = Null, !.todo = @ \ {t},
                           !.errors = @ \/ counted])

(* Fault: the news job skips a row without a price as the others do. *)
NoPriceUncounted(s, t) ==
  /\ At(s, "close") /\ t \in run[s].todo
  /\ Fault
  /\ Left(s, t, FALSE)
  /\ UNCHANGED <<rows, window, locks, mark>>

(* The instrument has no price: only the news job counts an error. *)
NoPrice(s, t) ==
  /\ At(s, "close") /\ t \in run[s].todo
  /\ Fault
  /\ Left(s, t, Does(s, {"news"}))
  /\ UNCHANGED <<rows, window, locks, mark>>

(* Reading the prices, or connecting, throws: every job counts an error. *)
TradeFails(s, t) ==
  /\ At(s, "close") /\ t \in run[s].todo
  /\ Fault
  /\ Left(s, t, TRUE)
  /\ UNCHANGED <<rows, window, locks, mark>>

Take(s, t) ==
  /\ Lock(t, s)
  /\ Become(s, [run[s] EXCEPT !.pc = "locked", !.at = t])

(* Fault: the row is taken whatever became of it since it was read. *)
LockRowAsRead(s, t) ==
  /\ At(s, "close") /\ t \in run[s].todo
  /\ IF rowlock[t] = Null
     THEN Take(s, t)
     ELSE /\ Become(s, [run[s] EXCEPT !.todo = @ \ {t}, !.owed = @ \ {t}])
          /\ UNCHANGED rowlock
  /\ UNCHANGED <<row, booked, admitted, window, locks, mark, faults>>

(* SELECT ... AND status = 'open' FOR UPDATE SKIP LOCKED; no row, go on. *)
LockRow(s, t) ==
  /\ At(s, "close") /\ t \in run[s].todo
  /\ IF row[t] = "open" /\ rowlock[t] = Null
     THEN Take(s, t)
     ELSE /\ Become(s, [run[s] EXCEPT !.todo = @ \ {t},
                                            !.owed = @ \ {t}])
          /\ UNCHANGED rowlock
  /\ UNCHANGED <<row, booked, admitted, window, locks, mark, faults>>

(* UPDATE trades, UPDATE accounts, COMMIT. *)
CommitClose(s) ==
  LET t == run[s].at
  IN /\ At(s, "locked")
     /\ SetRow(t, "closed") /\ Book(t) /\ Lock(t, Null)
     /\ Left(s, t, FALSE)
     /\ UNCHANGED <<admitted, window, locks, mark, faults>>

(* A statement of the transaction fails and it is rolled back.  The news    *)
(* job counts it; the others only if the ROLLBACK throws as well.           *)
CloseFails(s) ==
  LET t == run[s].at
  IN /\ At(s, "locked")
     /\ Fault
     /\ Lock(t, Null)
     /\ \E counted \in {Does(s, {"news"}), TRUE} : Left(s, t, counted)
     /\ UNCHANGED <<row, booked, admitted, window, locks, mark>>

(* Fault: the UPDATE names the order only by its id. *)
CancelOrderAsRead(s, t) ==
  /\ At(s, "close") /\ run[s].todo = {} /\ t \in run[s].orders
  /\ rowlock[t] = Null
  /\ SetRow(t, "cancelled")
  /\ Become(s, [run[s] EXCEPT !.orders = @ \ {t}])
  /\ UNCHANGED <<booked, rowlock, admitted, window, locks, mark, faults>>

(* UPDATE ... WHERE id = $1 AND status = 'pending', which waits for the row. *)
CancelOrder(s, t) ==
  /\ At(s, "close") /\ run[s].todo = {} /\ t \in run[s].orders
  /\ rowlock[t] = Null
  /\ IF row[t] = "pending" THEN SetRow(t, "cancelled") ELSE UNCHANGED row
  /\ Become(s, [run[s] EXCEPT !.orders = @ \ {t}])
  /\ UNCHANGED <<booked, rowlock, admitted, window, locks, mark, faults>>

CancelFails(s, t) ==
  /\ At(s, "close") /\ run[s].todo = {} /\ t \in run[s].orders
  /\ Fault
  /\ Become(s, [run[s] EXCEPT !.orders = @ \ {t}, !.errors = TRUE])
  /\ UNCHANGED <<rows, window, locks, mark>>

(* The loops are over: the mark is set if no error was counted, and the     *)
(* news job clears it if one was.                                           *)
Finish(s) ==
  /\ At(s, "close") /\ run[s].todo = {} /\ run[s].orders = {}
  /\ IF run[s].errors /\ ~Does(s, {"news"}) THEN UNCHANGED mark
                                           ELSE Marked(s, ~run[s].errors)
  /\ Goto(s, "unlock")
  /\ UNCHANGED <<rows, window, locks, faults>>
-----------------------------------------------------------------------------
(* The calendar, the pool and the routes. *)

\* Friday 21:00-21:09 and 23:00-23:09 are apart, news comes at any time.
Clear(j) == j # "news" => \A k \in Jobs \ {"news"} : ~IsOpen(k)

(* Fault: the mark is a flag, not the key of its window. *)
WindowOpensSameKey(j) ==
  /\ window[j] = "shut" /\ Clear(j)
  /\ window' = [window EXCEPT ![j] = "open"]
  /\ run' = [s \in Sessions |-> [run[s] EXCEPT !.late = @ \/ run[s].job = j]]
  /\ UNCHANGED <<rows, locks, mark, faults>>

(* Another date, another event: no mark has its key, and a run that is still *)
(* under way keeps the key of the window it began in.                        *)
WindowOpens(j) ==
  /\ window[j] = "shut" /\ Clear(j)
  /\ window' = [window EXCEPT ![j] = "open"]
  /\ mark' = [p \in Processes |-> mark[p] \ {j}]
  /\ run' = [s \in Sessions |-> [run[s] EXCEPT !.late = @ \/ run[s].job = j]]
  /\ UNCHANGED <<rows, locks, faults>>

(* Assumed: a window of minutes is longer than the interval of its job, ten *)
(* or sixty seconds: it ends after a tick that had the lock, if one can.    *)
WindowShuts(j) ==
  /\ IsOpen(j)
  /\ window[j] = "reached" \/ j \in leaked
  /\ window' = [window EXCEPT ![j] = "shut"]
  /\ UNCHANGED <<rows, locks, mark, run, faults>>

(* idleTimeoutMillis: the pool closes a connection nobody used for a while. *)
CloseIdle(s) ==
  /\ At(s, "idle") /\ \E j \in Jobs : holder[j] = s
  /\ Freed({s})
  /\ UNCHANGED <<rows, window, mark, run, faults>>

Outside == <<window, locks, mark, run>>

(* openTradeHandler: refused while news is active. *)
Request(t) ==
  /\ row[t] = "none" /\ t \notin admitted
  /\ \A j \in Jobs \cap {"news"} : ~IsOpen(j)
  /\ admitted' = admitted \cup {t}
  /\ UNCHANGED <<row, booked, rowlock, faults, Outside>>

(* The insert of the same request, some awaits later. *)
Insert(t, st) ==
  /\ t \in admitted
  /\ admitted' = admitted \ {t}
  /\ SetRow(t, st)
  /\ UNCHANGED <<booked, rowlock, faults, Outside>>

(* The engine fills an order under its row lock. *)
Fill(t) ==
  /\ row[t] = "pending" /\ rowlock[t] = Null
  /\ SetRow(t, "open")
  /\ UNCHANGED <<booked, rowlock, admitted, faults, Outside>>

(* A closer of the routes or the engine has the row FOR UPDATE ... *)
RouteTake(t) ==
  /\ row[t] = "open" /\ rowlock[t] = Null
  /\ Lock(t, Route)
  /\ UNCHANGED <<row, booked, admitted, faults, Outside>>

(* ... and commits its close ... *)
RouteClose(t) ==
  /\ rowlock[t] = Route
  /\ SetRow(t, "closed") /\ Book(t) /\ Lock(t, Null)
  /\ UNCHANGED <<admitted, faults, Outside>>

(* ... or rolls back. *)
RouteRollback(t) ==
  /\ rowlock[t] = Route
  /\ Fault
  /\ Lock(t, Null)
  /\ UNCHANGED <<row, booked, admitted, Outside>>
-----------------------------------------------------------------------------
Init ==
  /\ row \in [Trades -> {"none", "pending", "open"}]
  /\ booked = [t \in Trades |-> 0]
  /\ rowlock = [t \in Trades |-> Null]
  /\ admitted = {}
  /\ window = [j \in Jobs |-> "shut"]
  /\ holder = [j \in Jobs |-> Null]
  /\ leaked = {}
  /\ mark = [p \in Processes |-> {}]
  /\ run = [s \in Sessions |-> Idle]
  /\ faults = 0

(* What a run does when nothing fails. *)
Work(s) ==
  \/ ReadOpen(s) \/ ReadOrders(s) \/ CommitClose(s) \/ Finish(s) \/ Unlock(s)
  \/ \E t \in Trades : LockRow(s, t) \/ CancelOrder(s, t)

Breaks(s) ==
  \/ ReadFails(s) \/ CloseFails(s) \/ UnlockFails(s) \/ LoseConnection(s)
  \/ \E t \in Trades : NoPrice(s, t) \/ TradeFails(s, t) \/ CancelFails(s, t)

RouteStep(t) ==
  \/ Request(t) \/ Fill(t) \/ RouteTake(t) \/ RouteClose(t) \/ RouteRollback(t)
  \/ \E st \in {"open", "pending"} : Insert(t, st)

Next ==
  \/ \E s \in Sessions : \/ Work(s) \/ Breaks(s) \/ CloseIdle(s)
                         \/ \E j \in Jobs : Begin(s, j)
  \/ \E p \in Processes : Crash(p)
  \/ \E j \in Jobs : WindowOpens(j) \/ WindowShuts(j)
  \/ \E t \in Trades : RouteStep(t)

Spec == Init /\ [][Next]_vars

\* Nothing sees to it that a tick is given the very connection a lock leaked to.
BeginsFree(j) == holder[j] = Null /\ \E s \in Sessions : Begin(s, j)

(* The days go round, an interval ticks again and again until it has the    *)
(* lock, and statements that can run do.  Nothing makes news happen, and a  *)
(* connection that some job keeps using is never closed as idle.            *)
Fairness ==
  /\ \A s \in Sessions : WF_vars(Work(s))
  /\ \A t \in Trades : WF_vars(RouteClose(t))
  /\ \A j \in Jobs \ {"news"} : /\ SF_vars(WindowOpens(j)) /\ WF_vars(WindowShuts(j))
                              /\ SF_vars(BeginsFree(j))

FairSpec == Spec /\ Fairness
-----------------------------------------------------------------------------
(* Properties. *)

(* A position is booked when it is closed and never again, whichever of     *)
(* three jobs, two processes and the routes close it.                       *)
BookedOnce == \A t \in Trades : booked[t] = IF row[t] = "closed" THEN 1 ELSE 0

(* No two runs of a job are under way on connections that live: the lock is *)
(* one, and reading the rows, closing them and marking are inside it.       *)
OneRunner == \A s, r \in Sessions :
  run[s].job = run[r].job /\ {run[s].pc, run[r].pc} \subseteq Working
    /\ ~run[s].lost /\ ~run[r].lost => s = r

(* The news job marks its event only if every position it read is closed,   *)
(* but for those another session had locked ("left open for retry").        *)
Marks(s, j) == j \in mark'[ProcessOf[s]] \ mark[ProcessOf[s]] /\ run[s].job = j
                 /\ run'[s] # run[s]
MarkHonest == [][\A s \in Sessions : Marks(s, "news") =>
  \A t \in run[s].owed : row[t] # "open"]_vars

(* "Flattens open positions" (weekendCloseService.ts:58): the same of the   *)
(* weekend job, which does not count a row without a price or a rollback.   *)
WeekendFlat == [][\A s \in Sessions : Marks(s, "weekend") =>
  \A t \in run[s].owed : row[t] # "open"]_vars

(* An order that fills while a run holds its id is not cancelled after it. *)
OpenNeverCancelled == [][\A t \in Trades :
  row[t] \in {"open", "closed"} => row'[t] \in {row[t], "closed"}]_vars

(* A position in the scope of a daily or weekly job is closed in the end,   *)
(* unless the lock of the job has leaked to an idle connection.             *)
ForcedFlat == \A j \in Jobs \ {"news"} : \A t \in Scope[j] :
  row[t] = "open" ~> row[t] # "open" \/ j \in leaked

(* ... and also then. *)
FlatInTheEnd == \A j \in Jobs \ {"news"} : \A t \in Scope[j] :
  row[t] = "open" ~> row[t] # "open"
=============================================================================
