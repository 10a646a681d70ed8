-------------------------- MODULE AccountLifecycle --------------------------
(***************************************************************************)
(* From one phase of a challenge to the next.  The engines mark an account *)
(* passed and raise a promotion review in the same transaction             *)
(* (challengeEngine.ts passAccount, services/tradeEngine.ts                *)
(* autoCloseAndPass, services/tenantMonthlyQuotaService.js); an admin      *)
(* approves it, which creates the successor, or rejects it                 *)
(* (routes/admin/promotionReviews.js, services/progressionService.js).     *)
(* Beside them the admin's override and bulk routes, the automation, the   *)
(* billing freeze and the engines' other outcomes write accounts.status.   *)
(*                                                                         *)
(* A pass locks the account and then the pending review, a decision the    *)
(* review and then the account.  Each is split where it takes a lock; a    *)
(* route that takes the account's lock only is one step.                   *)
(*                                                                         *)
(* Abstractions.  One trader.  Whether the target is reached is the        *)
(* engine's choice, and what it finds under the lock is Rollback's.        *)
(* Settling the trades that an outcome leaves open is TradeSettlement's    *)
(* subject.  The statuses that only competitions use are left out.         *)
(***************************************************************************)
EXTENDS Integers, FiniteSets

CONSTANTS
  Accounts,  \* ids of account rows, those still to be inserted included
  Reviews,   \* ids of account_promotion_reviews rows, likewise
  Procs,     \* database sessions
  Null,      \* SQL NULL, the holder of a free lock
  Roots,     \* the accounts that were bought
  Steps,     \* challenge_models.steps of the model they were bought with
  Touched,   \* bound: the accounts that are failed, locked, restored or promoted
             \* by other routes
  Ops        \* the operations the sessions run

OpNames == {"pass", "floatPass", "approve", "reject"}

ASSUME LifecycleAssumption ==
  /\ IsFiniteSet(Accounts) /\ IsFiniteSet(Reviews) /\ IsFiniteSet(Procs)
  /\ Roots \subseteq Accounts /\ Touched \subseteq Accounts
  /\ Steps \in 1..3
  /\ Ops \subseteq OpNames
  /\ Accounts \cap Reviews = {}
  /\ Null \notin Accounts \cup Reviews \cup Procs \cup Int

VARIABLES
  account,   \* accounts
  review,    \* account_promotion_reviews
  lock,      \* who holds each row's lock
  session,   \* what each database session is doing
  manual,    \* history: the accounts an override's promotion created
  answered   \* history: has anything answered the account's last pass

tables  == <<account, review>>
history == <<manual, answered>>
vars    == <<account, review, lock, session, history>>

Row    == Accounts \cup Reviews
Funded == 0
Phase  == {Funded, 1, 2, 3}

AccountStatus == {"none", "active", "passed", "failed", "expired", "locked"}
ReviewStatus  == {"none", "pending", "approved", "rejected"}

(* model: does the row carry a challenge_model_slug; parent: the account it  *)
(* was promoted from (parent_account_id, in the rows that have a model).     *)
AccountRow == [status : AccountStatus, phase : Phase, model : BOOLEAN,
               parent : Accounts \cup {Null}]
ReviewRow  == [status : ReviewStatus, source : Accounts \cup {Null},
               target : Phase \cup {Null}, created : Accounts \cup {Null}]

Job == [op : OpNames \cup {"none"},
        pc : {"idle", "lockAccount", "upsert", "lockReview", "lockSource", "commit"},
        acct : Accounts \cup {Null}, review : Reviews \cup {Null}, seen : ReviewStatus]

NoAccount == [status |-> "none", phase |-> 1, model |-> FALSE, parent |-> Null]
NoReview  == [status |-> "none", source |-> Null, target |-> Null, created |-> Null]
Idle      == [op |-> "none", pc |-> "idle", acct |-> Null, review |-> Null,
              seen |-> "none"]

UnusedAccounts == {a \in Accounts : account[a] = NoAccount}
UnusedReviews  == {r \in Reviews : review[r] = NoReview}
PendingOf(a)   == {r \in Reviews : review[r].status = "pending" /\ review[r].source = a}
-----------------------------------------------------------------------------
(* resolvePromotionTarget: what a caller that knows the account's phase,     *)
(* whether it has a model, and its step, takes to be the next phase.         *)
LegacyLadder == [phase \in 1..3 |-> IF phase = 1 THEN 2 ELSE Funded]

Target(phase, model, step) ==
  IF phase = Funded THEN Null
  ELSE IF ~model THEN LegacyLadder[phase]
  ELSE IF step + 1 <= Steps THEN step + 1 ELSE Funded

(* The whole row; the engine's EngineAccount, which has no step_number, so   *)
(* that step 1 is assumed; fetchAccountForAdmin's, which has no model either. *)
NextPhase(a)      == Target(account[a].phase, account[a].model, account[a].phase)
EngineTarget(a)   == Target(account[a].phase, account[a].model, 1)
OverrideTarget(a) == Target(account[a].phase, FALSE, 1)

(* promotePassedAccount: the new row. *)
Successor(a, phase, model) ==
  [status |-> "active", phase |-> phase, model |-> model, parent |-> a]
-----------------------------------------------------------------------------
(* Sessions and row locks. *)

At(p, where)   == session[p].pc = where
Runs(p, ops)   == session[p].op \in ops
IsFree(r)      == lock[r] = Null
Taking(p, r)   == lock' = [lock EXCEPT ![r] = p]
Become(p, job) == session' = [session EXCEPT ![p] = job]

Begin(p, job) ==
  /\ job.op \in Ops
  /\ At(p, "idle")
  /\ Become(p, job)
  /\ UNCHANGED <<tables, lock, history>>

EndTransaction(p) ==
  /\ lock' = [r \in Row |-> IF lock[r] = p THEN Null ELSE lock[r]]
  /\ Become(p, Idle)

(* Fault: an early return that forgets ROLLBACK before the client is released. *)
GiveUpHoldingLocks(p) ==
  Become(p, Idle) /\ UNCHANGED <<tables, lock, history>>

GiveUp(p) == EndTransaction(p) /\ UNCHANGED <<tables, history>>

(* Bound: nothing starts that would find no row left to insert. *)
Running(ops)     == Cardinality({p \in Procs : Runs(p, ops)})
RoomForAccount   == Running({"approve"}) < Cardinality(UnusedAccounts)
RoomForReview    == Running({"pass", "floatPass"}) < Cardinality(UnusedReviews)
-----------------------------------------------------------------------------
(* Passing: passAccount, and autoCloseAndPass on a floating profit. *)

StartPass(p, op, a) ==
  /\ account[a].status = "active" /\ account[a].phase # Funded
  /\ RoomForReview
  /\ Begin(p, [Idle EXCEPT !.op = op, !.pc = "lockAccount", !.acct = a])

(* SELECT ... WHERE status = 'active' FOR UPDATE SKIP LOCKED. *)
LockForPass(p) ==
  LET a == session[p].acct
  IN /\ At(p, "lockAccount")
     /\ IF account[a].status = "active" /\ IsFree(a)
        THEN /\ Taking(p, a)
             /\ Become(p, [session[p] EXCEPT !.pc = "upsert"])
             /\ UNCHANGED <<tables, history>>
        ELSE GiveUp(p)

(* Fault: the conflict target is the source alone, so a decided review is hit. *)
RaiseReviewOnce(p) ==
  LET old == {r \in Reviews : review[r].source = session[p].acct}
  IN /\ At(p, "upsert")
     /\ IF old = {}
        THEN Become(p, [session[p] EXCEPT !.pc = "commit"]) /\ UNCHANGED lock
        ELSE \E r \in old : /\ IsFree(r) /\ Taking(p, r)
                            /\ Become(p, [session[p] EXCEPT !.pc = "commit", !.review = r])
     /\ UNCHANGED <<tables, history>>

(* createPromotionReview: INSERT ... ON CONFLICT (source_account_id) WHERE  *)
(* status = 'pending' DO UPDATE, which waits for the row it conflicts with. *)
RaiseReview(p) ==
  LET old == PendingOf(session[p].acct)
  IN /\ At(p, "upsert")
     /\ IF old = {}
        THEN Become(p, [session[p] EXCEPT !.pc = "commit"]) /\ UNCHANGED lock
        ELSE \E r \in old : /\ IsFree(r) /\ Taking(p, r)
                            /\ Become(p, [session[p] EXCEPT !.pc = "commit", !.review = r])
     /\ UNCHANGED <<tables, history>>

(* A review that was pending already keeps its target. *)
CommitPass(p, r) ==
  LET a == session[p].acct
      target == IF Runs(p, {"pass"}) THEN NextPhase(a) ELSE EngineTarget(a)
  IN /\ At(p, "commit") /\ Runs(p, {"pass", "floatPass"})
     /\ account' = [account EXCEPT ![a].status = "passed"]
     /\ IF session[p].review = Null
        THEN /\ r \in UnusedReviews
             /\ review' = [review EXCEPT ![r] = [NoReview EXCEPT
                  !.status = "pending", !.source = a, !.target = target]]
        ELSE r = session[p].review /\ UNCHANGED review
     /\ answered' = [answered EXCEPT ![a] = FALSE]
     /\ UNCHANGED manual
     /\ EndTransaction(p)
-----------------------------------------------------------------------------
(* Deciding: the approve and reject routes, from a list read earlier. *)

StartDecision(p, op, r) ==
  /\ review[r].status # "none"
  /\ op = "approve" => RoomForAccount
  /\ Begin(p, [Idle EXCEPT !.op = op, !.pc = "lockReview", !.review = r,
                           !.acct = review[r].source])

(* Fault: the review is read without FOR UPDATE. *)
LockReviewUnlocked(p) ==
  /\ At(p, "lockReview")
  /\ Become(p, [session[p] EXCEPT !.pc = "lockSource",
                                  !.seen = review[session[p].review].status])
  /\ UNCHANGED <<tables, lock, history>>

(* getPromotionReviewForUpdate: FOR UPDATE OF r, a. *)
LockReview(p) ==
  LET r == session[p].review
  IN /\ At(p, "lockReview")
     /\ IsFree(r) /\ Taking(p, r)
     /\ Become(p, [session[p] EXCEPT !.pc = "lockSource", !.seen = review[r].status])
     /\ UNCHANGED <<tables, history>>

(* Fault: the source is not looked at again before the promotion. *)
LockSourceUnchecked(p) ==
  LET a == session[p].acct
  IN /\ At(p, "lockSource") /\ IsFree(a)
     /\ IF session[p].seen = "pending"
        THEN /\ Taking(p, a)
             /\ Become(p, [session[p] EXCEPT !.pc = "commit"])
             /\ UNCHANGED <<tables, history>>
        ELSE GiveUp(p)

(* A decision needs a pending review, an approval also a source that is     *)
(* still passed (approvePromotionReview).                                   *)
LockSource(p) ==
  LET a == session[p].acct
  IN /\ At(p, "lockSource") /\ IsFree(a)
     /\ IF session[p].seen = "pending"
             /\ (Runs(p, {"approve"}) => account[a].status = "passed")
        THEN /\ Taking(p, a)
             /\ Become(p, [session[p] EXCEPT !.pc = "commit"])
             /\ UNCHANGED <<tables, history>>
        ELSE GiveUp(p)

CommitApproval(p, c) ==
  LET a == session[p].acct
      r == session[p].review
  IN /\ At(p, "commit") /\ Runs(p, {"approve"})
     /\ c \in UnusedAccounts
     /\ account' = [account EXCEPT ![c] = Successor(a, NextPhase(a), account[a].model)]
     /\ review' = [review EXCEPT ![r].status = "approved", ![r].created = c]
     /\ answered' = [answered EXCEPT ![a] = TRUE]
     /\ UNCHANGED manual
     /\ EndTransaction(p)

CommitRejection(p) ==
  /\ At(p, "commit") /\ Runs(p, {"reject"})
  /\ review' = [review EXCEPT ![session[p].review].status = "rejected"]
  /\ answered' = [answered EXCEPT ![session[p].acct] = TRUE]
  /\ UNCHANGED <<account, manual>>
  /\ EndTransaction(p)
-----------------------------------------------------------------------------
(* The routes and engines that write a status under the account's lock alone. *)

MayMove(a, from, to) ==
  /\ account[a].status \in from /\ IsFree(a)
  /\ account' = [account EXCEPT ![a].status = to]
  /\ UNCHANGED <<review, lock, session, history>>

(* failAccount, autoCloseAndFail; expireAccount, of challenge accounts only. *)
EngineFails(a)   == MayMove(a, {"active"}, "failed")
EngineExpires(a) == account[a].phase # Funded /\ MayMove(a, {"active"}, "expired")

(* The automation's lock and the billing freeze spare settled accounts. *)
Freeze(a) == MayMove(a, {"active"}, "locked")

(* Override, bulk action and compliance write whatever the status was.      *)
(* Revoking funding is AdminLocks of a funded account.                      *)
AdminFails(a) == MayMove(a, AccountStatus \ {"none"}, "failed")
AdminLocks(a) == MayMove(a, AccountStatus \ {"none"}, "locked")

RestoreActive(a)    == MayMove(a, {"failed", "locked"}, "active")
RestoreWithReset(a) == account[a].phase \in {1, 2}
                         /\ MayMove(a, {"failed", "locked", "expired"}, "active")

(* Override pass / promote: any status but passed; no review is looked at. *)
ManualPromote(a, c) ==
  /\ account[a].status \notin {"none", "passed"} /\ OverrideTarget(a) # Null
  /\ IsFree(a) /\ RoomForAccount
  /\ c \in UnusedAccounts
  /\ account' = [account EXCEPT ![a].status = "passed",
                                ![c] = Successor(a, OverrideTarget(a), FALSE)]
  /\ manual' = manual \cup {c}
  /\ answered' = [answered EXCEPT ![a] = TRUE]
  /\ UNCHANGED <<review, lock, session>>

(* replace_account: createAdminIssuedAccount, without model or parent. *)
ReplaceAccount(a, c) ==
  /\ account[a].status \notin {"none", "active", "passed"}
  /\ IsFree(a) /\ RoomForAccount
  /\ c \in UnusedAccounts
  /\ account' = [account EXCEPT ![c] = [NoAccount EXCEPT
                   !.status = "active", !.phase = account[a].phase]]
  /\ UNCHANGED <<review, lock, session, history>>
-----------------------------------------------------------------------------
(* A statement fails, the profit or the open rows are not what the engine   *)
(* thought, a client dies; or Postgres aborts one of two sessions that wait *)
(* for each other.                                                          *)

Rollback(p) == ~At(p, "idle") /\ GiveUp(p)

WaitsFor(p) ==
  IF At(p, "upsert") THEN PendingOf(session[p].acct)
  ELSE IF At(p, "lockReview") THEN {session[p].review}
  ELSE IF At(p, "lockSource") THEN {session[p].acct} ELSE {}

DeadlockVictim(p) ==
  /\ \E q \in Procs : /\ \E r \in WaitsFor(p) : lock[r] = q
                      /\ \E r \in WaitsFor(q) : lock[r] = p
  /\ Rollback(p)
-----------------------------------------------------------------------------
Init ==
  /\ account = [a \in Accounts |->
       IF a \in Roots THEN [NoAccount EXCEPT !.status = "active", !.model = TRUE]
       ELSE NoAccount]
  /\ review = [r \in Reviews |-> NoReview]
  /\ lock = [r \in Row |-> Null]
  /\ session = [p \in Procs |-> Idle]
  /\ manual = {}
  /\ answered = [a \in Accounts |-> FALSE]

Start(p) ==
  \/ \E a \in Accounts, op \in {"pass", "floatPass"} : StartPass(p, op, a)
  \/ \E r \in Reviews, op \in {"approve", "reject"} : StartDecision(p, op, r)

Acquire(p) == RaiseReview(p) \/ LockReview(p) \/ LockSource(p)

Proceed(p) ==
  \/ LockForPass(p) \/ CommitRejection(p)
  \/ \E r \in Reviews : CommitPass(p, r)
  \/ \E c \in Accounts : CommitApproval(p, c)

Move(a) ==
  \/ EngineFails(a) \/ EngineExpires(a) \/ Freeze(a)
  \/ AdminFails(a) \/ AdminLocks(a) \/ RestoreActive(a) \/ RestoreWithReset(a)
  \/ \E c \in Accounts : ManualPromote(a, c) \/ ReplaceAccount(a, c)

Next ==
  \/ \E p \in Procs : Start(p) \/ Acquire(p) \/ Proceed(p) \/ Rollback(p)
  \/ \E a \in Touched : Move(a)

Spec == Init /\ [][Next]_vars

(* Statements that can run are run, who waits for a row lock gets it in     *)
(* turn, and the deadlock detector aborts a victim.                         *)
Fairness == \A p \in Procs : /\ WF_vars(Proceed(p))
                             /\ SF_vars(Acquire(p))
                             /\ WF_vars(DeadlockVictim(p))

FairSpec == Spec /\ Fairness
-----------------------------------------------------------------------------
(* Properties. *)

(* Both tables, the locks and the sessions keep their shape. *)
TypeOK ==
  /\ account \in [Accounts -> AccountRow] /\ review \in [Reviews -> ReviewRow]
  /\ lock \in [Row -> Procs \cup {Null}] /\ session \in [Procs -> Job]
  /\ manual \subseteq Accounts /\ answered \in [Accounts -> BOOLEAN]

(* Every promoted account is accounted for by one decision: an override, or *)
(* the one approved review of its source that names it (promotionReviews.js *)
(* approve); no approval creates two accounts and no rejection any.         *)
ApprovalsOf(c) == {r \in Reviews : review[r].created = c}
SuccessorsExplained == \A c \in Accounts :
  /\ \A r \in ApprovalsOf(c) : review[r].status = "approved"
                                 /\ review[r].source = account[c].parent
  /\ account[c].parent # Null =>
       Cardinality(ApprovalsOf(c)) = IF c \in manual THEN 0 ELSE 1

(* No trader who has passed is forgotten: while the account is passed, its  *)
(* last pass has a pending review or has been answered, however often it    *)
(* was locked, restored and passed again (challengeEngine.ts:678).          *)
NoStrandedPass == \A a \in Accounts :
  account[a].status = "passed" => answered[a] \/ PendingOf(a) # {}

(* A successor is created only for an account that is passed at that moment, *)
(* whatever has become of it since its review was raised or listed.          *)
PromotedWhilePassed == [][\A c \in Accounts :
  account[c] = NoAccount /\ account'[c].parent # Null =>
    account'[account'[c].parent].status = "passed"]_vars

(* Every transaction ends, though passes and decisions take their two row   *)
(* locks in opposite orders.                                                *)
DecisionsEnd == \A p \in Procs : ~At(p, "idle") ~> At(p, "idle")

(* progressionService.js:242: what is approved is what gets created. *)
ApprovedAsShown == \A r \in Reviews :
  review[r].created # Null => account[review[r].created].phase = review[r].target

(* promotionTarget.js:2: one answer to what an account is promoted into, the *)
(* next step of its model.                                                   *)
LadderFollowed == \A c \in Accounts :
  account[c].parent # Null => account[c].phase = NextPhase(account[c].parent)
=============================================================================
