------------------------------ MODULE Payouts -------------------------------
(***************************************************************************)
(* Payout requests of funded accounts: the trader's POST /payouts/request  *)
(* (routes/payouts.js), the two admin approval routes, which share         *)
(* domain/payout.js, and the two rejection routes (routes/admin/payouts.js *)
(* and routes/admin/commandCenterActions.js).                              *)
(*                                                                         *)
(* Each is one READ COMMITTED transaction.  It is split where it waits for *)
(* a row lock or where what it has read can change before it writes; the   *)
(* statements between its last lock and COMMIT are one step.               *)
(*                                                                         *)
(* Abstractions.  Accounts are funded and each belongs to its own user.  A *)
(* trader's trading is the environment: a position is opened or closed and *)
(* the account ended in one step, under the account's row lock, as in      *)
(* TradeSettlement.  Every close is its own trading day.  The flat minimum *)
(* of 50, flags, notes, certificates and mail are left out, and completed  *)
(* claims are kept (the reaper removes them after seven days).             *)
(***************************************************************************)
EXTENDS Integers, FiniteSets

CONSTANTS
  Accounts, Payouts, Sessions, Admins, Keys, Null,
  Amounts,     \* the amounts a trader asks for
  Results,     \* the PnL a closed position can bring
  MaxProfit,   \* bound: profit stays within -MaxProfit..MaxProfit
  CapPct,      \* the model's funded_consistency_max_day_pct, 0 for none
  Ops          \* which operations the sessions run

ASSUME PayoutAssumption ==
  /\ IsFiniteSet(Payouts)
  /\ Amounts \subseteq Nat \ {0} /\ Results \subseteq Int
  /\ MaxProfit \in Nat /\ CapPct \in Nat
  /\ Ops \subseteq {"request", "approve", "reject", "bulkReject"}
  /\ Null \notin Accounts \cup Payouts \cup Sessions \cup Admins \cup Keys \cup Int

VARIABLES
  account,  \* accounts: may it trade, has it exposure, realised profit, best day
  kyc,      \* users.kyc_status is 'approved'
  limit,    \* platform_settings.payout_dual_approval_threshold
  payout,   \* the payouts table
  debit,    \* balance_adjustments booked for each payout
  claim,    \* idempotency_requests, by user and key: the payout a
            \* completed claim answers with
  lock,     \* row locks of accounts and payouts
  session

tables == <<account, kyc, limit, payout, debit, claim>>
vars   == <<account, kyc, limit, payout, debit, claim, lock, session>>

Account == [active : BOOLEAN, busy : BOOLEAN, profit : Int, best : Nat]
Payout  == [status : {"none", "pending", "paid", "rejected"},
            acct : Accounts \cup {Null}, amount : Nat,
            first : Admins \cup {Null}, second : Admins \cup {Null}]
Job == [op : {"none", "request", "approve", "reject", "bulkReject"},
        pc : {"idle", "lock", "submit", "decide", "write"},
        acct : Accounts \cup {Null}, key : Keys \cup {Null}, amount : Nat,
        pay : Payouts \cup {Null}, by : Admins \cup {Null}, kyc : BOOLEAN]

NoPayout == [status |-> "none", acct |-> Null, amount |-> 0,
             first |-> Null, second |-> Null]
Idle == [op |-> "none", pc |-> "idle", acct |-> Null, key |-> Null, amount |-> 0,
         pay |-> Null, by |-> Null, kyc |-> FALSE]
-----------------------------------------------------------------------------
(* Eligibility. *)

PendingOf(a) == {p \in Payouts : payout[p].status = "pending" /\ payout[p].acct = a}

AtLeast0(n)   == IF n < 0 THEN 0 ELSE n
Least(m, n)   == IF m < n THEN m ELSE n

(* consistentWithdrawableProfit: what the best day exceeds its share by is held. *)
Withdrawable(a) ==
  LET total == account[a].profit
  IN IF total <= 0 \/ CapPct = 0 THEN AtLeast0(total)
     ELSE AtLeast0(Least(total, total + (total * CapPct) \div 100 - account[a].best))

(* evaluatePayoutEligibility as approvePayout calls it, without consistency. *)
Eligible(a, n, verified) ==
  /\ account[a].active /\ ~account[a].busy
  /\ verified
  /\ n <= account[a].profit

NeedsTwo(n) == limit # Null /\ n >= limit
-----------------------------------------------------------------------------
At(s, op, pc) == session[s].op = op /\ session[s].pc = pc
IsFree(r)     == lock[r] = Null
Take(s, r)    == lock' = [lock EXCEPT ![r] = s]
Become(s, j)  == session' = [session EXCEPT ![s] = j]

Begin(s, job) ==
  /\ job.op \in Ops /\ session[s] = Idle
  /\ Become(s, job)
  /\ UNCHANGED <<tables, lock>>

EndTransaction(s) ==
  /\ lock' = [r \in DOMAIN lock |-> IF lock[r] = s THEN Null ELSE lock[r]]
  /\ Become(s, Idle)

Rollback(s) == session[s] # Idle /\ EndTransaction(s) /\ UNCHANGED tables
-----------------------------------------------------------------------------
(* POST /payouts/request.  A retry is the same key sent again. *)

Request(s, a, k, n) ==
  Begin(s, [Idle EXCEPT !.op = "request", !.pc = "lock", !.acct = a,
                        !.key = k, !.amount = n])

Admissible(a, n) ==
  /\ Eligible(a, n, kyc[a])
  /\ CapPct > 0 => n <= Withdrawable(a)
  /\ PendingOf(a) = {}

(* Fault: the account is read without FOR UPDATE. *)
AdmitUnlocked(s) ==
  LET j == session[s]
  IN /\ At(s, "request", "lock")
     /\ IF Admissible(j.acct, j.amount)
        THEN Become(s, [j EXCEPT !.pc = "submit"]) /\ UNCHANGED <<tables, lock>>
        ELSE Rollback(s)

(* The account under FOR UPDATE, then every check on it. *)
Admit(s) ==
  LET j == session[s]
  IN /\ At(s, "request", "lock")
     /\ IsFree(j.acct)
     /\ IF Admissible(j.acct, j.amount)
        THEN Take(s, j.acct) /\ Become(s, [j EXCEPT !.pc = "submit"]) /\ UNCHANGED tables
        ELSE Rollback(s)

NewPayout(j) == [NoPayout EXCEPT !.status = "pending", !.acct = j.acct,
                                 !.amount = j.amount]

(* Fault: an existing claim does not stop the request. *)
SubmitAgain(s, p) ==
  LET j == session[s]
  IN /\ At(s, "request", "submit")
     /\ payout[p] = NoPayout
     /\ payout' = [payout EXCEPT ![p] = NewPayout(j)]
     /\ claim' = [claim EXCEPT ![j.acct][j.key] = p]
     /\ UNCHANGED <<account, kyc, limit, debit>>
     /\ EndTransaction(s)

(* The claim, the payout and the completed claim commit together; a claim   *)
(* that exists is replayed instead.                                         *)
Submit(s, p) ==
  LET j == session[s]
  IN /\ At(s, "request", "submit")
     /\ claim[j.acct][j.key] = Null
     /\ payout[p] = NoPayout
     /\ payout' = [payout EXCEPT ![p] = NewPayout(j)]
     /\ claim' = [claim EXCEPT ![j.acct][j.key] = p]
     /\ UNCHANGED <<account, kyc, limit, debit>>
     /\ EndTransaction(s)

Replay(s) ==
  /\ At(s, "request", "submit")
  /\ claim[session[s].acct][session[s].key] # Null
  /\ Rollback(s)
-----------------------------------------------------------------------------
(* approvePayout. *)

Approve(s, p, x) ==
  /\ payout[p] # NoPayout
  /\ Begin(s, [Idle EXCEPT !.op = "approve", !.pc = "lock", !.pay = p, !.by = x])

(* The payout FOR UPDATE OF p, its status and the user's KYC joined in. *)
LockPayout(s) ==
  LET j == session[s]
      p == payout[j.pay]
  IN /\ At(s, "approve", "lock")
     /\ IsFree(j.pay)
     /\ IF p.status = "pending"
        THEN /\ Take(s, j.pay)
             /\ Become(s, [j EXCEPT !.pc = "decide", !.kyc = kyc[p.acct]])
             /\ UNCHANGED tables
        ELSE Rollback(s)

Debit(p) ==
  /\ account' = [account EXCEPT ![payout[p].acct].profit = @ - payout[p].amount]
  /\ debit' = [debit EXCEPT ![p] = @ + payout[p].amount]

(* Fault: the second approval may be the first approver's. *)
RefusedUnfitOnly(s) ==
  LET p == payout[session[s].pay]
  IN ~Eligible(p.acct, p.amount, session[s].kyc)

(* Under the account's lock: re-validate, then record the first approval,   *)
(* refuse the same admin's second, or record it, debit and pay.             *)
Refused(s) ==
  LET j == session[s]
      p == payout[j.pay]
  IN \/ ~Eligible(p.acct, p.amount, j.kyc)
     \/ NeedsTwo(p.amount) /\ p.first = j.by

Decides(s) == At(s, "approve", "decide") /\ IsFree(payout[session[s].pay].acct)

Turndown(s) == Decides(s) /\ Refused(s) /\ Rollback(s)

RecordFirst(s) ==
  LET p == session[s].pay
  IN /\ Decides(s) /\ ~Refused(s)
     /\ NeedsTwo(payout[p].amount) /\ payout[p].first = Null
     /\ payout' = [payout EXCEPT ![p].first = session[s].by]
     /\ UNCHANGED <<account, kyc, limit, debit, claim>>
     /\ EndTransaction(s)

PayOut(s) ==
  LET p == session[s].pay
  IN /\ Decides(s) /\ ~Refused(s)
     /\ NeedsTwo(payout[p].amount) => payout[p].first # Null
     /\ payout' = [payout EXCEPT
          ![p].status = "paid",
          ![p].second = IF NeedsTwo(payout[p].amount) THEN session[s].by ELSE @]
     /\ Debit(p)
     /\ UNCHANGED <<kyc, limit, claim>>
     /\ EndTransaction(s)
-----------------------------------------------------------------------------
(* Rejection: /payouts/reject checks the status under the lock, the command *)
(* centre's reject_payout does not.                                         *)

Reject(s, p, op) ==
  /\ op \in {"reject", "bulkReject"} /\ payout[p] # NoPayout
  /\ Begin(s, [Idle EXCEPT !.op = op, !.pc = "write", !.pay = p])

WriteRejection(s) ==
  LET p == session[s].pay
  IN /\ At(s, "reject", "write") /\ IsFree(p)
     /\ IF payout[p].status = "pending"
        THEN /\ payout' = [payout EXCEPT ![p].status = "rejected"]
             /\ UNCHANGED <<account, kyc, limit, debit, claim>>
             /\ EndTransaction(s)
        ELSE Rollback(s)

WriteBulkRejection(s) ==
  LET p == session[s].pay
  IN /\ At(s, "bulkReject", "write") /\ IsFree(p)
     /\ payout' = [payout EXCEPT ![p].status = "rejected"]
     /\ UNCHANGED <<account, kyc, limit, debit, claim>>
     /\ EndTransaction(s)
-----------------------------------------------------------------------------
(* The environment: trading, the engine, the KYC desk and the operator. *)

OpenPosition(a) ==
  /\ IsFree(a) /\ account[a].active /\ ~account[a].busy
  /\ account' = [account EXCEPT ![a].busy = TRUE]
  /\ UNCHANGED <<kyc, limit, payout, debit, claim, lock, session>>

ClosePosition(a, r) ==
  /\ IsFree(a) /\ account[a].busy
  /\ account[a].profit + r \in -MaxProfit..MaxProfit
  /\ account' = [account EXCEPT ![a].busy = FALSE, ![a].profit = @ + r,
                                ![a].best = IF r > @ THEN r ELSE @]
  /\ UNCHANGED <<kyc, limit, payout, debit, claim, lock, session>>

EndAccount(a) ==
  /\ IsFree(a) /\ account[a].active
  /\ account' = [account EXCEPT ![a].active = FALSE, ![a].busy = FALSE]
  /\ UNCHANGED <<kyc, limit, payout, debit, claim, lock, session>>

ReviewKyc(a) ==
  /\ kyc' = [kyc EXCEPT ![a] = ~@]
  /\ UNCHANGED <<account, limit, payout, debit, claim, lock, session>>

SetLimit ==
  /\ limit' \in Amounts \cup {Null}
  /\ UNCHANGED <<account, kyc, payout, debit, claim, lock, session>>
-----------------------------------------------------------------------------
Init ==
  /\ account = [a \in Accounts |->
       [active |-> TRUE, busy |-> FALSE, profit |-> 0, best |-> 0]]
  /\ kyc = [a \in Accounts |-> TRUE]
  /\ limit \in Amounts \cup {Null}
  /\ payout = [p \in Payouts |-> NoPayout]
  /\ debit = [p \in Payouts |-> 0]
  /\ claim = [a \in Accounts |-> [k \in Keys |-> Null]]
  /\ lock = [r \in Accounts \cup Payouts |-> Null]
  /\ session = [s \in Sessions |-> Idle]

Next ==
  \/ \E s \in Sessions :
       \/ \E a \in Accounts, k \in Keys, n \in Amounts : Request(s, a, k, n)
       \/ Admit(s) \/ Replay(s) \/ \E p \in Payouts : Submit(s, p)
       \/ \E p \in Payouts, x \in Admins : Approve(s, p, x)
       \/ LockPayout(s) \/ Turndown(s) \/ RecordFirst(s) \/ PayOut(s)
       \/ \E p \in Payouts, op \in {"reject", "bulkReject"} : Reject(s, p, op)
       \/ WriteRejection(s) \/ WriteBulkRejection(s)
       \/ Rollback(s)
  \/ \E a \in Accounts :
       \/ OpenPosition(a) \/ EndAccount(a) \/ ReviewKyc(a)
       \/ \E r \in Results : ClosePosition(a, r)
  \/ SetLimit

Spec == Init /\ [][Next]_vars
-----------------------------------------------------------------------------
(* Properties. *)

(* Every table keeps its shape, and the sessions hold only rows' locks. *)
TypeOK ==
  /\ account \in [Accounts -> Account] /\ kyc \in [Accounts -> BOOLEAN]
  /\ limit \in Nat \cup {Null}
  /\ payout \in [Payouts -> Payout] /\ debit \in [Payouts -> Nat]
  /\ claim \in [Accounts -> [Keys -> Payouts \cup {Null}]]
  /\ lock \in [Accounts \cup Payouts -> Sessions \cup {Null}]
  /\ session \in [Sessions -> Job]

(* However many requests race, an account has one pending payout: its next  *)
(* one is admitted only after the last was answered (routes/payouts.js:156). *)
OnePending == \A a \in Accounts : Cardinality(PendingOf(a)) <= 1

(* Money leaves the account exactly once for a paid payout and never for    *)
(* another: approvals and rejections of the same payout may race.           *)
DebitMatchesPayout == \A p \in Payouts :
  debit[p] = IF payout[p].status = "paid" THEN payout[p].amount ELSE 0

(* One Idempotency-Key buys at most one payout, also after that payout was  *)
(* answered and the account may ask again.                                  *)
KeyUsedOnce == \A p \in Payouts : payout[p] # NoPayout =>
  Cardinality({k \in Keys : claim[payout[p].acct][k] = p}) = 1

(* What is paid does not exceed what the consistency rule lets the account  *)
(* withdraw when it is paid.                                                *)
PaidWithinConsistency == [][\A p \in Payouts :
  payout[p].status = "pending" /\ payout'[p].status = "paid" =>
    payout[p].amount <= Withdrawable(payout[p].acct)]_vars

(* The payouts an approval has in hand, having found the KYC approved. *)
Vetted == {p \in Payouts : \E s \in Sessions :
  At(s, "approve", "decide") /\ session[s].pay = p /\ session[s].kyc}

Ledger == INSTANCE PayoutLedger
            WITH request <- payout, withdrawn <- debit, vetted <- Vetted

(* commandCenterActions.js:454 rejects a payout whatever its status is, and *)
(* so takes back the answer of one that was decided, without the money.     *)
UndoneByBulk == \E s \in Sessions :
  WriteBulkRejection(s) /\ payout[session[s].pay].status # "pending"

(* domain/payout.js:42: whatever approvals, rejections and trading race, a   *)
(* payout is paid by two different admins where two are needed, to an        *)
(* account that is fit for it at that moment, once, and its answer is final; *)
(* what the bulk rejection does to a decided payout is the one exception.    *)
LedgerSpec == Ledger!Init /\ [][Ledger!Next \/ UndoneByBulk]_(Ledger!ledger)
=============================================================================
