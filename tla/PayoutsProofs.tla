--------------------------- MODULE PayoutsProofs ---------------------------
(***************************************************************************)
(* What Payouts guarantees for any number of accounts, payouts, sessions,  *)
(* admins and keys: the tables keep their shape, an account has at most    *)
(* one pending payout, a key buys at most one, and the routes implement    *)
(* PayoutLedger, so money leaves once for a payout that is paid.           *)
(*                                                                         *)
(* The inductive invariant says what the two kinds of row locks are for: a *)
(* request that has been admitted holds its account, which keeps every     *)
(* other request of the account from adding a pending payout, and an       *)
(* approval that has read its payout holds the payout, which keeps every   *)
(* other decision from being written on it.                                *)
(***************************************************************************)
EXTENDS Payouts, FiniteSetTheorems, TLAPS

Exists(p) == payout[p].status # "none"

(* A payout belongs to an account, and nothing has left before it is paid. *)
PayoutInv == \A p \in Payouts :
  /\ ~Exists(p) => payout[p] = NoPayout
  /\ Exists(p) => payout[p].acct \in Accounts /\ payout[p].amount \in Amounts
  /\ payout[p].status \in {"none", "pending"} => debit[p] = 0

UniquePending == \A p, q \in Payouts :
  payout[p].status = "pending" /\ payout[q].status = "pending"
    /\ payout[p].acct = payout[q].acct => p = q

(* The completed claims of an account answer with its payouts, each once. *)
ClaimInv ==
  /\ \A a \in Accounts, k \in Keys : claim[a][k] # Null =>
       Exists(claim[a][k]) /\ payout[claim[a][k]].acct = a
  /\ \A p \in Payouts : Exists(p) => \E k \in Keys :
       \A k2 \in Keys : claim[payout[p].acct][k2] = p <=> k2 = k

(* A request knows its account; once admitted it holds the account, which   *)
(* has no pending payout.                                                   *)
RequestInv(s) == session[s].op = "request" =>
  /\ session[s].acct \in Accounts /\ session[s].key \in Keys
  /\ session[s].amount \in Amounts
  /\ session[s].pc = "submit" => /\ lock[session[s].acct] = s
                                 /\ PendingOf(session[s].acct) = {}

(* A decision is about a payout that exists; once it is being decided the   *)
(* session holds it, still pending.                                         *)
DecisionInv(s) == session[s].op \in {"approve", "reject", "bulkReject"} =>
  /\ session[s].pay \in Payouts /\ Exists(session[s].pay)
  /\ session[s].op = "approve" => session[s].by \in Admins
  /\ session[s].pc = "decide" => /\ lock[session[s].pay] = s
                                 /\ payout[session[s].pay].status = "pending"

SessionInv(s) == RequestInv(s) /\ DecisionInv(s)

(* What the admission found of the account is still so when it is written.  *)
FitInv == \A s \in Sessions : At(s, "request", "submit") =>
  Ledger!Funds(session[s].acct, session[s].amount)

Inv == /\ TypeOK /\ PayoutInv /\ UniquePending /\ ClaimInv
       /\ \A s \in Sessions : SessionInv(s)
-----------------------------------------------------------------------------
(* What session s may do to the payouts table: enter a payout of an account *)
(* it holds, or decide one that nobody else holds.                          *)
Entitled(s) == \A p \in Payouts :
  \/ payout'[p] = payout[p]
  \/ /\ ~Exists(p) /\ payout'[p].status = "pending"
     /\ lock[payout'[p].acct] = s
  \/ /\ Exists(p) /\ lock[p] \in {Null, s}
     /\ payout'[p].acct = payout[p].acct
     /\ payout'[p].status \in {payout[p].status, "paid", "rejected"}

(* No session disturbs another one. *)
LEMMA OthersKeepInv ==
  ASSUME Inv, NEW s \in Sessions, NEW q \in Sessions \ {s},
         payout' \in [Payouts -> Payout], Entitled(s),
         session'[q] = session[q],
         \A r \in Accounts \cup Payouts : lock[r] = q => lock'[r] = q
  PROVE  SessionInv(q)'
<1>0. SessionInv(q) /\ q # s /\ q # Null /\ s # Null
  BY PayoutAssumption DEF Inv
<1>1. RequestInv(q)'
  <2> SUFFICES ASSUME session[q].op = "request"
               PROVE  RequestInv(q)'
    BY DEF RequestInv
  <2>1. ASSUME session[q].pc = "submit"
        PROVE  PendingOf(session[q].acct)' = {}
    <3>1. lock[session[q].acct] = q /\ PendingOf(session[q].acct) = {}
      BY <1>0, <2>1 DEF SessionInv, RequestInv
    <3>2. ASSUME NEW p \in Payouts, payout'[p].status = "pending",
                 payout'[p].acct = session[q].acct
          PROVE  FALSE
      BY <1>0, <3>1, <3>2 DEF Entitled, PendingOf
    <3> QED
      BY <3>2 DEF PendingOf
  <2> QED
    BY <1>0, <2>1 DEF SessionInv, RequestInv
<1>2. DecisionInv(q)'
  <2> SUFFICES ASSUME session[q].op \in {"approve", "reject", "bulkReject"}
               PROVE  DecisionInv(q)'
    BY DEF DecisionInv
  <2>1. session[q].pay \in Payouts /\ Exists(session[q].pay)
    BY <1>0 DEF SessionInv, DecisionInv
  <2>2. Exists(session[q].pay)'
    BY <2>1 DEF Entitled, Exists
  <2>3. ASSUME session[q].pc = "decide"
        PROVE  lock'[session[q].pay] = q /\ payout'[session[q].pay].status = "pending"
    BY <1>0, <2>1, <2>3 DEF SessionInv, DecisionInv, Entitled
  <2> QED
    BY <1>0, <2>1, <2>2, <2>3 DEF SessionInv, DecisionInv
<1> QED
  BY <1>1, <1>2 DEF SessionInv

LEMMA IdleType == Idle \in Job /\ Idle.op = "none"
BY DEF Idle, Job

(* A session between two transactions has nothing to lose. *)
LEMMA IdleInv ==
  ASSUME NEW s \in Sessions, session'[s] = Idle
  PROVE  SessionInv(s)'
BY IdleType DEF SessionInv, RequestInv, DecisionInv

(* A session's step changes no other session. *)
LEMMA BecomeType ==
  ASSUME TypeOK, NEW s \in Sessions, NEW job \in Job, Become(s, job)
  PROVE  /\ session' \in [Sessions -> Job] /\ session'[s] = job
         /\ \A q \in Sessions \ {s} : session'[q] = session[q]
BY DEF TypeOK, Become

(* COMMIT and ROLLBACK free only the session's own locks. *)
LEMMA EndTransactionKeepsOthers ==
  ASSUME TypeOK, NEW s \in Sessions, EndTransaction(s)
  PROVE  /\ lock' \in [Accounts \cup Payouts -> Sessions \cup {Null}]
         /\ session' \in [Sessions -> Job] /\ session'[s] = Idle
         /\ \A q \in Sessions \ {s} : session'[q] = session[q]
         /\ \A q \in Sessions \ {s} : \A r \in Accounts \cup Payouts :
              lock[r] = q => lock'[r] = q
<1>1. Become(s, Idle)
  BY DEF EndTransaction
<1>2. /\ lock' \in [Accounts \cup Payouts -> Sessions \cup {Null}]
      /\ \A q \in Sessions \ {s} : \A r \in Accounts \cup Payouts :
           lock[r] = q => lock'[r] = q
  BY PayoutAssumption DEF EndTransaction, TypeOK
<1> QED
  BY <1>1, <1>2, IdleType, BecomeType

(* A statement that writes no table keeps the invariant as soon as the      *)
(* session's own part of it holds again.                                    *)
LEMMA QuietStep ==
  ASSUME Inv, NEW s \in Sessions, UNCHANGED tables,
         lock' \in [Accounts \cup Payouts -> Sessions \cup {Null}],
         session' \in [Sessions -> Job],
         \A q \in Sessions \ {s} : session'[q] = session[q],
         \A q \in Sessions \ {s} : \A r \in Accounts \cup Payouts :
            lock[r] = q => lock'[r] = q,
         SessionInv(s)'
  PROVE  Inv'
<1>1. TypeOK' /\ payout' \in [Payouts -> Payout]
  BY DEF Inv, TypeOK, tables
<1>2. PayoutInv' /\ UniquePending' /\ ClaimInv'
  BY DEF Inv, PayoutInv, UniquePending, ClaimInv, Exists, tables
<1>3. Entitled(s)
  BY DEF Entitled, tables
<1>4. ASSUME NEW q \in Sessions \ {s} PROVE SessionInv(q)'
  BY <1>1, <1>3, <1>4, OthersKeepInv
<1> QED
  BY <1>1, <1>2, <1>4 DEF Inv

(* ROLLBACK keeps the invariant. *)
LEMMA RollbackStep ==
  ASSUME Inv, NEW s \in Sessions, Rollback(s)
  PROVE  Inv'
BY EndTransactionKeepsOthers, IdleInv, QuietStep DEF Rollback, Inv

(* A request to start, which takes no lock. *)
LEMMA BeginStep ==
  ASSUME Inv, NEW s \in Sessions, NEW job \in Job, Begin(s, job),
         SessionInv(s)'
  PROVE  Inv'
<1>1. Become(s, job) /\ UNCHANGED tables /\ UNCHANGED lock
  BY DEF Begin
<1> QED
  BY <1>1, BecomeType, QuietStep DEF Inv, TypeOK

(* A step that takes a free row and writes no table. *)
LEMMA TakeStep ==
  ASSUME Inv, NEW s \in Sessions, NEW job \in Job, NEW r \in Accounts \cup Payouts,
         IsFree(r), Take(s, r), Become(s, job), UNCHANGED tables,
         SessionInv(s)'
  PROVE  Inv'
<1>1. /\ lock' \in [Accounts \cup Payouts -> Sessions \cup {Null}]
      /\ \A q \in Sessions \ {s} : \A x \in Accounts \cup Payouts :
           lock[x] = q => lock'[x] = q
  BY PayoutAssumption DEF Inv, TypeOK, Take, IsFree
<1> QED
  BY <1>1, BecomeType, QuietStep DEF Inv
-----------------------------------------------------------------------------
(* The initial tables are empty. *)
LEMMA InitInv == Init => Inv
<1> SUFFICES ASSUME Init PROVE Inv
  OBVIOUS
<1> USE PayoutAssumption
<1>1. /\ NoPayout \in Payout
      /\ [active |-> TRUE, busy |-> FALSE, profit |-> 0, best |-> 0] \in Account
  BY DEF NoPayout, Payout, Account
<1>2. TypeOK
  BY <1>1, IdleType DEF Init, TypeOK
<1>3. PayoutInv /\ UniquePending /\ ClaimInv
  BY DEF Init, PayoutInv, UniquePending, ClaimInv, Exists, NoPayout
<1>4. \A s \in Sessions : SessionInv(s)
  BY IdleType DEF Init, SessionInv, RequestInv, DecisionInv
<1> QED
  BY <1>2, <1>3, <1>4 DEF Inv

LEMMA RequestStep ==
  ASSUME Inv, NEW s \in Sessions, NEW a \in Accounts, NEW k \in Keys,
         NEW n \in Amounts, Request(s, a, k, n)
  PROVE  Inv'
<1> DEFINE job == [Idle EXCEPT !.op = "request", !.pc = "lock", !.acct = a,
                               !.key = k, !.amount = n]
<1>1. /\ job \in Job /\ job.op = "request" /\ job.pc = "lock"
      /\ job.acct = a /\ job.key = k /\ job.amount = n
  BY PayoutAssumption DEF Idle, Job
<1>2. Begin(s, job)
  BY DEF Request
<1>3. session'[s] = job
  BY <1>1, <1>2, BecomeType DEF Inv, Begin
<1>4. SessionInv(s)'
  BY <1>1, <1>3 DEF SessionInv, RequestInv, DecisionInv
<1> QED
  BY <1>1, <1>2, <1>4, BeginStep

LEMMA AdmitStep ==
  ASSUME Inv, NEW s \in Sessions, Admit(s)
  PROVE  Inv'
<1> DEFINE j == session[s]
           job == [j EXCEPT !.pc = "submit"]
<1>1. /\ j \in Job /\ j.op = "request" /\ RequestInv(s)
      /\ j.acct \in Accounts /\ IsFree(j.acct)
  BY DEF Inv, TypeOK, Admit, At, SessionInv, RequestInv
<1>2. CASE ~Admissible(j.acct, j.amount)
  BY <1>2, RollbackStep DEF Admit
<1>3. CASE Admissible(j.acct, j.amount)
  <2>1. Take(s, j.acct) /\ Become(s, job) /\ UNCHANGED tables
    BY <1>3 DEF Admit
  <2>2. /\ job \in Job /\ job.op = "request" /\ job.pc = "submit"
        /\ job.acct = j.acct /\ job.key = j.key /\ job.amount = j.amount
    BY <1>1 DEF Job
  <2>3. session'[s] = job /\ lock'[j.acct] = s
    BY <1>1, <2>1, <2>2, BecomeType DEF Inv, TypeOK, Take
  <2>4. PendingOf(session[s].acct)' = {}
    BY <1>3, <2>1, <2>2, <2>3 DEF Admissible, PendingOf, tables
  <2>5. SessionInv(s)'
    BY <1>1, <2>2, <2>3, <2>4 DEF SessionInv, RequestInv, DecisionInv
  <2> HIDE DEF job
  <2> QED
    BY <1>1, <2>1, <2>2, <2>5, TakeStep
<1> QED
  BY <1>2, <1>3

LEMMA ApproveStep ==
  ASSUME Inv, NEW s \in Sessions, NEW p \in Payouts, NEW x \in Admins,
         Approve(s, p, x)
  PROVE  Inv'
<1> DEFINE job == [Idle EXCEPT !.op = "approve", !.pc = "lock", !.pay = p, !.by = x]
<1>1. /\ job \in Job /\ job.op = "approve" /\ job.pc = "lock"
      /\ job.pay = p /\ job.by = x
  BY PayoutAssumption DEF Idle, Job
<1>2. Begin(s, job) /\ Exists(p)
  BY DEF Approve, Inv, PayoutInv
<1>3. session'[s] = job /\ payout' = payout
  BY <1>1, <1>2, BecomeType DEF Inv, Begin, tables
<1>4. SessionInv(s)'
  BY <1>1, <1>2, <1>3 DEF SessionInv, RequestInv, DecisionInv, Exists
<1> QED
  BY <1>1, <1>2, <1>4, BeginStep

LEMMA RejectStep ==
  ASSUME Inv, NEW s \in Sessions, NEW p \in Payouts,
         NEW op \in {"reject", "bulkReject"}, Reject(s, p, op)
  PROVE  Inv'
<1> DEFINE job == [Idle EXCEPT !.op = op, !.pc = "write", !.pay = p]
<1>1. job \in Job /\ job.op = op /\ job.pc = "write" /\ job.pay = p
  BY PayoutAssumption DEF Idle, Job
<1>2. Begin(s, job) /\ Exists(p)
  BY DEF Reject, Inv, PayoutInv
<1>3. session'[s] = job /\ payout' = payout
  BY <1>1, <1>2, BecomeType DEF Inv, Begin, tables
<1>4. SessionInv(s)'
  BY <1>1, <1>2, <1>3 DEF SessionInv, RequestInv, DecisionInv, Exists
<1> QED
  BY <1>1, <1>2, <1>4, BeginStep

LEMMA LockPayoutStep ==
  ASSUME Inv, NEW s \in Sessions, LockPayout(s)
  PROVE  Inv'
<1> DEFINE j == session[s]
           job == [j EXCEPT !.pc = "decide", !.kyc = kyc[payout[j.pay].acct]]
<1>1. /\ j \in Job /\ j.op = "approve" /\ j.pay \in Payouts /\ Exists(j.pay)
      /\ j.by \in Admins /\ IsFree(j.pay) /\ payout[j.pay].acct \in Accounts
  BY DEF Inv, TypeOK, LockPayout, At, SessionInv, DecisionInv, PayoutInv
<1>2. CASE payout[j.pay].status # "pending"
  BY <1>2, RollbackStep DEF LockPayout
<1>3. CASE payout[j.pay].status = "pending"
  <2>1. Take(s, j.pay) /\ Become(s, job) /\ UNCHANGED tables
    BY <1>3 DEF LockPayout
  <2>2. kyc[payout[j.pay].acct] \in BOOLEAN
    BY <1>1 DEF Inv, TypeOK
  <2>3. /\ job \in Job /\ job.op = "approve" /\ job.pc = "decide"
        /\ job.pay = j.pay /\ job.by = j.by
    BY <1>1, <2>2 DEF Job
  <2>4. session'[s] = job /\ lock'[j.pay] = s
    BY <1>1, <2>1, <2>3, BecomeType DEF Inv, TypeOK, Take
  <2>5. SessionInv(s)'
    BY <1>1, <1>3, <2>1, <2>3, <2>4
    DEF SessionInv, RequestInv, DecisionInv, Exists, tables
  <2> HIDE DEF job
  <2> QED
    BY <1>1, <2>1, <2>3, <2>5, TakeStep
<1> QED
  BY <1>2, <1>3
-----------------------------------------------------------------------------
(* What an approver has in hand changes only by a step of an approval.      *)
LEMMA VettedKept ==
  ASSUME NEW s \in Sessions,
         \A q \in Sessions \ {s} : session'[q] = session[q],
         session[s].op # "approve" \/ session[s].pc # "decide",
         session'[s].op # "approve" \/ session'[s].pc # "decide"
  PROVE  Vetted' = Vetted
BY DEF Vetted, At

(* The payout's lock makes the approval that has it in hand the only one.   *)
LEMMA VettedReleased ==
  ASSUME Inv, NEW s \in Sessions, At(s, "approve", "decide"), EndTransaction(s)
  PROVE  Vetted' = Vetted \ {session[s].pay}
<1>1. /\ session'[s] = Idle
      /\ \A q \in Sessions \ {s} : session'[q] = session[q]
  BY EndTransactionKeepsOthers DEF Inv
<1>2. ASSUME NEW q \in Sessions \ {s}, At(q, "approve", "decide")
      PROVE  session[q].pay # session[s].pay
  BY <1>2 DEF Inv, SessionInv, DecisionInv, At
<1>3. ASSUME NEW p \in Payouts
      PROVE  p \in Vetted' <=> p \in Vetted /\ p # session[s].pay
  <2>1. p \in Vetted' <=> \E q \in Sessions \ {s} :
          At(q, "approve", "decide") /\ session[q].pay = p /\ session[q].kyc
    BY <1>1, IdleType DEF Vetted, At
  <2>2. p \in Vetted <=> \E q \in Sessions :
          At(q, "approve", "decide") /\ session[q].pay = p /\ session[q].kyc
    BY DEF Vetted
  <2> QED
    BY <1>2, <2>1, <2>2
<1>4. Vetted \subseteq Payouts /\ Vetted' \subseteq Payouts
  BY DEF Vetted
<1> QED
  BY <1>3, <1>4

(* A payout whose row lock is free is in no approver's hand.                *)
LEMMA FreeIsNotVetted ==
  ASSUME Inv, NEW p \in Payouts, lock[p] = Null
  PROVE  p \notin Vetted
<1>1. Null \notin Sessions
  BY PayoutAssumption
<1> QED
  BY <1>1 DEF Inv, SessionInv, DecisionInv, Vetted, At

(* A ROLLBACK puts back what the session had in hand. *)
LEMMA RollbackLapses ==
  ASSUME Inv, NEW s \in Sessions, Rollback(s)
  PROVE  Ledger!Next
<1>1. UNCHANGED <<account, kyc, limit, payout, debit>> /\ EndTransaction(s)
  BY DEF Rollback, tables
<1>2. CASE At(s, "approve", "decide")
  <2>1. Vetted' = Vetted \ {session[s].pay} /\ session[s].pay \in Payouts
    BY <1>1, <1>2, VettedReleased DEF Inv, SessionInv, DecisionInv, At
  <2>2. CASE session[s].pay \in Vetted
    <3>1. Ledger!Lapse(session[s].pay)
      BY <1>1, <2>1, <2>2 DEF Ledger!Lapse
    <3> QED
      BY <2>1, <3>1 DEF Ledger!Next
  <2>3. CASE session[s].pay \notin Vetted
    BY <1>1, <2>1, <2>3 DEF Ledger!Next, Ledger!World
  <2> QED
    BY <2>2, <2>3
<1>3. CASE ~At(s, "approve", "decide")
  <2>1. Vetted' = Vetted
    BY <1>1, <1>3, EndTransactionKeepsOthers, VettedKept, IdleType DEF Inv, At
  <2> QED
    BY <1>1, <2>1 DEF Ledger!Next, Ledger!World
<1> QED
  BY <1>2, <1>3

(* Taking a payout with approved KYC in hand is the ledger's Vet. *)
LEMMA LockPayoutVets ==
  ASSUME Inv, NEW s \in Sessions, LockPayout(s)
  PROVE  Ledger!Next
<1> DEFINE p == session[s].pay
<1>1. CASE Rollback(s)
  BY <1>1, RollbackLapses
<1>2. CASE ~Rollback(s)
  <2>1. /\ p \in Payouts /\ payout[p].status = "pending" /\ lock[p] = Null
        /\ Become(s, [session[s] EXCEPT !.pc = "decide", !.kyc = kyc[payout[p].acct]])
        /\ UNCHANGED <<account, kyc, limit, payout, debit>>
        /\ session[s].op = "approve" /\ session[s].pc = "lock"
    BY <1>2 DEF LockPayout, Inv, SessionInv, DecisionInv, At, IsFree, tables
  <2>2. /\ session'[s].op = "approve" /\ session'[s].pc = "decide"
        /\ session'[s].pay = p /\ session'[s].kyc = kyc[payout[p].acct]
        /\ \A q \in Sessions \ {s} : session'[q] = session[q]
    BY <2>1 DEF Become, Inv, TypeOK, Job
  <2>3. p \notin Vetted
    BY <2>1, FreeIsNotVetted
  <2>4. Vetted' = IF kyc[payout[p].acct] THEN Vetted \cup {p} ELSE Vetted
    BY <2>1, <2>2 DEF Vetted, At
  <2>5. CASE kyc[payout[p].acct]
    <3>1. Ledger!Vet(p)
      BY <2>1, <2>3, <2>4, <2>5 DEF Ledger!Vet
    <3> QED
      BY <2>1, <3>1 DEF Ledger!Next
  <2>6. CASE ~kyc[payout[p].acct]
    BY <2>1, <2>4, <2>6 DEF Ledger!Next, Ledger!World
  <2> QED
    BY <2>5, <2>6
<1> QED
  BY <1>1, <1>2

(* A request that is admitted finds an account without a pending payout: the *)
(* new payout is its only one.                                               *)
LEMMA SubmitStep ==
  ASSUME Inv, FitInv, NEW s \in Sessions, NEW p \in Payouts, Submit(s, p)
  PROVE  Inv' /\ Ledger!Ask(p, session[s].acct, session[s].amount)
              /\ session[s].acct \in Accounts /\ session[s].amount \in Amounts
<1> DEFINE a == session[s].acct
           k == session[s].key
           n == session[s].amount
           new == NewPayout(session[s])
<1>1. /\ a \in Accounts /\ k \in Keys /\ n \in Amounts
      /\ lock[a] = s /\ PendingOf(a) = {}
  BY DEF Inv, Submit, At, SessionInv, RequestInv
<1>2. /\ payout[p] = NoPayout /\ ~Exists(p) /\ claim[a][k] = Null
      /\ payout' = [payout EXCEPT ![p] = new]
      /\ claim' = [claim EXCEPT ![a][k] = p]
      /\ UNCHANGED <<account, kyc, limit, debit>>
      /\ EndTransaction(s)
  BY DEF Submit, Exists, NoPayout
<1>3. new \in Payout /\ new.status = "pending" /\ new.acct = a /\ new.amount = n
  BY <1>1, PayoutAssumption DEF Payout, NewPayout, NoPayout
<1>0. new = [Ledger!NoRequest EXCEPT !.status = "pending", !.acct = a, !.amount = n]
  BY DEF NewPayout, NoPayout, Ledger!NoRequest
<1> HIDE DEF new
<1>4. /\ payout' \in [Payouts -> Payout] /\ payout'[p] = new
      /\ \A q \in Payouts \ {p} : payout'[q] = payout[q]
  BY <1>2, <1>3 DEF Inv, TypeOK
<1>5. /\ claim' \in [Accounts -> [Keys -> Payouts \cup {Null}]]
      /\ claim'[a][k] = p
      /\ \A b \in Accounts, x \in Keys :
           b # a \/ x # k => claim'[b][x] = claim[b][x]
  BY <1>1, <1>2 DEF Inv, TypeOK
<1>6. TypeOK'
  BY <1>2, <1>4, <1>5, EndTransactionKeepsOthers DEF Inv, TypeOK
<1>7. PayoutInv'
  BY <1>1, <1>2, <1>3, <1>4 DEF Inv, PayoutInv, Exists, NoPayout
<1>8. UniquePending'
  BY <1>1, <1>3, <1>4 DEF Inv, UniquePending, PendingOf
<1>9. ClaimInv'
  <2>0. p # Null
    BY PayoutAssumption
  <2>1. ASSUME NEW b \in Accounts, NEW x \in Keys, claim'[b][x] # Null
        PROVE  /\ payout'[claim'[b][x]].status # "none"
               /\ payout'[claim'[b][x]].acct = b
    <3>1. CASE b = a /\ x = k
      BY <1>3, <1>4, <1>5, <3>1 DEF Exists
    <3>2. CASE b # a \/ x # k
      <4>1. /\ claim'[b][x] = claim[b][x] /\ claim[b][x] \in Payouts
            /\ Exists(claim[b][x]) /\ payout[claim[b][x]].acct = b
        BY <1>5, <2>1, <3>2 DEF Inv, TypeOK, ClaimInv
      <4> QED
        BY <1>2, <1>4, <4>1 DEF Exists
    <3> QED
      BY <3>1, <3>2
  <2>2. ASSUME NEW q \in Payouts, Exists(q)'
        PROVE  \E y \in Keys : \A x \in Keys :
                 claim'[payout'[q].acct][x] = q <=> x = y
    <3>1. CASE q = p
      <4>1. \A x \in Keys \ {k} : claim'[a][x] = claim[a][x] /\ claim[a][x] # p
        BY <1>1, <1>2, <1>5, <2>0 DEF Inv, ClaimInv
      <4>2. payout'[q].acct = a /\ claim'[a][k] = q
        BY <1>3, <1>4, <1>5, <3>1
      <4> QED
        BY <1>1, <3>1, <4>1, <4>2
    <3>2. CASE q # p
      <4>1. Exists(q) /\ payout'[q] = payout[q] /\ payout[q].acct \in Accounts
        BY <1>4, <2>2, <3>2 DEF Exists, Inv, PayoutInv
      <4>2. PICK y \in Keys : \A x \in Keys :
              claim[payout[q].acct][x] = q <=> x = y
        BY <4>1 DEF Inv, ClaimInv
      <4>3. \A x \in Keys :
              claim'[payout[q].acct][x] = q <=> claim[payout[q].acct][x] = q
        BY <1>1, <1>2, <1>5, <3>2, <4>1, PayoutAssumption
      <4> QED
        BY <4>1, <4>2, <4>3
    <3> QED
      BY <3>1, <3>2
  <2> QED
    BY <2>1, <2>2 DEF ClaimInv, Exists
<1>10. Entitled(s)
  BY <1>1, <1>2, <1>3, <1>4 DEF Entitled
<1>11. ASSUME NEW q \in Sessions PROVE SessionInv(q)'
  BY <1>2, <1>4, <1>10, EndTransactionKeepsOthers, OthersKeepInv, IdleInv DEF Inv
<1>12. Vetted' = Vetted
  BY <1>2, EndTransactionKeepsOthers, VettedKept, IdleType DEF Inv, TypeOK, Submit, At
<1>13. Ledger!Funds(a, n)
  BY DEF FitInv, Submit
<1>14. Ledger!Ask(p, a, n)
  <2>1. payout[p] = Ledger!NoRequest /\ Ledger!OpenFor(a) = {}
    BY <1>1, <1>2 DEF Ledger!NoRequest, Ledger!OpenFor, PendingOf, NoPayout
  <2> QED
    BY <1>0, <1>2, <1>12, <1>13, <2>1 DEF Ledger!Ask
<1> QED
  BY <1>1, <1>6, <1>7, <1>8, <1>9, <1>11, <1>14 DEF Inv

(* A decision on payout p, which nobody else holds, keeps the invariant: the *)
(* payout stays its account's, and is not opened again.                      *)
LEMMA DecisionStep ==
  ASSUME Inv, NEW s \in Sessions, NEW p \in Payouts, Exists(p),
         lock[p] \in {Null, s},
         NEW row \in Payout, payout' = [payout EXCEPT ![p] = row],
         row.acct = payout[p].acct, row.amount = payout[p].amount,
         row.status \in {payout[p].status, "paid", "rejected"},
         row.status # "pending" \/ debit'[p] = debit[p],
         debit' \in [Payouts -> Nat], \A q \in Payouts \ {p} : debit'[q] = debit[q],
         account' \in [Accounts -> Account],
         UNCHANGED <<kyc, limit, claim>>, EndTransaction(s)
  PROVE  Inv'
<1>1. /\ payout' \in [Payouts -> Payout] /\ payout'[p] = row
      /\ \A q \in Payouts \ {p} : payout'[q] = payout[q]
  BY DEF Inv, TypeOK
<1>2. /\ \A q \in Payouts : Exists(q)' <=> Exists(q)
      /\ \A q \in Payouts : payout'[q].acct = payout[q].acct
      /\ \A q \in Payouts : payout'[q].amount = payout[q].amount
      /\ \A q \in Payouts : payout'[q].status = "pending" =>
            payout[q].status = "pending" /\ debit'[q] = debit[q]
  BY <1>1 DEF Exists
<1>3. TypeOK'
  BY <1>1, EndTransactionKeepsOthers DEF Inv, TypeOK
<1>4. PayoutInv'
  BY <1>1, <1>2 DEF Inv, PayoutInv, Exists
<1>5. UniquePending'
  BY <1>2 DEF Inv, UniquePending
<1>6. ClaimInv'
  <2>1. \A a \in Accounts, k \in Keys : claim[a][k] \in Payouts \cup {Null}
    BY DEF Inv, TypeOK
  <2> QED
    BY <1>2, <2>1 DEF Inv, ClaimInv
<1>7. Entitled(s)
  BY <1>1 DEF Entitled
<1>8. ASSUME NEW q \in Sessions PROVE SessionInv(q)'
  BY <1>1, <1>7, EndTransactionKeepsOthers, OthersKeepInv, IdleInv DEF Inv
<1> QED
  BY <1>3, <1>4, <1>5, <1>6, <1>8 DEF Inv

(* What a session that decides under both locks knows of its payout. *)
LEMMA Deciding ==
  ASSUME Inv, NEW s \in Sessions, Decides(s), ~Refused(s)
  PROVE  LET p == session[s].pay
         IN /\ p \in Payouts /\ Exists(p) /\ lock[p] = s
            /\ payout[p] \in Payout /\ payout[p].status = "pending"
            /\ payout[p].acct \in Accounts /\ payout[p].amount \in Nat
            /\ debit[p] = 0 /\ session[s].by \in Admins
            /\ NeedsTwo(payout[p].amount) => payout[p].first # session[s].by
            /\ p \in Vetted /\ Ledger!Approvable(p)
<1> DEFINE p == session[s].pay
<1>1. /\ p \in Payouts /\ Exists(p) /\ lock[p] = s
      /\ payout[p] \in Payout /\ payout[p].status = "pending"
      /\ payout[p].acct \in Accounts /\ payout[p].amount \in Nat
      /\ debit[p] = 0 /\ session[s].by \in Admins
      /\ NeedsTwo(payout[p].amount) => payout[p].first # session[s].by
  BY PayoutAssumption
  DEF Inv, Decides, At, SessionInv, DecisionInv, TypeOK, PayoutInv, Exists, Refused
<1>2. session[s].kyc /\ Ledger!Funds(payout[p].acct, payout[p].amount)
  BY DEF Refused, Eligible, Ledger!Funds
<1>3. p \in Vetted
  BY <1>1, <1>2 DEF Vetted, Decides
<1>4. Ledger!Approvable(p)
  BY <1>1, <1>2, <1>3 DEF Ledger!Approvable
<1> QED
  BY <1>1, <1>3, <1>4

LEMMA RecordFirstStep ==
  ASSUME Inv, NEW s \in Sessions, RecordFirst(s)
  PROVE  Inv' /\ session[s].pay \in Payouts /\ session[s].by \in Admins
              /\ Ledger!Endorse(session[s].pay, session[s].by)
<1> DEFINE p == session[s].pay
           x == session[s].by
           row == [payout[p] EXCEPT !.first = x]
<1>1. /\ p \in Payouts /\ Exists(p) /\ lock[p] = s /\ x \in Admins
      /\ payout[p] \in Payout /\ payout[p].status = "pending"
      /\ Ledger!Approvable(p)
  BY Deciding DEF RecordFirst
<1>2. /\ row \in Payout /\ row.acct = payout[p].acct /\ row.status = payout[p].status
      /\ row.amount = payout[p].amount
  BY <1>1 DEF Payout
<1>3. /\ payout' = [payout EXCEPT ![p] = row]
      /\ UNCHANGED <<account, kyc, limit, debit, claim>> /\ EndTransaction(s)
  BY DEF RecordFirst
<1>0. Vetted' = Vetted \ {p}
  BY <1>3, VettedReleased DEF RecordFirst, Decides
<1>4. Ledger!Endorse(p, x)
  BY <1>0, <1>1, <1>3 DEF RecordFirst, NeedsTwo, Ledger!Endorse, Ledger!NeedsTwo
<1> HIDE DEF row
<1>5. Inv'
  BY <1>1, <1>2, <1>3, DecisionStep DEF Inv, TypeOK
<1> QED
  BY <1>1, <1>4, <1>5

LEMMA PayOutStep ==
  ASSUME Inv, NEW s \in Sessions, PayOut(s)
  PROVE  Inv' /\ session[s].pay \in Payouts /\ session[s].by \in Admins
              /\ Ledger!Pay(session[s].pay, session[s].by)
<1> DEFINE p == session[s].pay
           x == session[s].by
           a == payout[p].acct
           n == payout[p].amount
           second == IF NeedsTwo(n) THEN x ELSE payout[p].second
           row == [payout[p] EXCEPT !.status = "paid", !.second = second]
<1>1. /\ p \in Payouts /\ Exists(p) /\ lock[p] = s /\ x \in Admins
      /\ payout[p] \in Payout /\ payout[p].status = "pending"
      /\ a \in Accounts /\ n \in Nat /\ debit[p] = 0
      /\ NeedsTwo(n) => payout[p].first # x
      /\ Ledger!Approvable(p)
  BY Deciding DEF PayOut
<1>0. second \in Admins \cup {Null}
  BY <1>1 DEF Payout
<1>2. /\ row \in Payout /\ row.acct = a /\ row.status = "paid" /\ row.amount = n
  BY <1>0, <1>1 DEF Payout
<1>3. /\ payout' = [payout EXCEPT ![p] = row] /\ Debit(p)
      /\ UNCHANGED <<kyc, limit, claim>> /\ EndTransaction(s)
  BY DEF PayOut
<1>4. account' \in [Accounts -> Account]
  <2> DEFINE poorer == [account[a] EXCEPT !.profit = account[a].profit - n]
  <2>1. account \in [Accounts -> Account]
    BY DEF Inv, TypeOK
  <2>2. account[a] \in Account /\ account[a].profit - n \in Int
    BY <1>1, <2>1 DEF Account
  <2>3. poorer \in Account
    BY <2>2 DEF Account
  <2>4. account' = [account EXCEPT ![a] = poorer]
    BY <1>3 DEF Debit
  <2> HIDE DEF a, n, poorer
  <2> QED
    BY <1>1, <2>1, <2>3, <2>4
<1>5. /\ debit' = [debit EXCEPT ![p] = n] /\ debit' \in [Payouts -> Nat]
      /\ \A q \in Payouts \ {p} : debit'[q] = debit[q]
  <2>1. debit' = [debit EXCEPT ![p] = debit[p] + n] /\ debit \in [Payouts -> Nat]
    BY <1>3 DEF Debit, Inv, TypeOK
  <2>2. debit[p] + n = n
    BY <1>1
  <2> HIDE DEF n, p
  <2> QED
    BY <1>1, <2>1, <2>2
<1>6. Ledger!Pay(p, x)
  <2>1. Vetted' = Vetted \ {p}
    BY <1>3, VettedReleased DEF PayOut, Decides
  <2>2. Ledger!NeedsTwo(p) <=> NeedsTwo(n)
    BY DEF NeedsTwo, Ledger!NeedsTwo
  <2>3. NeedsTwo(n) => payout[p].first \notin {Null, x}
    BY <1>1 DEF PayOut
  <2>4. payout' = [payout EXCEPT ![p].status = "paid",
                     ![p].second = IF Ledger!NeedsTwo(p) THEN x ELSE @]
    BY <2>2 DEF PayOut
  <2> QED
    BY <1>1, <1>3, <1>5, <2>1, <2>2, <2>3, <2>4 DEF Ledger!Pay, Debit
<1> HIDE DEF row
<1>7. Inv'
  BY <1>1, <1>2, <1>3, <1>4, <1>5, DecisionStep
<1> QED
  BY <1>1, <1>6, <1>7

(* A rejection refuses a pending payout that nobody has in hand; only the    *)
(* bulk rejection touches one that was decided.                              *)
LEMMA RejectionStep ==
  ASSUME Inv, NEW s \in Sessions,
         WriteRejection(s) \/ WriteBulkRejection(s), ~Rollback(s)
  PROVE  /\ Inv' /\ session[s].pay \in Payouts
         /\ Ledger!Refuse(session[s].pay) \/ UndoneByBulk
<1> DEFINE p == session[s].pay
           row == [payout[p] EXCEPT !.status = "rejected"]
<1>1. /\ p \in Payouts /\ Exists(p) /\ lock[p] = Null /\ payout[p] \in Payout
  BY DEF Inv, TypeOK, WriteRejection, WriteBulkRejection, At, IsFree,
         SessionInv, DecisionInv
<1>2. /\ row \in Payout /\ row.acct = payout[p].acct /\ row.status = "rejected"
      /\ row.amount = payout[p].amount
  BY <1>1 DEF Payout
<1>3. /\ payout' = [payout EXCEPT ![p] = row]
      /\ UNCHANGED <<account, kyc, limit, debit, claim>> /\ EndTransaction(s)
  BY DEF WriteRejection, WriteBulkRejection
<1>4. Vetted' = Vetted
  BY <1>3, EndTransactionKeepsOthers, VettedKept, IdleType
  DEF Inv, WriteRejection, WriteBulkRejection, At
<1>5. Ledger!Refuse(p) \/ UndoneByBulk
  <2>1. CASE payout[p].status = "pending"
    BY <1>1, <1>3, <1>4, <2>1, FreeIsNotVetted DEF Ledger!Refuse
  <2>2. CASE payout[p].status # "pending"
    <3>1. WriteBulkRejection(s)
      BY <2>2 DEF WriteRejection
    <3> QED
      BY <2>2, <3>1 DEF UndoneByBulk
  <2> QED
    BY <2>1, <2>2
<1> HIDE DEF row
<1>6. Inv'
  BY <1>1, <1>2, <1>3, DecisionStep DEF Inv, TypeOK
<1> QED
  BY <1>1, <1>5, <1>6

(* Trading, the engine, the KYC desk and the operator write no payout. *)
Environment ==
  \/ \E a \in Accounts :
       \/ OpenPosition(a) \/ EndAccount(a) \/ ReviewKyc(a)
       \/ \E r \in Results : ClosePosition(a, r)
  \/ SetLimit

LEMMA EnvironmentStep ==
  ASSUME Inv, Environment
  PROVE  Inv' /\ Ledger!World
<1>1. /\ UNCHANGED <<payout, debit, claim, lock, session>>
      /\ limit' = limit \/ limit' \in Amounts \cup {Null}
  BY DEF Environment, OpenPosition, EndAccount, ReviewKyc, ClosePosition, SetLimit
<1>2. kyc' \in [Accounts -> BOOLEAN]
  BY DEF Inv, TypeOK, Environment, OpenPosition, EndAccount, ReviewKyc, ClosePosition, SetLimit
<1>3. account' \in [Accounts -> Account]
  <2>1. CASE UNCHANGED account
    BY <2>1 DEF Inv, TypeOK
  <2>2. ASSUME NEW a \in Accounts, OpenPosition(a) \/ EndAccount(a)
        PROVE  account' \in [Accounts -> Account]
    <3>1. account[a] \in Account
      BY DEF Inv, TypeOK
    <3>2. /\ [account[a] EXCEPT !.busy = TRUE] \in Account
          /\ [account[a] EXCEPT !.active = FALSE, !.busy = FALSE] \in Account
      BY <3>1 DEF Account
    <3> QED
      BY <2>2, <3>2 DEF Inv, TypeOK, OpenPosition, EndAccount
  <2>3. ASSUME NEW a \in Accounts, NEW r \in Results, ClosePosition(a, r)
        PROVE  account' \in [Accounts -> Account]
    <3> DEFINE best == IF r > account[a].best THEN r ELSE account[a].best
               profit == account[a].profit + r
               new == [account[a] EXCEPT !.busy = FALSE, !.profit = profit, !.best = best]
    <3>1. account[a] \in Account /\ r \in Int
      BY PayoutAssumption DEF Inv, TypeOK
    <3>2. best \in Nat /\ profit \in Int
      BY <3>1 DEF Account
    <3> HIDE DEF best, profit
    <3>3. new \in Account
      BY <3>1, <3>2 DEF Account
    <3> HIDE DEF new
    <3>4. account' = [account EXCEPT ![a] = new]
      BY <2>3 DEF ClosePosition, new, best, profit
    <3> QED
      BY <3>3, <3>4 DEF Inv, TypeOK
  <2> QED
    BY <2>1, <2>2, <2>3 DEF Environment, ReviewKyc, SetLimit
<1>4. TypeOK'
  BY <1>1, <1>2, <1>3, PayoutAssumption DEF Inv, TypeOK
<1>5. /\ PayoutInv' /\ UniquePending' /\ ClaimInv'
      /\ \A s \in Sessions : SessionInv(s)'
  BY <1>1 DEF Inv, PayoutInv, UniquePending, ClaimInv, Exists, SessionInv,
              RequestInv, DecisionInv, PendingOf
<1>6. Vetted' = Vetted
  BY <1>1 DEF Vetted, At
<1> QED
  BY <1>1, <1>4, <1>5, <1>6 DEF Inv, Ledger!World

(* What is left of Next: the steps of one session. *)
StepOf(s) ==
  \/ \E a \in Accounts, k \in Keys, n \in Amounts : Request(s, a, k, n)
  \/ Admit(s) \/ Replay(s) \/ \E p \in Payouts : Submit(s, p)
  \/ \E p \in Payouts, x \in Admins : Approve(s, p, x)
  \/ LockPayout(s) \/ Turndown(s) \/ RecordFirst(s) \/ PayOut(s)
  \/ \E p \in Payouts, op \in {"reject", "bulkReject"} : Reject(s, p, op)
  \/ WriteRejection(s) \/ WriteBulkRejection(s)
  \/ Rollback(s)

(* What an admission found of its account stays so: the account is locked.  *)
LEMMA FitStep ==
  ASSUME Inv, FitInv, [Next]_vars
  PROVE  FitInv'
<1> SUFFICES ASSUME NEW q \in Sessions,
                    session'[q].op = "request", session'[q].pc = "submit"
             PROVE  Ledger!Funds(session[q].acct, session[q].amount)'
  BY DEF FitInv, At
<1>0. session \in [Sessions -> Job] /\ account \in [Accounts -> Account]
  BY DEF Inv, TypeOK
<1>1. ASSUME NEW a \in Accounts, lock[a] # Null PROVE account'[a] = account[a]
  <2>1. ASSUME NEW s \in Sessions, PayOut(s) PROVE account'[a] = account[a]
    BY <1>0, <1>1, <2>1 DEF PayOut, Decides, IsFree, Debit
  <2>2. CASE Environment
    BY <1>0, <1>1, <2>2
    DEF Environment, OpenPosition, EndAccount, ReviewKyc, ClosePosition, SetLimit, IsFree
  <2>3. CASE UNCHANGED account
    BY <2>3
  <2>4. Environment \/ UNCHANGED account \/ \E s \in Sessions : PayOut(s)
    BY DEF Next, vars, tables, Environment, Request, Admit, Replay, Submit, Approve,
           LockPayout, Turndown, RecordFirst, Reject, WriteRejection,
           WriteBulkRejection, Rollback, Begin
  <2> QED
    BY <2>1, <2>2, <2>3, <2>4
<1>2. CASE session'[q] = session[q]
  <2>1. /\ At(q, "request", "submit") /\ session[q].acct \in Accounts
        /\ lock[session[q].acct] = q /\ q # Null
    BY <1>2, PayoutAssumption DEF Inv, SessionInv, RequestInv, At
  <2>2. account'[session[q].acct] = account[session[q].acct]
    BY <1>1, <2>1
  <2>3. Ledger!Funds(session[q].acct, session[q].amount)
    BY <2>1 DEF FitInv
  <2> QED
    BY <1>2, <2>2, <2>3 DEF Ledger!Funds
<1>3. CASE session'[q] # session[q]
  <2>1. PICK s \in Sessions : StepOf(s)
    BY <1>3 DEF Next, StepOf, vars, OpenPosition, EndAccount, ReviewKyc,
                ClosePosition, SetLimit
  <2>2. s = q
    BY <1>0, <1>3, <2>1
    DEF StepOf, Request, Admit, Replay, Submit, Approve, LockPayout, Turndown,
        RecordFirst, PayOut, Reject, WriteRejection, WriteBulkRejection, Rollback,
        Begin, Become, EndTransaction
  <2>3. Admit(q) /\ ~Rollback(q)
    <3>1. ~Become(q, Idle)
      BY <1>0, IdleType DEF Become
    <3>2. ~EndTransaction(q) /\ ~Rollback(q)
      BY <3>1 DEF EndTransaction, Rollback
    <3>3. ASSUME NEW a \in Accounts, NEW k \in Keys, NEW n \in Amounts,
                 Request(q, a, k, n)
          PROVE  FALSE
      <4>1. session'[q] = [Idle EXCEPT !.op = "request", !.pc = "lock", !.acct = a,
                                       !.key = k, !.amount = n]
        BY <1>0, <3>3 DEF Request, Begin, Become
      <4> QED
        BY <4>1 DEF Idle
    <3>4. ASSUME NEW p \in Payouts, NEW x \in Admins, Approve(q, p, x) PROVE FALSE
      <4>1. session'[q] = [Idle EXCEPT !.op = "approve", !.pc = "lock", !.pay = p, !.by = x]
        BY <1>0, <3>4 DEF Approve, Begin, Become
      <4> QED
        BY <4>1 DEF Idle
    <3>5. ASSUME NEW p \in Payouts, NEW op \in {"reject", "bulkReject"}, Reject(q, p, op)
          PROVE  FALSE
      <4>1. session'[q] = [Idle EXCEPT !.op = op, !.pc = "write", !.pay = p]
        BY <1>0, <3>5 DEF Reject, Begin, Become
      <4> QED
        BY <4>1 DEF Idle
    <3>6. ~LockPayout(q)
      <4> SUFFICES ASSUME LockPayout(q) PROVE FALSE
        OBVIOUS
      <4>1. session'[q] = [session[q] EXCEPT !.pc = "decide",
                                             !.kyc = kyc[payout[session[q].pay].acct]]
        BY <1>0, <3>2 DEF LockPayout, Become
      <4>2. session[q] \in Job
        BY <1>0
      <4> QED
        BY <4>1, <4>2 DEF Job
    <3>7. /\ ~Replay(q) /\ ~Turndown(q) /\ ~RecordFirst(q) /\ ~PayOut(q)
          /\ ~WriteRejection(q) /\ ~WriteBulkRejection(q)
          /\ \A p \in Payouts : ~Submit(q, p)
      BY <3>2 DEF Replay, Turndown, RecordFirst, PayOut, WriteRejection,
                  WriteBulkRejection, Submit
    <3> QED
      BY <2>1, <2>2, <3>2, <3>3, <3>4, <3>5, <3>6, <3>7 DEF StepOf
  <2>4. /\ Eligible(session[q].acct, session[q].amount, kyc[session[q].acct])
        /\ UNCHANGED account
        /\ session'[q] = [session[q] EXCEPT !.pc = "submit"]
    BY <1>0, <2>3 DEF Admit, Admissible, Become, tables
  <2>5. session'[q].acct = session[q].acct /\ session'[q].amount = session[q].amount
    BY <1>0, <2>4 DEF Job
  <2> QED
    BY <2>4, <2>5 DEF Eligible, Ledger!Funds
<1> QED
  BY <1>2, <1>3

(* Every step keeps the invariant and is a step of the ledger, or the bulk   *)
(* rejection of a decided payout.                                            *)
LEMMA NextStep ==
  ASSUME Inv, FitInv, [Next]_vars
  PROVE  Inv' /\ [Ledger!Next \/ UndoneByBulk]_(Ledger!ledger)
<1> DEFINE promised == [Ledger!Next \/ UndoneByBulk]_(Ledger!ledger)
           kept == Inv' /\ promised
<1>q. ASSUME NEW s \in Sessions, UNCHANGED tables,
             \A q \in Sessions \ {s} : session'[q] = session[q],
             session[s].op # "approve" \/ session[s].pc # "decide",
             session'[s].op # "approve" \/ session'[s].pc # "decide"
      PROVE  promised
  <2>1. Vetted' = Vetted
    BY <1>q, VettedKept
  <2> QED
    BY <1>q, <2>1 DEF Ledger!Next, Ledger!World, tables
<1>b. ASSUME NEW s \in Sessions, NEW job \in Job, Begin(s, job), job.pc # "decide"
      PROVE  promised
  <2>1. Become(s, job) /\ UNCHANGED tables /\ session[s] = Idle
    BY <1>b DEF Begin
  <2>2. session'[s] = job /\ \A q \in Sessions \ {s} : session'[q] = session[q]
    BY <2>1, BecomeType DEF Inv
  <2> QED
    BY <1>b, <1>q, <2>1, <2>2, IdleType
<1>r. ASSUME NEW s \in Sessions, Rollback(s) PROVE kept
  BY <1>r, RollbackStep, RollbackLapses
<1>1. ASSUME NEW s \in Sessions, NEW a \in Accounts, NEW k \in Keys,
             NEW n \in Amounts, Request(s, a, k, n)
      PROVE  kept
  <2> DEFINE job == [Idle EXCEPT !.op = "request", !.pc = "lock", !.acct = a,
                                 !.key = k, !.amount = n]
  <2>1. job \in Job /\ job.pc # "decide"
    BY PayoutAssumption DEF Idle, Job
  <2>2. Begin(s, job)
    BY <1>1 DEF Request
  <2> HIDE DEF job
  <2> QED
    BY <1>1, <1>b, <2>1, <2>2, RequestStep
<1>2. ASSUME NEW s \in Sessions, Admit(s) \/ Replay(s) PROVE kept
  <2>1. CASE Rollback(s)
    BY <1>r, <2>1
  <2>2. CASE ~Rollback(s)
    <3>1. Admit(s) /\ UNCHANGED tables /\ session[s] \in Job
          /\ Become(s, [session[s] EXCEPT !.pc = "submit"])
      BY <1>2, <2>2 DEF Admit, Replay, Inv, TypeOK
    <3>2. /\ session'[s].pc = "submit" /\ session[s].pc = "lock"
          /\ \A q \in Sessions \ {s} : session'[q] = session[q]
      BY <3>1 DEF Become, Admit, At, Inv, TypeOK, Job
    <3> QED
      BY <1>q, <3>1, <3>2, AdmitStep
  <2> QED
    BY <2>1, <2>2
<1>3. ASSUME NEW s \in Sessions, NEW p \in Payouts, Submit(s, p) PROVE kept
  BY <1>3, SubmitStep DEF Ledger!Next
<1>4. ASSUME NEW s \in Sessions, NEW p \in Payouts, NEW x \in Admins, Approve(s, p, x)
      PROVE  kept
  <2> DEFINE job == [Idle EXCEPT !.op = "approve", !.pc = "lock", !.pay = p, !.by = x]
  <2>1. job \in Job /\ job.pc # "decide"
    BY PayoutAssumption DEF Idle, Job
  <2>2. Begin(s, job)
    BY <1>4 DEF Approve
  <2> HIDE DEF job
  <2> QED
    BY <1>4, <1>b, <2>1, <2>2, ApproveStep
<1>5. ASSUME NEW s \in Sessions, LockPayout(s) PROVE kept
  BY <1>5, LockPayoutStep, LockPayoutVets
<1>6. ASSUME NEW s \in Sessions, Turndown(s) PROVE kept
  BY <1>6, <1>r DEF Turndown
<1>7. ASSUME NEW s \in Sessions, RecordFirst(s) PROVE kept
  BY <1>7, RecordFirstStep DEF Ledger!Next
<1>8. ASSUME NEW s \in Sessions, PayOut(s) PROVE kept
  BY <1>8, PayOutStep DEF Ledger!Next
<1>9. ASSUME NEW s \in Sessions, NEW p \in Payouts,
             NEW op \in {"reject", "bulkReject"}, Reject(s, p, op)
      PROVE  kept
  <2> DEFINE job == [Idle EXCEPT !.op = op, !.pc = "write", !.pay = p]
  <2>1. job \in Job /\ job.pc # "decide"
    BY PayoutAssumption DEF Idle, Job
  <2>2. Begin(s, job)
    BY <1>9 DEF Reject
  <2> HIDE DEF job
  <2> QED
    BY <1>9, <1>b, <2>1, <2>2, RejectStep
<1>10. ASSUME NEW s \in Sessions, WriteRejection(s) \/ WriteBulkRejection(s) PROVE kept
  BY <1>10, <1>r, RejectionStep DEF Ledger!Next
<1>11. CASE Environment
  BY <1>11, EnvironmentStep DEF Ledger!Next
<1>12. CASE UNCHANGED vars
  <2>1. UNCHANGED <<account, kyc, limit, payout, debit>> /\ Vetted' = Vetted
    BY <1>12 DEF vars, Vetted, At
  <2>2. Inv'
    BY <1>12 DEF vars, Inv, TypeOK, PayoutInv, UniquePending, ClaimInv, Exists,
                 SessionInv, RequestInv, DecisionInv, PendingOf
  <2> QED
    BY <2>1, <2>2 DEF Ledger!ledger
<1> HIDE DEF kept
<1>13. ASSUME NEW s \in Sessions, StepOf(s) PROVE kept
  BY <1>r, <1>1, <1>2, <1>3, <1>4, <1>5, <1>6, <1>7, <1>8, <1>9, <1>10, <1>13 DEF StepOf
<1>14. Next => Environment \/ \E s \in Sessions : StepOf(s)
  BY DEF Next, Environment, StepOf
<1>15. Next \/ UNCHANGED vars
  OBVIOUS
<1> QED
  BY <1>11, <1>12, <1>13, <1>14, <1>15 DEF kept
-----------------------------------------------------------------------------
(* The invariant holds in every reachable state. *)
THEOREM Invariance == Spec => [](Inv /\ FitInv)
<1>1. Init => Inv /\ FitInv
  BY InitInv, IdleType DEF Init, FitInv, At
<1>2. Inv /\ FitInv /\ [Next]_vars => Inv' /\ FitInv'
  BY NextStep, FitStep
<1> QED
  BY <1>1, <1>2, PTL DEF Spec

(* The tables and the sessions keep their shape (MCPayouts checks TypeOK). *)
THEOREM TypeCorrect == Spec => []TypeOK
<1>1. Inv => TypeOK
  BY DEF Inv
<1> QED
  BY <1>1, Invariance, PTL

(* Requests that race for one account leave it with one pending payout       *)
(* (routes/payouts.js:299), however many sessions there are.                 *)
THEOREM OnePendingHolds == Spec => []OnePending
<1>1. Inv => OnePending
  <2> SUFFICES ASSUME Inv, NEW a \in Accounts
               PROVE  Cardinality(PendingOf(a)) <= 1
    BY DEF OnePending
  <2>1. CASE PendingOf(a) = {}
    BY <2>1, FS_EmptySet
  <2>2. CASE PendingOf(a) # {}
    <3>1. PICK p \in PendingOf(a) : TRUE
      BY <2>2
    <3>2. PendingOf(a) = {p}
      BY <3>1 DEF PendingOf, Inv, UniquePending
    <3> QED
      BY <3>2, FS_Singleton
  <2> QED
    BY <2>1, <2>2
<1> QED
  BY <1>1, Invariance, PTL

(* A key buys at most one payout, and each payout is one key's               *)
(* (utils/idempotency.ts:233), however often it is sent again.               *)
THEOREM KeyUsedOnceHolds == Spec => []KeyUsedOnce
<1>1. Inv => KeyUsedOnce
  <2> SUFFICES ASSUME Inv, NEW p \in Payouts, payout[p] # NoPayout
               PROVE  Cardinality({k \in Keys : claim[payout[p].acct][k] = p}) = 1
    BY DEF KeyUsedOnce
  <2>1. Exists(p)
    BY DEF Inv, PayoutInv
  <2>2. PICK k \in Keys : \A k2 \in Keys : claim[payout[p].acct][k2] = p <=> k2 = k
    BY <2>1 DEF Inv, ClaimInv
  <2>3. {x \in Keys : claim[payout[p].acct][x] = p} = {k}
    BY <2>2
  <2> QED
    BY <2>3, FS_Singleton
<1> QED
  BY <1>1, Invariance, PTL

(* The routes implement the ledger: a payout is paid once, while it is       *)
(* pending, to an account that is fit for it at that moment, by the second   *)
(* of two admins the row names where two are needed, and its amount leaves   *)
(* the account in that step and in no other.  Its answer is final but for    *)
(* the bulk rejection.                                                       *)
THEOREM ImplementsLedger == Spec => LedgerSpec
<1>1. Init => Ledger!Init
  <2> SUFFICES ASSUME Init PROVE Ledger!Init
    OBVIOUS
  <2>1. Vetted = {}
    BY IdleType DEF Init, Vetted, At
  <2> QED
    BY <2>1 DEF Init, Ledger!Init, NoPayout, Ledger!NoRequest
<1>2. Inv /\ FitInv /\ [Next]_vars => [Ledger!Next \/ UndoneByBulk]_(Ledger!ledger)
  BY NextStep
<1> QED
  BY <1>1, <1>2, Invariance, PTL DEF Spec, LedgerSpec
=============================================================================
