---------------------- MODULE LifecycleAndClaimsProofs ----------------------
(***************************************************************************)
(* The theorems of two components that share no state: AccountLifecycle    *)
(* (first part) and IdempotencyClaims (second part).                       *)
(*                                                                         *)
(* AccountLifecycle, for any number of accounts, reviews and processes.  A *)
(* passed account has a review that will decide about it, a successor is   *)
(* explained by an approval or by an override, and an account is promoted  *)
(* only while it stands as passed.  The invariant behind them (LInv): a    *)
(* pass or a decision that holds a row has read it as it is; a passed      *)
(* account is never of the last phase; a review names an account only once *)
(* it is approved, the child of its source, and no other review names it;  *)
(* and a child was made by an approval or by an override.                  *)
(*                                                                         *)
(* IdempotencyClaims, for any number of requests, keys and connections:    *)
(* the pool is never overdrawn and every lock is held over a connection,   *)
(* what a claim replays was committed, and a recorded answer stands.  The  *)
(* invariant (Inv): from the statement that takes the claim to the one     *)
(* that completes or abandons it, the claim in the table is the request's  *)
(* own, started; and a completed claim is that of a request that has       *)
(* committed and ended.                                                    *)
(***************************************************************************)
EXTENDS AccountLifecycle, IdempotencyClaims, FiniteSetTheorems, TLAPS

(* AccountLifecycle. *)

Passes    == {"pass", "floatPass"}
Decisions == {"approve", "reject"}

(* What a pass has ensured where it is: from the lock on, the account is    *)
(* its own and still active; a review it refreshes is its own and still     *)
(* pending.                                                                 *)
PassInv(p) == LET s == session[p] IN
  s.op \in Passes =>
    /\ s.pc \in {"lockAccount", "upsert", "commit"}
    /\ s.acct \in Accounts
    /\ account[s.acct].status # "none" /\ account[s.acct].phase # Funded
    /\ s.pc \in {"upsert", "commit"} => lock[s.acct] = p
                                        /\ account[s.acct].status = "active"
    /\ s.pc \in {"lockAccount", "upsert"} => s.review = Null
    /\ s.review # Null => lock[s.review] = p /\ s.review \in PendingOf(s.acct)

(* What a decision has ensured: it speaks of a review of its account; it    *)
(* owns the review once it has read it, and the account once it has looked  *)
(* at it.                                                                   *)
DecisionInv(p) == LET s == session[p] IN
  s.op \in Decisions =>
    /\ s.pc \in {"lockReview", "lockSource", "commit"}
    /\ s.acct \in Accounts /\ s.review \in Reviews
    /\ review[s.review].status # "none" /\ review[s.review].source = s.acct
    /\ s.pc \in {"lockSource", "commit"} => lock[s.review] = p
                                            /\ s.seen = review[s.review].status
    /\ s.pc = "commit" => lock[s.acct] = p /\ s.seen = "pending"
    /\ s.pc = "commit" /\ s.op = "approve" => account[s.acct].status = "passed"

IdleInv(p) == session[p].op = "none" => session[p].pc = "idle"

(* A row that nobody has inserted is what it was; a passed account is of a  *)
(* phase that has a next one.                                               *)
AccountsInv == \A a \in Accounts :
  /\ account[a].status = "none" => account[a] = NoAccount /\ a \notin manual
  /\ account[a].status = "passed" => account[a].phase # Funded

(* A review names an account only once it is approved: one promoted from    *)
(* its source, and no other review names it.                                *)
CreatedInv == \A r \in Reviews : review[r].created # Null =>
  /\ review[r].status = "approved"
  /\ account[review[r].created].status # "none"
  /\ account[review[r].created].parent = review[r].source
  /\ review[r].created \notin manual
  /\ \A q \in Reviews : review[q].created = review[r].created => q = r

(* A review that was raised has an account.                                 *)
SourcesInv == \A r \in Reviews : review[r].status # "none" => review[r].source \in Accounts

(* An account with a parent was promoted by an override or by an approval.  *)
ParentInv == \A c \in Accounts :
  account[c].parent # Null => c \in manual \/ ApprovalsOf(c) # {}

TablesInv == AccountsInv /\ SourcesInv /\ CreatedInv /\ ParentInv /\ NoStrandedPass

JobInv(p) == PassInv(p) /\ DecisionInv(p) /\ IdleInv(p)

LInv == TypeOK /\ TablesInv /\ \A p \in Procs : JobInv(p)

-----------------------------------------------------------------------------
(* Shapes. *)

AccountMap == [Accounts -> AccountRow]
ReviewMap  == [Reviews -> ReviewRow]
LockMap    == [Row -> Procs \cup {Null}]
JobMap     == [Procs -> Job]

LEMMA Shape ==
  TypeOK <=> /\ account \in AccountMap /\ review \in ReviewMap
             /\ lock \in LockMap /\ session \in JobMap
             /\ manual \subseteq Accounts /\ answered \in [Accounts -> BOOLEAN]
BY DEF TypeOK, AccountMap, ReviewMap, LockMap, JobMap

LEMMA JobShape ==
  ASSUME TypeOK, NEW p \in Procs
  PROVE  /\ session[p] \in Job
         /\ session[p].acct \in Accounts \cup {Null}
         /\ session[p].review \in Reviews \cup {Null}
         /\ session[p].seen \in ReviewStatus
         /\ session[p].op \in Passes \cup Decisions \cup {"none"}
BY DEF TypeOK, Job, OpNames, Passes, Decisions

LEMMA IdleShape == Idle \in Job /\ Idle.op = "none" /\ Idle.pc = "idle"
BY DEF Idle, Job, OpNames, ReviewStatus

LEMMA IdleKeeps ==
  ASSUME NEW p \in Procs, session'[p] = Idle
  PROVE  JobInv(p)'
BY IdleShape DEF JobInv, PassInv, DecisionInv, IdleInv, Passes, Decisions

(* Targets are phases, and what has a next one is not funded.               *)
LEMMA TargetShape ==
  ASSUME NEW phase \in Phase, NEW model \in BOOLEAN, NEW step \in 1..3
  PROVE  /\ Target(phase, model, step) \in Phase \cup {Null}
         /\ phase # Funded => Target(phase, model, step) \in Phase
         /\ phase = Funded => Target(phase, model, step) = Null
<1>1. phase = 0 \/ phase = 1 \/ phase = 2 \/ phase = 3
  BY DEF Phase, Funded
<1>2. Steps \in 1..3
  BY LifecycleAssumption
<1>3. step + 1 <= Steps => step + 1 = 2 \/ step + 1 = 3
  BY <1>2
<1>. QED
  BY <1>1, <1>3 DEF Target, LegacyLadder, Phase, Funded

LEMMA NextPhaseShape ==
  ASSUME TypeOK, NEW a \in Accounts
  PROVE  /\ NextPhase(a) \in Phase \cup {Null} /\ EngineTarget(a) \in Phase \cup {Null}
         /\ account[a].phase # Funded => NextPhase(a) \in Phase
         /\ OverrideTarget(a) # Null => /\ OverrideTarget(a) \in Phase
                                        /\ account[a].phase # Funded
<1>1. account[a].phase \in Phase /\ account[a].model \in BOOLEAN
  BY DEF TypeOK, AccountRow
<1>2. /\ EngineTarget(a) \in Phase \cup {Null}
      /\ OverrideTarget(a) # Null => /\ OverrideTarget(a) \in Phase
                                     /\ account[a].phase # Funded
  <2>1. 1 \in 1..3 /\ FALSE \in BOOLEAN /\ Null \notin Phase
    BY LifecycleAssumption DEF Phase, Funded
  <2>2. /\ Target(account[a].phase, account[a].model, 1) \in Phase \cup {Null}
        /\ Target(account[a].phase, FALSE, 1) \in Phase \cup {Null}
        /\ account[a].phase = Funded => Target(account[a].phase, FALSE, 1) = Null
    BY <1>1, <2>1, TargetShape
  <2>. QED
    BY <2>2 DEF EngineTarget, OverrideTarget
<1>3. CASE account[a].phase = Funded
  BY <1>1, <1>2, <1>3 DEF NextPhase, Target
<1>4. CASE account[a].phase # Funded
  <2>1. account[a].phase \in 1..3
    BY <1>1, <1>4 DEF Phase, Funded
  <2>. QED
    BY <1>1, <1>2, <1>4, <2>1, TargetShape DEF NextPhase
<1>. QED
  BY <1>3, <1>4

(* The rows of the two tables are told apart.                               *)
LEMMA RowsApart ==
  /\ Accounts \subseteq Row /\ Reviews \subseteq Row
  /\ \A a \in Accounts, r \in Reviews : a # r
  /\ Null \notin Accounts /\ Null \notin Reviews /\ Null \notin Procs
BY LifecycleAssumption DEF Row
-----------------------------------------------------------------------------
(* What a session has ensured survives the steps of the others. *)

LEMMA OthersKeep ==
  ASSUME TypeOK, NEW q \in Procs, JobInv(q), session'[q] = session[q],
         \A r \in Row : lock[r] = q => lock'[r] = q,
         \A a \in Accounts : account[a].status # "none" =>
           /\ lock[a] = q => account'[a] = account[a]
           /\ account'[a].status # "none" /\ account'[a].phase = account[a].phase,
         \A r \in Reviews : review[r].status # "none" =>
           /\ lock[r] = q => review'[r] = review[r]
           /\ review'[r].status # "none" /\ review'[r].source = review[r].source
  PROVE  JobInv(q)'
<1>1. /\ session[q].acct \in Accounts \cup {Null}
      /\ session[q].review \in Reviews \cup {Null}
  BY JobShape
<1>2. PassInv(q)'
  <2>. SUFFICES ASSUME session[q].op \in Passes PROVE PassInv(q)'
    BY DEF PassInv
  <2>1. PassInv(q)
    BY DEF JobInv
  <2>2. /\ session[q].acct \in Accounts
        /\ account[session[q].acct].status # "none"
        /\ account[session[q].acct].phase # Funded
        /\ session[q].pc \in {"lockAccount", "upsert", "commit"}
        /\ session[q].pc \in {"lockAccount", "upsert"} => session[q].review = Null
        /\ session[q].pc \in {"upsert", "commit"} =>
             lock[session[q].acct] = q /\ account[session[q].acct].status = "active"
        /\ session[q].review # Null =>
             lock[session[q].review] = q /\ session[q].review \in PendingOf(session[q].acct)
    BY <2>1 DEF PassInv
  <2>3. session[q].review # Null =>
          lock'[session[q].review] = q /\ session[q].review \in PendingOf(session[q].acct)'
    BY <1>1, <2>2, RowsApart DEF PendingOf
  <2>. QED
    BY <2>2, <2>3, RowsApart DEF PassInv
<1>3. DecisionInv(q)'
  BY <1>1, RowsApart DEF JobInv, DecisionInv
<1>4. IdleInv(q)'
  BY DEF JobInv, IdleInv
<1>. QED
  BY <1>2, <1>3, <1>4 DEF JobInv

(* A step of one session that writes no table.                              *)
LEMMA SessionMoves ==
  ASSUME LInv, NEW p \in Procs, NEW j \in Job, Become(p, j),
         UNCHANGED <<tables, history>>, lock' \in LockMap,
         \A q \in Procs \ {p}, r \in Row : lock[r] = q => lock'[r] = q,
         JobInv(p)'
  PROVE  LInv'
<1>1. session' = [session EXCEPT ![p] = j] /\ session \in JobMap
  BY Shape DEF LInv, Become
<1>2. TypeOK'
  BY <1>1 DEF LInv, TypeOK, tables, history, JobMap, LockMap
<1>3. TablesInv'
  BY DEF LInv, TablesInv, AccountsInv, SourcesInv, CreatedInv, ParentInv, NoStrandedPass,
         ApprovalsOf, PendingOf, tables, history
<1>4. ASSUME NEW q \in Procs, q # p PROVE JobInv(q)'
  <2>1. session'[q] = session[q]
    BY <1>1, <1>4
  <2>. QED
    BY <1>4, <2>1, OthersKeep DEF LInv, tables
<1>. QED
  BY <1>2, <1>3, <1>4 DEF LInv

(* COMMIT and ROLLBACK give up the locks of their session, and no others.   *)
LEMMA Releases ==
  ASSUME TypeOK, NEW p \in Procs, EndTransaction(p)
  PROVE  /\ lock' \in LockMap /\ session' \in JobMap /\ session'[p] = Idle
         /\ \A q \in Procs \ {p} : session'[q] = session[q]
         /\ \A q \in Procs \ {p}, r \in Row : lock[r] = q => lock'[r] = q
<1>1. lock \in LockMap /\ session \in JobMap
  BY Shape
<1>2. /\ lock' = [r \in Row |-> IF lock[r] = p THEN Null ELSE lock[r]]
      /\ session' = [session EXCEPT ![p] = Idle]
  BY DEF EndTransaction, Become
<1>. QED
  BY <1>1, <1>2, IdleShape DEF LockMap, JobMap

LEMMA GivesUp ==
  ASSUME LInv, NEW p \in Procs, GiveUp(p)
  PROVE  LInv'
<1>1. EndTransaction(p) /\ UNCHANGED <<tables, history>> /\ TypeOK
  BY DEF GiveUp, LInv
<1>2. /\ lock' \in LockMap /\ session'[p] = Idle
      /\ \A q \in Procs \ {p}, r \in Row : lock[r] = q => lock'[r] = q
  BY <1>1, Releases
<1>3. Become(p, Idle)
  BY <1>1 DEF EndTransaction
<1>. QED
  BY <1>1, <1>2, <1>3, IdleShape, IdleKeeps, SessionMoves

(* A session that takes a free lock.                                        *)
LEMMA Takes ==
  ASSUME TypeOK, NEW p \in Procs, NEW r \in Row, IsFree(r), Taking(p, r)
  PROVE  /\ lock' \in LockMap /\ lock'[r] = p
         /\ \A s \in Row : lock[s] = p => lock'[s] = p
         /\ \A q \in Procs \ {p}, s \in Row : lock[s] = q => lock'[s] = q
<1>1. lock \in LockMap /\ lock[r] = Null /\ lock' = [lock EXCEPT ![r] = p]
  BY Shape DEF IsFree, Taking
<1>. QED
  BY <1>1, RowsApart DEF LockMap
-----------------------------------------------------------------------------
(* The steps of a session up to its COMMIT. *)

LEMMA BeginMoves ==
  ASSUME LInv, NEW p \in Procs, NEW j \in Job, Begin(p, j), PassInv(p)', DecisionInv(p)',
         j.op # "none"
  PROVE  LInv'
<1>1. Become(p, j) /\ UNCHANGED <<tables, lock, history>> /\ lock \in LockMap
  BY Shape DEF Begin, LInv
<1>2. session'[p] = j
  BY <1>1, Shape DEF Become, LInv, JobMap
<1>3. JobInv(p)'
  BY <1>2 DEF JobInv, IdleInv
<1>. QED
  BY <1>1, <1>3, SessionMoves

LEMMA PassStarts ==
  ASSUME LInv, NEW p \in Procs, NEW op \in Passes, NEW a \in Accounts, StartPass(p, op, a)
  PROVE  LInv'
<1>. DEFINE j == [Idle EXCEPT !.op = op, !.pc = "lockAccount", !.acct = a]
<1>1. j \in Job /\ j.op = op /\ j.pc = "lockAccount" /\ j.acct = a /\ j.review = Null
  BY DEF Idle, Job, OpNames, Passes, ReviewStatus
<1>2. Begin(p, j) /\ account[a].status = "active" /\ account[a].phase # Funded
  BY DEF StartPass
<1>. HIDE DEF j
<1>3. session'[p] = j /\ UNCHANGED tables
  BY <1>2, Shape DEF Begin, Become, LInv, JobMap
<1>4. PassInv(p)' /\ DecisionInv(p)'
  BY <1>1, <1>2, <1>3 DEF PassInv, DecisionInv, tables, Passes, Decisions
<1>. QED
  BY <1>1, <1>2, <1>4, BeginMoves DEF Passes

LEMMA DecisionStarts ==
  ASSUME LInv, NEW p \in Procs, NEW op \in Decisions, NEW r \in Reviews,
         StartDecision(p, op, r)
  PROVE  LInv'
<1>. DEFINE j == [Idle EXCEPT !.op = op, !.pc = "lockReview", !.review = r,
                              !.acct = review[r].source]
<1>1. review[r] \in ReviewRow /\ review[r].status # "none" /\ Begin(p, j)
  BY DEF StartDecision, LInv, TypeOK
<1>2. review[r].source \in Accounts
  BY <1>1 DEF LInv, TablesInv, SourcesInv
<1>3. /\ j \in Job /\ j.op = op /\ j.pc = "lockReview" /\ j.review = r
      /\ j.acct = review[r].source
  BY <1>2 DEF Idle, Job, OpNames, Decisions, ReviewStatus
<1>. HIDE DEF j
<1>4. session'[p] = j /\ UNCHANGED tables
  BY <1>1, Shape DEF Begin, Become, LInv, JobMap
<1>5. PassInv(p)' /\ DecisionInv(p)'
  BY <1>1, <1>2, <1>3, <1>4 DEF PassInv, DecisionInv, tables, Passes, Decisions
<1>. QED
  BY <1>1, <1>3, <1>5, BeginMoves DEF Decisions

LEMMA PassLocks ==
  ASSUME LInv, NEW p \in Procs, LockForPass(p)
  PROVE  LInv'
<1>. DEFINE a == session[p].acct
            j == [session[p] EXCEPT !.pc = "upsert"]
<1>1. CASE GiveUp(p)
  BY <1>1, GivesUp
<1>2. CASE /\ account[a].status = "active" /\ IsFree(a) /\ Taking(p, a)
           /\ Become(p, j) /\ UNCHANGED <<tables, history>>
  <2>1. PassInv(p) /\ session[p].op \in Passes /\ session[p].pc = "lockAccount"
    BY JobShape DEF LockForPass, At, LInv, JobInv, DecisionInv, IdleInv
  <2>2. /\ a \in Accounts /\ account[a].phase # Funded /\ session[p].review = Null
        /\ session[p] \in Job /\ a \in Row
    BY <2>1, JobShape, RowsApart DEF PassInv, LInv
  <2>3. /\ j \in Job /\ j.op = session[p].op /\ j.pc = "upsert" /\ j.acct = a
        /\ j.review = Null
    BY <2>2 DEF Job
  <2>4. /\ lock' \in LockMap /\ lock'[a] = p
        /\ \A q \in Procs \ {p}, s \in Row : lock[s] = q => lock'[s] = q
    BY <1>2, <2>2, Takes DEF LInv
  <2>. HIDE DEF a, j
  <2>5. session'[p] = j
    BY <1>2, Shape DEF Become, LInv, JobMap
  <2>6. JobInv(p)'
    BY <1>2, <2>1, <2>2, <2>3, <2>4, <2>5
       DEF JobInv, PassInv, DecisionInv, IdleInv, tables, Passes, Decisions
  <2>. QED
    BY <1>2, <2>3, <2>4, <2>6, SessionMoves
<1>. QED
  BY <1>1, <1>2 DEF LockForPass

LEMMA ReviewRaised ==
  ASSUME LInv, NEW p \in Procs, RaiseReview(p)
  PROVE  LInv'
<1>. DEFINE a == session[p].acct
<1>1. PassInv(p) /\ session[p].op \in Passes /\ session[p].pc = "upsert"
  BY JobShape DEF RaiseReview, At, LInv, JobInv, DecisionInv, IdleInv
<1>2. /\ a \in Accounts /\ account[a].phase # Funded /\ session[p].review = Null
      /\ account[a].status = "active" /\ lock[a] = p /\ session[p] \in Job
      /\ UNCHANGED <<tables, history>>
  BY <1>1, JobShape DEF PassInv, LInv, RaiseReview
<1>3. ASSUME NEW j \in Job, Become(p, j), j.op = session[p].op, j.pc = "commit",
             j.acct = a, lock' \in LockMap, lock'[a] = p,
             \A q \in Procs \ {p}, s \in Row : lock[s] = q => lock'[s] = q,
             j.review # Null => /\ lock'[j.review] = p
                                /\ j.review \in PendingOf(a)
      PROVE  LInv'
  <2>1. session'[p] = j
    BY <1>3, Shape DEF Become, LInv, JobMap
  <2>2. j.review # Null => /\ j.review \in Reviews
                           /\ review'[j.review].status = "pending"
                           /\ review'[j.review].source = a
    BY <1>2, <1>3 DEF PendingOf, tables
  <2>. HIDE DEF a
  <2>3. JobInv(p)'
    BY <1>1, <1>2, <1>3, <2>1, <2>2 DEF JobInv, PassInv, DecisionInv, IdleInv,
       PendingOf, tables, Passes, Decisions
  <2>. QED
    BY <1>2, <1>3, <2>3, SessionMoves
<1>4. CASE PendingOf(a) = {}
  <2>. DEFINE j == [session[p] EXCEPT !.pc = "commit"]
  <2>1. Become(p, j) /\ UNCHANGED lock
    BY <1>4 DEF RaiseReview
  <2>2. /\ j \in Job /\ j.op = session[p].op /\ j.pc = "commit" /\ j.acct = a
        /\ j.review = Null
    BY <1>2 DEF Job
  <2>. QED
    BY <1>2, <1>3, <2>1, <2>2, Shape DEF LInv
<1>5. CASE PendingOf(a) # {}
  <2>1. PICK r \in PendingOf(a) :
          /\ IsFree(r) /\ Taking(p, r)
          /\ Become(p, [session[p] EXCEPT !.pc = "commit", !.review = r])
    BY <1>5 DEF RaiseReview
  <2>. DEFINE j == [session[p] EXCEPT !.pc = "commit", !.review = r]
  <2>2. r \in Reviews /\ r \in Row /\ a \in Row
    BY <1>2, RowsApart DEF PendingOf
  <2>3. /\ lock' \in LockMap /\ lock'[r] = p /\ lock'[a] = p
        /\ \A q \in Procs \ {p}, s \in Row : lock[s] = q => lock'[s] = q
    BY <1>2, <2>1, <2>2, Takes DEF LInv
  <2>4. /\ j \in Job /\ j.op = session[p].op /\ j.pc = "commit" /\ j.acct = a
        /\ j.review = r
    BY <1>2, <2>2 DEF Job
  <2>. QED
    BY <1>3, <2>1, <2>3, <2>4
<1>. QED
  BY <1>4, <1>5

LEMMA ReviewLocks ==
  ASSUME LInv, NEW p \in Procs, LockReview(p)
  PROVE  LInv'
<1>. DEFINE r == session[p].review
            j == [session[p] EXCEPT !.pc = "lockSource", !.seen = review[r].status]
<1>1. DecisionInv(p) /\ session[p].op \in Decisions /\ session[p].pc = "lockReview"
  BY JobShape DEF LockReview, At, LInv, JobInv, PassInv, IdleInv
<1>2. /\ session[p].acct \in Accounts /\ r \in Reviews /\ session[p] \in Job /\ r \in Row
      /\ review[r].status # "none" /\ review[r].source = session[p].acct
      /\ review[r] \in ReviewRow
  BY <1>1, JobShape, RowsApart DEF DecisionInv, LInv, TypeOK
<1>3. /\ IsFree(r) /\ Taking(p, r) /\ Become(p, j) /\ UNCHANGED <<tables, history>>
  BY DEF LockReview
<1>4. /\ j \in Job /\ j.op = session[p].op /\ j.pc = "lockSource" /\ j.review = r
      /\ j.acct = session[p].acct /\ j.seen = review[r].status
  BY <1>2 DEF Job, ReviewRow
<1>5. /\ lock' \in LockMap /\ lock'[r] = p
      /\ \A q \in Procs \ {p}, s \in Row : lock[s] = q => lock'[s] = q
  BY <1>2, <1>3, Takes DEF LInv
<1>. HIDE DEF r, j
<1>6. session'[p] = j
  BY <1>3, Shape DEF Become, LInv, JobMap
<1>7. JobInv(p)'
  BY <1>1, <1>2, <1>3, <1>4, <1>5, <1>6
     DEF JobInv, PassInv, DecisionInv, IdleInv, tables, Passes, Decisions
<1>. QED
  BY <1>3, <1>4, <1>5, <1>7, SessionMoves

LEMMA SourceLocks ==
  ASSUME LInv, NEW p \in Procs, LockSource(p)
  PROVE  LInv'
<1>. DEFINE a == session[p].acct
            j == [session[p] EXCEPT !.pc = "commit"]
<1>1. CASE GiveUp(p)
  BY <1>1, GivesUp
<1>2. CASE /\ session[p].seen = "pending" /\ IsFree(a) /\ Taking(p, a)
           /\ Runs(p, {"approve"}) => account[a].status = "passed"
           /\ Become(p, j) /\ UNCHANGED <<tables, history>>
  <2>1. DecisionInv(p) /\ session[p].op \in Decisions /\ session[p].pc = "lockSource"
    BY JobShape DEF LockSource, At, LInv, JobInv, PassInv, IdleInv
  <2>. DEFINE r == session[p].review
  <2>2. /\ a \in Accounts /\ r \in Reviews /\ session[p] \in Job /\ a \in Row /\ r \in Row
        /\ review[r].status # "none" /\ review[r].source = a
        /\ lock[r] = p /\ session[p].seen = review[r].status
    BY <2>1, JobShape, RowsApart DEF DecisionInv, LInv, TypeOK
  <2>3. /\ j \in Job /\ j.op = session[p].op /\ j.pc = "commit" /\ j.review = r
        /\ j.acct = a /\ j.seen = session[p].seen
    BY <2>2 DEF Job
  <2>4. /\ lock' \in LockMap /\ lock'[a] = p /\ lock'[r] = p
        /\ \A q \in Procs \ {p}, s \in Row : lock[s] = q => lock'[s] = q
    BY <1>2, <2>2, Takes DEF LInv
  <2>. HIDE DEF a, r, j
  <2>5. session'[p] = j
    BY <1>2, Shape DEF Become, LInv, JobMap
  <2>6. JobInv(p)'
    BY <1>2, <2>1, <2>2, <2>3, <2>4, <2>5
       DEF JobInv, PassInv, DecisionInv, IdleInv, tables, Passes, Decisions, Runs
  <2>. QED
    BY <1>2, <2>3, <2>4, <2>6, SessionMoves
<1>. QED
  BY <1>1, <1>2 DEF LockSource
-----------------------------------------------------------------------------
(* The three COMMITs. *)

(* What a COMMIT of session p may write, seen from the other sessions.      *)
LEMMA CommitKeeps ==
  ASSUME LInv, NEW p \in Procs, EndTransaction(p), TypeOK', TablesInv',
         \A a \in Accounts : account[a].status # "none" =>
           /\ lock[a] # p => account'[a] = account[a]
           /\ account'[a].status # "none" /\ account'[a].phase = account[a].phase,
         \A r \in Reviews : review[r].status # "none" =>
           /\ lock[r] # p => review'[r] = review[r]
           /\ review'[r].status # "none" /\ review'[r].source = review[r].source
  PROVE  LInv'
<1>1. /\ session'[p] = Idle /\ \A q \in Procs \ {p} : session'[q] = session[q]
      /\ \A q \in Procs \ {p}, r \in Row : lock[r] = q => lock'[r] = q
  BY Releases DEF LInv
<1>2. ASSUME NEW q \in Procs, q # p PROVE JobInv(q)'
  BY <1>1, <1>2, OthersKeep DEF LInv
<1>. QED
  BY <1>1, <1>2, IdleKeeps DEF LInv

(* A step that inserts no account and answers no review with one.           *)
LEMMA TablesStay ==
  ASSUME TypeOK, TablesInv, UNCHANGED manual, TypeOK',
         \A b \in Accounts :
           /\ account'[b].parent = account[b].parent
           /\ IF account[b].status = "none" THEN account'[b] = account[b]
              ELSE account'[b].status # "none" /\ account'[b].phase = account[b].phase
           /\ account'[b].status = "passed" => account'[b].phase # Funded
                /\ (answered'[b] \/ \E q \in Reviews : review'[q].status = "pending"
                                                      /\ review'[q].source = b),
         \A q \in Reviews :
           /\ review'[q].created = review[q].created
           /\ review[q].created # Null => review'[q] = review[q]
           /\ review'[q].status # "none" => review'[q].source \in Accounts
  PROVE  TablesInv'
<1>1. AccountsInv'
  BY DEF TablesInv, AccountsInv, NoAccount
<1>2. SourcesInv'
  BY DEF SourcesInv
<1>3. CreatedInv'
  <2>. SUFFICES ASSUME NEW q \in Reviews, review'[q].created # Null
                PROVE  /\ review'[q].status = "approved"
                       /\ account'[review'[q].created].status # "none"
                       /\ account'[review'[q].created].parent = review'[q].source
                       /\ review'[q].created \notin manual
                       /\ \A u \in Reviews : review'[u].created = review'[q].created => u = q
    BY DEF CreatedInv
  <2>1. review'[q] = review[q] /\ review[q].created \in Accounts
    BY DEF TypeOK, ReviewRow
  <2>. QED
    BY <2>1 DEF TablesInv, CreatedInv
<1>4. ParentInv'
  <2>1. \A c \in Accounts : ApprovalsOf(c)' = ApprovalsOf(c)
    BY DEF ApprovalsOf
  <2>. QED
    BY <2>1 DEF TablesInv, ParentInv
<1>5. NoStrandedPass'
  BY DEF NoStrandedPass, PendingOf
<1>. QED
  BY <1>1, <1>2, <1>3, <1>4, <1>5 DEF TablesInv

LEMMA PassCommits ==
  ASSUME LInv, NEW p \in Procs, NEW r \in Reviews, CommitPass(p, r)
  PROVE  LInv'
<1>. DEFINE a == session[p].acct
            target == IF Runs(p, {"pass"}) THEN NextPhase(a) ELSE EngineTarget(a)
            new == [NoReview EXCEPT !.status = "pending", !.source = a, !.target = target]
<1>1. PassInv(p) /\ session[p].op \in Passes /\ session[p].pc = "commit" /\ TypeOK
  BY JobShape DEF CommitPass, At, Runs, LInv, JobInv, Passes
<1>2. /\ a \in Accounts /\ a \in Row /\ account[a].phase # Funded
      /\ account[a].status = "active" /\ lock[a] = p
      /\ session[p].review # Null => session[p].review \in PendingOf(a)
  BY <1>1, RowsApart DEF PassInv
<1>3. /\ account' = [account EXCEPT ![a].status = "passed"]
      /\ IF session[p].review = Null
         THEN r \in UnusedReviews /\ review' = [review EXCEPT ![r] = new]
         ELSE r = session[p].review /\ UNCHANGED review
      /\ answered' = [answered EXCEPT ![a] = FALSE]
      /\ UNCHANGED manual /\ EndTransaction(p)
  BY DEF CommitPass
<1>4. target \in Phase \cup {Null}
  BY <1>1, <1>2, NextPhaseShape
<1>5. /\ new \in ReviewRow /\ new.status = "pending" /\ new.source = a
      /\ new.created = Null
  BY <1>2, <1>4 DEF NoReview, ReviewRow, ReviewStatus
<1>. HIDE DEF a, target, new
<1>6. account \in AccountMap /\ review \in ReviewMap
  BY <1>1, Shape
<1>7. /\ \A b \in Accounts \ {a} : account'[b] = account[b]
      /\ account'[a].status = "passed" /\ account'[a].phase = account[a].phase
      /\ account'[a].parent = account[a].parent /\ account'[a] \in AccountRow
      /\ account' \in AccountMap
  BY <1>2, <1>3, <1>6 DEF AccountMap, AccountRow, AccountStatus
<1>8. /\ \A q \in Reviews : /\ review[q].status # "none" => review'[q] = review[q]
                            /\ review'[q] = review[q] \/ review'[q] = new
      /\ review' \in ReviewMap
  BY <1>3, <1>5, <1>6 DEF ReviewMap, UnusedReviews, NoReview
<1>9. review'[r].status = "pending" /\ review'[r].source = a
  <2>1. CASE session[p].review = Null
    BY <1>3, <1>5, <1>6, <2>1 DEF ReviewMap
  <2>2. CASE session[p].review # Null
    BY <1>2, <1>3, <2>2 DEF PendingOf
  <2>. QED
    BY <2>1, <2>2
<1>10. TypeOK'
  <2>1. answered' \in [Accounts -> BOOLEAN] /\ manual' \subseteq Accounts
    BY <1>1, <1>3 DEF TypeOK
  <2>. QED
    BY <1>1, <1>3, <1>7, <1>8, <2>1, Releases
       DEF TypeOK, AccountMap, ReviewMap, LockMap, JobMap
<1>11. TablesInv'
  <2>1. \A b \in Accounts :
          /\ account'[b].parent = account[b].parent
          /\ IF account[b].status = "none" THEN account'[b] = account[b]
             ELSE account'[b].status # "none" /\ account'[b].phase = account[b].phase
    BY <1>2, <1>7
  <2>2. ASSUME NEW b \in Accounts, account'[b].status = "passed"
        PROVE  /\ account'[b].phase # Funded
               /\ answered'[b] \/ \E q \in Reviews : review'[q].status = "pending"
                                                     /\ review'[q].source = b
    <3>1. CASE b = a
      BY <1>2, <1>7, <1>9, <3>1
    <3>2. CASE b # a
      <4>1. /\ account[b].status = "passed" /\ account'[b] = account[b]
            /\ answered'[b] = answered[b]
        BY <1>1, <1>3, <1>7, <2>2, <3>2 DEF TypeOK
      <4>2. answered[b] \/ \E q \in Reviews : review[q].status = "pending"
                                              /\ review[q].source = b
        BY <4>1 DEF LInv, TablesInv, NoStrandedPass, PendingOf
      <4>. QED
        BY <1>8, <4>1, <4>2 DEF LInv, TablesInv, AccountsInv
    <3>. QED
      BY <3>1, <3>2
  <2>3. \A q \in Reviews :
          /\ review'[q].created = review[q].created
          /\ review[q].created # Null => review'[q] = review[q]
          /\ review'[q].status # "none" => review'[q].source \in Accounts
    <3>1. \A q \in Reviews : review[q].status = "none" => review[q].created = Null
      BY DEF LInv, TablesInv, CreatedInv
    <3>. QED
      BY <1>2, <1>5, <1>8, <3>1 DEF LInv, TablesInv, SourcesInv
  <2>. QED
    BY <1>1, <1>3, <1>10, <2>1, <2>2, <2>3, TablesStay DEF LInv
<1>. QED
  BY <1>2, <1>3, <1>7, <1>8, <1>10, <1>11, CommitKeeps

LEMMA RejectionCommits ==
  ASSUME LInv, NEW p \in Procs, CommitRejection(p)
  PROVE  LInv'
<1>. DEFINE a == session[p].acct
            r == session[p].review
<1>1. DecisionInv(p) /\ session[p].op \in Decisions /\ session[p].pc = "commit" /\ TypeOK
  BY JobShape DEF CommitRejection, At, Runs, LInv, JobInv, Decisions
<1>2. /\ a \in Accounts /\ r \in Reviews /\ lock[r] = p
      /\ review[r].status = "pending" /\ review[r].source = a
  BY <1>1 DEF DecisionInv
<1>3. /\ review' = [review EXCEPT ![r].status = "rejected"]
      /\ answered' = [answered EXCEPT ![a] = TRUE]
      /\ UNCHANGED <<account, manual>> /\ EndTransaction(p)
  BY DEF CommitRejection
<1>. HIDE DEF a, r
<1>4. account \in AccountMap /\ review \in ReviewMap
  BY <1>1, Shape
<1>5. /\ \A q \in Reviews \ {r} : review'[q] = review[q]
      /\ review'[r].status = "rejected" /\ review'[r].source = review[r].source
      /\ review'[r].created = review[r].created /\ review'[r] \in ReviewRow
      /\ review' \in ReviewMap
  BY <1>2, <1>3, <1>4 DEF ReviewMap, ReviewRow, ReviewStatus
<1>6. TypeOK'
  <2>1. answered' \in [Accounts -> BOOLEAN] /\ manual' \subseteq Accounts
    BY <1>1, <1>3 DEF TypeOK
  <2>. QED
    BY <1>1, <1>3, <1>4, <1>5, <2>1, Releases
       DEF TypeOK, AccountMap, ReviewMap, LockMap, JobMap
<1>7. TablesInv'
  <2>1. ASSUME NEW b \in Accounts, account'[b].status = "passed"
        PROVE  /\ account'[b].phase # Funded
               /\ answered'[b] \/ \E q \in Reviews : review'[q].status = "pending"
                                                     /\ review'[q].source = b
    <3>1. account[b].status = "passed" /\ account[b].phase # Funded
      BY <1>3, <2>1 DEF LInv, TablesInv, AccountsInv
    <3>2. CASE b = a
      BY <1>1, <1>2, <1>3, <3>1, <3>2 DEF TypeOK
    <3>3. CASE b # a
      <4>1. answered[b] \/ \E q \in Reviews : review[q].status = "pending"
                                              /\ review[q].source = b
        BY <3>1 DEF LInv, TablesInv, NoStrandedPass, PendingOf
      <4>2. answered'[b] = answered[b]
        BY <1>1, <1>3, <3>3 DEF TypeOK
      <4>. QED
        BY <1>2, <1>3, <1>5, <3>1, <3>3, <4>1, <4>2
    <3>. QED
      BY <3>2, <3>3
  <2>2. \A q \in Reviews :
          /\ review'[q].created = review[q].created
          /\ review[q].created # Null => review'[q] = review[q]
          /\ review'[q].status # "none" => review'[q].source \in Accounts
    <3>1. review[r].created = Null
      BY <1>2 DEF LInv, TablesInv, CreatedInv
    <3>. QED
      BY <1>2, <1>5, <3>1 DEF LInv, TablesInv, SourcesInv
  <2>3. \A b \in Accounts :
          /\ account'[b].parent = account[b].parent
          /\ IF account[b].status = "none" THEN account'[b] = account[b]
             ELSE account'[b].status # "none" /\ account'[b].phase = account[b].phase
    BY <1>3
  <2>. QED
    BY <1>1, <1>3, <1>6, <2>1, <2>2, <2>3, TablesStay DEF LInv
<1>. QED
  BY <1>2, <1>3, <1>5, <1>6, <1>7, CommitKeeps

(* A step that inserts account c: for a review, for an override, or for     *)
(* neither.                                                                 *)
LEMMA TablesGrow ==
  ASSUME TypeOK, TablesInv, TypeOK', NEW c \in Accounts, account[c].status = "none",
         account'[c].status = "active", manual' = manual \/ manual' = manual \cup {c},
         \A b \in Accounts \ {c} :
           /\ account'[b].parent = account[b].parent
           /\ IF account[b].status = "none" THEN account'[b] = account[b]
              ELSE account'[b].status # "none"
           /\ account'[b].status = "passed" => account'[b].phase # Funded
                /\ (answered'[b] \/ \E q \in Reviews : review'[q].status = "pending"
                                                      /\ review'[q].source = b),
         \A q \in Reviews :
           /\ review'[q].status # "none" => review'[q].source \in Accounts
           /\ \/ review'[q].created = review[q].created
                 /\ (review[q].created # Null => review'[q] = review[q])
              \/ /\ review'[q].created = c /\ review[q].created = Null
                 /\ review'[q].status = "approved"
                 /\ review'[q].source = account'[c].parent
                 /\ manual' = manual,
         \A q, u \in Reviews : review'[q].created = c /\ review'[u].created = c => q = u,
         account'[c].parent # Null =>
           c \in manual' \/ \E q \in Reviews : review'[q].created = c
  PROVE  TablesInv'
<1>1. c \notin manual /\ \A q \in Reviews : review[q].created # c
  BY LifecycleAssumption DEF TablesInv, AccountsInv, CreatedInv
<1>2. AccountsInv'
  <2>1. ASSUME NEW b \in Accounts, account'[b].status = "none"
        PROVE  account'[b] = NoAccount /\ b \notin manual'
    <3>1. b # c
      BY <2>1
    <3>2. account[b].status = "none" /\ account'[b] = account[b]
      BY <2>1, <3>1
    <3>. QED
      BY <3>1, <3>2 DEF TablesInv, AccountsInv
  <2>2. \A b \in Accounts : account'[b].status = "passed" => account'[b].phase # Funded
    OBVIOUS
  <2>. QED
    BY <2>1, <2>2 DEF AccountsInv, NoAccount
<1>3. SourcesInv'
  BY DEF SourcesInv
<1>4. CreatedInv'
  <2>. SUFFICES ASSUME NEW q \in Reviews, review'[q].created # Null
                PROVE  /\ review'[q].status = "approved"
                       /\ account'[review'[q].created].status # "none"
                       /\ account'[review'[q].created].parent = review'[q].source
                       /\ review'[q].created \notin manual'
                       /\ \A u \in Reviews : review'[u].created = review'[q].created => u = q
    BY DEF CreatedInv
  <2>1. CASE review'[q].created = c
    BY <1>1, <2>1
  <2>2. CASE review'[q].created # c
    <3>1. review'[q] = review[q] /\ review[q].created \in Accounts \ {c}
      BY <2>2 DEF TypeOK, ReviewRow
    <3>2. /\ review[q].status = "approved"
          /\ account[review[q].created].status # "none"
          /\ account[review[q].created].parent = review[q].source
          /\ review[q].created \notin manual
          /\ \A u \in Reviews : review[u].created = review[q].created => u = q
      BY <3>1 DEF TablesInv, CreatedInv
    <3>3. \A u \in Reviews : review'[u].created = review'[q].created => u = q
      BY <2>2, <3>1, <3>2
    <3>. QED
      BY <3>1, <3>2, <3>3
  <2>. QED
    BY <2>1, <2>2
<1>5. ParentInv'
  <2>. SUFFICES ASSUME NEW b \in Accounts, account'[b].parent # Null
                PROVE  b \in manual' \/ \E q \in Reviews : review'[q].created = b
    BY DEF ParentInv, ApprovalsOf
  <2>1. CASE b # c
    <3>1. b \in manual \/ \E q \in Reviews : review[q].created = b
      BY <2>1 DEF TablesInv, ParentInv, ApprovalsOf
    <3>. QED
      BY <2>1, <3>1, RowsApart
  <2>. QED
    BY <2>1
<1>6. NoStrandedPass'
  BY DEF NoStrandedPass, PendingOf
<1>. QED
  BY <1>2, <1>3, <1>4, <1>5, <1>6 DEF TablesInv

LEMMA Unused ==
  ASSUME TypeOK, TablesInv, NEW c \in UnusedAccounts
  PROVE  c \in Accounts /\ account[c].status = "none"
BY DEF UnusedAccounts, NoAccount

LEMMA ApprovalCommits ==
  ASSUME LInv, NEW p \in Procs, NEW c \in Accounts, CommitApproval(p, c)
  PROVE  LInv'
<1>. DEFINE a == session[p].acct
            r == session[p].review
            new == Successor(a, NextPhase(a), account[a].model)
<1>1. /\ DecisionInv(p) /\ session[p].op = "approve" /\ session[p].pc = "commit"
      /\ TypeOK /\ account[c].status = "none"
  BY Unused DEF CommitApproval, At, Runs, LInv, JobInv
<1>2. /\ a \in Accounts /\ r \in Reviews /\ lock[r] = p /\ a # c
      /\ review[r].status = "pending" /\ review[r].source = a
      /\ account[a].status = "passed"
  BY <1>1 DEF DecisionInv, Decisions
<1>3. /\ account' = [account EXCEPT ![c] = new]
      /\ review' = [review EXCEPT ![r].status = "approved", ![r].created = c]
      /\ answered' = [answered EXCEPT ![a] = TRUE]
      /\ UNCHANGED manual /\ EndTransaction(p)
  BY DEF CommitApproval
<1>4. new \in AccountRow /\ new.status = "active" /\ new.parent = a
  <2>1. account[a].phase # Funded /\ account[a].model \in BOOLEAN
    BY <1>1, <1>2 DEF LInv, TablesInv, AccountsInv, TypeOK, AccountRow
  <2>. QED
    BY <1>1, <1>2, <2>1, NextPhaseShape DEF Successor, AccountRow, AccountStatus
<1>. HIDE DEF a, r, new
<1>5. account \in AccountMap /\ review \in ReviewMap
  BY <1>1, Shape
<1>6. /\ \A b \in Accounts \ {c} : account'[b] = account[b]
      /\ account'[c] = new /\ account' \in AccountMap
  BY <1>3, <1>4, <1>5 DEF AccountMap
<1>7. /\ \A q \in Reviews \ {r} : review'[q] = review[q]
      /\ review'[r].status = "approved" /\ review'[r].source = a
      /\ review'[r].created = c /\ review' \in ReviewMap
  <2>. DEFINE row == [review[r] EXCEPT !.status = "approved", !.created = c]
  <2>1. review[r] \in ReviewRow
    BY <1>2, <1>5 DEF ReviewMap
  <2>2. /\ row \in ReviewRow /\ row.status = "approved" /\ row.created = c
        /\ row.source = review[r].source
    BY <2>1 DEF ReviewRow, ReviewStatus
  <2>3. review' = [review EXCEPT ![r] = row]
    BY <1>3
  <2>. HIDE DEF row
  <2>. QED
    BY <1>2, <1>5, <2>2, <2>3 DEF ReviewMap
<1>8. TypeOK'
  <2>1. answered' \in [Accounts -> BOOLEAN] /\ manual' \subseteq Accounts
    BY <1>1, <1>3 DEF TypeOK
  <2>. QED
    BY <1>1, <1>3, <1>6, <1>7, <2>1, Releases
       DEF TypeOK, AccountMap, ReviewMap, LockMap, JobMap
<1>9. TablesInv'
  <2>1. ASSUME NEW b \in Accounts \ {c}, account'[b].status = "passed"
        PROVE  /\ account'[b].phase # Funded
               /\ answered'[b] \/ \E q \in Reviews : review'[q].status = "pending"
                                                     /\ review'[q].source = b
    <3>1. account[b].status = "passed" /\ account[b].phase # Funded
          /\ account'[b] = account[b]
      BY <1>6, <2>1 DEF LInv, TablesInv, AccountsInv
    <3>2. CASE b = a
      BY <1>1, <1>2, <1>3, <3>1, <3>2 DEF TypeOK
    <3>3. CASE b # a
      <4>1. answered[b] \/ \E q \in Reviews : review[q].status = "pending"
                                              /\ review[q].source = b
        BY <3>1 DEF LInv, TablesInv, NoStrandedPass, PendingOf
      <4>2. answered'[b] = answered[b]
        BY <1>1, <1>3, <3>3 DEF TypeOK
      <4>. QED
        BY <1>2, <1>7, <3>1, <3>3, <4>1, <4>2
    <3>. QED
      BY <3>2, <3>3
  <2>2. review[r].created = Null /\ \A q \in Reviews : review[q].created # c
    BY <1>1, <1>2, LifecycleAssumption DEF LInv, TablesInv, CreatedInv
  <2>3. \A q \in Reviews :
          /\ review'[q].status # "none" => review'[q].source \in Accounts
          /\ \/ review'[q].created = review[q].created
                /\ (review[q].created # Null => review'[q] = review[q])
             \/ /\ review'[q].created = c /\ review[q].created = Null
                /\ review'[q].status = "approved"
                /\ review'[q].source = account'[c].parent
                /\ manual' = manual
    BY <1>2, <1>3, <1>4, <1>6, <1>7, <2>2 DEF LInv, TablesInv, SourcesInv
  <2>4. /\ \A q, u \in Reviews : review'[q].created = c /\ review'[u].created = c => q = u
        /\ \E q \in Reviews : review'[q].created = c
    BY <1>2, <1>7, <2>2
  <2>5. \A b \in Accounts \ {c} :
          /\ account'[b].parent = account[b].parent
          /\ IF account[b].status = "none" THEN account'[b] = account[b]
             ELSE account'[b].status # "none"
    BY <1>6
  <2>6. account'[c].status = "active" /\ manual' = manual
    BY <1>3, <1>4, <1>6
  <2>. QED
    BY <1>1, <1>8, <2>1, <2>3, <2>4, <2>5, <2>6, TablesGrow DEF LInv
<1>10. \A q \in Reviews : review[q].status # "none" =>
         /\ lock[q] # p => review'[q] = review[q]
         /\ review'[q].status # "none" /\ review'[q].source = review[q].source
  BY <1>2, <1>7
<1>11. \A b \in Accounts : account[b].status # "none" => account'[b] = account[b]
  BY <1>1, <1>6
<1>. QED
  BY <1>3, <1>8, <1>9, <1>10, <1>11, CommitKeeps
-----------------------------------------------------------------------------
(* The routes and engines that write under the account's lock alone. *)

(* A step that leaves every session where it is, and touches no locked      *)
(* account.                                                                 *)
LEMMA TablesMove ==
  ASSUME LInv, UNCHANGED <<review, lock, session>>, TypeOK', TablesInv',
         \A a \in Accounts : account[a].status # "none" =>
           /\ ~IsFree(a) => account'[a] = account[a]
           /\ account'[a].status # "none" /\ account'[a].phase = account[a].phase
  PROVE  LInv'
<1>1. ASSUME NEW q \in Procs PROVE JobInv(q)'
  BY OthersKeep, RowsApart DEF LInv, IsFree
<1>. QED
  BY <1>1 DEF LInv

LEMMA StatusMoves ==
  ASSUME LInv, NEW a \in Accounts, NEW from, NEW to \in AccountStatus \ {"none", "passed"},
         "none" \notin from, MayMove(a, from, to)
  PROVE  LInv'
<1>1. /\ account[a].status # "none" /\ IsFree(a) /\ TypeOK
      /\ account' = [account EXCEPT ![a].status = to]
      /\ UNCHANGED <<review, lock, session, manual, answered>>
  BY DEF MayMove, LInv, history
<1>2. account \in AccountMap
  BY <1>1, Shape
<1>3. /\ \A b \in Accounts \ {a} : account'[b] = account[b]
      /\ account'[a].status = to /\ account'[a].phase = account[a].phase
      /\ account'[a].parent = account[a].parent /\ account' \in AccountMap
  BY <1>1, <1>2 DEF AccountMap, AccountRow
<1>4. TypeOK'
  BY <1>1, <1>3 DEF TypeOK, AccountMap
<1>5. TablesInv'
  <2>1. \A b \in Accounts : account'[b].status = "passed" =>
          /\ account'[b].phase # Funded
          /\ answered'[b] \/ \E q \in Reviews : review'[q].status = "pending"
                                                /\ review'[q].source = b
    BY <1>1, <1>3 DEF LInv, TablesInv, AccountsInv, NoStrandedPass, PendingOf
  <2>2. \A q \in Reviews : review[q].status # "none" => review[q].source \in Accounts
    BY DEF LInv, TablesInv, SourcesInv
  <2>. QED
    BY <1>1, <1>3, <1>4, <2>1, <2>2, TablesStay DEF LInv
<1>. QED
  BY <1>1, <1>3, <1>4, <1>5, TablesMove

LEMMA PromotesByHand ==
  ASSUME LInv, NEW a \in Accounts, NEW c \in Accounts, ManualPromote(a, c)
  PROVE  LInv'
<1>. DEFINE new == Successor(a, OverrideTarget(a), FALSE)
<1>1. /\ account[a].status # "none" /\ IsFree(a) /\ TypeOK /\ account[c].status = "none"
      /\ account[a].phase # Funded /\ OverrideTarget(a) \in Phase /\ a # c
  BY Unused, NextPhaseShape DEF ManualPromote, LInv
<1>2. /\ account' = [account EXCEPT ![a].status = "passed", ![c] = new]
      /\ manual' = manual \cup {c} /\ answered' = [answered EXCEPT ![a] = TRUE]
      /\ UNCHANGED <<review, lock, session>>
  BY DEF ManualPromote
<1>3. new \in AccountRow /\ new.status = "active" /\ new.parent = a
  BY <1>1 DEF Successor, AccountRow, AccountStatus
<1>. HIDE DEF new
<1>4. account \in AccountMap
  BY <1>1, Shape
<1>5. /\ \A b \in Accounts \ {a, c} : account'[b] = account[b]
      /\ account'[a].status = "passed" /\ account'[a].phase = account[a].phase
      /\ account'[a].parent = account[a].parent
      /\ account'[c] = new /\ account' \in AccountMap
  BY <1>1, <1>2, <1>3, <1>4 DEF AccountMap, AccountRow, AccountStatus
<1>6. /\ manual' \subseteq Accounts /\ answered' \in [Accounts -> BOOLEAN]
      /\ answered'[a] = TRUE /\ \A b \in Accounts \ {a} : answered'[b] = answered[b]
  BY <1>1, <1>2 DEF TypeOK
<1>7. TypeOK'
  BY <1>1, <1>2, <1>5, <1>6 DEF TypeOK, AccountMap
<1>8. TablesInv'
  <2>1. \A b \in Accounts \ {c} : account'[b].status = "passed" =>
          /\ account'[b].phase # Funded
          /\ answered'[b] \/ \E q \in Reviews : review'[q].status = "pending"
                                                /\ review'[q].source = b
    <3>. SUFFICES ASSUME NEW b \in Accounts \ {c}, account'[b].status = "passed"
                  PROVE  /\ account'[b].phase # Funded
                         /\ answered'[b] \/ \E q \in Reviews : review'[q].status = "pending"
                                                               /\ review'[q].source = b
      OBVIOUS
    <3>1. CASE b = a
      BY <1>1, <1>5, <1>6, <3>1
    <3>2. CASE b # a
      <4>1. account[b].status = "passed" /\ account'[b] = account[b]
            /\ answered'[b] = answered[b]
        BY <1>5, <1>6, <3>2
      <4>. QED
        BY <1>2, <4>1 DEF LInv, TablesInv, AccountsInv, NoStrandedPass, PendingOf
    <3>. QED
      BY <3>1, <3>2
  <2>2. \A q \in Reviews : review[q].created # c
                             /\ (review[q].status # "none" => review[q].source \in Accounts)
    BY <1>1, LifecycleAssumption DEF LInv, TablesInv, CreatedInv, SourcesInv
  <2>3. \A b \in Accounts \ {c} :
          /\ account'[b].parent = account[b].parent
          /\ IF account[b].status = "none" THEN account'[b] = account[b]
             ELSE account'[b].status # "none"
    BY <1>1, <1>5
  <2>4. /\ account'[c].status = "active" /\ manual' = manual \cup {c} /\ review' = review
        /\ account[c].status = "none"
    BY <1>1, <1>2, <1>3, <1>5
  <2>. QED
    BY <1>1, <1>7, <2>1, <2>2, <2>3, <2>4, TablesGrow DEF LInv
<1>. QED
  BY <1>1, <1>2, <1>5, <1>7, <1>8, TablesMove

LEMMA Replaces ==
  ASSUME LInv, NEW a \in Accounts, NEW c \in Accounts, ReplaceAccount(a, c)
  PROVE  LInv'
<1>. DEFINE new == [NoAccount EXCEPT !.status = "active", !.phase = account[a].phase]
<1>1. TypeOK /\ account[c].status = "none" /\ account \in AccountMap
  BY Unused, Shape DEF ReplaceAccount, LInv
<1>2. /\ account' = [account EXCEPT ![c] = new]
      /\ UNCHANGED <<review, lock, session, manual, answered>>
  BY DEF ReplaceAccount, history
<1>3. new \in AccountRow /\ new.status = "active" /\ new.parent = Null
  BY <1>1 DEF NoAccount, AccountMap, AccountRow, AccountStatus
<1>. HIDE DEF new
<1>4. /\ \A b \in Accounts \ {c} : account'[b] = account[b]
      /\ account'[c] = new /\ account' \in AccountMap
  BY <1>1, <1>2, <1>3 DEF AccountMap
<1>5. TypeOK'
  BY <1>1, <1>2, <1>4 DEF TypeOK, AccountMap
<1>6. TablesInv'
  <2>1. \A b \in Accounts \ {c} : account'[b].status = "passed" =>
          /\ account'[b].phase # Funded
          /\ answered'[b] \/ \E q \in Reviews : review'[q].status = "pending"
                                                /\ review'[q].source = b
    BY <1>2, <1>4 DEF LInv, TablesInv, AccountsInv, NoStrandedPass, PendingOf
  <2>2. \A q \in Reviews : review[q].created # c
                             /\ (review[q].status # "none" => review[q].source \in Accounts)
    BY <1>1, LifecycleAssumption DEF LInv, TablesInv, CreatedInv, SourcesInv
  <2>. QED
    BY <1>1, <1>2, <1>3, <1>4, <1>5, <2>1, <2>2, TablesGrow DEF LInv
<1>. QED
  BY <1>1, <1>2, <1>4, <1>5, <1>6, TablesMove
-----------------------------------------------------------------------------
LEMMA LInit == Init => LInv
<1>. SUFFICES ASSUME Init PROVE LInv
  OBVIOUS
<1>1. TypeOK
  BY LifecycleAssumption, IdleShape
     DEF Init, TypeOK, AccountRow, AccountStatus, Phase, ReviewRow, ReviewStatus, NoAccount,
         NoReview, Funded
<1>2. /\ \A a \in Accounts : /\ account[a].status = "none" => account[a] = NoAccount
                             /\ account[a].status # "passed" /\ account[a].parent = Null
      /\ \A r \in Reviews : review[r].status = "none" /\ review[r].created = Null
      /\ manual = {}
  BY DEF Init, NoAccount, NoReview
<1>3. TablesInv
  BY <1>2 DEF TablesInv, AccountsInv, SourcesInv, CreatedInv, ParentInv, NoStrandedPass
<1>4. \A p \in Procs : JobInv(p)
  BY IdleShape DEF Init, JobInv, PassInv, DecisionInv, IdleInv, Passes, Decisions
<1>. QED
  BY <1>1, <1>3, <1>4 DEF LInv

LEMMA LNext == LInv /\ [Next]_vars => LInv'
<1>. SUFFICES ASSUME LInv, [Next]_vars PROVE LInv'
  OBVIOUS
<1>1. ASSUME NEW p \in Procs, Start(p) PROVE LInv'
  BY <1>1, PassStarts, DecisionStarts DEF Start, Passes, Decisions
<1>2. ASSUME NEW p \in Procs, Acquire(p) PROVE LInv'
  BY <1>2, ReviewRaised, ReviewLocks, SourceLocks DEF Acquire
<1>3. ASSUME NEW p \in Procs, Proceed(p) PROVE LInv'
  BY <1>3, PassLocks, PassCommits, RejectionCommits, ApprovalCommits DEF Proceed
<1>4. ASSUME NEW p \in Procs, Rollback(p) PROVE LInv'
  BY <1>4, GivesUp DEF Rollback
<1>5. ASSUME NEW a \in Touched, Move(a) PROVE LInv'
  <2>1. a \in Accounts
    BY LifecycleAssumption
  <2>2. CASE EngineFails(a) \/ EngineExpires(a) \/ Freeze(a)
    BY <2>1, <2>2, StatusMoves DEF EngineFails, EngineExpires, Freeze, AccountStatus
  <2>3. CASE AdminFails(a) \/ AdminLocks(a)
    BY <2>1, <2>3, StatusMoves DEF AdminFails, AdminLocks, AccountStatus
  <2>4. CASE RestoreActive(a) \/ RestoreWithReset(a)
    BY <2>1, <2>4, StatusMoves DEF RestoreActive, RestoreWithReset, AccountStatus
  <2>. QED
    BY <1>5, <2>1, <2>2, <2>3, <2>4, PromotesByHand, Replaces DEF Move
<1>6. CASE UNCHANGED vars
  <2>1. TypeOK' /\ TablesInv'
    BY <1>6 DEF LInv, TypeOK, TablesInv, AccountsInv, SourcesInv, CreatedInv, ParentInv,
       NoStrandedPass, ApprovalsOf, PendingOf, vars, tables, history
  <2>. QED
    BY <1>6, <2>1, TablesMove DEF LInv, vars, tables
<1>. QED
  BY <1>1, <1>2, <1>3, <1>4, <1>5, <1>6 DEF Next

(* In every reachable state both tables, the locks and the sessions are     *)
(* well typed.                                                              *)
THEOREM LifecycleTyped == Spec => []TypeOK
<1>1. LInv => TypeOK
  BY DEF LInv
<1>. QED
  BY <1>1, LInit, LNext, PTL DEF Spec

(* Whatever passes, decisions, overrides and restores interleave, every     *)
(* promoted account is accounted for by exactly one decision, an override   *)
(* or one approved review of its source (routes/admin/promotionReviews.js,  *)
(* approve).                                                                *)
THEOREM SuccessorsExplainedHolds == Spec => []SuccessorsExplained
<1>1. LInv => SuccessorsExplained
  <2>. SUFFICES ASSUME LInv, NEW c \in Accounts
                PROVE  /\ \A r \in ApprovalsOf(c) : review[r].status = "approved"
                                                    /\ review[r].source = account[c].parent
                       /\ account[c].parent # Null =>
                            Cardinality(ApprovalsOf(c)) = IF c \in manual THEN 0 ELSE 1
    BY DEF SuccessorsExplained
  <2>1. \A r \in ApprovalsOf(c) :
          /\ review[r].status = "approved" /\ review[r].source = account[c].parent
          /\ c \notin manual /\ \A q \in ApprovalsOf(c) : q = r
    BY RowsApart DEF LInv, TablesInv, CreatedInv, ApprovalsOf
  <2>2. CASE c \in manual
    BY <2>1, <2>2, FS_EmptySet
  <2>3. CASE c \notin manual
    <3>. SUFFICES ASSUME account[c].parent # Null
                  PROVE  Cardinality(ApprovalsOf(c)) = 1
      BY <2>1, <2>3
    <3>1. PICK r \in ApprovalsOf(c) : TRUE
      BY <2>3 DEF LInv, TablesInv, ParentInv
    <3>2. ApprovalsOf(c) = {r}
      BY <2>1, <3>1
    <3>. QED
      BY <3>2, FS_Singleton
  <2>. QED
    BY <2>2, <2>3
<1>. QED
  BY <1>1, LInit, LNext, PTL DEF Spec

(* A passed account always has a pending review or an answer to its last    *)
(* pass, however often it was locked, restored and passed again and         *)
(* whatever was decided meanwhile (challengeEngine.ts:678).                 *)
THEOREM NoStrandedPassHolds == Spec => []NoStrandedPass
<1>1. LInv => NoStrandedPass
  BY DEF LInv, TablesInv
<1>. QED
  BY <1>1, LInit, LNext, PTL DEF Spec

(* No step but an approval or an override gives an account a parent.        *)
LEMMA PromotionSteps ==
  ASSUME LInv, [Next]_vars, NEW c \in Accounts, account[c] = NoAccount,
         account'[c].parent # Null
  PROVE  account'[account'[c].parent].status = "passed"
<1>1. /\ account \in AccountMap /\ NoAccount.parent = Null /\ NoAccount.status = "none"
      /\ TypeOK
  BY Shape DEF LInv, NoAccount
<1>2. ASSUME NEW a \in Accounts, NEW b \in AccountRow, b.parent = Null,
             account' = [account EXCEPT ![a] = b]
      PROVE  FALSE
  BY <1>1, <1>2 DEF AccountMap
<1>3. ASSUME NEW a \in Accounts, NEW to, account' = [account EXCEPT ![a].status = to]
      PROVE  FALSE
  BY <1>1, <1>3 DEF AccountMap, AccountRow
<1>4. ASSUME NEW a \in Accounts, NEW d \in Accounts, NEW new,
             new.parent = a, account'[d] = new, a # d, account'[a].status = "passed",
             \A b \in Accounts \ {d} : account'[b].parent = account[b].parent
      PROVE  account'[account'[c].parent].status = "passed"
  BY <1>1, <1>4
<1>5. ASSUME NEW p \in Procs, NEW d \in Accounts, CommitApproval(p, d)
      PROVE  account'[account'[c].parent].status = "passed"
  <2>. DEFINE a == session[p].acct
              new == Successor(a, NextPhase(a), account[a].model)
  <2>1. /\ a \in Accounts /\ account[a].status = "passed" /\ account[d].status = "none"
    BY <1>5, Unused DEF CommitApproval, At, Runs, LInv, JobInv, DecisionInv, Decisions
  <2>2. account' = [account EXCEPT ![d] = new] /\ new.parent = a
    BY <1>5 DEF CommitApproval, Successor
  <2>. HIDE DEF a, new
  <2>. QED
    BY <1>1, <1>4, <2>1, <2>2 DEF AccountMap
<1>6. ASSUME NEW a \in Accounts, NEW d \in Accounts, ManualPromote(a, d)
      PROVE  account'[account'[c].parent].status = "passed"
  <2>. DEFINE new == Successor(a, OverrideTarget(a), FALSE)
  <2>1. /\ account' = [account EXCEPT ![a].status = "passed", ![d] = new]
        /\ new.parent = a /\ a # d
    BY <1>1, <1>6, Unused DEF ManualPromote, Successor, UnusedAccounts
  <2>. HIDE DEF new
  <2>. QED
    BY <1>1, <1>4, <2>1 DEF AccountMap, AccountRow
<1>7. ASSUME NEW a \in Accounts, NEW d \in Accounts, ReplaceAccount(a, d)
      PROVE  FALSE
  <2>. DEFINE new == [NoAccount EXCEPT !.status = "active", !.phase = account[a].phase]
  <2>1. account' = [account EXCEPT ![d] = new]
    BY <1>7 DEF ReplaceAccount
  <2>2. new.parent = Null
    BY DEF NoAccount
  <2>. HIDE DEF new
  <2>. QED
    BY <1>1, <2>1, <2>2 DEF AccountMap
<1>8. ASSUME UNCHANGED account PROVE FALSE
  BY <1>1, <1>8
<1>9. ASSUME NEW p \in Procs, NEW r \in Reviews, CommitPass(p, r) PROVE FALSE
  BY <1>3, <1>9, JobShape DEF CommitPass, Runs, LInv, JobInv, PassInv, Passes
<1>10. ASSUME NEW a \in Touched, NEW from, NEW to, MayMove(a, from, to) PROVE FALSE
  BY <1>3, <1>10, LifecycleAssumption DEF MayMove
<1>. QED
  BY <1>5, <1>6, <1>7, <1>8, <1>9, <1>10, LifecycleAssumption
     DEF Next, Start, Acquire, Proceed, Move, StartPass, StartDecision, Begin, RaiseReview,
         LockReview, LockSource, LockForPass, CommitRejection, GiveUp, Rollback,
         EngineFails, EngineExpires, Freeze, AdminFails, AdminLocks, RestoreActive,
         RestoreWithReset, tables, vars

(* A successor is created only for an account that is passed at that        *)
(* moment, whatever was done to it since its review was raised, listed or   *)
(* read (progressionService.js, approvePromotionReview).                    *)
THEOREM PromotedWhilePassedHolds == Spec => PromotedWhilePassed
<1>1. LInv /\ [Next]_vars =>
        [\A c \in Accounts : account[c] = NoAccount /\ account'[c].parent # Null =>
           account'[account'[c].parent].status = "passed"]_vars
  BY PromotionSteps
<1>. QED
  BY <1>1, LInit, LNext, PTL DEF Spec, PromotedWhilePassed
-----------------------------------------------------------------------------
(* IdempotencyClaims. *)

Started(r)   == [status |-> "started", by |-> r]
Completed(r) == [status |-> "completed", by |-> r]

(* Between taking its claim and settling it. *)
Claiming(r) == \/ req[r].pc \in {"insert", "complete", "abandon"}
               \/ ReqAt(r, "lock") /\ req[r].handler = "create"

ReqInv(r) ==
  /\ ~ReqAt(r, "new") => req[r].handler \in Handlers /\ req[r].key \in Keys
  /\ req[r].pc \in {"lock", "claim", "insert"} => req[r].conn
  /\ ReqAt(r, "complete") => r \in opened /\ (req[r].handler = "create" => req[r].conn)
  /\ Claiming(r) => Mine(r) = Started(r)

ClaimInv == \A s \in Scopes, k \in Keys :
  /\ claim[s][k].status = "none" => claim[s][k] = NoClaim
  /\ claim[s][k].status # "none" => claim[s][k].by \in Requests
  /\ claim[s][k].status = "completed" =>
       claim[s][k].by \in opened /\ ReqAt(claim[s][k].by, "done")

(* A lock is held by a request that is about to insert, or to claim in POST *)
(* /open, which locks before it claims.                                     *)
Holding(q) == q.pc = "insert" \/ (q.pc = "claim" /\ q.handler # "create")

LockInv == \A s \in Scopes : scopeLock[s] # None => Holding(req[scopeLock[s]])

Inv == ClaimsTypeOK /\ ClaimInv /\ LockInv /\ \A r \in Requests : ReqInv(r)
-----------------------------------------------------------------------------
Connected == {r \in Requests : req[r].conn}

LEMMA PoolCount == IsFiniteSet(Connected) /\ Cardinality(Connected) \in Nat
                   /\ Free = PoolMax - Cardinality(Connected)
<1>1. IsFiniteSet(Connected)
  BY ClaimsAssumption, FS_Subset DEF Connected
<1> QED
  BY <1>1, FS_CardinalityType DEF Free, Connected

(* A request that keeps or gives back its connection, or takes a free one,  *)
(* does not overdraw the pool.                                              *)
LEMMA PoolKept ==
  ASSUME Free >= 0, req \in [Requests -> Req], NEW r \in Requests, NEW new \in Req,
         req' = [req EXCEPT ![r] = new],
         new.conn => req[r].conn \/ Free > 0
  PROVE  Free' >= 0
<1>1. /\ IsFiniteSet(Connected) /\ Cardinality(Connected) \in Nat
      /\ Free = PoolMax - Cardinality(Connected)
  BY PoolCount
<1>2. Free' = PoolMax - Cardinality(Connected')
  BY DEF Free, Connected
<1>3. \A q \in Requests : req'[q].conn => req[q].conn \/ q = r
  OBVIOUS
<1>4. CASE Connected' \subseteq Connected
  <2>1. Cardinality(Connected') \in Nat /\ Cardinality(Connected') <= Cardinality(Connected)
    BY <1>1, <1>4, FS_Subset, FS_CardinalityType
  <2> QED
    BY <1>1, <1>2, <2>1, ClaimsAssumption
<1>5. CASE ~(Connected' \subseteq Connected)
  <2>1. r \notin Connected /\ new.conn /\ Connected' = Connected \cup {r}
    BY <1>3, <1>5 DEF Connected
  <2>2. Free > 0
    BY <2>1 DEF Connected
  <2>3. Cardinality(Connected') = Cardinality(Connected) + 1
    BY <1>1, <2>1, FS_AddElement
  <2> QED
    BY <1>1, <1>2, <2>2, <2>3, ClaimsAssumption
<1> QED
  BY <1>4, <1>5

(* What a step of request r may do to a claim: take a free one, settle or   *)
(* drop its own.                                                            *)
Touches(r) == \A s \in Scopes, k \in Keys :
  \/ claim'[s][k] = claim[s][k]
  \/ /\ claim[s][k] = NoClaim \/ claim[s][k].by = r
     /\ \/ claim'[s][k] \in {NoClaim, Started(r)}
        \/ claim'[s][k] = Completed(r) /\ r \in opened' /\ ReqAt(r, "done")'

(* A request's step keeps the invariant if its own part holds again. *)
LEMMA RequestStep ==
  ASSUME Inv, NEW r \in Requests, NEW new \in Req,
         req' = [req EXCEPT ![r] = new],
         new.conn => req[r].conn \/ Free > 0,
         ~ReqAt(r, "done"),
         opened' = opened \/ opened' = opened \cup {r},
         scopeLock' \in [Scopes -> Requests \cup {None}],
         \A s \in Scopes : scopeLock'[s] \in {scopeLock[s], None, r},
         \A s \in Scopes : scopeLock'[s] = r => new.conn /\ Holding(new),
         claim' \in [Scopes -> [Keys -> Claim]], Touches(r),
         ReqInv(r)'
  PROVE  Inv'
<1>1. /\ req' \in [Requests -> Req] /\ req'[r] = new
      /\ \A q \in Requests \ {r} : req'[q] = req[q]
  BY DEF Inv, ClaimsTypeOK
<1>2. \A s \in Scopes : scopeLock'[s] # None =>
         scopeLock'[s] \in Requests /\ (scopeLock'[s] = r \/ scopeLock'[s] = scopeLock[s])
  OBVIOUS
<1>3. ClaimsTypeOK'
  <2>1. Free' >= 0
    BY PoolKept DEF Inv, ClaimsTypeOK
  <2>2. opened' \subseteq Requests
    BY DEF Inv, ClaimsTypeOK
  <2>3. \A s \in Scopes : scopeLock'[s] # None => req'[scopeLock'[s]].conn
    BY <1>1, <1>2 DEF Inv, ClaimsTypeOK
  <2> QED
    BY <1>1, <2>1, <2>2, <2>3 DEF ClaimsTypeOK
<1>4. LockInv'
  BY <1>1, <1>2 DEF Inv, LockInv
<1>5. ClaimInv'
  <2> SUFFICES ASSUME NEW s \in Scopes, NEW k \in Keys
               PROVE  /\ claim'[s][k].status = "none" => claim'[s][k] = NoClaim
                      /\ claim'[s][k].status # "none" => claim'[s][k].by \in Requests
                      /\ claim'[s][k].status = "completed" =>
                           claim'[s][k].by \in opened' /\ req'[claim'[s][k].by].pc = "done"
    BY DEF ClaimInv, ReqAt
  <2>1. CASE claim'[s][k] = claim[s][k]
    BY <1>1, <2>1 DEF Inv, ClaimInv, ReqAt
  <2>2. CASE claim'[s][k] # claim[s][k]
    BY <2>2 DEF Touches, NoClaim, Started, Completed, ReqAt
  <2> QED
    BY <2>1, <2>2
<1>6. ASSUME NEW q \in Requests \ {r} PROVE ReqInv(q)'
  <2>1. ReqInv(q) /\ req'[q] = req[q] /\ q # r
    BY <1>1 DEF Inv
  <2>2. ASSUME Claiming(q) PROVE Mine(q)' = Started(q)
    <3>1. /\ ScopeOf(q) \in Scopes /\ req[q].key \in Keys
          /\ claim[ScopeOf(q)][req[q].key] = Started(q)
      BY <2>1, <2>2 DEF ReqInv, Claiming, ReqAt, ScopeOf, Scopes, Mine
    <3>2. claim'[ScopeOf(q)][req[q].key] = claim[ScopeOf(q)][req[q].key]
      BY <2>1, <3>1 DEF Touches, Started, NoClaim
    <3> QED
      BY <2>1, <3>1, <3>2 DEF Mine, ScopeOf
  <2>3. Claiming(q)' <=> Claiming(q)
    BY <2>1 DEF Claiming, ReqAt
  <2> QED
    BY <2>1, <2>2, <2>3 DEF ReqInv, ReqAt, Started
<1> QED
  BY <1>3, <1>4, <1>5, <1>6 DEF Inv
-----------------------------------------------------------------------------
LEMMA ScopeType == \A r : ScopeOf(r) \in Scopes
BY DEF ScopeOf, Scopes

LEMMA DropKeepsOthers ==
  ASSUME ClaimsTypeOK, NEW r \in Requests, Drop(r)
  PROVE  /\ scopeLock' \in [Scopes -> Requests \cup {None}]
         /\ \A s \in Scopes : scopeLock'[s] \in {scopeLock[s], None} /\ scopeLock'[s] # r
BY ClaimsAssumption DEF ClaimsTypeOK, Drop

LEMMA SetClaimType ==
  ASSUME ClaimsTypeOK, NEW r \in Requests, NEW c \in Claim, req[r].key \in Keys, SetClaim(r, c)
  PROVE  /\ claim' \in [Scopes -> [Keys -> Claim]]
         /\ claim'[ScopeOf(r)][req[r].key] = c
         /\ \A s \in Scopes, k \in Keys :
              s # ScopeOf(r) \/ k # req[r].key => claim'[s][k] = claim[s][k]
BY ScopeType DEF ClaimsTypeOK, SetClaim

LEMMA Untouched ==
  ASSUME NEW r, claim' = claim
  PROVE  Touches(r)
BY DEF Touches

(* What a request's state says of it. *)
LEMMA ReqFacts ==
  ASSUME Inv, NEW r \in Requests
  PROVE  /\ req[r] \in Req /\ ReqInv(r)
         /\ \A s \in Scopes : scopeLock[s] = r => req[r].conn /\ Holding(req[r])
BY ClaimsAssumption DEF Inv, ClaimsTypeOK, LockInv

(* A request that is answered gives everything back. *)
LEMMA AnswerStep ==
  ASSUME Inv, NEW r \in Requests, ~ReqAt(r, "new"), ~ReqAt(r, "done"), Answer(r),
         claim' \in [Scopes -> [Keys -> Claim]], Touches(r)
  PROVE  Inv'
<1> DEFINE new == [req[r] EXCEPT !.pc = "done", !.conn = FALSE]
<1>1. req[r] \in Req /\ ReqInv(r)
  BY ReqFacts
<1>2. /\ new \in Req /\ new.pc = "done" /\ new.conn = FALSE
      /\ new.handler = req[r].handler /\ new.key = req[r].key
  BY <1>1 DEF Req, Pcs
<1>3. req' = [req EXCEPT ![r] = new] /\ Drop(r) /\ opened' = opened
  BY DEF Answer
<1> HIDE DEF new
<1>4. req'[r] = new
  BY <1>3 DEF Inv, ClaimsTypeOK
<1>5. ReqInv(r)'
  BY <1>1, <1>2, <1>4 DEF ReqInv, Claiming, ReqAt
<1>6. /\ scopeLock' \in [Scopes -> Requests \cup {None}]
      /\ \A s \in Scopes : scopeLock'[s] \in {scopeLock[s], None} /\ scopeLock'[s] # r
  BY <1>3, DropKeepsOthers DEF Inv
<1> QED
  BY <1>2, <1>3, <1>5, <1>6, RequestStep

(* Refusals, replays, timeouts, a failed abandon and a crash only answer. *)
LEMMA AnsweringStep ==
  ASSUME Inv, NEW r \in Requests,
         \/ ConnectTimeout(r) \/ Refuse(r) \/ Replay(r) \/ ClaimTimeout(r)
         \/ AbandonFails(r) \/ Crash(r)
  PROVE  Inv'
<1>1. Answer(r) /\ claim' = claim /\ ~ReqAt(r, "new") /\ ~ReqAt(r, "done")
  BY DEF ConnectTimeout, Refuse, Replay, ClaimTimeout, AbandonFails, Crash, ReqAt
<1> QED
  BY <1>1, Untouched, AnswerStep DEF Inv, ClaimsTypeOK

LEMMA StartStep ==
  ASSUME Inv, NEW r \in Requests, NEW h \in Handlers, NEW k \in Keys, Send(r, h, k)
  PROVE  Inv'
<1> DEFINE new == [pc |-> "connect", handler |-> h, key |-> k, conn |-> FALSE]
<1>1. new \in Req
  BY DEF Req, Pcs
<1>2. /\ req' = [req EXCEPT ![r] = new] /\ UNCHANGED <<claim, scopeLock, opened>>
      /\ ReqAt(r, "new") /\ req'[r] = new
  BY <1>1 DEF Send, Inv, ClaimsTypeOK
<1>3. ReqInv(r)'
  BY <1>2 DEF ReqInv, Claiming, ReqAt
<1>4. \A s \in Scopes : scopeLock[s] # r
  BY <1>2, ReqFacts DEF ReqAt, Holding
<1> HIDE DEF new
<1> QED
  BY <1>1, <1>2, <1>3, <1>4, Untouched, RequestStep DEF Inv, ClaimsTypeOK, ReqAt, new

LEMMA ConnectStep ==
  ASSUME Inv, NEW r \in Requests, Connect(r)
  PROVE  Inv'
<1> DEFINE pc == IF ScopeOf(r) = "create" THEN "claim" ELSE "lock"
           new == [req[r] EXCEPT !.conn = TRUE, !.pc = pc]
<1>1. /\ ReqAt(r, "connect") /\ Free > 0 /\ UNCHANGED <<claim, scopeLock, opened>>
      /\ req' = [req EXCEPT ![r] = new]
  BY DEF Connect
<1>2. req[r] \in Req /\ ReqInv(r) /\ \A s \in Scopes : scopeLock[s] # r
  BY <1>1, ReqFacts DEF ReqAt, Holding
<1>3. /\ new \in Req /\ new.pc = pc /\ new.conn
      /\ new.handler = req[r].handler /\ new.key = req[r].key
  BY <1>2 DEF Req, Pcs
<1> HIDE DEF new
<1>4. req'[r] = new
  BY <1>1 DEF Inv, ClaimsTypeOK
<1>5. ReqInv(r)'
  BY <1>1, <1>2, <1>3, <1>4 DEF ReqInv, Claiming, ReqAt, ScopeOf
<1> QED
  BY <1>1, <1>2, <1>3, <1>5, Untouched, RequestStep DEF Inv, ClaimsTypeOK, ReqAt

LEMMA LockAccountStep ==
  ASSUME Inv, NEW r \in Requests, LockAccount(r)
  PROVE  Inv'
<1> DEFINE pc == IF ScopeOf(r) = "create" THEN "insert" ELSE "claim"
           new == [req[r] EXCEPT !.pc = pc]
<1>1. /\ ReqAt(r, "lock") /\ UNCHANGED <<claim, opened>>
      /\ scopeLock' = [scopeLock EXCEPT ![ScopeOf(r)] = r] /\ req' = [req EXCEPT ![r] = new]
  BY DEF LockAccount, Go
<1>2. req[r] \in Req /\ ReqInv(r)
  BY ReqFacts
<1>3. /\ new \in Req /\ new.pc = pc /\ new.conn = req[r].conn
      /\ new.handler = req[r].handler /\ new.key = req[r].key
  BY <1>2 DEF Req, Pcs
<1> HIDE DEF new
<1>4. req'[r] = new /\ req[r].conn
  BY <1>1, <1>2 DEF Inv, ClaimsTypeOK, ReqInv, ReqAt
<1>5. /\ ScopeOf(r)' = ScopeOf(r)
      /\ ScopeOf(r) = "create" <=> req[r].handler = "create"
  BY <1>3, <1>4 DEF ScopeOf
<1>6. ReqInv(r)'
  BY <1>1, <1>2, <1>3, <1>4, <1>5 DEF ReqInv, Claiming, ReqAt, Mine, Started
<1>7. /\ scopeLock' \in [Scopes -> Requests \cup {None}]
      /\ \A s \in Scopes : scopeLock'[s] \in {scopeLock[s], r}
  BY <1>1 DEF Inv, ClaimsTypeOK
<1>8. Holding(new) /\ new.conn
  BY <1>3, <1>4, <1>5 DEF Holding
<1>9. Touches(r) /\ claim' \in [Scopes -> [Keys -> Claim]] /\ ~ReqAt(r, "done")
  BY <1>1, Untouched DEF Inv, ClaimsTypeOK, ReqAt
<1> QED
  BY <1>1, <1>3, <1>4, <1>6, <1>7, <1>8, <1>9, RequestStep

LEMMA TakeClaimStep ==
  ASSUME Inv, NEW r \in Requests, TakeClaim(r)
  PROVE  Inv'
<1> DEFINE pc == IF ScopeOf(r) = "create" THEN "lock" ELSE "insert"
           new == [req[r] EXCEPT !.pc = pc]
<1>1. /\ ReqAt(r, "claim") /\ UNCHANGED <<scopeLock, opened>> /\ Mine(r) = NoClaim
      /\ SetClaim(r, Started(r)) /\ req' = [req EXCEPT ![r] = new]
  BY DEF TakeClaim, Go, Started
<1>2. req[r] \in Req /\ ReqInv(r)
  BY ReqFacts
<1>3. /\ new \in Req /\ new.pc = pc /\ new.conn = req[r].conn
      /\ new.handler = req[r].handler /\ new.key = req[r].key
  BY <1>2 DEF Req, Pcs
<1> HIDE DEF new
<1>4. req'[r] = new /\ req[r].conn /\ req[r].key \in Keys /\ ScopeOf(r) \in Scopes
  BY <1>1, <1>2, ScopeType DEF Inv, ClaimsTypeOK, ReqInv, ReqAt
<1>5. /\ ScopeOf(r)' = ScopeOf(r)
      /\ ScopeOf(r) = "create" <=> req[r].handler = "create"
  BY <1>3, <1>4 DEF ScopeOf
<1>6. Started(r) \in Claim
  BY DEF Started, Claim
<1>7. /\ claim' \in [Scopes -> [Keys -> Claim]]
      /\ claim'[ScopeOf(r)][req[r].key] = Started(r)
      /\ \A s \in Scopes, k \in Keys :
           s # ScopeOf(r) \/ k # req[r].key => claim'[s][k] = claim[s][k]
  BY <1>1, <1>4, <1>6, SetClaimType DEF Inv
<1>8. Touches(r)
  BY <1>1, <1>4, <1>7 DEF Touches, Mine
<1>9. ReqInv(r)'
  BY <1>1, <1>2, <1>3, <1>4, <1>5, <1>7 DEF ReqInv, Claiming, ReqAt, Mine, Started
<1>10. \A s \in Scopes : scopeLock[s] = r => new.conn /\ Holding(new)
  BY <1>1, <1>3, <1>4, <1>5, ReqFacts DEF Holding, ReqAt
<1> QED
  BY <1>1, <1>3, <1>4, <1>7, <1>8, <1>9, <1>10, RequestStep DEF Inv, ClaimsTypeOK, ReqAt

LEMMA CommitStep ==
  ASSUME Inv, NEW r \in Requests, Commit(r) \/ CommitFails(r)
  PROVE  Inv'
<1> DEFINE pc == IF Commit(r) THEN "complete" ELSE "abandon"
           conn == IF Commit(r) THEN req[r].handler # "market" ELSE req[r].handler = "create"
           new == [req[r] EXCEPT !.pc = pc, !.conn = conn]
<1>1. /\ ReqAt(r, "insert") /\ UNCHANGED claim /\ Drop(r)
      /\ req' = [req EXCEPT ![r] = new]
      /\ opened' = IF Commit(r) THEN opened \cup {r} ELSE opened
  BY DEF Commit, CommitFails
<1>2. req[r] \in Req /\ ReqInv(r) /\ req[r].conn
  BY <1>1, ReqFacts DEF ReqInv, ReqAt
<1>3. conn \in BOOLEAN /\ pc \in {"complete", "abandon"} /\ (pc = "complete" => Commit(r))
      /\ (pc = "complete" /\ req[r].handler = "create" => conn)
  OBVIOUS
<1> HIDE DEF pc, conn
<1>4. /\ new \in Req /\ new.pc = pc /\ new.conn = conn
      /\ new.handler = req[r].handler /\ new.key = req[r].key
  BY <1>2, <1>3 DEF Req, Pcs
<1> HIDE DEF new
<1>5. req'[r] = new
  BY <1>1 DEF Inv, ClaimsTypeOK
<1>6. ReqInv(r)'
  BY <1>1, <1>2, <1>3, <1>4, <1>5 DEF ReqInv, Claiming, ReqAt, Mine, ScopeOf, Started
<1>7. /\ scopeLock' \in [Scopes -> Requests \cup {None}]
      /\ \A s \in Scopes : scopeLock'[s] \in {scopeLock[s], None} /\ scopeLock'[s] # r
  BY <1>1, DropKeepsOthers DEF Inv
<1> QED
  BY <1>1, <1>2, <1>4, <1>6, <1>7, Untouched, RequestStep DEF Inv, ClaimsTypeOK, ReqAt

LEMMA CompleteFailsStep ==
  ASSUME Inv, NEW r \in Requests, CompleteFails(r)
  PROVE  Inv'
<1> DEFINE conn == req[r].handler = "create"
           new == [req[r] EXCEPT !.pc = "abandon", !.conn = conn]
<1>1. /\ ReqAt(r, "complete") /\ UNCHANGED <<claim, scopeLock, opened>>
      /\ req' = [req EXCEPT ![r] = new]
  BY DEF CompleteFails
<1>2. req[r] \in Req /\ ReqInv(r) /\ \A s \in Scopes : scopeLock[s] # r
  BY <1>1, ReqFacts DEF ReqAt, Holding
<1>3. conn \in BOOLEAN /\ (conn => req[r].conn)
  BY <1>1, <1>2 DEF ReqInv
<1> HIDE DEF conn
<1>4. /\ new \in Req /\ new.pc = "abandon" /\ new.conn = conn
      /\ new.handler = req[r].handler /\ new.key = req[r].key
  BY <1>2, <1>3 DEF Req, Pcs
<1> HIDE DEF new
<1>5. req'[r] = new
  BY <1>1 DEF Inv, ClaimsTypeOK
<1>6. ReqInv(r)'
  BY <1>1, <1>2, <1>4, <1>5 DEF ReqInv, Claiming, ReqAt, Mine, ScopeOf, Started
<1> QED
  BY <1>1, <1>2, <1>3, <1>4, <1>6, Untouched, RequestStep DEF Inv, ClaimsTypeOK, ReqAt

(* Completing or abandoning a claim settles the request's own and no other. *)
LEMMA SettleStep ==
  ASSUME Inv, NEW r \in Requests, Complete(r) \/ Abandon(r)
  PROVE  Inv' /\ Touches(r)
<1>1. req[r] \in Req /\ ReqInv(r) /\ Claiming(r) /\ ~ReqAt(r, "new") /\ ~ReqAt(r, "done")
  BY ReqFacts DEF Complete, Abandon, ReqAt, Claiming
<1>2. /\ Mine(r) = Started(r) /\ Mine(r).by = r
      /\ req[r].key \in Keys /\ ScopeOf(r) \in Scopes
  BY <1>1, ScopeType DEF ReqInv, Started
<1>3. Completed(r) \in Claim /\ NoClaim \in Claim
  BY DEF Completed, NoClaim, Claim
<1>4. /\ Answer(r)
      /\ \/ SetClaim(r, Completed(r)) /\ r \in opened
         \/ SetClaim(r, NoClaim)
  BY <1>1, <1>2 DEF Complete, Abandon, Completed, ReqInv
<1>5. ReqAt(r, "done")' /\ opened' = opened
  BY <1>1, <1>4 DEF Answer, ReqAt, Inv, ClaimsTypeOK
<1>6. PICK c \in {Completed(r), NoClaim} :
        SetClaim(r, c) /\ (c = Completed(r) => r \in opened)
  BY <1>4 DEF Completed, NoClaim
<1>7. /\ claim' \in [Scopes -> [Keys -> Claim]]
      /\ claim'[ScopeOf(r)][req[r].key] = c
      /\ \A s \in Scopes, k \in Keys :
           s # ScopeOf(r) \/ k # req[r].key => claim'[s][k] = claim[s][k]
  BY <1>2, <1>3, <1>6, SetClaimType DEF Inv
<1>8. Touches(r)
  BY <1>2, <1>5, <1>6, <1>7 DEF Touches, Mine
<1> QED
  BY <1>1, <1>4, <1>7, <1>8, AnswerStep

LEMMA ReapStep ==
  ASSUME Inv, NEW s \in Scopes, NEW k \in Keys, Reap(s, k)
  PROVE  Inv'
<1>1. /\ claim[s][k].status = "started" /\ ReqAt(claim[s][k].by, "done")
      /\ claim' = [claim EXCEPT ![s][k] = NoClaim] /\ UNCHANGED <<req, scopeLock, opened>>
  BY DEF Reap
<1>2. NoClaim \in Claim /\ NoClaim.status = "none"
  BY DEF NoClaim, Claim
<1>3. /\ claim' \in [Scopes -> [Keys -> Claim]] /\ claim'[s][k] = NoClaim
      /\ \A x \in Scopes, y \in Keys : x # s \/ y # k => claim'[x][y] = claim[x][y]
  BY <1>1, <1>2 DEF Inv, ClaimsTypeOK
<1>4. ClaimsTypeOK' /\ LockInv'
  BY <1>1, <1>3 DEF Inv, ClaimsTypeOK, LockInv, Free, Holding
<1>5. ClaimInv'
  BY <1>1, <1>2, <1>3 DEF Inv, ClaimInv, ReqAt
<1>6. ASSUME NEW r \in Requests PROVE ReqInv(r)'
  <2>1. ReqInv(r) /\ req[r] \in Req /\ ScopeOf(r) \in Scopes
    BY ScopeType DEF Inv, ClaimsTypeOK
  <2>2. ASSUME Claiming(r) PROVE Mine(r)' = Started(r)
    <3>1. Mine(r) = Started(r) /\ req[r].key \in Keys /\ ~ReqAt(r, "done")
      BY <2>1, <2>2 DEF ReqInv, Claiming, ReqAt
    <3>2. ~(ScopeOf(r) = s /\ req[r].key = k)
      BY <1>1, <3>1 DEF Mine, Started
    <3> QED
      BY <1>1, <1>3, <2>1, <3>1, <3>2 DEF Mine, ScopeOf
  <2> QED
    BY <1>1, <2>1, <2>2 DEF ReqInv, Claiming, ReqAt, Started
<1> QED
  BY <1>4, <1>5, <1>6 DEF Inv
-----------------------------------------------------------------------------
LEMMA InitInv == ClaimsInit => Inv
<1> SUFFICES ASSUME ClaimsInit PROVE Inv
  OBVIOUS
<1>1. NewReq \in Req /\ NewReq.pc = "new" /\ NewReq.conn = FALSE
      /\ NoClaim \in Claim /\ NoClaim.status = "none"
  BY DEF NewReq, Req, Pcs, NoClaim, Claim
<1>2. Free = PoolMax
  <2>1. {r \in Requests : req[r].conn} = {}
    BY <1>1 DEF ClaimsInit
  <2>2. Cardinality({r \in Requests : req[r].conn}) = 0
    BY <2>1, FS_EmptySet
  <2>3. PoolMax \in Nat
    BY ClaimsAssumption
  <2> QED
    BY <2>2, <2>3 DEF Free
<1>3. ClaimsTypeOK /\ LockInv
  BY <1>1, <1>2, ClaimsAssumption DEF ClaimsInit, ClaimsTypeOK, LockInv
<1>4. ClaimInv
  BY <1>1 DEF ClaimsInit, ClaimInv
<1>5. \A r \in Requests : ReqInv(r)
  BY <1>1 DEF ClaimsInit, ReqInv, Claiming, ReqAt
<1> QED
  BY <1>3, <1>4, <1>5 DEF Inv

LEMMA NextStep ==
  ASSUME Inv, [ClaimsNext]_claimsVars
  PROVE  Inv'
<1>1. ASSUME NEW r \in Requests, Step(r) PROVE Inv'
  BY <1>1, AnsweringStep, ConnectStep, LockAccountStep, TakeClaimStep, CommitStep,
     CompleteFailsStep, SettleStep DEF Step
<1>2. CASE UNCHANGED claimsVars
  BY <1>2 DEF claimsVars, Inv, ClaimsTypeOK, Free, ClaimInv, LockInv, ReqInv, Claiming, ReqAt, Mine,
              ScopeOf, Holding, Started
<1>3. ASSUME NEW r \in Requests, Crash(r) PROVE Inv'
  BY <1>3, AnsweringStep
<1> QED
  BY <1>1, <1>2, <1>3, StartStep, ReapStep DEF ClaimsNext

(* The invariant holds in every reachable state. *)
THEOREM Invariance == ClaimsSpec => []Inv
<1>1. ClaimsInit => Inv
  BY InitInv
<1>2. Inv /\ [ClaimsNext]_claimsVars => Inv'
  BY NextStep
<1> QED
  BY <1>1, <1>2, PTL DEF ClaimsSpec

(* The pool is never overdrawn and every lock is held over a connection,    *)
(* whatever PoolMax is and however many requests there are.                 *)
THEOREM ClaimsTyped == ClaimsSpec => []ClaimsTypeOK
<1>1. Inv => ClaimsTypeOK
  BY DEF Inv
<1> QED
  BY <1>1, Invariance, PTL

(* What is replayed to a retry was committed (utils/idempotency.ts:233). *)
THEOREM CompletedMeansOpenedHolds == ClaimsSpec => []CompletedMeansOpened
<1>1. Inv => CompletedMeansOpened
  BY DEF Inv, ClaimInv, CompletedMeansOpened
<1> QED
  BY <1>1, Invariance, PTL

(* A completed claim changes no more, and nothing is opened with its key. *)
Stands == \A s \in Scopes, k \in Keys :
  claim[s][k].status = "completed" =>
    /\ claim'[s][k] = claim[s][k]
    /\ \A r \in opened' \ opened : <<ScopeOf(r), req[r].key>> # <<s, k>>

LEMMA ClaimsStand ==
  ASSUME Inv, [ClaimsNext]_claimsVars
  PROVE  Stands
<1>1. ASSUME claim' = claim, opened' = opened PROVE Stands
  BY <1>1 DEF Stands
<1>2. ASSUME NEW r \in Requests, Touches(r), ~ReqAt(r, "done"), opened' = opened
      PROVE  Stands
  BY <1>2 DEF Stands, Touches, Inv, ClaimInv, NoClaim
<1>3. ASSUME NEW r \in Requests, TakeClaim(r) PROVE Stands
  <2>1. /\ ReqAt(r, "claim") /\ opened' = opened /\ Mine(r) = NoClaim
        /\ SetClaim(r, Started(r))
    BY <1>3 DEF TakeClaim, Started
  <2>2. Started(r) \in Claim /\ req[r].key \in Keys /\ ScopeOf(r) \in Scopes
    BY <2>1, ReqFacts, ScopeType DEF Started, Claim, ReqInv, ReqAt
  <2>3. \A s \in Scopes, k \in Keys :
          claim[s][k] # NoClaim => claim'[s][k] = claim[s][k]
    BY <2>1, <2>2, SetClaimType DEF Inv, Mine
  <2> QED
    BY <2>1, <2>3 DEF Stands, NoClaim
<1>4. ASSUME NEW r \in Requests, Complete(r) \/ Abandon(r) PROVE Stands
  <2>1. ~ReqAt(r, "done") /\ opened' = opened
    BY <1>4 DEF Complete, Abandon, Answer, ReqAt
  <2> QED
    BY <1>2, <1>4, <2>1, SettleStep
<1>5. ASSUME NEW r \in Requests, Commit(r) PROVE Stands
  <2>1. /\ ReqAt(r, "insert") /\ claim' = claim /\ opened' = opened \cup {r}
    BY <1>5 DEF Commit
  <2>2. claim[ScopeOf(r)][req[r].key] = Started(r)
    BY <2>1, ReqFacts DEF ReqInv, Claiming, ReqAt, Mine
  <2>3. claim[ScopeOf(r)][req[r].key].status # "completed"
    BY <2>2 DEF Started
  <2>4. \A x \in opened' \ opened : x = r
    BY <2>1
  <2> QED
    BY <2>1, <2>3, <2>4 DEF Stands
<1>6. ASSUME NEW r \in Requests, Step(r), ~Commit(r), ~TakeClaim(r),
             ~(Complete(r) \/ Abandon(r))
      PROVE  Stands
  BY <1>1, <1>6 DEF Step, Connect, ConnectTimeout, LockAccount, Refuse, Replay,
     ClaimTimeout, CommitFails, CompleteFails, AbandonFails, Answer
<1>7. ASSUME NEW s \in Scopes, NEW k \in Keys, Reap(s, k) PROVE Stands
  <2>1. /\ claim[s][k].status = "started" /\ opened' = opened
        /\ \A x \in Scopes, y \in Keys : x # s \/ y # k => claim'[x][y] = claim[x][y]
    BY <1>7 DEF Reap, Inv, ClaimsTypeOK
  <2> QED
    BY <2>1 DEF Stands
<1>8. ASSUME NEW r \in Requests, Crash(r) \/ \E h \in Handlers, k \in Keys : Send(r, h, k)
      PROVE  Stands
  BY <1>1, <1>8 DEF Crash, Send, Answer
<1>9. CASE UNCHANGED claimsVars
  BY <1>1, <1>9 DEF claimsVars
<1> QED
  BY <1>3, <1>4, <1>5, <1>6, <1>7, <1>8, <1>9 DEF ClaimsNext

(* A recorded answer stands, whatever fails, is retried or reaped           *)
(* (utils/idempotency.ts:66 deletes only claims still in progress).         *)
THEOREM AnswerStandsHolds == ClaimsSpec => AnswerStands
<1>1. Inv /\ [ClaimsNext]_claimsVars => [Stands]_claimsVars
  BY ClaimsStand
<1> QED
  BY <1>1, Invariance, PTL DEF ClaimsSpec, AnswerStands, Stands
=============================================================================
