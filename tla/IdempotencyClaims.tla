------------------------- MODULE IdempotencyClaims --------------------------
(***************************************************************************)
(* Idempotency-Key claims that are taken on the connection pool, outside   *)
(* the transaction they protect (utils/idempotency.ts as used by           *)
(* routes/trades/open.ts and routes/accounts.js POST /create), together    *)
(* with the pool itself: a request holds one connection and needs a second *)
(* for a moment whenever it touches its claim.  Payout requests, which     *)
(* claim inside their transaction, are in Payouts.                         *)
(*                                                                         *)
(* Abstractions.  One user, so one lock per scope (the account row for     *)
(* trades:open, the advisory lock for accounts:create).  A retry is        *)
(* another request with the same key.  Completed claims are kept: they are *)
(* removed after seven days.  What else takes connections is left out.     *)
(*                                                                         *)
(* Names that AccountLifecycle has too carry a prefix here: the theorems   *)
(* about both are proved in one module.                                    *)
(***************************************************************************)
EXTENDS Integers, FiniteSets

CONSTANTS
  Requests, Keys, None,
  Handlers,  \* "market" and "pending" orders (open.ts), "create" (accounts.js)
  PoolMax,   \* DB_POOL_MAX
  Faults     \* statements that may fail, and "crash"

ASSUME ClaimsAssumption ==
  /\ IsFiniteSet(Requests)
  /\ Handlers \subseteq {"market", "pending", "create"}
  /\ PoolMax \in Nat /\ Faults \subseteq {"commit", "complete", "abandon", "crash"}
  /\ None \notin Requests \cup Keys

VARIABLES
  req,        \* requests in progress
  claim,      \* idempotency_requests
  scopeLock,  \* the row or advisory lock of each scope
  opened      \* requests whose position or account was committed

claimsVars == <<req, claim, scopeLock, opened>>

Scopes == {"open", "create"}
Pcs == {"new", "connect", "lock", "claim", "insert", "complete", "abandon", "done"}
Req == [pc : Pcs, handler : Handlers \cup {None}, key : Keys \cup {None}, conn : BOOLEAN]
NewReq == [pc |-> "new", handler |-> None, key |-> None, conn |-> FALSE]
Claim == [status : {"none", "started", "completed"}, by : Requests \cup {None}]
NoClaim == [status |-> "none", by |-> None]

ScopeOf(r) == IF req[r].handler = "create" THEN "create" ELSE "open"
Mine(r)    == claim[ScopeOf(r)][req[r].key]
-----------------------------------------------------------------------------
(* The pool. *)

Free == PoolMax - Cardinality({r \in Requests : req[r].conn})

(* Fault: connectionTimeoutMillis is not set. *)
TimedOutNever == FALSE

(* connectionTimeoutMillis: whoever finds no connection gets an error. *)
TimedOut == Free = 0
-----------------------------------------------------------------------------
(* The steps of a request. *)

ReqAt(r, pc) == req[r].pc = pc
Go(r, pc)    == req' = [req EXCEPT ![r].pc = pc]
Drop(r)      == scopeLock' = [s \in Scopes |-> IF scopeLock[s] = r THEN None ELSE scopeLock[s]]

SetClaim(r, c) == claim' = [claim EXCEPT ![ScopeOf(r)][req[r].key] = c]

(* The answer is sent; ROLLBACK and release. *)
Answer(r) ==
  /\ req' = [req EXCEPT ![r].pc = "done", ![r].conn = FALSE]
  /\ Drop(r)
  /\ UNCHANGED opened

Send(r, h, k) ==
  /\ ReqAt(r, "new")
  /\ req' = [req EXCEPT ![r] = [pc |-> "connect", handler |-> h, key |-> k, conn |-> FALSE]]
  /\ UNCHANGED <<claim, scopeLock, opened>>

(* pool.connect(); POST /create claims next, POST /open locks the account. *)
Connect(r) ==
  /\ ReqAt(r, "connect") /\ Free > 0
  /\ req' = [req EXCEPT ![r].conn = TRUE,
                        ![r].pc = IF ScopeOf(r) = "create" THEN "claim" ELSE "lock"]
  /\ UNCHANGED <<claim, scopeLock, opened>>

ConnectTimeout(r) == ReqAt(r, "connect") /\ TimedOut /\ Answer(r) /\ UNCHANGED claim

LockAccount(r) ==
  /\ ReqAt(r, "lock") /\ scopeLock[ScopeOf(r)] = None
  /\ scopeLock' = [scopeLock EXCEPT ![ScopeOf(r)] = r]
  /\ Go(r, IF ScopeOf(r) = "create" THEN "insert" ELSE "claim")
  /\ UNCHANGED <<claim, opened>>

(* A check fails: POST /open has no claim yet, POST /create leaves it. *)
Refuse(r) ==
  ReqAt(r, "lock") /\ scopeLock[ScopeOf(r)] = None /\ Answer(r) /\ UNCHANGED claim

(* Fault: ON CONFLICT DO UPDATE takes over a completed claim. *)
TakeClaimOver(r) ==
  /\ ReqAt(r, "claim") /\ Free > 0 /\ Mine(r).status # "started"
  /\ SetClaim(r, [status |-> "started", by |-> r])
  /\ Go(r, IF ScopeOf(r) = "create" THEN "lock" ELSE "insert")
  /\ UNCHANGED <<scopeLock, opened>>

(* INSERT ... ON CONFLICT DO NOTHING, on a second connection. *)
TakeClaim(r) ==
  /\ ReqAt(r, "claim") /\ Free > 0 /\ Mine(r) = NoClaim
  /\ SetClaim(r, [status |-> "started", by |-> r])
  /\ Go(r, IF ScopeOf(r) = "create" THEN "lock" ELSE "insert")
  /\ UNCHANGED <<scopeLock, opened>>

(* A completed claim is replayed, a started one answered with 409. *)
Replay(r) ==
  ReqAt(r, "claim") /\ Free > 0 /\ Mine(r) # NoClaim /\ Answer(r) /\ UNCHANGED claim

ClaimTimeout(r) == ReqAt(r, "claim") /\ TimedOut /\ Answer(r) /\ UNCHANGED claim

(* COMMIT.  Only a market order gives its connection back before it goes on. *)
Commit(r) ==
  /\ ReqAt(r, "insert")
  /\ opened' = opened \cup {r}
  /\ req' = [req EXCEPT ![r].pc = "complete", ![r].conn = req[r].handler # "market"]
  /\ Drop(r) /\ UNCHANGED claim

(* Fault: the error of a failed COMMIT is swallowed. *)
CommitFailsUnnoticed(r) ==
  /\ ReqAt(r, "insert") /\ "commit" \in Faults
  /\ Go(r, "complete") /\ Drop(r) /\ UNCHANGED <<claim, opened>>

(* COMMIT fails and rolls back; the handler goes on to abandon its claim. *)
CommitFails(r) ==
  /\ ReqAt(r, "insert") /\ "commit" \in Faults
  /\ req' = [req EXCEPT ![r].pc = "abandon", ![r].conn = req[r].handler = "create"]
  /\ Drop(r) /\ UNCHANGED <<claim, opened>>

Complete(r) ==
  /\ ReqAt(r, "complete") /\ Free > 0
  /\ IF Mine(r).by = r THEN SetClaim(r, [status |-> "completed", by |-> r])
                       ELSE UNCHANGED claim
  /\ Answer(r)

(* Anything that throws after COMMIT ends in the same catch as a failed one. *)
CompleteFails(r) ==
  /\ ReqAt(r, "complete") /\ ("complete" \in Faults \/ TimedOut)
  /\ req' = [req EXCEPT ![r].pc = "abandon", ![r].conn = req[r].handler = "create"]
  /\ UNCHANGED <<claim, scopeLock, opened>>

Abandon(r) ==
  /\ ReqAt(r, "abandon") /\ Free > 0
  /\ IF Mine(r).by = r THEN SetClaim(r, NoClaim) ELSE UNCHANGED claim
  /\ Answer(r)

AbandonFails(r) ==
  /\ ReqAt(r, "abandon") /\ ("abandon" \in Faults \/ TimedOut)
  /\ Answer(r) /\ UNCHANGED claim

Crash(r) ==
  /\ "crash" \in Faults /\ ~ReqAt(r, "new") /\ ~ReqAt(r, "done")
  /\ Answer(r) /\ UNCHANGED claim
-----------------------------------------------------------------------------
(* Fault: the reaper is never scheduled. *)
ReapNever(s, k) == FALSE

(* The hourly reaper deletes claims fifteen minutes old: their request is over. *)
Reap(s, k) ==
  /\ claim[s][k].status = "started" /\ ReqAt(claim[s][k].by, "done")
  /\ claim' = [claim EXCEPT ![s][k] = NoClaim]
  /\ UNCHANGED <<req, scopeLock, opened>>

ClaimsInit ==
  /\ req = [r \in Requests |-> NewReq]
  /\ claim = [s \in Scopes |-> [k \in Keys |-> NoClaim]]
  /\ scopeLock = [s \in Scopes |-> None]
  /\ opened = {}

Step(r) ==
  \/ Connect(r) \/ ConnectTimeout(r) \/ LockAccount(r) \/ Refuse(r)
  \/ TakeClaim(r) \/ Replay(r) \/ ClaimTimeout(r)
  \/ Commit(r) \/ CommitFails(r) \/ Complete(r) \/ CompleteFails(r)
  \/ Abandon(r) \/ AbandonFails(r)

ClaimsNext ==
  \/ \E r \in Requests :
       Step(r) \/ Crash(r) \/ \E h \in Handlers, k \in Keys : Send(r, h, k)
  \/ \E s \in Scopes, k \in Keys : Reap(s, k)

ClaimsSpec == ClaimsInit /\ [][ClaimsNext]_claimsVars

(* A statement that can run does, and the reaper runs every hour. *)
ClaimsFairSpec ==
  /\ ClaimsSpec
  /\ \A r \in Requests : WF_claimsVars(Step(r))
  /\ \A s \in Scopes, k \in Keys : WF_claimsVars(Reap(s, k))
-----------------------------------------------------------------------------
(* Properties. *)

(* The pool is not overdrawn and a lock's holder is still at work. *)
ClaimsTypeOK ==
  /\ req \in [Requests -> Req]
  /\ claim \in [Scopes -> [Keys -> Claim]]
  /\ scopeLock \in [Scopes -> Requests \cup {None}]
  /\ opened \subseteq Requests
  /\ Free >= 0
  /\ \A s \in Scopes : scopeLock[s] # None => req[scopeLock[s]].conn

(* open.ts:738: one key opens one position, creates one account. *)
OnePerKey == \A r, q \in opened :
  ScopeOf(r) = ScopeOf(q) /\ req[r].key = req[q].key => r = q

(* What is replayed was committed: nobody is told of a position that a      *)
(* failed transaction took back.                                            *)
CompletedMeansOpened == \A s \in Scopes, k \in Keys :
  claim[s][k].status = "completed" => claim[s][k].by \in opened

(* A recorded answer stands: whatever fails, is retried or reaped, once a   *)
(* claim is completed nothing more is opened with its key.                  *)
AnswerStands == [][\A s \in Scopes, k \in Keys :
  claim[s][k].status = "completed" =>
    /\ claim'[s][k] = claim[s][k]
    /\ \A r \in opened' \ opened : <<ScopeOf(r), req[r].key>> # <<s, k>>]_claimsVars

(* A key is not in progress for ever, whatever failed while it was.         *)
KeyFreed == \A s \in Scopes, k \in Keys :
  (claim[s][k].status = "started") ~> (claim[s][k].status # "started")

(* Every request is answered, however small the pool is.                    *)
EveryRequestAnswered == \A r \in Requests : ~ReqAt(r, "new") ~> ReqAt(r, "done")
=============================================================================
