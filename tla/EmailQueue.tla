------------------------------ MODULE EmailQueue ------------------------------
(***************************************************************************)
(* The table email_jobs and the workers that deliver it                    *)
(* (utils/emailQueue.js, workers/emailWorker.js), with the administrator's *)
(* re-queue (routes/admin/emailJobs.ts).                                   *)
(*                                                                         *)
(* A worker claims a batch of jobs at once and sends them one after the    *)
(* other; what became of each is written without asking whether the job is *)
(* still the worker's.  A job claimed for longer than fifteen minutes is   *)
(* given to the next worker that comes by, be the first one dead or slow.  *)
(*                                                                         *)
(* A job is known by its unique_key, so that a second enqueue of it leaves *)
(* the table as it is and is no step.  Time is left out: a retry may be    *)
(* claimed at any later moment, and a claim may have grown stale.          *)
(***************************************************************************)
EXTENDS Naturals, FiniteSets

CONSTANTS
  Jobs,         \* rows of email_jobs, by unique_key
  Workers,      \* processes that run emailWorker.js
  Null,
  BatchSize,    \* EMAIL_WORKER_BATCH_SIZE
  MaxAttempts,  \* one more than EMAIL_RETRY_DELAYS_MS has entries: 5
  MaxFaults,    \* bound: crashes, lost answers, failed updates, slow batches
  MaxRequeues   \* bound: re-queues by the administrator

ASSUME EmailQueueAssumption ==
  /\ Null \notin Jobs /\ Null \notin [job : Jobs, attempt : Nat]
  /\ IsFiniteSet(Workers)
  /\ BatchSize \in Nat \ {0} /\ MaxAttempts \in Nat \ {0}
  /\ MaxFaults \in Nat /\ MaxRequeues \in Nat

VARIABLES
  status,     \* email_jobs.status
  attempts,   \* email_jobs.attempt_count
  stale,      \* jobs in 'sending' whose last_attempt_at is fifteen minutes ago
  worker,     \* what each worker is about and the batch it holds
  admin,      \* the job the administrator's request has looked up
  delivered,  \* how often the provider accepted the job's message
  excuses,    \* of each job: what may make it be sent, or tried, once more
  faults, requeues

table == <<status, attempts, stale>>
vars  == <<status, attempts, stale, worker, admin, delivered, excuses, faults, requeues>>

\* A job of a batch carries the attempt_count its claim returned.
Claim(j, n) == [job |-> j, attempt |-> n]
Claims == [job : Jobs, attempt : Nat]
Idle   == [pc |-> "idle", batch |-> {}, now |-> Null]

TypeOK ==
  /\ status \in [Jobs -> {"none", "pending", "sending", "retry", "sent", "dead"}]
  /\ attempts \in [Jobs -> Nat]
  /\ stale \subseteq {j \in Jobs : status[j] = "sending"}
  /\ worker \in [Workers -> [pc : {"idle", "claim", "send", "sent", "refused", "caught"},
                             batch : SUBSET Claims, now : Claims \cup {Null}]]
  /\ admin \in Jobs \cup {Null}
  /\ delivered \in [Jobs -> Nat]
  /\ excuses \in [Jobs -> Nat]
  /\ faults \in 0..MaxFaults /\ requeues \in 0..MaxRequeues

At(w, pc)    == worker[w].pc = pc
Become(w, r) == worker' = [worker EXCEPT ![w] = r]
Fault        == faults < MaxFaults /\ faults' = faults + 1
Excuse(j)    == excuses' = [excuses EXCEPT ![j] = @ + 1]
Due          == {j \in Jobs : status[j] \in {"pending", "retry"}}
Held         == {c.job : c \in UNION {worker[w].batch \cup ({worker[w].now} \ {Null}) :
                                        w \in Workers}}
\* A job's status is written; whatever it was before, it is not 'sending' now.
Write(j, st) == /\ status' = [status EXCEPT ![j] = st]
                /\ stale' = stale \ {j}
                /\ UNCHANGED attempts

(* The worker goes on to the rest of its batch. *)
Done(w) == Become(w, [worker[w] EXCEPT !.now = Null,
                        !.pc = IF worker[w].batch = {} THEN "idle" ELSE "send"])
-----------------------------------------------------------------------------
Enqueue(j) ==
  /\ status[j] = "none"
  /\ status' = [status EXCEPT ![j] = "pending"]
  /\ UNCHANGED <<attempts, stale, worker, admin, delivered, excuses, faults, requeues>>

(* Fault: nothing is recovered. *)
RecoverNothing(w) ==
  /\ At(w, "idle")
  /\ Become(w, [Idle EXCEPT !.pc = "claim"])
  /\ UNCHANGED <<table, admin, delivered, excuses, faults, requeues>>

(* The tick of an idle worker: 'sending' for too long becomes 'retry'. *)
Recover(w) ==
  /\ At(w, "idle")
  /\ status' = [j \in Jobs |-> IF j \in stale THEN "retry" ELSE status[j]]
  /\ excuses' = [j \in Jobs |-> IF j \in stale THEN excuses[j] + 1 ELSE excuses[j]]
  /\ stale' = {}
  /\ Become(w, [Idle EXCEPT !.pc = "claim"])
  /\ UNCHANGED <<attempts, admin, delivered, faults, requeues>>

Takes(w, S) ==
  /\ status' = [j \in Jobs |-> IF j \in S THEN "sending" ELSE status[j]]
  /\ attempts' = [j \in Jobs |-> IF j \in S THEN attempts[j] + 1 ELSE attempts[j]]
  /\ stale' = stale \ S
  /\ Become(w, [Idle EXCEPT !.pc = IF S = {} THEN "idle" ELSE "send",
                  !.batch = {Claim(j, attempts[j] + 1) : j \in S}])
  /\ UNCHANGED <<admin, delivered, excuses, faults, requeues>>

(* Fault: jobs are chosen without FOR UPDATE, so that a job another worker  *)
(* has just claimed is claimed again.                                       *)
ClaimBatchUnlocked(w, S) ==
  /\ At(w, "claim")
  /\ S \subseteq Due \cup {j \in Jobs : status[j] = "sending"}
  /\ Cardinality(S) <= BatchSize
  /\ Takes(w, S)

(* One statement claims up to BatchSize due jobs, FOR UPDATE SKIP LOCKED;  *)
(* none if those of the model's Due are all scheduled for later.           *)
ClaimBatch(w, S) ==
  /\ At(w, "claim")
  /\ S \subseteq Due /\ Cardinality(S) <= BatchSize
  /\ Takes(w, S)
-----------------------------------------------------------------------------
(* processEmailJob. *)

Taken(w, c, pc) ==
  Become(w, [worker[w] EXCEPT !.now = c, !.batch = @ \ {c}, !.pc = pc])

(* The provider accepts the message. *)
Send(w, c) ==
  /\ At(w, "send") /\ c \in worker[w].batch
  /\ delivered' = [delivered EXCEPT ![c.job] = @ + 1]
  /\ Taken(w, c, "sent")
  /\ UNCHANGED <<table, admin, excuses, faults, requeues>>

(* It accepts the message, and its answer is lost or cannot be filed. *)
SendUnanswered(w, c) ==
  /\ At(w, "send") /\ c \in worker[w].batch
  /\ Fault
  /\ delivered' = [delivered EXCEPT ![c.job] = @ + 1]
  /\ Excuse(c.job)
  /\ Taken(w, c, "refused")
  /\ UNCHANGED <<table, admin, requeues>>

(* It refuses the message ... *)
SendRefused(w, c) ==
  /\ At(w, "send") /\ c \in worker[w].batch
  /\ Taken(w, c, "refused")
  /\ UNCHANGED <<table, admin, delivered, excuses, faults, requeues>>

(* ... or the message cannot be built, which throws. *)
BuildFails(w, c) ==
  /\ At(w, "send") /\ c \in worker[w].batch
  /\ Taken(w, c, "caught")
  /\ UNCHANGED <<table, admin, delivered, excuses, faults, requeues>>

MarkSent(w) ==
  /\ At(w, "sent")
  /\ Write(worker[w].now.job, "sent")
  /\ Done(w)
  /\ UNCHANGED <<admin, delivered, excuses, faults, requeues>>

(* The update throws, inside the try of the send: the job is marked as one  *)
(* that failed, though it was delivered.                                    *)
MarkSentFails(w) ==
  /\ At(w, "sent")
  /\ Fault
  /\ Excuse(worker[w].now.job)
  /\ Become(w, [worker[w] EXCEPT !.pc = "caught"])
  /\ UNCHANGED <<table, admin, delivered, requeues>>

Marks(w) == At(w, "refused") \/ At(w, "caught")

(* Fault: the last delay is used again and again. *)
MarkRetryAlways(w) ==
  /\ Marks(w)
  /\ Write(worker[w].now.job, "retry")
  /\ Done(w)
  /\ UNCHANGED <<admin, delivered, excuses, faults, requeues>>

(* Fault: a job that was refused counts as handled. *)
MarkRetryAsSent(w) ==
  /\ Marks(w)
  /\ Write(worker[w].now.job,
       IF worker[w].now.attempt < MaxAttempts THEN "retry" ELSE "sent")
  /\ Done(w)
  /\ UNCHANGED <<admin, delivered, excuses, faults, requeues>>

(* 'retry' while EMAIL_RETRY_DELAYS_MS has a delay for the attempt the      *)
(* claim returned, then 'dead'; WHERE id = $1, whoever has the job now.     *)
MarkRetry(w) ==
  /\ Marks(w)
  /\ Write(worker[w].now.job,
       IF worker[w].now.attempt < MaxAttempts THEN "retry" ELSE "dead")
  /\ Done(w)
  /\ UNCHANGED <<admin, delivered, excuses, faults, requeues>>

(* The update throws: within the try it is made once more by the catch, from *)
(* there the error leaves the batch, whose rest stays 'sending'.             *)
MarkRetryFails(w) ==
  /\ Marks(w)
  /\ Fault
  /\ Become(w, IF At(w, "refused") THEN [worker[w] EXCEPT !.pc = "caught"] ELSE Idle)
  /\ UNCHANGED <<table, admin, delivered, excuses, requeues>>

(* The worker is killed or shut down: its batch stays 'sending'. *)
Crash(w) ==
  /\ ~At(w, "idle")
  /\ Fault
  /\ Become(w, Idle)
  /\ UNCHANGED <<table, admin, delivered, excuses, requeues>>
-----------------------------------------------------------------------------
(* Fifteen minutes pass since the claim of a job nobody works on any more. *)
Expire(j) ==
  /\ status[j] = "sending" /\ j \notin Held /\ j \notin stale
  /\ stale' = stale \cup {j}
  /\ UNCHANGED <<status, attempts, worker, admin, delivered, excuses, faults, requeues>>

(* They pass while the job waits in a batch of slow ones. *)
Outlast(j) ==
  /\ status[j] = "sending" /\ j \in Held /\ j \notin stale
  /\ Fault
  /\ stale' = stale \cup {j}
  /\ UNCHANGED <<status, attempts, worker, admin, delivered, excuses, requeues>>

(* retryEmailJobHandler looks the job up ... *)
LookUp(j) ==
  /\ admin = Null /\ requeues < MaxRequeues
  /\ status[j] \in {"retry", "dead"}
  /\ admin' = j
  /\ requeues' = requeues + 1
  /\ UNCHANGED <<table, worker, delivered, excuses, faults>>

(* ... and then writes it, whatever its status is by now. *)
Requeue ==
  /\ admin # Null
  /\ Write(admin, "pending")
  /\ Excuse(admin)
  /\ admin' = Null
  /\ UNCHANGED <<worker, delivered, faults, requeues>>
-----------------------------------------------------------------------------
Init ==
  /\ status = [j \in Jobs |-> "none"]
  /\ attempts = [j \in Jobs |-> 0]
  /\ stale = {}
  /\ worker = [w \in Workers |-> Idle]
  /\ admin = Null
  /\ delivered = [j \in Jobs |-> 0]
  /\ excuses = [j \in Jobs |-> 0]
  /\ faults = 0 /\ requeues = 0

(* What a worker does by itself with the job at hand. *)
Process(w) ==
  \/ MarkSent(w) \/ MarkRetry(w)
  \/ \E c \in worker[w].batch : Send(w, c) \/ SendRefused(w, c) \/ BuildFails(w, c)

Breaks(w) ==
  \/ MarkSentFails(w) \/ MarkRetryFails(w) \/ Crash(w)
  \/ \E c \in worker[w].batch : SendUnanswered(w, c)

Next ==
  \/ \E w \in Workers : \/ Recover(w) \/ Process(w) \/ Breaks(w)
                        \/ \E S \in SUBSET Jobs : ClaimBatch(w, S)
  \/ \E j \in Jobs : Enqueue(j) \/ Expire(j) \/ Outlast(j) \/ LookUp(j)
  \/ Requeue

Spec == Init /\ [][Next]_vars

(* Workers poll, and a batch that nothing interrupts is worked through; due *)
(* jobs are taken in the order they were scheduled for, so each has its turn. *)
Fairness ==
  /\ \A w \in Workers : WF_vars(Recover(w)) /\ WF_vars(Process(w))
                          /\ WF_vars(\E S \in SUBSET Jobs : ClaimBatch(w, S))
  /\ \A j \in Jobs : /\ WF_vars(Expire(j))
                     /\ SF_vars(\E w \in Workers, S \in SUBSET Jobs :
                                   j \in S /\ ClaimBatch(w, S))

FairSpec == Spec /\ Fairness
-----------------------------------------------------------------------------
(* Properties. *)

(* Nobody is mailed twice without a cause: a claim that outlived its time,  *)
(* an answer or an update that was lost, or a re-queue.                     *)
MailedOnce == \A j \in Jobs : delivered[j] <= 1 + excuses[j]

(* 'sent' means that the provider accepted the message at least once, also  *)
(* when a worker writes it after the job was taken from it.                 *)
SentIsTrue == \A j \in Jobs : status[j] = "sent" => delivered[j] > 0

(* A message that is always refused is given up after the delays have been  *)
(* used: only what excuses a second delivery makes further attempts.        *)
AttemptsBounded == \A j \in Jobs : attempts[j] <= MaxAttempts + excuses[j]

(* A job that was queued is delivered or given up in the end, though        *)
(* workers crash, are slow and lose what they should have written.          *)
EveryJobEnds == \A j \in Jobs :
  status[j] = "pending" ~> status[j] \in {"sent", "dead"}

(* "Only retryable email jobs can be re-queued" (routes/admin/emailJobs.ts *)
(* :180): what was sent is not queued again.                               *)
SentFinal == [][\A j \in Jobs : status[j] = "sent" => status'[j] = "sent"]_vars
=============================================================================
