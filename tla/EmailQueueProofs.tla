--------------------------- MODULE EmailQueueProofs ---------------------------
(***************************************************************************)
(* Proofs about EmailQueue, for any number of jobs and workers, any batch  *)
(* and any number of faults: types, that 'sent' is true, and that nobody   *)
(* is mailed, or a job tried, more often than there is a cause for.        *)
(*                                                                         *)
(* The count behind the mails: what the provider accepted, the workers     *)
(* that still have a turn with the job, and the turn the table still       *)
(* offers, are together never more than one and the job's excuses.  The    *)
(* count behind the attempts leaves out the turns whose delays are used.   *)
(***************************************************************************)
EXTENDS EmailQueue, TLAPS, FiniteSetTheorems

USE EmailQueueAssumption

Record == [pc : {"idle", "claim", "send", "sent", "refused", "caught"},
           batch : SUBSET Claims, now : Claims \cup {Null}]

(* A worker in this state will send the job, or will queue it again. *)
HasTurn(r, j) == \/ \E c \in r.batch : c.job = j
                 \/ r.pc \in {"refused", "caught"} /\ r.now.job = j

Holders(j) == {w \in Workers : HasTurn(worker[w], j)}
Bit(b)     == IF b THEN 1 ELSE 0
Queued(j)  == Bit(status[j] \in {"none", "pending", "retry"})

Budget == \A j \in Jobs :
  delivered[j] + Cardinality(Holders(j)) + Queued(j) <= 1 + excuses[j]

(* What a worker holds fits what it is about; the job at hand is not in the *)
(* batch, no job is in it twice, and a job to be marked sent was delivered. *)
Hand(r) ==
  /\ r.pc \in {"idle", "claim"} => r.batch = {}
  /\ r.pc \in {"sent", "refused", "caught"} =>
       r.now \in Claims /\ \A c \in r.batch : c.job # r.now.job
  /\ \A c, d \in r.batch : c.job = d.job => c = d
  /\ r.pc = "sent" => delivered[r.now.job] > 0

Hands == \A w \in Workers : Hand(worker[w])
IInv  == TypeOK /\ Hands /\ Budget /\ SentIsTrue
-----------------------------------------------------------------------------
(* Counting the workers with a turn. *)

(* Sets of workers that agree but for one differ by that one. *)
LEMMA ButOne ==
  ASSUME NEW w \in Workers, NEW H \in SUBSET Workers, NEW K \in SUBSET Workers,
         H \ {w} = K \ {w}
  PROVE  /\ Cardinality(H) \in Nat /\ Cardinality(K) \in Nat
         /\ Cardinality(K) + Bit(w \in H) = Cardinality(H) + Bit(w \in K)
<1>1. IsFiniteSet(H) /\ IsFiniteSet(K)
  BY FS_Subset
<1>2. Cardinality(H) \in Nat /\ Cardinality(K) \in Nat
  BY <1>1, FS_CardinalityType
<1>3. Cardinality(H \ {w}) = IF w \in H THEN Cardinality(H) - 1 ELSE Cardinality(H)
  BY <1>1, FS_RemoveElement
<1>4. Cardinality(K \ {w}) = IF w \in K THEN Cardinality(K) - 1 ELSE Cardinality(K)
  BY <1>1, FS_RemoveElement
<1>5. Cardinality(K) - Bit(w \in K) = Cardinality(H) - Bit(w \in H)
  BY <1>2, <1>3, <1>4 DEF Bit
<1>6. Bit(w \in K) \in Nat /\ Bit(w \in H) \in Nat
  BY DEF Bit
<1> QED
  BY <1>2, <1>5, <1>6

(* When one worker goes on, the holders of a job change by its own turn. *)
LEMMA Turns ==
  ASSUME TypeOK, NEW w \in Workers, NEW r, Become(w, r), NEW j
  PROVE  /\ Cardinality(Holders(j)) \in Nat /\ Cardinality(Holders(j))' \in Nat
         /\ Cardinality(Holders(j))' + Bit(HasTurn(worker[w], j))
              = Cardinality(Holders(j)) + Bit(HasTurn(r, j))
<1> DEFINE H == Holders(j)
           K == {v \in Workers : HasTurn(worker'[v], j)}
<1>1. worker'[w] = r /\ \A v \in Workers \ {w} : worker'[v] = worker[v]
  BY DEF TypeOK, Become
<1>2. H \in SUBSET Workers /\ K \in SUBSET Workers
  BY DEF Holders
<1>3. H \ {w} = K \ {w}
  BY <1>1 DEF Holders
<1>4. (w \in H <=> HasTurn(worker[w], j)) /\ (w \in K <=> HasTurn(r, j))
  BY <1>1 DEF Holders
<1>5. Holders(j)' = K
  BY DEF Holders, HasTurn
<1> HIDE DEF H, K
<1>6. /\ Cardinality(H) \in Nat /\ Cardinality(K) \in Nat
      /\ Cardinality(K) + Bit(w \in H) = Cardinality(H) + Bit(w \in K)
  BY <1>2, <1>3, ButOne
<1>7. Bit(w \in H) = Bit(HasTurn(worker[w], j)) /\ Bit(w \in K) = Bit(HasTurn(r, j))
  BY <1>4 DEF Bit
<1>8. Cardinality(Holders(j))' = Cardinality(K)
  BY <1>5
<1> QED
  BY <1>6, <1>7, <1>8 DEF H

(* The budget of a job is kept when what the step gives is no more than *)
(* what it takes and what it excuses.                                   *)
LEMMA BudgetKept ==
  ASSUME TypeOK, Budget, NEW w \in Workers, NEW r, Become(w, r), NEW j \in Jobs,
         delivered'[j] \in Nat, excuses'[j] \in Nat,
         delivered'[j] + Bit(HasTurn(r, j)) + Queued(j)' + excuses[j]
           <= delivered[j] + Bit(HasTurn(worker[w], j)) + Queued(j) + excuses'[j]
  PROVE  delivered'[j] + Cardinality(Holders(j))' + Queued(j)' <= 1 + excuses'[j]
<1> DEFINE N  == Cardinality(Holders(j))
           N1 == Cardinality(Holders(j))'
           b0 == Bit(HasTurn(worker[w], j))
           b1 == Bit(HasTurn(r, j))
           q0 == Queued(j)
           q1 == Queued(j)'
<1>1. N \in Nat /\ N1 \in Nat /\ N1 + b0 = N + b1
  BY Turns
<1>2. b0 \in Nat /\ b1 \in Nat /\ q0 \in Nat /\ q1 \in Nat
  BY DEF Bit, Queued
<1>3. delivered[j] + N + q0 <= 1 + excuses[j]
  BY DEF Budget
<1>4. delivered'[j] + b1 + q1 + excuses[j] <= delivered[j] + b0 + q0 + excuses'[j]
  OBVIOUS
<1>5. delivered[j] \in Nat /\ excuses[j] \in Nat
  BY DEF TypeOK
<1> HIDE DEF N, N1, b0, b1, q0, q1
<1>6. delivered'[j] + N1 + q1 <= 1 + excuses'[j]
  BY <1>1, <1>2, <1>3, <1>4, <1>5
<1> QED
  BY <1>6 DEF N1, q1

(* ... and when no worker moves, without the turns. *)
LEMMA BudgetOfTable ==
  ASSUME TypeOK, Budget, UNCHANGED worker, NEW j \in Jobs,
         delivered'[j] \in Nat, excuses'[j] \in Nat,
         delivered'[j] + Queued(j)' + excuses[j]
           <= delivered[j] + Queued(j) + excuses'[j]
  PROVE  delivered'[j] + Cardinality(Holders(j))' + Queued(j)' <= 1 + excuses'[j]
<1>1. Holders(j)' = Holders(j)
  BY DEF Holders, HasTurn
<1>2. Cardinality(Holders(j)) \in Nat
  BY FS_Subset, FS_CardinalityType DEF Holders
<1>3. Queued(j) \in Nat /\ Queued(j)' \in Nat
  BY DEF Queued, Bit
<1> QED
  BY <1>1, <1>2, <1>3 DEF Budget, TypeOK
-----------------------------------------------------------------------------
(* What a worker's steps make of its state. *)

(* It takes a job of its batch in hand. *)
LEMMA TakenHand ==
  ASSUME NEW r \in Record, Hand(r), r.pc = "send", NEW c \in r.batch,
         NEW pc \in {"sent", "refused", "caught"},
         NEW s \in Record, s.now = c, s.batch = r.batch \ {c}, s.pc = pc
  PROVE  /\ c \in Claims
         /\ \A d \in s.batch : d.job # c.job
         /\ \A d, e \in s.batch : d.job = e.job => d = e
         /\ HasTurn(r, c.job) /\ (HasTurn(s, c.job) <=> pc # "sent")
         /\ \A j : j # c.job => (HasTurn(s, j) <=> HasTurn(r, j))
<1>1. r.batch \in SUBSET Claims /\ c \in Claims
  BY DEF Record
<1>2. \A d, e \in r.batch : d.job = e.job => d = e
  BY DEF Hand
<1>3. \A d \in s.batch : d.job # c.job
  BY <1>2
<1>4. HasTurn(r, c.job) /\ (HasTurn(s, c.job) <=> pc # "sent")
  BY <1>3 DEF HasTurn
<1>5. \A j : j # c.job => (HasTurn(s, j) <=> HasTurn(r, j))
  BY DEF HasTurn
<1> QED
  BY <1>1, <1>2, <1>3, <1>4, <1>5

(* It is done with the job in hand. *)
LEMMA DoneHand ==
  ASSUME NEW r \in Record, Hand(r), r.pc \in {"sent", "refused", "caught"},
         NEW s \in Record, s.now = Null, s.batch = r.batch,
         s.pc = IF r.batch = {} THEN "idle" ELSE "send"
  PROVE  /\ Hand(s) /\ s.pc \in {"idle", "send"}
         /\ r.now \in Claims /\ r.now.job \in Jobs
         /\ \A j : HasTurn(s, j) => HasTurn(r, j)
         /\ (HasTurn(r, r.now.job) <=> r.pc # "sent")
         /\ ~HasTurn(s, r.now.job)
<1>2. Hand(s)
  BY DEF Hand
<1>3. r.now \in Claims /\ r.now.job \in Jobs /\ \A c \in r.batch : c.job # r.now.job
  BY DEF Hand, Claims
<1>4. \A j : HasTurn(s, j) => HasTurn(r, j)
  BY DEF HasTurn
<1>5. (HasTurn(r, r.now.job) <=> r.pc # "sent") /\ ~HasTurn(s, r.now.job)
  BY <1>3 DEF HasTurn
<1> QED
  BY <1>2, <1>3, <1>4, <1>5

(* It drops everything. *)
LEMMA IdleHand ==
  /\ Idle \in Record /\ Hand(Idle) /\ \A j : ~HasTurn(Idle, j)
  /\ [Idle EXCEPT !.pc = "claim"] \in Record /\ Hand([Idle EXCEPT !.pc = "claim"])
  /\ \A j : ~HasTurn([Idle EXCEPT !.pc = "claim"], j)
BY DEF Idle, Record, Hand, HasTurn

(* The others keep theirs while no delivery is undone. *)
LEMMA HandsKept ==
  ASSUME TypeOK, Hands, NEW w \in Workers, NEW r \in Record, Become(w, r), Hand(r)',
         delivered' \in [Jobs -> Nat], \A j \in Jobs : delivered'[j] >= delivered[j]
  PROVE  Hands' /\ worker' \in [Workers -> Record]
<1>1. worker \in [Workers -> Record]
  BY DEF TypeOK, Record
<1>2. /\ worker' \in [Workers -> Record]
      /\ worker'[w] = r /\ \A v \in Workers \ {w} : worker'[v] = worker[v]
  BY <1>1 DEF Become
<1>3. ASSUME NEW v \in Workers
      PROVE  Hand(worker[v])'
  <2>1. CASE v = w
    BY <1>2, <2>1 DEF Hand
  <2>2. CASE v # w
    <3> DEFINE x == worker[v]
    <3>1. worker'[v] = x /\ x \in Record /\ Hand(x)
      BY <1>1, <1>2, <2>2 DEF Hands
    <3> HIDE DEF x
    <3>2. x.pc = "sent" => x.now.job \in Jobs /\ delivered'[x.now.job] > 0
      <4>1. x.pc = "sent" => x.now.job \in Jobs
        BY <3>1 DEF Hand, Claims
      <4> QED
        BY <3>1, <4>1 DEF Hand, TypeOK
    <3> QED
      BY <3>1, <3>2 DEF Hand
  <2> QED
    BY <2>1, <2>2
<1> QED
  BY <1>2, <1>3 DEF Hands
-----------------------------------------------------------------------------
(* A worker takes a job in hand: the message was accepted d times, 0 or 1, *)
(* and that a second delivery may follow is excused e times.               *)
LEMMA TakenStep ==
  ASSUME IInv, NEW w \in Workers, At(w, "send"), NEW c \in worker[w].batch,
         NEW pc \in {"sent", "refused", "caught"}, Taken(w, c, pc),
         UNCHANGED <<table, admin, requeues>>, faults' \in 0..MaxFaults,
         NEW d \in {0, 1}, delivered' = [delivered EXCEPT ![c.job] = @ + d],
         NEW e \in {0, 1}, excuses' = [excuses EXCEPT ![c.job] = @ + e],
         pc = "sent" => d = 1,
         d + Bit(pc # "sent") <= 1 + e
  PROVE  IInv'
<1>a. PICK r : r = worker[w]
  OBVIOUS
<1>3. PICK s : s = [r EXCEPT !.now = c, !.batch = @ \ {c}, !.pc = pc]
  OBVIOUS
<1>1. r \in Record /\ Hand(r) /\ r.pc = "send" /\ c \in r.batch
  BY <1>a DEF IInv, TypeOK, Hands, Record, At
<1>2. Become(w, s)
  BY <1>a, <1>3 DEF Taken
<1>b. /\ s \in Record /\ s.now = c /\ s.pc = pc
      /\ s.batch = r.batch \ {c} /\ c \in Claims
  BY <1>1, <1>3 DEF Record
<1>4. /\ c \in Claims
      /\ \A b \in s.batch : b.job # c.job
      /\ \A a, b \in s.batch : a.job = b.job => a = b
      /\ HasTurn(r, c.job) /\ (HasTurn(s, c.job) <=> pc # "sent")
      /\ \A j : j # c.job => (HasTurn(s, j) <=> HasTurn(r, j))
  BY <1>1, <1>b, TakenHand
<1>5. c.job \in Jobs
  BY <1>4 DEF Claims
<1>6. /\ delivered' \in [Jobs -> Nat] /\ excuses' \in [Jobs -> Nat]
      /\ delivered'[c.job] = delivered[c.job] + d /\ excuses'[c.job] = excuses[c.job] + e
      /\ \A j \in Jobs : j # c.job => delivered'[j] = delivered[j] /\ excuses'[j] = excuses[j]
      /\ \A j \in Jobs : delivered[j] \in Nat /\ excuses[j] \in Nat /\ delivered'[j] >= delivered[j]
  BY <1>5 DEF IInv, TypeOK
<1>7. Hand(s)'
  <2>1. pc = "sent" => delivered'[c.job] > 0
    BY <1>5, <1>6
  <2> QED
    BY <1>4, <1>b, <2>1 DEF Hand
<1>8. Hands' /\ worker' \in [Workers -> Record]
  BY <1>2, <1>4, <1>b, <1>6, <1>7, HandsKept DEF IInv
<1>9. TypeOK'
  BY <1>6, <1>8 DEF IInv, TypeOK, table, Record
<1>10. ASSUME NEW j \in Jobs
       PROVE  delivered'[j] + Cardinality(Holders(j))' + Queued(j)' <= 1 + excuses'[j]
  <2> DEFINE q == Queued(j)
  <2>1. Queued(j)' = q /\ q \in Nat
    BY DEF Queued, Bit, table
  <2>2. Bit(HasTurn(r, j)) \in Nat /\ Bit(HasTurn(s, j)) \in Nat
    BY DEF Bit
  <2> HIDE DEF q
  <2>3. delivered'[j] + Bit(HasTurn(s, j)) + q + excuses[j]
          <= delivered[j] + Bit(HasTurn(r, j)) + q + excuses'[j]
    <3>1. CASE j = c.job
      <4>1. Bit(HasTurn(r, j)) = 1 /\ Bit(HasTurn(s, j)) = Bit(pc # "sent")
        BY <1>4, <3>1 DEF Bit
      <4>2. Bit(pc # "sent") \in {0, 1}
        BY DEF Bit
      <4> QED
        BY <1>6, <2>1, <3>1, <4>1, <4>2
    <3>2. CASE j # c.job
      <4>1. Bit(HasTurn(r, j)) = Bit(HasTurn(s, j))
        BY <1>4, <3>2 DEF Bit
      <4> QED
        BY <1>6, <2>1, <2>2, <3>2, <4>1
    <3> QED
      BY <3>1, <3>2
  <2>4. delivered'[j] + Bit(HasTurn(s, j)) + Queued(j)' + excuses[j]
          <= delivered[j] + Bit(HasTurn(worker[w], j)) + Queued(j) + excuses'[j]
    BY <1>a, <2>1, <2>3 DEF q
  <2> QED
    BY <1>2, <1>6, <2>4, BudgetKept DEF IInv
<1>11. SentIsTrue'
  <2>1. status' = status
    BY DEF table
  <2> QED
    BY <1>6, <2>1 DEF IInv, SentIsTrue
<1> QED
  BY <1>8, <1>9, <1>10, <1>11 DEF IInv, Budget

(* A worker writes what became of the job in hand and goes on. *)
LEMMA MarkStep ==
  ASSUME IInv, NEW w \in Workers, At(w, "sent") \/ Marks(w),
         NEW st \in {"sent", "retry", "dead"}, st = "sent" <=> At(w, "sent"),
         Write(worker[w].now.job, st), Done(w),
         UNCHANGED <<admin, delivered, excuses, faults, requeues>>
  PROVE  IInv'
<1>a. PICK r : r = worker[w]
  OBVIOUS
<1>4. PICK s : s = [r EXCEPT !.now = Null, !.pc = IF r.batch = {} THEN "idle" ELSE "send"]
  OBVIOUS
<1>b. PICK k : k = r.now.job
  OBVIOUS
<1>1. /\ r \in Record /\ Hand(r) /\ r.pc \in {"sent", "refused", "caught"}
      /\ st = "sent" <=> r.pc = "sent"
  BY <1>a DEF IInv, TypeOK, Hands, Record, At, Marks
<1>2. Become(w, s)
  BY <1>a, <1>4 DEF Done
<1>3. status' = [status EXCEPT ![k] = st] /\ stale' = stale \ {k} /\ attempts' = attempts
  BY <1>a, <1>b DEF Write
<1>c. /\ s \in Record /\ s.now = Null /\ s.batch = r.batch
      /\ s.pc = IF r.batch = {} THEN "idle" ELSE "send"
  BY <1>1, <1>4 DEF Record
<1>5. /\ Hand(s) /\ s.pc \in {"idle", "send"}
      /\ r.now \in Claims /\ k \in Jobs
      /\ \A j : HasTurn(s, j) => HasTurn(r, j)
      /\ (HasTurn(r, k) <=> r.pc # "sent")
      /\ ~HasTurn(s, k)
  BY <1>1, <1>b, <1>c, DoneHand
<1>6. Hand(s)'
  BY <1>5 DEF Hand
<1>7. Hands' /\ worker' \in [Workers -> Record]
  BY <1>2, <1>5, <1>c, <1>6, HandsKept DEF IInv, TypeOK
<1>8. TypeOK'
  <2>1. /\ status' \in [Jobs -> {"none", "pending", "sending", "retry", "sent", "dead"}]
        /\ stale' \subseteq {j \in Jobs : status'[j] = "sending"}
    BY <1>3, <1>5 DEF IInv, TypeOK
  <2> QED
    BY <1>3, <1>7, <2>1 DEF IInv, TypeOK, Record
<1>9. ASSUME NEW j \in Jobs
      PROVE  delivered'[j] + Cardinality(Holders(j))' + Queued(j)' <= 1 + excuses'[j]
  <2> DEFINE q0 == Queued(j)
             q1 == Queued(j)'
             b0 == Bit(HasTurn(r, j))
             b1 == Bit(HasTurn(s, j))
  <2>1. q0 \in Nat /\ q1 \in Nat /\ b0 \in Nat /\ b1 \in Nat
    BY DEF Queued, Bit
  <2>2. b1 + q1 <= b0 + q0
    <3>1. CASE j = k
      <4>1. status'[j] = st
        BY <1>3, <1>5, <3>1 DEF IInv, TypeOK
      <4>2. b1 = 0 /\ b0 = Bit(st # "sent")
        BY <1>1, <1>5, <3>1 DEF Bit
      <4>3. q1 = Bit(st = "retry")
        BY <4>1 DEF Queued, Bit
      <4>4. Bit(st = "retry") <= Bit(st # "sent")
        BY DEF Bit
      <4> QED
        BY <2>1, <4>2, <4>3, <4>4 DEF Bit
    <3>2. CASE j # k
      <4>1. status'[j] = status[j]
        BY <1>3, <3>2 DEF IInv, TypeOK
      <4>2. q1 = q0
        BY <4>1 DEF Queued
      <4>3. b1 <= b0
        BY <1>5 DEF Bit
      <4> QED
        BY <2>1, <4>2, <4>3
    <3> QED
      BY <3>1, <3>2
  <2>3. delivered[j] \in Nat /\ excuses[j] \in Nat
    BY DEF IInv, TypeOK
  <2> HIDE DEF q0, q1, b0, b1
  <2>4. delivered'[j] + b1 + q1 + excuses[j] <= delivered[j] + b0 + q0 + excuses'[j]
    BY <2>1, <2>2, <2>3
  <2>5. delivered'[j] + Bit(HasTurn(s, j)) + Queued(j)' + excuses[j]
          <= delivered[j] + Bit(HasTurn(worker[w], j)) + Queued(j) + excuses'[j]
    BY <1>a, <2>4 DEF q0, q1, b0, b1
  <2> QED
    BY <1>2, <2>3, <2>5, BudgetKept DEF IInv
<1>10. SentIsTrue'
  <2>1. st = "sent" => delivered[k] > 0
    BY <1>1, <1>b DEF Hand
  <2> QED
    BY <1>3, <1>5, <2>1 DEF IInv, SentIsTrue, TypeOK
<1> QED
  BY <1>7, <1>8, <1>9, <1>10 DEF IInv, Budget

(* A worker moves and the table does not: it drops what it has, or what it *)
(* takes up again is excused.                                              *)
LEMMA MoveStep ==
  ASSUME IInv, NEW w \in Workers, NEW s \in Record, Hand(s), Become(w, s),
         UNCHANGED <<table, admin, delivered, requeues>>, faults' \in 0..MaxFaults,
         excuses' \in [Jobs -> Nat],
         \A j \in Jobs : excuses'[j] >= excuses[j] + Bit(HasTurn(s, j))
                                         - Bit(HasTurn(worker[w], j)),
         \A j \in Jobs : excuses'[j] >= excuses[j]
  PROVE  IInv'
<1>1. Hand(s)'
  BY DEF Hand
<1>2. Hands' /\ worker' \in [Workers -> Record]
  BY <1>1, HandsKept DEF IInv, TypeOK
<1>3. TypeOK'
  BY <1>2 DEF IInv, TypeOK, table, Record
<1>4. ASSUME NEW j \in Jobs
      PROVE  delivered'[j] + Cardinality(Holders(j))' + Queued(j)' <= 1 + excuses'[j]
  <2> DEFINE q == Queued(j)
             b0 == Bit(HasTurn(worker[w], j))
             b1 == Bit(HasTurn(s, j))
  <2>1. q \in Nat /\ b0 \in Nat /\ b1 \in Nat /\ Queued(j)' = q
    BY DEF Queued, Bit, table
  <2>2. delivered'[j] = delivered[j] /\ delivered[j] \in Nat
    BY DEF IInv, TypeOK
  <2>3. excuses[j] \in Nat /\ excuses'[j] \in Nat /\ excuses'[j] >= excuses[j] + b1 - b0
    BY DEF IInv, TypeOK
  <2> HIDE DEF q, b0, b1
  <2>4. delivered'[j] + b1 + Queued(j)' + excuses[j] <= delivered[j] + b0 + q + excuses'[j]
    BY <2>1, <2>2, <2>3
  <2>5. delivered'[j] + Bit(HasTurn(s, j)) + Queued(j)' + excuses[j]
          <= delivered[j] + Bit(HasTurn(worker[w], j)) + Queued(j) + excuses'[j]
    BY <2>4 DEF q, b0, b1
  <2> QED
    BY <2>2, <2>3, <2>5, BudgetKept DEF IInv
<1>5. SentIsTrue'
  BY DEF IInv, SentIsTrue, table
<1> QED
  BY <1>2, <1>3, <1>4, <1>5 DEF IInv, Budget

(* The worker moves on to the catch with the job still in hand. *)
LEMMA ThrownHand ==
  ASSUME NEW r \in Record, Hand(r), r.pc \in {"sent", "refused"},
         NEW s, s = [r EXCEPT !.pc = "caught"]
  PROVE  /\ s \in Record /\ Hand(s) /\ r.now.job \in Jobs
         /\ \A j : j # r.now.job => (HasTurn(s, j) <=> HasTurn(r, j))
         /\ r.pc = "refused" => \A j : HasTurn(s, j) <=> HasTurn(r, j)
<1>1. /\ s \in Record
      /\ s.now = r.now /\ s.batch = r.batch /\ s.pc = "caught"
  BY DEF Record
<1>2. r.now.job \in Jobs /\ Hand(s)
  BY <1>1 DEF Hand, Claims
<1> QED
  BY <1>1, <1>2 DEF HasTurn

LEMMA MarkSentFailsStep ==
  ASSUME IInv, NEW w \in Workers, MarkSentFails(w)
  PROVE  IInv'
<1>1. PICK r : r = worker[w]
  OBVIOUS
<1>2. PICK s : s = [r EXCEPT !.pc = "caught"]
  OBVIOUS
<1>3. r \in Record /\ Hand(r) /\ r.pc = "sent"
  BY <1>1 DEF IInv, TypeOK, Hands, Record, MarkSentFails, At
<1>4. /\ Become(w, s) /\ excuses' = [excuses EXCEPT ![r.now.job] = @ + 1]
      /\ faults' \in 0..MaxFaults
      /\ UNCHANGED <<table, admin, delivered, requeues>>
  BY <1>1, <1>2 DEF MarkSentFails, Excuse, Fault, IInv, TypeOK
<1>5. /\ s \in Record /\ Hand(s) /\ r.now.job \in Jobs
      /\ \A j : j # r.now.job => (HasTurn(s, j) <=> HasTurn(r, j))
  BY <1>2, <1>3, ThrownHand
<1>6. /\ excuses' \in [Jobs -> Nat]
      /\ \A j \in Jobs : excuses'[j] = IF j = r.now.job THEN excuses[j] + 1 ELSE excuses[j]
      /\ \A j \in Jobs : excuses[j] \in Nat
  BY <1>4, <1>5 DEF IInv, TypeOK
<1>7. \A j \in Jobs : /\ excuses'[j] >= excuses[j] + Bit(HasTurn(s, j))
                                                 - Bit(HasTurn(worker[w], j))
                      /\ excuses'[j] >= excuses[j]
  <2> SUFFICES ASSUME NEW j \in Jobs
               PROVE  /\ excuses'[j] >= excuses[j] + Bit(HasTurn(s, j)) - Bit(HasTurn(r, j))
                      /\ excuses'[j] >= excuses[j]
    BY <1>1
  <2>1. Bit(HasTurn(s, j)) \in {0, 1} /\ Bit(HasTurn(r, j)) \in {0, 1}
    BY DEF Bit
  <2>2. j # r.now.job => Bit(HasTurn(s, j)) = Bit(HasTurn(r, j))
    BY <1>5 DEF Bit
  <2> QED
    BY <1>6, <2>1, <2>2
<1> QED
  BY <1>4, <1>5, <1>6, <1>7, MoveStep

LEMMA MarkRetryFailsStep ==
  ASSUME IInv, NEW w \in Workers, MarkRetryFails(w)
  PROVE  IInv'
<1>1. PICK r : r = worker[w]
  OBVIOUS
<1>2. PICK s : s = IF r.pc = "refused" THEN [r EXCEPT !.pc = "caught"] ELSE Idle
  OBVIOUS
<1>3. r \in Record /\ Hand(r)
  BY <1>1 DEF IInv, TypeOK, Hands, Record
<1>4. /\ Become(w, s) /\ excuses' = excuses /\ faults' \in 0..MaxFaults
      /\ UNCHANGED <<table, admin, delivered, requeues>>
  BY <1>1, <1>2 DEF MarkRetryFails, At, Fault, IInv, TypeOK
<1>5. s \in Record /\ Hand(s) /\ \A j : HasTurn(s, j) => HasTurn(r, j)
  <2>1. CASE r.pc = "refused"
    BY <1>2, <1>3, <2>1, ThrownHand
  <2>2. CASE r.pc # "refused"
    BY <1>2, <2>2, IdleHand
  <2> QED
    BY <2>1, <2>2
<1>6. excuses' \in [Jobs -> Nat] /\ \A j \in Jobs : excuses[j] \in Nat
  BY <1>4 DEF IInv, TypeOK
<1>7. \A j \in Jobs : /\ excuses'[j] >= excuses[j] + Bit(HasTurn(s, j))
                                                 - Bit(HasTurn(worker[w], j))
                      /\ excuses'[j] >= excuses[j]
  BY <1>1, <1>4, <1>5, <1>6 DEF Bit
<1> QED
  BY <1>4, <1>5, <1>6, <1>7, MoveStep

LEMMA CrashStep ==
  ASSUME IInv, NEW w \in Workers, Crash(w)
  PROVE  IInv'
<1>1. /\ Become(w, Idle) /\ excuses' = excuses /\ faults' \in 0..MaxFaults
      /\ UNCHANGED <<table, admin, delivered, requeues>>
  BY DEF Crash, Fault, IInv, TypeOK
<1>2. excuses' \in [Jobs -> Nat] /\ \A j \in Jobs : excuses[j] \in Nat
  BY <1>1 DEF IInv, TypeOK
<1>3. \A j \in Jobs : /\ excuses'[j] >= excuses[j] + Bit(HasTurn(Idle, j))
                                                 - Bit(HasTurn(worker[w], j))
                      /\ excuses'[j] >= excuses[j]
  BY <1>1, <1>2, IdleHand DEF Bit
<1> QED
  BY <1>1, <1>2, <1>3, IdleHand, MoveStep
-----------------------------------------------------------------------------
(* The worker's statements on the table. *)

LEMMA RecoverStep ==
  ASSUME IInv, NEW w \in Workers, Recover(w)
  PROVE  IInv'
<1>1. PICK s : s = [Idle EXCEPT !.pc = "claim"]
  OBVIOUS
<1>2. s \in Record /\ Hand(s) /\ \A j : ~HasTurn(s, j)
  BY <1>1, IdleHand
<1>3. /\ Become(w, s) /\ stale' = {}
      /\ status' = [j \in Jobs |-> IF j \in stale THEN "retry" ELSE status[j]]
      /\ excuses' = [j \in Jobs |-> IF j \in stale THEN excuses[j] + 1 ELSE excuses[j]]
      /\ UNCHANGED <<attempts, admin, delivered, faults, requeues>>
  BY <1>1 DEF Recover
<1>4. Hand(s)'
  BY <1>2, <1>3 DEF Hand
<1>5. Hands' /\ worker' \in [Workers -> Record]
  BY <1>2, <1>3, <1>4, HandsKept DEF IInv, TypeOK
<1>6. TypeOK'
  <2>1. /\ status' \in [Jobs -> {"none", "pending", "sending", "retry", "sent", "dead"}]
        /\ excuses' \in [Jobs -> Nat]
    BY <1>3 DEF IInv, TypeOK
  <2> QED
    BY <1>3, <1>5, <2>1 DEF IInv, TypeOK, Record
<1>7. ASSUME NEW j \in Jobs
      PROVE  delivered'[j] + Cardinality(Holders(j))' + Queued(j)' <= 1 + excuses'[j]
  <2>1. /\ delivered[j] \in Nat /\ excuses[j] \in Nat /\ excuses'[j] \in Nat
        /\ delivered' = delivered /\ excuses'[j] = excuses[j] + Bit(j \in stale)
    BY <1>3 DEF IInv, TypeOK, Bit
  <2>2. Queued(j)' <= Queued(j) + Bit(j \in stale)
    BY <1>3 DEF Queued, Bit
  <2>3. Bit(HasTurn(s, j)) = 0 /\ Bit(HasTurn(worker[w], j)) \in Nat
    BY <1>2 DEF Bit
  <2>4. Queued(j) \in Nat /\ Queued(j)' \in Nat /\ Bit(j \in stale) \in Nat
    BY DEF Queued, Bit
  <2>5. delivered'[j] + Bit(HasTurn(s, j)) + Queued(j)' + excuses[j]
          <= delivered[j] + Bit(HasTurn(worker[w], j)) + Queued(j) + excuses'[j]
    BY <2>1, <2>2, <2>3, <2>4
  <2> QED
    BY <1>3, <2>1, <2>5, BudgetKept DEF IInv
<1>8. SentIsTrue'
  BY <1>3 DEF IInv, SentIsTrue
<1> QED
  BY <1>5, <1>6, <1>7, <1>8 DEF IInv, Budget

LEMMA ClaimBatchStep ==
  ASSUME IInv, NEW w \in Workers, NEW S \in SUBSET Jobs, ClaimBatch(w, S)
  PROVE  IInv'
<1>1. PICK s : s = [Idle EXCEPT !.pc = IF S = {} THEN "idle" ELSE "send",
                      !.batch = {Claim(j, attempts[j] + 1) : j \in S}]
  OBVIOUS
<1>2. /\ Become(w, s) /\ stale' = stale \ S /\ S \subseteq Due
      /\ status' = [j \in Jobs |-> IF j \in S THEN "sending" ELSE status[j]]
      /\ attempts' = [j \in Jobs |-> IF j \in S THEN attempts[j] + 1 ELSE attempts[j]]
      /\ UNCHANGED <<admin, delivered, excuses, faults, requeues>>
  BY <1>1 DEF ClaimBatch, Takes
<1>3. /\ s.pc = IF S = {} THEN "idle" ELSE "send"
      /\ s.batch = {Claim(j, attempts[j] + 1) : j \in S} /\ s.now = Null
      /\ s = [pc |-> s.pc, batch |-> s.batch, now |-> Null]
  BY <1>1 DEF Idle
<1>4. \A j \in S : Claim(j, attempts[j] + 1) \in Claims
  BY DEF Claim, Claims, IInv, TypeOK
<1>5. s \in Record
  BY <1>3, <1>4 DEF Record
<1>6. \A j : HasTurn(s, j) <=> j \in S
  <2>1. s.pc \notin {"refused", "caught"}
    BY <1>3
  <2>2. \A i \in S : Claim(i, attempts[i] + 1).job = i
    BY DEF Claim
  <2>3. \A j : (\E c \in s.batch : c.job = j) <=> j \in S
    BY <1>3, <2>2
  <2> QED
    BY <2>1, <2>3 DEF HasTurn
<1>7. Hand(s)'
  <2>1. \A c, d \in s.batch : c.job = d.job => c = d
    BY <1>3 DEF Claim
  <2> QED
    BY <1>3, <2>1 DEF Hand
<1>8. Hands' /\ worker' \in [Workers -> Record]
  BY <1>2, <1>5, <1>7, HandsKept DEF IInv, TypeOK
<1>9. TypeOK'
  <2>1. /\ status' \in [Jobs -> {"none", "pending", "sending", "retry", "sent", "dead"}]
        /\ attempts' \in [Jobs -> Nat]
        /\ stale' \subseteq {j \in Jobs : status'[j] = "sending"}
    BY <1>2 DEF IInv, TypeOK
  <2> QED
    BY <1>2, <1>8, <2>1 DEF IInv, TypeOK, Record
<1>10. ASSUME NEW j \in Jobs
       PROVE  delivered'[j] + Cardinality(Holders(j))' + Queued(j)' <= 1 + excuses'[j]
  <2>1. delivered' = delivered /\ excuses' = excuses /\ delivered[j] \in Nat /\ excuses[j] \in Nat
    BY <1>2 DEF IInv, TypeOK
  <2>2. Bit(HasTurn(s, j)) = Bit(j \in S)
    BY <1>6 DEF Bit
  <2>3. Queued(j)' + Bit(j \in S) <= Queued(j)
    BY <1>2 DEF Queued, Bit, Due
  <2>4. Queued(j) \in Nat /\ Queued(j)' \in Nat /\ Bit(j \in S) \in Nat
        /\ Bit(HasTurn(worker[w], j)) \in Nat
    BY DEF Queued, Bit
  <2>5. delivered'[j] + Bit(HasTurn(s, j)) + Queued(j)' + excuses[j]
          <= delivered[j] + Bit(HasTurn(worker[w], j)) + Queued(j) + excuses'[j]
    BY <2>1, <2>2, <2>3, <2>4
  <2> QED
    BY <1>2, <2>1, <2>5, BudgetKept DEF IInv
<1>11. SentIsTrue'
  BY <1>2 DEF IInv, SentIsTrue
<1> QED
  BY <1>8, <1>9, <1>10, <1>11 DEF IInv, Budget
-----------------------------------------------------------------------------
(* Steps that leave the workers alone. *)

(* The status of jobs is written; a job that is queued again is excused, and *)
(* none becomes 'sent'.                                                      *)
LEMMA TableStep ==
  ASSUME IInv, UNCHANGED <<attempts, worker, delivered>>,
         status' \in [Jobs -> {"none", "pending", "sending", "retry", "sent", "dead"}],
         stale' \subseteq {j \in Jobs : status'[j] = "sending"},
         admin' \in Jobs \cup {Null},
         faults' \in 0..MaxFaults, requeues' \in 0..MaxRequeues,
         excuses' \in [Jobs -> Nat],
         \A j \in Jobs : Queued(j)' + excuses[j] <= Queued(j) + excuses'[j],
         \A j \in Jobs : status'[j] = "sent" => status[j] = "sent"
  PROVE  IInv'
<1>1. Hands'
  BY DEF IInv, Hands, Hand
<1>2. TypeOK'
  BY DEF IInv, TypeOK
<1>3. ASSUME NEW j \in Jobs
      PROVE  delivered'[j] + Cardinality(Holders(j))' + Queued(j)' <= 1 + excuses'[j]
  <2>1. /\ delivered'[j] = delivered[j] /\ delivered[j] \in Nat
        /\ excuses[j] \in Nat /\ excuses'[j] \in Nat
        /\ Queued(j) \in Nat /\ Queued(j)' \in Nat
    BY DEF IInv, TypeOK, Queued, Bit
  <2>2. delivered'[j] + Queued(j)' + excuses[j] <= delivered[j] + Queued(j) + excuses'[j]
    BY <2>1
  <2> QED
    BY <2>1, <2>2, BudgetOfTable DEF IInv
<1>4. SentIsTrue'
  BY DEF IInv, SentIsTrue
<1> QED
  BY <1>1, <1>2, <1>3, <1>4 DEF IInv, Budget

LEMMA EnqueueStep ==
  ASSUME IInv, NEW j \in Jobs, Enqueue(j)
  PROVE  IInv'
<1>1. /\ status[j] = "none" /\ status' = [status EXCEPT ![j] = "pending"]
      /\ UNCHANGED <<attempts, stale, worker, admin, delivered, excuses, faults, requeues>>
  BY DEF Enqueue
<1>2. /\ status' \in [Jobs -> {"none", "pending", "sending", "retry", "sent", "dead"}]
      /\ stale' \subseteq {k \in Jobs : status'[k] = "sending"}
      /\ \A k \in Jobs : status'[k] = "sent" => status[k] = "sent"
      /\ excuses' \in [Jobs -> Nat] /\ admin' \in Jobs \cup {Null}
      /\ faults' \in 0..MaxFaults /\ requeues' \in 0..MaxRequeues
  BY <1>1 DEF IInv, TypeOK
<1>3. \A k \in Jobs : Queued(k)' = Queued(k) /\ Queued(k) \in Nat /\ excuses[k] \in Nat
  BY <1>1 DEF IInv, TypeOK, Queued, Bit
<1>4. \A k \in Jobs : Queued(k)' + excuses[k] <= Queued(k) + excuses'[k]
  BY <1>1, <1>3
<1> QED
  BY <1>1, <1>2, <1>4, TableStep

(* Only the clock and the administrator's lookup: no status changes. *)
LEMMA QuietStep ==
  ASSUME IInv, UNCHANGED <<status, attempts, worker, delivered, excuses>>,
         stale' \subseteq {j \in Jobs : status'[j] = "sending"},
         admin' \in Jobs \cup {Null},
         faults' \in 0..MaxFaults, requeues' \in 0..MaxRequeues
  PROVE  IInv'
<1>1. /\ status' \in [Jobs -> {"none", "pending", "sending", "retry", "sent", "dead"}]
      /\ \A k \in Jobs : status'[k] = "sent" => status[k] = "sent"
      /\ excuses' \in [Jobs -> Nat]
  BY DEF IInv, TypeOK
<1>2. \A k \in Jobs : Queued(k)' = Queued(k) /\ Queued(k) \in Nat /\ excuses[k] \in Nat
  BY DEF IInv, TypeOK, Queued, Bit
<1>3. \A k \in Jobs : Queued(k)' + excuses[k] <= Queued(k) + excuses'[k]
  BY <1>2
<1> QED
  BY <1>1, <1>3, TableStep

LEMMA RequeueStep ==
  ASSUME IInv, Requeue
  PROVE  IInv'
<1>1. PICK a \in Jobs : a = admin
  BY DEF Requeue, IInv, TypeOK
<1>2. /\ status' = [status EXCEPT ![a] = "pending"] /\ stale' = stale \ {a}
      /\ excuses' = [excuses EXCEPT ![a] = @ + 1] /\ admin' = Null
      /\ UNCHANGED <<attempts, worker, delivered, faults, requeues>>
  BY <1>1 DEF Requeue, Write, Excuse
<1>3. /\ status' \in [Jobs -> {"none", "pending", "sending", "retry", "sent", "dead"}]
      /\ stale' \subseteq {k \in Jobs : status'[k] = "sending"}
      /\ \A k \in Jobs : status'[k] = "sent" => status[k] = "sent"
      /\ excuses' \in [Jobs -> Nat]
      /\ faults' \in 0..MaxFaults /\ requeues' \in 0..MaxRequeues
  BY <1>2 DEF IInv, TypeOK
<1>4. \A k \in Jobs : Queued(k)' + excuses[k] <= Queued(k) + excuses'[k]
  <2> SUFFICES ASSUME NEW k \in Jobs
               PROVE  Queued(k)' + excuses[k] <= Queued(k) + excuses'[k]
    OBVIOUS
  <2>1. Queued(k) \in {0, 1} /\ Queued(k)' \in {0, 1} /\ excuses[k] \in Nat
    BY DEF Queued, Bit, IInv, TypeOK
  <2>2. CASE k = a
    BY <1>2, <2>1, <2>2 DEF IInv, TypeOK
  <2>3. CASE k # a
    <3>1. status'[k] = status[k] /\ excuses'[k] = excuses[k]
      BY <1>2, <2>3 DEF IInv, TypeOK
    <3>2. Queued(k)' = Queued(k)
      BY <3>1 DEF Queued
    <3> QED
      BY <2>1, <3>1, <3>2
  <2> QED
    BY <2>2, <2>3
<1> QED
  BY <1>2, <1>3, <1>4, TableStep
-----------------------------------------------------------------------------
(* The theorems. *)

(* Every step of the queue keeps the types, what the workers hold and the *)
(* budget of every job.                                                   *)
THEOREM Invariance == Spec => []IInv
<1>1. Init => IInv
  <2> SUFFICES ASSUME Init PROVE IInv
    OBVIOUS
  <2>1. TypeOK /\ SentIsTrue
    BY IdleHand DEF Init, TypeOK, SentIsTrue, Record
  <2>2. Hands
    BY IdleHand DEF Init, Hands
  <2>3. Budget
    <3> SUFFICES ASSUME NEW j \in Jobs
                 PROVE  delivered[j] + Cardinality(Holders(j)) + Queued(j) <= 1 + excuses[j]
      BY DEF Budget
    <3>1. Holders(j) = {}
      BY IdleHand DEF Init, Holders
    <3>2. Cardinality(Holders(j)) = 0
      BY <3>1, FS_EmptySet
    <3>3. delivered[j] = 0 /\ excuses[j] = 0 /\ Queued(j) = 1
      BY DEF Init, Queued, Bit
    <3> QED
      BY <3>2, <3>3
  <2> QED
    BY <2>1, <2>2, <2>3 DEF IInv
<1>2. IInv /\ [Next]_vars => IInv'
  <2> SUFFICES ASSUME IInv, [Next]_vars PROVE IInv'
    OBVIOUS
  <2>1. ASSUME NEW w \in Workers, Recover(w) PROVE IInv'
    BY <2>1, RecoverStep
  <2>2. ASSUME NEW w \in Workers, NEW S \in SUBSET Jobs, ClaimBatch(w, S) PROVE IInv'
    BY <2>2, ClaimBatchStep
  <2>3. ASSUME NEW w \in Workers, Process(w) PROVE IInv'
    <3>1. CASE MarkSent(w)
      BY <3>1, MarkStep DEF MarkSent
    <3>2. CASE MarkRetry(w)
      BY <3>2, MarkStep DEF MarkRetry, Marks, At
    <3>3. ASSUME NEW c \in worker[w].batch, Send(w, c) PROVE IInv'
      <4>1. PICK d \in {0, 1}, e \in {0, 1} : d = 1 /\ e = 0
        OBVIOUS
      <4>2. PICK pc \in {"sent", "refused", "caught"} : pc = "sent" /\ Taken(w, c, pc)
        BY <3>3 DEF Send
      <4>3. /\ delivered' = [delivered EXCEPT ![c.job] = @ + d]
            /\ excuses' = [excuses EXCEPT ![c.job] = @ + e]
            /\ UNCHANGED <<table, admin, requeues>> /\ faults' \in 0..MaxFaults
            /\ At(w, "send")
        BY <3>3, <4>1 DEF Send, IInv, TypeOK
      <4>4. (pc = "sent" => d = 1) /\ d + Bit(pc # "sent") <= 1 + e
        BY <4>1, <4>2 DEF Bit
      <4> QED
        BY <4>2, <4>3, <4>4, TakenStep
    <3>4. ASSUME NEW c \in worker[w].batch, SendRefused(w, c) \/ BuildFails(w, c)
          PROVE  IInv'
      <4>1. PICK d \in {0, 1}, e \in {0, 1} : d = 0 /\ e = 0
        OBVIOUS
      <4>2. PICK pc \in {"sent", "refused", "caught"} : pc # "sent" /\ Taken(w, c, pc)
        BY <3>4 DEF SendRefused, BuildFails
      <4>3. /\ delivered' = [delivered EXCEPT ![c.job] = @ + d]
            /\ excuses' = [excuses EXCEPT ![c.job] = @ + e]
            /\ UNCHANGED <<table, admin, requeues>> /\ faults' \in 0..MaxFaults
            /\ At(w, "send")
        BY <3>4, <4>1 DEF SendRefused, BuildFails, IInv, TypeOK
      <4>4. (pc = "sent" => d = 1) /\ d + Bit(pc # "sent") <= 1 + e
        BY <4>1, <4>2 DEF Bit
      <4> QED
        BY <4>2, <4>3, <4>4, TakenStep
    <3> QED
      BY <2>3, <3>1, <3>2, <3>3, <3>4 DEF Process
  <2>4. ASSUME NEW w \in Workers, Breaks(w) PROVE IInv'
    <3>1. ASSUME NEW c \in worker[w].batch, SendUnanswered(w, c) PROVE IInv'
      <4>1. PICK d \in {0, 1}, e \in {0, 1} : d = 1 /\ e = 1
        OBVIOUS
      <4>2. PICK pc \in {"sent", "refused", "caught"} : pc # "sent" /\ Taken(w, c, pc)
        BY <3>1 DEF SendUnanswered
      <4>3. /\ delivered' = [delivered EXCEPT ![c.job] = @ + d]
            /\ excuses' = [excuses EXCEPT ![c.job] = @ + e]
            /\ UNCHANGED <<table, admin, requeues>> /\ faults' \in 0..MaxFaults
            /\ At(w, "send")
        BY <3>1, <4>1 DEF SendUnanswered, Excuse, Fault, IInv, TypeOK
      <4>4. (pc = "sent" => d = 1) /\ d + Bit(pc # "sent") <= 1 + e
        BY <4>1, <4>2 DEF Bit
      <4> QED
        BY <4>2, <4>3, <4>4, TakenStep
    <3> QED
      BY <2>4, <3>1, MarkSentFailsStep, MarkRetryFailsStep, CrashStep DEF Breaks
  <2>5. ASSUME NEW j \in Jobs, Enqueue(j) PROVE IInv'
    BY <2>5, EnqueueStep
  <2>6. ASSUME NEW j \in Jobs, Expire(j) \/ Outlast(j) \/ LookUp(j) PROVE IInv'
    <3>1. /\ UNCHANGED <<status, attempts, worker, delivered, excuses>>
          /\ stale' \subseteq {k \in Jobs : status'[k] = "sending"}
          /\ admin' \in Jobs \cup {Null}
          /\ faults' \in 0..MaxFaults /\ requeues' \in 0..MaxRequeues
      BY <2>6 DEF Expire, Outlast, LookUp, Fault, IInv, TypeOK, table
    <3> QED
      BY <3>1, QuietStep
  <2>7. CASE Requeue
    BY <2>7, RequeueStep
  <2>8. CASE UNCHANGED vars
    <3>1. /\ UNCHANGED <<status, attempts, worker, delivered, excuses>>
          /\ stale' \subseteq {k \in Jobs : status'[k] = "sending"}
          /\ admin' \in Jobs \cup {Null}
          /\ faults' \in 0..MaxFaults /\ requeues' \in 0..MaxRequeues
      BY <2>8 DEF vars, IInv, TypeOK
    <3> QED
      BY <3>1, QuietStep
  <2> QED
    BY <2>1, <2>2, <2>3, <2>4, <2>5, <2>6, <2>7, <2>8 DEF Next
<1> QED
  BY <1>1, <1>2, PTL DEF Spec

(* What utils/emailQueue.js writes into email_jobs stays within the statuses *)
(* it knows, and a batch is made of claims of jobs.                          *)
THEOREM TypeCorrect == Spec => []TypeOK
<1>1. IInv => TypeOK
  BY DEF IInv
<1> QED
  BY <1>1, Invariance, PTL

(* processEmailJob never makes a job 'sent' that no provider has accepted, *)
(* whoever has claimed it in the meantime.                                 *)
THEOREM SentIsTrueHolds == Spec => []SentIsTrue
<1>1. IInv => SentIsTrue
  BY DEF IInv
<1> QED
  BY <1>1, Invariance, PTL

(* A job is delivered at most once more than it was excused for: claims with *)
(* FOR UPDATE SKIP LOCKED and one attempt per claim allow no other.          *)
THEOREM MailedOnceHolds == Spec => []MailedOnce
<1>1. IInv => MailedOnce
  <2> SUFFICES ASSUME IInv, NEW j \in Jobs PROVE delivered[j] <= 1 + excuses[j]
    BY DEF MailedOnce
  <2>1. Cardinality(Holders(j)) \in Nat /\ Queued(j) \in Nat
    BY FS_Subset, FS_CardinalityType DEF Holders, Queued, Bit
  <2>2. delivered[j] + Cardinality(Holders(j)) + Queued(j) <= 1 + excuses[j]
    BY DEF IInv, Budget
  <2> QED
    BY <2>1, <2>2 DEF IInv, TypeOK
<1> QED
  BY <1>1, Invariance, PTL
-----------------------------------------------------------------------------
(* How often a job is tried. *)

(* A worker in this state may queue the job again: the claim it holds is of *)
(* an attempt that has a delay.                                             *)
LiveTurn(r, j) == \/ \E c \in r.batch : c.job = j /\ c.attempt < MaxAttempts
                  \/ /\ r.pc \in {"refused", "caught"}
                     /\ r.now.job = j /\ r.now.attempt < MaxAttempts

Trying(j) == {w \in Workers : LiveTurn(worker[w], j)}

(* Once the delays are used up, a further attempt takes a turn that was left *)
(* over from an earlier one, and those are excused: the claim that used the  *)
(* last delay is itself among the turns the budget counts.                   *)
Tries == \A j \in Jobs :
  attempts[j] >= MaxAttempts =>
    attempts[j] + Cardinality(Trying(j)) + Queued(j) <= MaxAttempts + excuses[j]

LEMMA LiveTurns ==
  ASSUME TypeOK, NEW w \in Workers, NEW r, Become(w, r), NEW j
  PROVE  /\ Cardinality(Trying(j)) \in Nat /\ Cardinality(Trying(j))' \in Nat
         /\ Cardinality(Trying(j))' + Bit(LiveTurn(worker[w], j))
              = Cardinality(Trying(j)) + Bit(LiveTurn(r, j))
<1> DEFINE H == Trying(j)
           K == {v \in Workers : LiveTurn(worker'[v], j)}
<1>1. worker'[w] = r /\ \A v \in Workers \ {w} : worker'[v] = worker[v]
  BY DEF TypeOK, Become
<1>2. H \in SUBSET Workers /\ K \in SUBSET Workers
  BY DEF Trying
<1>3. H \ {w} = K \ {w}
  BY <1>1 DEF Trying
<1>4. (w \in H <=> LiveTurn(worker[w], j)) /\ (w \in K <=> LiveTurn(r, j))
  BY <1>1 DEF Trying
<1>5. Trying(j)' = K
  BY DEF Trying, LiveTurn
<1> HIDE DEF H, K
<1>6. /\ Cardinality(H) \in Nat /\ Cardinality(K) \in Nat
      /\ Cardinality(K) + Bit(w \in H) = Cardinality(H) + Bit(w \in K)
  BY <1>2, <1>3, ButOne
<1>7. Bit(w \in H) = Bit(LiveTurn(worker[w], j)) /\ Bit(w \in K) = Bit(LiveTurn(r, j))
  BY <1>4 DEF Bit
<1>8. Cardinality(Trying(j))' = Cardinality(K)
  BY <1>5
<1> QED
  BY <1>6, <1>7, <1>8 DEF H

(* A worker goes on without a claim: what it queues again it had a turn for, *)
(* or an excuse.                                                             *)
LEMMA TriesMoved ==
  ASSUME IInv, TypeOK', Tries, NEW w \in Workers, NEW r, Become(w, r),
         UNCHANGED attempts,
         \A j \in Jobs : Bit(LiveTurn(r, j)) + Queued(j)' + excuses[j]
                           <= Bit(LiveTurn(worker[w], j)) + Queued(j) + excuses'[j]
  PROVE  Tries'
<1> SUFFICES ASSUME NEW j \in Jobs, attempts[j] >= MaxAttempts
             PROVE  attempts[j] + Cardinality(Trying(j))' + Queued(j)'
                      <= MaxAttempts + excuses'[j]
  BY DEF Tries
<1> DEFINE N  == Cardinality(Trying(j))
           N1 == Cardinality(Trying(j))'
           b0 == Bit(LiveTurn(worker[w], j))
           b1 == Bit(LiveTurn(r, j))
           q0 == Queued(j)
           q1 == Queued(j)'
<1>1. N \in Nat /\ N1 \in Nat /\ N1 + b0 = N + b1
  BY LiveTurns DEF IInv
<1>2. b0 \in Nat /\ b1 \in Nat /\ q0 \in Nat /\ q1 \in Nat
  BY DEF Bit, Queued
<1>3. attempts[j] + N + q0 <= MaxAttempts + excuses[j]
  BY DEF Tries
<1>4. b1 + q1 + excuses[j] <= b0 + q0 + excuses'[j]
  OBVIOUS
<1>5. attempts[j] \in Nat /\ excuses[j] \in Nat /\ excuses'[j] \in Nat
  BY DEF IInv, TypeOK
<1> HIDE DEF N, N1, b0, b1, q0, q1
<1>6. attempts[j] + N1 + q1 <= MaxAttempts + excuses'[j]
  BY <1>1, <1>2, <1>3, <1>4, <1>5
<1> QED
  BY <1>6 DEF N1, q1

(* ... and when no worker moves, an excuse. *)
LEMMA TriesOfTable ==
  ASSUME IInv, TypeOK', Tries, UNCHANGED <<worker, attempts>>,
         \A j \in Jobs : Queued(j)' + excuses[j] <= Queued(j) + excuses'[j]
  PROVE  Tries'
<1> SUFFICES ASSUME NEW j \in Jobs, attempts[j] >= MaxAttempts
             PROVE  attempts[j] + Cardinality(Trying(j))' + Queued(j)'
                      <= MaxAttempts + excuses'[j]
  BY DEF Tries
<1>1. Trying(j)' = Trying(j)
  BY DEF Trying, LiveTurn
<1>2. Cardinality(Trying(j)) \in Nat
  BY FS_Subset, FS_CardinalityType DEF Trying
<1>3. Queued(j) \in Nat /\ Queued(j)' \in Nat
  BY DEF Queued, Bit
<1>4. attempts[j] \in Nat /\ excuses[j] \in Nat /\ excuses'[j] \in Nat
  BY DEF IInv, TypeOK
<1>5. attempts[j] + Cardinality(Trying(j)) + Queued(j) <= MaxAttempts + excuses[j]
  BY DEF Tries
<1>6. Queued(j)' + excuses[j] <= Queued(j) + excuses'[j]
  OBVIOUS
<1>7. Cardinality(Trying(j))' = Cardinality(Trying(j))
  BY <1>1
<1> QED
  BY <1>2, <1>3, <1>4, <1>5, <1>6, <1>7

(* The claim that uses the last delay has no turn to give back, but is one of *)
(* the turns of the budget; a claim after it takes the turn of the table.     *)
LEMMA TriesClaimed ==
  ASSUME IInv, IInv', Tries, NEW w \in Workers, NEW S \in SUBSET Jobs, ClaimBatch(w, S)
  PROVE  Tries'
<1>1. PICK s : s = [Idle EXCEPT !.pc = IF S = {} THEN "idle" ELSE "send",
                      !.batch = {Claim(j, attempts[j] + 1) : j \in S}]
  OBVIOUS
<1>2. /\ Become(w, s) /\ S \subseteq Due /\ worker[w].pc = "claim"
      /\ status' = [j \in Jobs |-> IF j \in S THEN "sending" ELSE status[j]]
      /\ attempts' = [j \in Jobs |-> IF j \in S THEN attempts[j] + 1 ELSE attempts[j]]
      /\ excuses' = excuses /\ delivered' = delivered
  BY <1>1 DEF ClaimBatch, Takes, At
<1>3. /\ s.pc = IF S = {} THEN "idle" ELSE "send"
      /\ s.batch = {Claim(j, attempts[j] + 1) : j \in S}
  BY <1>1 DEF Idle
<1>a. \A i \in S : /\ Claim(i, attempts[i] + 1).job = i
                  /\ Claim(i, attempts[i] + 1).attempt = attempts[i] + 1
  BY DEF Claim
<1>b. s.pc \notin {"refused", "caught"}
  BY <1>3
<1>4. \A j : HasTurn(s, j) <=> j \in S
  <2>1. \A j : (\E c \in s.batch : c.job = j) <=> j \in S
    BY <1>3, <1>a
  <2> QED
    BY <1>b, <2>1 DEF HasTurn
<1>5. \A j : LiveTurn(s, j) <=> j \in S /\ attempts[j] + 1 < MaxAttempts
  <2>1. \A j : (\E c \in s.batch : c.job = j /\ c.attempt < MaxAttempts)
                 <=> j \in S /\ attempts[j] + 1 < MaxAttempts
    BY <1>3, <1>a
  <2> QED
    BY <1>b, <2>1 DEF LiveTurn
<1>6. worker' = [worker EXCEPT ![w] = s] /\ worker'[w] = s
  BY <1>2 DEF Become, IInv, TypeOK
<1> SUFFICES ASSUME NEW j \in Jobs, attempts'[j] >= MaxAttempts
             PROVE  attempts'[j] + Cardinality(Trying(j))' + Queued(j)'
                      <= MaxAttempts + excuses[j]
  BY <1>2 DEF Tries
<1>7. /\ Cardinality(Trying(j)) \in Nat /\ Cardinality(Trying(j))' \in Nat
      /\ Cardinality(Trying(j))' + Bit(LiveTurn(worker[w], j))
           = Cardinality(Trying(j)) + Bit(LiveTurn(s, j))
  BY <1>2, LiveTurns DEF IInv
<1>8. ~LiveTurn(worker[w], j)
  BY <1>2 DEF IInv, Hands, Hand, LiveTurn
<1>9. attempts[j] \in Nat /\ excuses[j] \in Nat /\ delivered[j] \in Nat
  BY DEF IInv, TypeOK
<1>10. Queued(j)' + Bit(j \in S) <= Queued(j) /\ Queued(j)' \in {0, 1} /\ Queued(j) \in {0, 1}
  BY <1>2 DEF Queued, Bit, Due
<1>11. CASE j \notin S
  <2>1. attempts'[j] = attempts[j] /\ ~LiveTurn(s, j)
    BY <1>2, <1>5, <1>11
  <2>2. Cardinality(Trying(j))' = Cardinality(Trying(j))
    BY <1>7, <1>8, <2>1 DEF Bit
  <2>3. attempts[j] + Cardinality(Trying(j)) + Queued(j) <= MaxAttempts + excuses[j]
    BY <2>1 DEF Tries
  <2>4. Queued(j)' <= Queued(j)
    BY <1>10, <1>11 DEF Bit
  <2> QED
    BY <1>7, <1>9, <1>10, <2>1, <2>2, <2>3, <2>4
<1>12. CASE j \in S /\ attempts[j] >= MaxAttempts
  <2>1. attempts'[j] = attempts[j] + 1 /\ ~LiveTurn(s, j)
    BY <1>2, <1>5, <1>9, <1>12
  <2>2. Cardinality(Trying(j))' = Cardinality(Trying(j))
    BY <1>7, <1>8, <2>1 DEF Bit
  <2>3. attempts[j] + Cardinality(Trying(j)) + Queued(j) <= MaxAttempts + excuses[j]
    BY <1>12 DEF Tries
  <2>4. Queued(j) = 1 /\ Queued(j)' = 0
    BY <1>10, <1>12 DEF Bit
  <2> QED
    BY <1>7, <1>9, <2>1, <2>2, <2>3, <2>4
<1>13. CASE j \in S /\ attempts[j] < MaxAttempts
  <2>1. attempts'[j] = MaxAttempts /\ ~LiveTurn(s, j)
    BY <1>2, <1>5, <1>9, <1>13
  <2>2. Queued(j)' = 0
    BY <1>10, <1>13 DEF Bit
  <2>3. Holders(j)' = {v \in Workers : HasTurn(worker'[v], j)}
    BY DEF Holders, HasTurn
  <2>4. Trying(j)' = {v \in Workers : LiveTurn(worker'[v], j)}
    BY DEF Trying, LiveTurn
  <2>5. \A v \in Workers : LiveTurn(worker'[v], j) => HasTurn(worker'[v], j)
    BY DEF LiveTurn, HasTurn
  <2> DEFINE H == {v \in Workers : HasTurn(worker'[v], j)}
             L == {v \in Workers : LiveTurn(worker'[v], j)}
  <2>6. w \in H /\ L \subseteq H \ {w} /\ H \subseteq Workers
    BY <1>4, <1>6, <1>13, <2>1, <2>5
  <2>7. delivered[j] + Cardinality(H) + Queued(j)' <= 1 + excuses[j]
    BY <1>2, <2>3 DEF IInv, Budget
  <2>8. Cardinality(Trying(j))' = Cardinality(L)
    BY <2>4
  <2> HIDE DEF H, L
  <2>9. IsFiniteSet(H) /\ IsFiniteSet(H \ {w})
    BY <2>6, FS_Subset
  <2>10. Cardinality(H) \in Nat /\ Cardinality(H \ {w}) = Cardinality(H) - 1
    BY <2>6, <2>9, FS_CardinalityType, FS_RemoveElement
  <2>11. Cardinality(L) \in Nat /\ Cardinality(L) <= Cardinality(H \ {w})
    BY <2>6, <2>9, FS_Subset, FS_CardinalityType
  <2> QED
    BY <1>9, <2>1, <2>2, <2>7, <2>8, <2>10, <2>11
<1> QED
  BY <1>9, <1>11, <1>12, <1>13

(* No step of a worker with the job in hand makes a turn out of nothing. *)
LEMMA TriesWorked ==
  ASSUME IInv, TypeOK', Tries, NEW w \in Workers, NEW r, Become(w, r),
         UNCHANGED table, \A j \in Jobs : excuses'[j] >= excuses[j],
         \A j \in Jobs : LiveTurn(r, j) => LiveTurn(worker[w], j) \/ excuses'[j] > excuses[j]
  PROVE  Tries'
<1>1. ASSUME NEW j \in Jobs
      PROVE  Bit(LiveTurn(r, j)) + Queued(j)' + excuses[j]
               <= Bit(LiveTurn(worker[w], j)) + Queued(j) + excuses'[j]
  <2>1. Queued(j)' = Queued(j) /\ Queued(j) \in Nat
    BY DEF Queued, Bit, table
  <2>2. excuses[j] \in Nat /\ excuses'[j] \in Nat
    BY DEF IInv, TypeOK
  <2>3. Bit(LiveTurn(r, j)) <= Bit(LiveTurn(worker[w], j)) \/ excuses'[j] > excuses[j]
    BY DEF Bit
  <2>4. Bit(LiveTurn(r, j)) \in {0, 1} /\ Bit(LiveTurn(worker[w], j)) \in {0, 1}
    BY DEF Bit
  <2> HIDE DEF Queued
  <2> QED
    BY <2>1, <2>2, <2>3, <2>4
<1>2. UNCHANGED attempts
  BY DEF table
<1> QED
  BY <1>1, <1>2, TriesMoved

LEMMA NextKeepsTries ==
  ASSUME IInv, IInv', Tries, [Next]_vars
  PROVE  Tries'
<1>t. TypeOK'
  BY DEF IInv
<1>n. \A j \in Jobs : Queued(j) \in Nat /\ excuses[j] \in Nat /\ excuses'[j] \in Nat
  BY <1>t DEF Queued, Bit, IInv, TypeOK
<1>1. ASSUME NEW w \in Workers, Recover(w) PROVE Tries'
  <2>1. PICK s : s = [Idle EXCEPT !.pc = "claim"]
    OBVIOUS
  <2>2. /\ Become(w, s) /\ UNCHANGED attempts
        /\ status' = [j \in Jobs |-> IF j \in stale THEN "retry" ELSE status[j]]
        /\ excuses' = [j \in Jobs |-> IF j \in stale THEN excuses[j] + 1 ELSE excuses[j]]
    BY <1>1, <2>1 DEF Recover
  <2>3. \A j : ~LiveTurn(s, j)
    BY <2>1 DEF Idle, LiveTurn
  <2>4. ASSUME NEW j \in Jobs
        PROVE  Bit(LiveTurn(s, j)) + Queued(j)' + excuses[j]
                 <= Bit(LiveTurn(worker[w], j)) + Queued(j) + excuses'[j]
    <3>1. Bit(LiveTurn(s, j)) = 0 /\ Bit(LiveTurn(worker[w], j)) \in Nat
      BY <2>3 DEF Bit
    <3>2. Queued(j)' <= Queued(j) + Bit(j \in stale) /\ Queued(j)' \in Nat
      BY <2>2 DEF Queued, Bit
    <3>3. excuses'[j] = excuses[j] + Bit(j \in stale) /\ Bit(j \in stale) \in Nat
      BY <2>2, <1>n DEF Bit
    <3> HIDE DEF Queued
    <3> QED
      BY <1>n, <3>1, <3>2, <3>3
  <2> QED
    BY <1>t, <2>2, <2>4, TriesMoved
<1>2. ASSUME NEW w \in Workers, At(w, "sent") \/ Marks(w),
             NEW st \in {"sent", "retry", "dead"}, st = "sent" <=> At(w, "sent"),
             st = "retry" => worker[w].now.attempt < MaxAttempts,
             Write(worker[w].now.job, st), Done(w), UNCHANGED excuses
      PROVE  Tries'
  <2>1. PICK r, s, k : /\ r = worker[w] /\ k = r.now.job
                       /\ s = [r EXCEPT !.now = Null,
                                        !.pc = IF r.batch = {} THEN "idle" ELSE "send"]
    OBVIOUS
  <2>2. r \in Record /\ Hand(r) /\ r.pc \in {"sent", "refused", "caught"}
    BY <1>2, <2>1 DEF IInv, TypeOK, Hands, Record, At, Marks
  <2>3. s.batch = r.batch /\ s.pc \in {"idle", "send"}
    BY <2>1, <2>2 DEF Record
  <2>4. Become(w, s) /\ UNCHANGED attempts /\ status' = [status EXCEPT ![k] = st]
    BY <1>2, <2>1 DEF Done, Write
  <2>5. k \in Jobs /\ \A c \in r.batch : c.job # k
    BY <2>1, <2>2 DEF Hand, Claims
  <2>6. /\ \A j : LiveTurn(s, j) => LiveTurn(r, j)
        /\ ~LiveTurn(s, k)
    BY <2>3, <2>5 DEF LiveTurn
  <2>7. st = "retry" => LiveTurn(r, k)
    BY <1>2, <2>1, <2>2 DEF LiveTurn, At, Marks
  <2>8. ASSUME NEW j \in Jobs
        PROVE  Bit(LiveTurn(s, j)) + Queued(j)' + excuses[j]
                 <= Bit(LiveTurn(worker[w], j)) + Queued(j) + excuses'[j]
    <3>1. /\ Bit(LiveTurn(s, j)) \in {0, 1} /\ Bit(LiveTurn(r, j)) \in {0, 1}
          /\ Bit(LiveTurn(s, j)) <= Bit(LiveTurn(r, j))
      BY <2>6 DEF Bit
    <3>2. CASE j = k
      <4>1. status'[j] = st
        BY <2>4, <3>2 DEF IInv, TypeOK
      <4>2. Queued(j)' = Bit(st = "retry")
        BY <4>1 DEF Queued, Bit
      <4>3. Bit(LiveTurn(s, j)) = 0 /\ Bit(st = "retry") <= Bit(LiveTurn(r, j))
        BY <2>6, <2>7, <3>2 DEF Bit
      <4>4. Bit(st = "retry") \in Nat
        BY DEF Bit
      <4> HIDE DEF Queued
      <4> QED
        BY <1>2, <1>n, <2>1, <3>1, <4>2, <4>3, <4>4
    <3>3. CASE j # k
      <4>1. status'[j] = status[j]
        BY <2>4, <3>3 DEF IInv, TypeOK
      <4>2. Queued(j)' = Queued(j)
        BY <4>1 DEF Queued
      <4> HIDE DEF Queued
      <4> QED
        BY <1>2, <1>n, <2>1, <3>1, <4>2
    <3> QED
      BY <3>2, <3>3
  <2> QED
    BY <1>t, <2>4, <2>8, TriesMoved
<1>3. ASSUME NEW w \in Workers, NEW c \in worker[w].batch, NEW pc, Taken(w, c, pc),
             UNCHANGED table,
             \A j \in Jobs : excuses'[j] >= excuses[j]
      PROVE  Tries'
  <2>1. PICK r, s : r = worker[w] /\ s = [r EXCEPT !.now = c, !.batch = @ \ {c}, !.pc = pc]
    OBVIOUS
  <2>2. s.batch = r.batch \ {c} /\ s.now = c /\ c \in r.batch
    BY <2>1 DEF IInv, TypeOK
  <2>3. \A j : LiveTurn(s, j) => LiveTurn(r, j)
    BY <2>2 DEF LiveTurn
  <2>4. Become(w, s)
    BY <1>3, <2>1 DEF Taken
  <2> QED
    BY <1>3, <1>t, <2>1, <2>3, <2>4, TriesWorked
<1>4. ASSUME NEW w \in Workers, Process(w) PROVE Tries'
  <2>1. CASE MarkSent(w)
    BY <1>2, <2>1 DEF MarkSent
  <2>2. CASE MarkRetry(w)
    BY <1>2, <2>2 DEF MarkRetry, Marks, At
  <2>3. ASSUME NEW c \in worker[w].batch, Send(w, c) \/ SendRefused(w, c) \/ BuildFails(w, c)
        PROVE  Tries'
    <3>1. UNCHANGED <<table, excuses>> /\ \E pc : Taken(w, c, pc)
      BY <2>3 DEF Send, SendRefused, BuildFails
    <3> QED
      BY <1>3, <1>n, <3>1
  <2> QED
    BY <1>4, <2>1, <2>2, <2>3 DEF Process
<1>5. ASSUME NEW w \in Workers, Breaks(w) PROVE Tries'
  <2>1. ASSUME NEW c \in worker[w].batch, SendUnanswered(w, c) PROVE Tries'
    <3>1. UNCHANGED table /\ excuses' = [excuses EXCEPT ![c.job] = @ + 1]
          /\ Taken(w, c, "refused")
      BY <2>1 DEF SendUnanswered, Excuse
    <3>2. \A j \in Jobs : excuses'[j] >= excuses[j]
      BY <1>n, <3>1 DEF IInv, TypeOK
    <3> QED
      BY <1>3, <3>1, <3>2
  <2>2. CASE MarkSentFails(w)
    <3>1. PICK r, s : r = worker[w] /\ s = [r EXCEPT !.pc = "caught"]
      OBVIOUS
    <3>2. /\ Become(w, s) /\ UNCHANGED table
          /\ excuses' = [excuses EXCEPT ![r.now.job] = @ + 1] /\ r.pc = "sent"
      BY <2>2, <3>1 DEF MarkSentFails, Excuse, At
    <3>3. r \in Record /\ Hand(r) /\ r.now.job \in Jobs
      BY <3>1, <3>2 DEF IInv, TypeOK, Hands, Hand, Record, Claims
    <3>4. s.batch = r.batch /\ s.now = r.now
      BY <3>1, <3>3 DEF Record
    <3>5. \A j : LiveTurn(s, j) => LiveTurn(r, j) \/ j = r.now.job
      BY <3>4 DEF LiveTurn
    <3>6. \A j \in Jobs : /\ excuses'[j] >= excuses[j]
                          /\ j = r.now.job => excuses'[j] > excuses[j]
      BY <1>n, <3>2, <3>3 DEF IInv, TypeOK
    <3> QED
      BY <1>t, <3>1, <3>2, <3>5, <3>6, TriesWorked
  <2>3. CASE MarkRetryFails(w)
    <3>1. PICK r, s : r = worker[w] /\ s = IF r.pc = "refused"
                                          THEN [r EXCEPT !.pc = "caught"] ELSE Idle
      OBVIOUS
    <3>2. /\ Become(w, s) /\ UNCHANGED table /\ UNCHANGED excuses
      BY <2>3, <3>1 DEF MarkRetryFails, At
    <3>3. r \in Record
      BY <3>1 DEF IInv, TypeOK, Record
    <3>4. \A j : LiveTurn(s, j) => LiveTurn(r, j)
      BY <3>1, <3>3 DEF LiveTurn, Idle, Record
    <3> QED
      BY <1>t, <1>n, <3>1, <3>2, <3>4, TriesWorked
  <2>4. CASE Crash(w)
    <3>1. Become(w, Idle) /\ UNCHANGED table /\ UNCHANGED excuses
      BY <2>4 DEF Crash
    <3>2. \A j : ~LiveTurn(Idle, j)
      BY DEF LiveTurn, Idle
    <3> QED
      BY <1>t, <1>n, <3>1, <3>2, TriesWorked
  <2> QED
    BY <1>5, <2>1, <2>2, <2>3, <2>4 DEF Breaks
<1>6. ASSUME NEW w \in Workers, NEW S \in SUBSET Jobs, ClaimBatch(w, S) PROVE Tries'
  BY <1>6, TriesClaimed
<1>7. ASSUME UNCHANGED <<status, attempts, worker, excuses>> PROVE Tries'
  <2>1. \A j \in Jobs : Queued(j)' = Queued(j)
    BY <1>7 DEF Queued
  <2> HIDE DEF Queued
  <2>2. \A j \in Jobs : Queued(j)' + excuses[j] <= Queued(j) + excuses'[j]
    BY <1>7, <1>n, <2>1
  <2> QED
    BY <1>7, <1>t, <2>2, TriesOfTable
<1>8. ASSUME NEW j \in Jobs, Enqueue(j) PROVE Tries'
  <2>1. status[j] = "none" /\ status' = [status EXCEPT ![j] = "pending"]
        /\ UNCHANGED <<worker, attempts, excuses>>
    BY <1>8 DEF Enqueue
  <2>2. \A k \in Jobs : Queued(k)' = Queued(k)
    BY <2>1 DEF Queued, IInv, TypeOK
  <2> HIDE DEF Queued
  <2>3. \A k \in Jobs : Queued(k)' + excuses[k] <= Queued(k) + excuses'[k]
    BY <1>n, <2>1, <2>2
  <2> QED
    BY <1>t, <2>1, <2>3, TriesOfTable
<1>9. CASE Requeue
  <2>1. PICK a \in Jobs : a = admin
    BY <1>9 DEF Requeue, IInv, TypeOK
  <2>2. /\ status' = [status EXCEPT ![a] = "pending"]
        /\ excuses' = [excuses EXCEPT ![a] = @ + 1] /\ UNCHANGED <<worker, attempts>>
    BY <1>9, <2>1 DEF Requeue, Write, Excuse
  <2>3. ASSUME NEW k \in Jobs PROVE Queued(k)' + excuses[k] <= Queued(k) + excuses'[k]
    <3>1. Queued(k) \in {0, 1} /\ Queued(k)' \in {0, 1}
      BY DEF Queued, Bit
    <3>2. CASE k = a
      <4>1. excuses'[k] = excuses[k] + 1
        BY <2>2, <3>2 DEF IInv, TypeOK
      <4> HIDE DEF Queued
      <4> QED
        BY <1>n, <3>1, <4>1
    <3>3. CASE k # a
      <4>1. status'[k] = status[k] /\ excuses'[k] = excuses[k]
        BY <2>2, <3>3 DEF IInv, TypeOK
      <4>2. Queued(k)' = Queued(k)
        BY <4>1 DEF Queued
      <4> HIDE DEF Queued
      <4> QED
        BY <1>n, <4>1, <4>2
    <3> QED
      BY <3>2, <3>3
  <2> QED
    BY <1>t, <2>2, <2>3, TriesOfTable
<1>10. CASE UNCHANGED vars
  BY <1>7, <1>10 DEF vars
<1>11. ASSUME NEW j \in Jobs, Expire(j) \/ Outlast(j) \/ LookUp(j) PROVE Tries'
  <2>1. UNCHANGED <<status, attempts, worker, excuses>>
    BY <1>11 DEF Expire, Outlast, LookUp, table
  <2> QED
    BY <1>7, <2>1
<1> QED
  BY <1>1, <1>4, <1>5, <1>6, <1>8, <1>9, <1>10, <1>11 DEF Next

LEMMA TriesHold == Spec => []Tries
<1>1. Init => Tries
  BY DEF Init, Tries
<1>2. IInv /\ IInv' /\ Tries /\ [Next]_vars => Tries'
  BY NextKeepsTries
<1> QED
  BY <1>1, <1>2, Invariance, PTL DEF Spec

(* A job whose message is always refused is dead after its delays: markRetry *)
(* writes 'retry' by the attempt the claim returned, and so a job is tried   *)
(* more often only as an outlived claim or a re-queue excuses it.            *)
THEOREM AttemptsBoundedHolds == Spec => []AttemptsBounded
<1>1. IInv /\ Tries => AttemptsBounded
  <2> SUFFICES ASSUME IInv, Tries, NEW j \in Jobs
               PROVE  attempts[j] <= MaxAttempts + excuses[j]
    BY DEF AttemptsBounded
  <2>1. Cardinality(Trying(j)) \in Nat /\ Queued(j) \in Nat
    BY FS_Subset, FS_CardinalityType DEF Trying, Queued, Bit
  <2>2. attempts[j] >= MaxAttempts =>
          attempts[j] + Cardinality(Trying(j)) + Queued(j) <= MaxAttempts + excuses[j]
    BY DEF Tries
  <2>3. attempts[j] \in Nat /\ excuses[j] \in Nat
    BY DEF IInv, TypeOK
  <2> HIDE DEF Trying, Queued
  <2> QED
    BY <2>1, <2>2, <2>3
<1> QED
  BY <1>1, Invariance, TriesHold, PTL
=============================================================================
