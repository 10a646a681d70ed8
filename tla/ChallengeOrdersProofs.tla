----------------------- MODULE ChallengeOrdersProofs -----------------------
(***************************************************************************)
(* What ChallengeOrders guarantees for any number of orders, sessions,     *)
(* accounts, requests and webhook workers: the tables keep their shape,    *)
(* the first reversal stands, commissions follow the money, an account is  *)
(* created only while its order is paid, slots are not oversold and a gift *)
(* code buys once.                                                         *)
(*                                                                         *)
(* The inductive invariant says what a creation's and a redemption's locks *)
(* protect: the order's row its status, the advisory lock on the model the *)
(* count of its slots, the advisory lock on the code the voucher.          *)
(***************************************************************************)
EXTENDS ChallengeOrders, FiniteSetTheorems, TLAPS

RequestInv(r) ==
  /\ request[r].pc # "idle" => request[r].order \in Orders
  /\ request[r].pc \in {"slot", "insert"} =>
       /\ rowLock[request[r].order] = r
       /\ order[request[r].order].status = "paid"
  /\ request[r].pc = "insert" => slotLock = r /\ Cardinality(Used) < SlotLimit
  /\ request[r].pc = "redeem" =>
       /\ codeLock[request[r].order] = r
       /\ voucher[request[r].order] = "issued"

(* The orders a code has become: one once it is claimed, none before. *)
CodeInv == \A o \in Orders :
  IF voucher[o] = "claimed"
  THEN \E n \in Orders : \A m \in Orders : order[m].code = o <=> m = n
  ELSE \A m \in Orders : order[m].code # o

(* What Stripe raises events about is a session of an order. *)
StripeInv ==
  /\ \A s \in Sessions : checkout[s].status # "none" => checkout[s].order \in Orders
  /\ \A e \in posted : checkout[e[2]].status # "none"
  /\ \A w \in Workers : worker[w].event # Null =>
       worker[w].event \in posted /\ worker[w].order \in Orders

Inv == /\ TypeOK /\ StripeInv /\ CommissionFollowsMoney /\ CodeInv /\ SlotsRespected
       /\ \A r \in Requests : RequestInv(r)
-----------------------------------------------------------------------------
(* Shapes. *)

LEMMA RowTypes ==
  /\ NoOrder \in Order /\ NoAccount \in Account /\ NoCheckout \in Checkout
  /\ NoDelivery \in Delivery /\ NoJob \in Job
BY DEF Order, Ref, Account, Checkout, Delivery, Job, NoOrder, NoAccount, NoCheckout,
   NoDelivery, NoJob

Statuses == {"none", "pending", "paid", "cancelled", "refunded", "disputed"}

LEMMA TypeInit == Init => TypeOK
BY RowTypes DEF Init, TypeOK

LEMMA VoucherType ==
  ASSUME TypeOK, NEW o, NEW gift
  PROVE  VoucherFor(o, gift) \in [Orders -> {"none", "issued", "claimed"}]
BY DEF VoucherFor, TypeOK

(* What a step of a customer writes. *)
LEMMA PlaceOrderType ==
  ASSUME TypeOK, NEW o \in Orders, NEW gift \in BOOLEAN, NEW source,
         PlaceOrder(o, gift, source)
  PROVE  TypeOK'
<1> DEFINE st == IF source = "free" THEN "paid" ELSE "pending"
           new == [order[o] EXCEPT !.gift = gift, !.status = st]
<1>1. order' = [order EXCEPT ![o] = new]
  BY DEF PlaceOrder, TypeOK
<1>2. new \in Order
  <2>1. order[o] \in Order /\ st \in Statuses
    BY DEF TypeOK, Statuses
  <2> HIDE DEF st
  <2> QED
    BY <2>1 DEF Order, Statuses
<1> HIDE DEF new
<1>3. order' \in [Orders -> Order]
  BY <1>1, <1>2 DEF TypeOK
<1>4. voucher' \in [Orders -> {"none", "issued", "claimed"}]
  BY VoucherType DEF PlaceOrder, TypeOK
<1> QED
  BY <1>3, <1>4 DEF PlaceOrder, TypeOK, stripe, locks

LEMMA OpenSessionType ==
  ASSUME TypeOK, NEW s \in Sessions, OpenSession(s)
  PROVE  TypeOK'
<1> DEFINE o == checkout[s].order
           ref == <<"session", s>>
           new == [order[o] EXCEPT !.ref = ref]
           open == [checkout[s] EXCEPT !.status = "open"]
<1>1. /\ order' = [order EXCEPT ![o] = new]
      /\ checkout' = [checkout EXCEPT ![s] = open]
  BY DEF OpenSession, TypeOK
<1>2. open \in Checkout
  BY DEF TypeOK, Checkout
<1>3. o \in Orders => new \in Order
  <2>1. ref \in Ref
    BY DEF Ref
  <2> HIDE DEF ref
  <2> QED
    BY <2>1 DEF TypeOK, Order
<1> HIDE DEF o, new, open
<1>4. order' \in [Orders -> Order] /\ checkout' \in [Sessions -> Checkout]
  BY <1>1, <1>2, <1>3 DEF TypeOK
<1> QED
  BY <1>4 DEF OpenSession, TypeOK, locks

LEMMA BuyStep ==
  ASSUME TypeOK, StripeInv, Buy
  PROVE  TypeOK' /\ StripeInv'
<1>1. ASSUME NEW o \in Orders, NEW gift \in BOOLEAN, NEW source, PlaceOrder(o, gift, source)
      PROVE  TypeOK' /\ StripeInv'
  BY <1>1, PlaceOrderType DEF PlaceOrder, StripeInv, stripe
<1>2. ASSUME NEW s \in Sessions, OpenSession(s) PROVE TypeOK' /\ StripeInv'
  <2>1. /\ checkout[s] \in Checkout /\ checkout[s].status = "asked"
        /\ checkout' = [checkout EXCEPT ![s].status = "open"] /\ posted' = posted
        /\ checkout \in [Sessions -> Checkout] /\ worker' = worker
    BY <1>2 DEF OpenSession, TypeOK
  <2>2. \A x \in Sessions : /\ checkout'[x].order = checkout[x].order
                            /\ checkout'[x].status # "none" <=> checkout[x].status # "none"
    BY <2>1 DEF Checkout
  <2> QED
    BY <1>2, <2>1, <2>2, OpenSessionType DEF StripeInv, TypeOK, Events
<1>3. ASSUME NEW s \in Sessions, NEW o \in Orders, AskSession(s, o)
      PROVE  TypeOK' /\ StripeInv'
  <2>1. [order |-> o, status |-> "asked"] \in Checkout
    BY DEF Checkout
  <2>2. TypeOK'
    BY <1>3, <2>1 DEF AskSession, TypeOK, tables, locks
  <2> QED
    BY <1>3, <2>2 DEF AskSession, StripeInv, TypeOK, Events
<1> QED
  BY <1>1, <1>2, <1>3, OrdersAssumption DEF Buy

LEMMA ChargeStep ==
  ASSUME TypeOK, StripeInv, Charge
  PROVE  TypeOK' /\ StripeInv'
<1>1. ASSUME NEW s \in Sessions, NEW from \in {"open", "captured"},
             NEW to \in {"captured", "expired"}, NEW kind \in Kinds, Raise(s, from, to, kind)
      PROVE  TypeOK' /\ StripeInv'
  <2> DEFINE new == [checkout[s] EXCEPT !.status = to]
  <2>1. /\ checkout' = [checkout EXCEPT ![s] = new] /\ checkout[s].status = from
        /\ posted' = posted \cup {<<kind, s>>} /\ checkout[s] \in Checkout
        /\ worker' = worker
    BY <1>1 DEF Raise, TypeOK
  <2>2. new \in Checkout /\ new.order = checkout[s].order /\ new.status = to
    BY <2>1 DEF Checkout
  <2>3. <<kind, s>> \in Events
    BY DEF Events
  <2> HIDE DEF new
  <2>4. TypeOK'
    BY <1>1, <2>1, <2>2, <2>3 DEF Raise, TypeOK, tables, locks
  <2>5. StripeInv'
    BY <2>1, <2>2 DEF StripeInv, TypeOK, Events
  <2> QED
    BY <2>4, <2>5
<1> QED
  BY <1>1 DEF Charge, Capture, Expire, Refund, Dispute, Kinds

(* What a webhook may do to the tables: to its order, whose row is free, and *)
(* to accounts that exist.                                                   *)
HandlerKeeps(o) ==
  /\ \A x \in Orders : /\ x # o => order'[x] = order[x]
                       /\ order'[x].code = order[x].code
                       /\ order[x].status \in Reversed => order'[x].status = order[x].status
  /\ \A a \in Accounts : \/ account'[a] = account[a]
                         \/ account[a].status = "active" /\ account'[a].status = "locked"
  /\ \A x \in Orders : \/ voucher'[x] = voucher[x]
                       \/ voucher[x] = "none" /\ voucher'[x] = "issued"

LEMMA VoucherKeeps ==
  ASSUME TypeOK, NEW o, NEW gift, voucher' = VoucherFor(o, gift)
  PROVE  \A x \in Orders : \/ voucher'[x] = voucher[x]
                           \/ voucher[x] = "none" /\ voucher'[x] = "issued"
BY DEF VoucherFor, TypeOK

LEMMA Committed ==
  ASSUME TypeOK, StripeInv, NEW w \in Workers, worker[w].event # Null, CommitDelivery(w)
  PROVE  /\ worker[w].event \in Events /\ worker[w].order \in Orders
         /\ order[worker[w].order] \in Order
         /\ claimed' \subseteq posted' /\ posted' = posted
         /\ worker' \in [Workers -> Delivery]
         /\ worker' = [worker EXCEPT ![w] = NoDelivery]
         /\ UNCHANGED <<stripe, request, locks>>
BY RowTypes DEF CommitDelivery, TypeOK, StripeInv, stripe

LEMMA MarkPaidEffect ==
  ASSUME TypeOK, StripeInv, CommissionFollowsMoney, NEW w \in Workers, MarkPaid(w)
  PROVE  /\ TypeOK' /\ HandlerKeeps(worker[w].order) /\ CommissionFollowsMoney'
         /\ UNCHANGED <<stripe, request, locks>> /\ rowLock[worker[w].order] = Null
         /\ worker' = [worker EXCEPT ![w] = NoDelivery]
<1> DEFINE o == worker[w].order
           ref == <<"intent", worker[w].event[2]>>
           new == [order[o] EXCEPT !.status = "paid", !.ref = ref]
<1>1. worker[w].event # Null /\ rowLock[o] = Null /\ CommitDelivery(w)
  BY DEF MarkPaid, Handles
<1>2. /\ worker[w].event \in Events /\ o \in Orders /\ order[o] \in Order
      /\ claimed' \subseteq posted' /\ posted' = posted
      /\ worker' \in [Workers -> Delivery] /\ UNCHANGED <<stripe, request, locks>>
      /\ worker' = [worker EXCEPT ![w] = NoDelivery]
  BY <1>1, Committed
<1>3. CASE order[o].status \in Reversed \cup {"cancelled"}
  <2>1. UNCHANGED tables
    BY <1>3 DEF MarkPaid
  <2>2. TypeOK'
    BY <1>2, <2>1 DEF TypeOK, tables, stripe, locks
  <2> QED
    BY <1>1, <1>2, <2>1, <2>2 DEF tables, HandlerKeeps, CommissionFollowsMoney
<1>4. CASE order[o].status \notin Reversed \cup {"cancelled"}
  <2>1. /\ order' = [order EXCEPT ![o] = new]
        /\ voucher' = VoucherFor(o, order[o].gift)
        /\ commission' = [commission EXCEPT ![o] = IF @ = "none" THEN "earned" ELSE @]
        /\ account' = account
    BY <1>2, <1>4 DEF MarkPaid, TypeOK
  <2>2. ref \in Ref
    BY <1>2 DEF Ref, Events
  <2> HIDE DEF ref
  <2>3. new \in Order /\ new.status = "paid" /\ new.code = order[o].code
    BY <1>2, <2>2 DEF Order
  <2> HIDE DEF new, o
  <2>4. /\ order' \in [Orders -> Order]
        /\ \A x \in Orders : /\ x # o => order'[x] = order[x]
                             /\ order'[x].code = order[x].code
                             /\ x = o => order'[x].status = "paid"
    BY <2>1, <2>3 DEF TypeOK
  <2>5. /\ commission' \in [Orders -> {"none", "earned", "clawedBack"}]
        /\ \A x \in Orders : /\ x # o => commission'[x] = commission[x]
                             /\ commission'[x] = "clawedBack" => commission[x] = "clawedBack"
    BY <2>1 DEF TypeOK
  <2>6. voucher' \in [Orders -> {"none", "issued", "claimed"}]
    BY <2>1, VoucherType
  <2>7. TypeOK'
    BY <1>2, <2>1, <2>4, <2>5, <2>6 DEF TypeOK, stripe, locks
  <2>8. CommissionFollowsMoney'
    BY <1>4, <2>4, <2>5 DEF CommissionFollowsMoney
  <2>9. HandlerKeeps(o)
    BY <1>4, <2>1, <2>4, VoucherKeeps DEF HandlerKeeps
  <2> QED
    BY <1>1, <1>2, <2>7, <2>8, <2>9 DEF o
<1> QED
  BY <1>3, <1>4

LEMMA AbandonEffect ==
  ASSUME TypeOK, StripeInv, CommissionFollowsMoney, NEW w \in Workers, Abandon(w)
  PROVE  /\ TypeOK' /\ HandlerKeeps(worker[w].order) /\ CommissionFollowsMoney'
         /\ UNCHANGED <<stripe, request, locks>> /\ rowLock[worker[w].order] = Null
         /\ worker' = [worker EXCEPT ![w] = NoDelivery]
<1> DEFINE o == worker[w].order
           st == IF order[o].status = "pending" THEN "cancelled" ELSE order[o].status
           new == [order[o] EXCEPT !.status = st]
<1>1. /\ worker[w].event # Null /\ rowLock[o] = Null /\ CommitDelivery(w)
      /\ order' = [order EXCEPT ![o] = new] /\ UNCHANGED <<voucher, commission, account>>
  BY DEF Abandon, Handles, TypeOK
<1>2. /\ o \in Orders /\ order[o] \in Order
      /\ claimed' \subseteq posted' /\ posted' = posted
      /\ worker' \in [Workers -> Delivery] /\ UNCHANGED <<stripe, request, locks>>
      /\ worker' = [worker EXCEPT ![w] = NoDelivery]
  BY <1>1, Committed
<1>3. new \in Order /\ new.status = st /\ new.code = order[o].code
  BY <1>2 DEF Order
<1> HIDE DEF new
<1>4. /\ order' \in [Orders -> Order]
      /\ \A x \in Orders : /\ x # o => order'[x] = order[x]
                           /\ order'[x].code = order[x].code
                           /\ order[x].status # "pending" => order'[x].status = order[x].status
  BY <1>1, <1>3 DEF TypeOK
<1>5. TypeOK'
  BY <1>1, <1>2, <1>4 DEF TypeOK, stripe, locks
<1>6. CommissionFollowsMoney'
  BY <1>1, <1>4 DEF CommissionFollowsMoney, Reversed
<1>7. HandlerKeeps(o)
  BY <1>1, <1>4 DEF HandlerKeeps, Reversed
<1> QED
  BY <1>1, <1>2, <1>5, <1>6, <1>7

LEMMA ReverseEffect ==
  ASSUME TypeOK, StripeInv, CommissionFollowsMoney, NEW w \in Workers, Reverse(w)
  PROVE  /\ TypeOK' /\ HandlerKeeps(worker[w].order) /\ CommissionFollowsMoney'
         /\ UNCHANGED <<stripe, request, locks>> /\ rowLock[worker[w].order] = Null
         /\ worker' = [worker EXCEPT ![w] = NoDelivery]
<1> DEFINE o == worker[w].order
           st == worker[w].event[1]
           new == [order[o] EXCEPT !.status = st]
<1>1. /\ worker[w].event # Null /\ rowLock[o] = Null /\ CommitDelivery(w)
      /\ st \in Reversed
  BY DEF Reverse, Handles
<1>2. /\ o \in Orders /\ order[o] \in Order
      /\ claimed' \subseteq posted' /\ posted' = posted
      /\ worker' \in [Workers -> Delivery] /\ UNCHANGED <<stripe, request, locks>>
      /\ worker' = [worker EXCEPT ![w] = NoDelivery]
  BY <1>1, Committed
<1>3. CASE order[o].status \in Reversed
  <2>1. UNCHANGED tables
    BY <1>3 DEF Reverse
  <2>2. TypeOK'
    BY <1>2, <2>1 DEF TypeOK, tables, stripe, locks
  <2> QED
    BY <1>1, <1>2, <2>1, <2>2 DEF tables, HandlerKeeps, CommissionFollowsMoney
<1>4. CASE order[o].status \notin Reversed
  <2>1. /\ order' = [order EXCEPT ![o] = new]
        /\ account' = Frozen(worker[w].stamp)
        /\ commission' = [commission EXCEPT ![o] = IF @ = "earned" THEN "clawedBack" ELSE @]
        /\ voucher' = voucher
    BY <1>2, <1>4 DEF Reverse, TypeOK
  <2>2. new \in Order /\ new.status = st /\ new.code = order[o].code
    BY <1>1, <1>2 DEF Order, Reversed
  <2> HIDE DEF new, o, st
  <2>3. /\ order' \in [Orders -> Order]
        /\ \A x \in Orders : /\ x # o => order'[x] = order[x]
                             /\ order'[x].code = order[x].code
                             /\ x = o => order'[x].status \in Reversed
    BY <1>1, <2>1, <2>2 DEF TypeOK
  <2>4. /\ commission' \in [Orders -> {"none", "earned", "clawedBack"}]
        /\ \A x \in Orders : /\ x # o => commission'[x] = commission[x]
                             /\ x = o => commission'[x] # "earned"
    BY <2>1 DEF TypeOK
  <2>5. /\ account' \in [Accounts -> Account]
        /\ \A a \in Accounts : \/ account'[a] = account[a]
                               \/ /\ account[a].status = "active"
                                  /\ account'[a].status = "locked"
    BY <2>1 DEF Frozen, TypeOK, Account
  <2>6. TypeOK'
    BY <1>2, <2>1, <2>3, <2>4, <2>5 DEF TypeOK, stripe, locks
  <2>7. CommissionFollowsMoney'
    BY <2>3, <2>4 DEF CommissionFollowsMoney
  <2>8. HandlerKeeps(o)
    BY <1>4, <2>1, <2>3, <2>5 DEF HandlerKeeps
  <2> QED
    BY <1>1, <1>2, <2>6, <2>7, <2>8 DEF o
<1> QED
  BY <1>3, <1>4
-----------------------------------------------------------------------------
(* A request keeps what it knows as long as nobody else takes its locks and  *)
(* what they protect stays.                                                  *)
LEMMA RequestKept ==
  ASSUME TypeOK, NEW q \in Requests, RequestInv(q), request'[q] = request[q],
         \A o \in Orders : rowLock[o] = q =>
           /\ rowLock'[o] = q
           /\ order[o].status = "paid" => order'[o].status = "paid",
         slotLock = q => slotLock' = q /\ Used' = Used,
         \A o \in Orders : codeLock[o] = q =>
           /\ codeLock'[o] = q
           /\ voucher[o] = "issued" => voucher'[o] = "issued"
  PROVE  RequestInv(q)'
BY DEF RequestInv

LEMMA UsedKept ==
  ASSUME TypeOK, account' \in [Accounts -> Account],
         \A a \in Accounts : account'[a].status = "none" <=> account[a].status = "none"
  PROVE  Used' = Used
BY DEF Used

LEMMA UsedCount == IsFiniteSet(Used) /\ Cardinality(Used) \in Nat
<1>1. IsFiniteSet(Used)
  BY OrdersAssumption, FS_Subset DEF Used
<1> QED
  BY <1>1, FS_CardinalityType

(* The codes: a step that neither redeems one nor enters an order with one.  *)
LEMMA CodesKept ==
  ASSUME TypeOK, CodeInv, voucher' \in [Orders -> {"none", "issued", "claimed"}],
         \A x \in Orders : order'[x].code = order[x].code,
         \A x \in Orders : voucher'[x] = "claimed" <=> voucher[x] = "claimed"
  PROVE  CodeInv'
BY DEF CodeInv

(* Steps of customers, of Stripe and of the webhook leave requests alone. *)
LEMMA OutsideStep ==
  ASSUME Inv, TypeOK', StripeInv', CommissionFollowsMoney',
         UNCHANGED <<request, locks>>,
         \A o \in Orders :
           /\ order'[o].code = order[o].code
           /\ order[o].status = "paid" => order'[o].status = "paid" \/ rowLock[o] = Null,
         \A a \in Accounts : account'[a].status = "none" <=> account[a].status = "none",
         \A x \in Orders : \/ voucher'[x] = voucher[x]
                           \/ voucher[x] = "none" /\ voucher'[x] = "issued"
  PROVE  Inv'
<1>1. Used' = Used
  BY UsedKept DEF Inv, TypeOK
<1>2. ASSUME NEW q \in Requests PROVE RequestInv(q)'
  BY <1>1, RequestKept, OrdersAssumption DEF Inv, locks
<1>3. CodeInv'
  BY CodesKept DEF Inv, TypeOK
<1>4. SlotsRespected'
  BY <1>1 DEF Inv, SlotsRespected
<1> QED
  BY <1>2, <1>3, <1>4 DEF Inv

LEMMA BuyKeeps == ASSUME Inv, Buy PROVE Inv'
<1>0. TypeOK' /\ StripeInv' /\ TypeOK /\ CommissionFollowsMoney
  BY BuyStep DEF Inv
<1>1. ASSUME NEW o \in Orders, NEW gift \in BOOLEAN, NEW source, PlaceOrder(o, gift, source)
      PROVE  Inv'
  <2>1. /\ order[o].status = "none" /\ order[o] \in Order
        /\ order' = [order EXCEPT ![o].gift = gift,
                       ![o].status = IF source = "free" THEN "paid" ELSE "pending"]
    BY <1>0, <1>1 DEF PlaceOrder, NoOrder, TypeOK
  <2>2. \A x \in Orders : /\ x # o => order'[x] = order[x]
                          /\ order'[x].code = order[x].code
    BY <1>0, <2>1 DEF TypeOK, Order
  <2>3. CommissionFollowsMoney'
    BY <1>0, <1>1, <2>1, <2>2 DEF PlaceOrder, CommissionFollowsMoney, Reversed, TypeOK
  <2>4. \A x \in Orders : \/ voucher'[x] = voucher[x]
                          \/ voucher[x] = "none" /\ voucher'[x] = "issued"
    BY <1>0, <1>1, VoucherKeeps DEF PlaceOrder
  <2> QED
    BY <1>0, <1>1, <2>1, <2>2, <2>3, <2>4, OutsideStep DEF PlaceOrder, locks
<1>2. ASSUME NEW s \in Sessions, OpenSession(s) PROVE Inv'
  <2>1. \A x \in Orders : /\ order'[x].status = order[x].status
                          /\ order'[x].code = order[x].code
    BY <1>0, <1>2 DEF OpenSession, TypeOK, Order
  <2>2. CommissionFollowsMoney'
    BY <1>0, <1>2, <2>1 DEF OpenSession, CommissionFollowsMoney
  <2> QED
    BY <1>0, <1>2, <2>1, <2>2, OutsideStep DEF OpenSession, locks
<1>3. ASSUME NEW s \in Sessions, NEW o \in Orders, AskSession(s, o) PROVE Inv'
  <2>1. UNCHANGED <<tables, request, locks>>
    BY <1>3 DEF AskSession
  <2> QED
    BY <1>0, <2>1, OutsideStep DEF tables, CommissionFollowsMoney
<1> QED
  BY <1>1, <1>2, <1>3, OrdersAssumption DEF Buy

LEMMA ChargeKeeps == ASSUME Inv, Charge PROVE Inv'
<1>1. TypeOK' /\ StripeInv'
  BY ChargeStep DEF Inv
<1>2. UNCHANGED <<tables, request, locks>>
  BY DEF Charge, Capture, Expire, Refund, Dispute, Raise
<1> QED
  BY <1>1, <1>2, OutsideStep DEF tables, CommissionFollowsMoney, Inv

LEMMA WebhookKeeps ==
  ASSUME Inv, NEW w \in Workers, Webhook(w)
  PROVE  Inv'
<1>0. TypeOK /\ StripeInv /\ CommissionFollowsMoney
  BY DEF Inv
<1>1. ASSUME NEW e \in Events, Deliver(w, e) PROVE Inv'
  <2>1. PICK o \in OrdersOf(e) :
          worker' = [worker EXCEPT ![w] = [event |-> e, order |-> o, stamp |-> order[o].stamp]]
    BY <1>1 DEF Deliver
  <2>2. e \in posted /\ o \in Orders /\ UNCHANGED <<tables, stripe, claimed, request, locks>>
    BY <1>0, <1>1, <2>1 DEF Deliver, StripeInv, OrdersOf, Events
  <2>3. [event |-> e, order |-> o, stamp |-> order[o].stamp] \in Delivery
    BY <1>0, <2>2 DEF TypeOK, Order, Delivery
  <2>4. TypeOK'
    BY <1>0, <2>1, <2>2, <2>3 DEF TypeOK, tables, stripe, locks
  <2>5. StripeInv'
    BY <1>0, <2>1, <2>2 DEF StripeInv, stripe, TypeOK
  <2> QED
    BY <1>0, <2>2, <2>4, <2>5, OutsideStep DEF tables, CommissionFollowsMoney
<1>2. ASSUME NEW e \in Events, DropUnresolved(w, e) PROVE Inv'
  <2>1. /\ TypeOK' /\ StripeInv' /\ UNCHANGED <<tables, request, locks>>
    BY <1>0, <1>2 DEF DropUnresolved, TypeOK, StripeInv, tables, stripe, locks
  <2> QED
    BY <1>0, <2>1, OutsideStep DEF tables, CommissionFollowsMoney
<1>3. ASSUME worker' = [worker EXCEPT ![w] = NoDelivery], UNCHANGED stripe PROVE StripeInv'
  BY <1>0, <1>3 DEF StripeInv, stripe, TypeOK, NoDelivery
<1>4. ASSUME DeliveryFails(w) PROVE Inv'
  <2>1. /\ TypeOK' /\ StripeInv' /\ UNCHANGED <<tables, request, locks>>
    BY <1>0, <1>3, <1>4, RowTypes DEF DeliveryFails, TypeOK, tables, stripe, locks
  <2> QED
    BY <1>0, <2>1, OutsideStep DEF tables, CommissionFollowsMoney
<1>5. ASSUME Handle(w) PROVE Inv'
  <2>1. /\ TypeOK' /\ HandlerKeeps(worker[w].order) /\ CommissionFollowsMoney'
        /\ UNCHANGED <<stripe, request, locks>> /\ rowLock[worker[w].order] = Null
        /\ worker' = [worker EXCEPT ![w] = NoDelivery]
    BY <1>0, <1>5, MarkPaidEffect, AbandonEffect, ReverseEffect DEF Handle
  <2>2. StripeInv'
    BY <1>3, <2>1
  <2> QED
    BY <2>1, <2>2, OutsideStep DEF HandlerKeeps
<1> QED
  BY <1>1, <1>2, <1>4, <1>5 DEF Webhook
-----------------------------------------------------------------------------
(* A step of request r changes r's job and locks, and what r's locks protect. *)
LEMMA RequestStep ==
  ASSUME Inv, NEW r \in Requests, TypeOK', RequestInv(r)',
         UNCHANGED <<commission, stripe, worker>>,
         \A q \in Requests \ {r} :
           /\ request'[q] = request[q]
           /\ \A o \in Orders : /\ rowLock[o] = q => rowLock'[o] = q
                                /\ codeLock[o] = q => codeLock'[o] = q
           /\ slotLock = q => slotLock' = q /\ Used' = Used,
         \A o \in Orders : order[o].status \in {"none"} \/ order'[o].status = order[o].status,
         \A o \in Orders : order'[o].status \notin Reversed \/ order[o].status \in Reversed,
         \A o \in Orders : voucher[o] = "issued" => voucher'[o] = "issued" \/ codeLock[o] = r,
         CodeInv', SlotsRespected'
  PROVE  Inv'
<1>1. CommissionFollowsMoney'
  BY DEF Inv, CommissionFollowsMoney, Reversed
<1>2. StripeInv'
  BY DEF Inv, StripeInv, stripe
<1>3. ASSUME NEW q \in Requests \ {r} PROVE RequestInv(q)'
  BY <1>3, RequestKept DEF Inv
<1> QED
  BY <1>1, <1>2, <1>3 DEF Inv

(* A request that gives up, or only moves on. *)
LEMMA Moves ==
  ASSUME Inv, NEW r \in Requests, TypeOK', RequestInv(r)',
         UNCHANGED <<tables, stripe, worker>>,
         \A q \in Requests \ {r} :
           /\ request'[q] = request[q]
           /\ \A o \in Orders : /\ rowLock[o] = q => rowLock'[o] = q
                                /\ codeLock[o] = q => codeLock'[o] = q
           /\ slotLock = q => slotLock' = q
  PROVE  Inv'
<1>1. Used' = Used /\ CodeInv' /\ SlotsRespected'
  BY DEF tables, Used, CodeInv, SlotsRespected, Inv
<1> QED
  BY <1>1, RequestStep DEF tables

LEMMA ReleaseEffect ==
  ASSUME TypeOK, NEW r \in Requests, Release(r)
  PROVE  /\ rowLock' \in [Orders -> Requests \cup {Null}]
         /\ codeLock' \in [Orders -> Requests \cup {Null}]
         /\ slotLock' \in Requests \cup {Null}
         /\ \A q \in Requests \ {r} :
              /\ \A o \in Orders : /\ rowLock[o] = q => rowLock'[o] = q
                                   /\ codeLock[o] = q => codeLock'[o] = q
              /\ slotLock = q => slotLock' = q
BY DEF Release, TypeOK

LEMMA GiveUpKeeps == ASSUME Inv, NEW r \in Requests, GiveUp(r) PROVE Inv'
<1>0. TypeOK
  BY DEF Inv
<1>1. request' = [request EXCEPT ![r] = NoJob] /\ UNCHANGED <<tables, stripe, claimed, worker>>
  BY DEF GiveUp
<1>2. TypeOK'
  BY <1>0, <1>1, ReleaseEffect, RowTypes DEF GiveUp, TypeOK, tables, stripe
<1>3. RequestInv(r)'
  BY <1>0, <1>1 DEF RequestInv, NoJob, TypeOK
<1>4. \A q \in Requests \ {r} : request'[q] = request[q]
  BY <1>0, <1>1 DEF TypeOK
<1> QED
  BY <1>0, <1>1, <1>2, <1>3, <1>4, ReleaseEffect, Moves DEF GiveUp

LEMMA AskKeeps == ASSUME Inv, NEW r \in Requests, Ask(r) PROVE Inv'
<1>1. PICK o \in Orders : RequestAccount(r, o) \/ RequestRedemption(r, o)
  BY DEF Ask
<1>2. PICK pc \in {"lock", "code"} : Become(r, pc, o)
  BY <1>1 DEF RequestAccount, RequestRedemption
<1>3. [NoJob EXCEPT !.pc = pc, !.order = o] \in Job
  BY DEF NoJob, Job
<1>4. UNCHANGED <<tables, stripe, claimed, worker, locks>>
  BY <1>1 DEF RequestAccount, RequestRedemption
<1>5. TypeOK'
  BY <1>2, <1>3, <1>4 DEF Inv, TypeOK, Become, tables, stripe, locks
<1>6. RequestInv(r)'
  BY <1>2 DEF RequestInv, Become, NoJob, Inv, TypeOK
<1>7. \A q \in Requests \ {r} : request'[q] = request[q]
  BY <1>2 DEF Become, Inv, TypeOK
<1> QED
  BY <1>4, <1>5, <1>6, <1>7, Moves DEF locks

LEMMA LockOrderKeeps == ASSUME Inv, NEW r \in Requests, LockOrder(r) PROVE Inv'
<1> DEFINE o == request[r].order
<1>1. /\ o \in Orders /\ rowLock[o] = Null /\ order[o].status = "paid"
      /\ rowLock' = [rowLock EXCEPT ![o] = r] /\ Become(r, "slot", o)
      /\ UNCHANGED <<tables, stripe, claimed, worker, codeLock, slotLock>>
  BY DEF LockOrder, Inv, RequestInv
<1> HIDE DEF o
<1>2. [NoJob EXCEPT !.pc = "slot", !.order = o] \in Job
  BY <1>1 DEF NoJob, Job
<1>3. TypeOK'
  BY <1>1, <1>2 DEF Inv, TypeOK, Become, tables, stripe
<1>4. RequestInv(r)'
  BY <1>1 DEF RequestInv, Become, NoJob, Inv, TypeOK, tables
<1>5. \A q \in Requests \ {r} :
        /\ request'[q] = request[q]
        /\ \A x \in Orders : rowLock[x] = q => rowLock'[x] = q
  BY <1>1, OrdersAssumption DEF Become, Inv, TypeOK
<1> QED
  BY <1>1, <1>3, <1>4, <1>5, Moves

LEMMA CheckSlotKeeps == ASSUME Inv, NEW r \in Requests, CheckSlot(r) PROVE Inv'
<1> DEFINE o == request[r].order
<1>1. /\ o \in Orders /\ rowLock[o] = r /\ order[o].status = "paid"
      /\ slotLock = Null /\ slotLock' = r /\ Cardinality(Used) < SlotLimit
      /\ Become(r, "insert", o)
      /\ UNCHANGED <<tables, stripe, claimed, worker, rowLock, codeLock>>
  BY DEF CheckSlot, Inv, RequestInv
<1> HIDE DEF o
<1>2. [NoJob EXCEPT !.pc = "insert", !.order = o] \in Job
  BY <1>1 DEF NoJob, Job
<1>3. TypeOK'
  BY <1>1, <1>2 DEF Inv, TypeOK, Become, tables, stripe
<1>4. Used' = Used
  BY <1>1 DEF Used, tables
<1>5. RequestInv(r)'
  BY <1>1, <1>4 DEF RequestInv, Become, NoJob, Inv, TypeOK, tables
<1>6. \A q \in Requests \ {r} : request'[q] = request[q] /\ slotLock # q
  BY <1>1, OrdersAssumption DEF Become, Inv, TypeOK
<1> QED
  BY <1>1, <1>3, <1>5, <1>6, Moves

LEMMA LockVoucherKeeps == ASSUME Inv, NEW r \in Requests, LockVoucher(r) PROVE Inv'
<1> DEFINE o == request[r].order
<1>1. /\ o \in Orders /\ codeLock[o] = Null /\ voucher[o] = "issued"
      /\ codeLock' = [codeLock EXCEPT ![o] = r] /\ Become(r, "redeem", o)
      /\ UNCHANGED <<tables, stripe, claimed, worker, rowLock, slotLock>>
  BY DEF LockVoucher, Inv, RequestInv
<1> HIDE DEF o
<1>2. [NoJob EXCEPT !.pc = "redeem", !.order = o] \in Job
  BY <1>1 DEF NoJob, Job
<1>3. TypeOK'
  BY <1>1, <1>2 DEF Inv, TypeOK, Become, tables, stripe
<1>4. RequestInv(r)'
  BY <1>1 DEF RequestInv, Become, NoJob, Inv, TypeOK, tables
<1>5. \A q \in Requests \ {r} :
        /\ request'[q] = request[q]
        /\ \A x \in Orders : codeLock[x] = q => codeLock'[x] = q
  BY <1>1, OrdersAssumption DEF Become, Inv, TypeOK
<1> QED
  BY <1>1, <1>3, <1>4, <1>5, Moves

LEMMA CreateAccountKeeps ==
  ASSUME Inv, NEW r \in Requests, NEW a \in Accounts, CreateAccount(r, a)
  PROVE  Inv'
<1> DEFINE new == [request[r] EXCEPT !.pc = "stamp", !.acct = a]
           row == [status |-> "active", order |-> request[r].order]
<1>0. /\ request[r].pc = "insert" /\ account[a] = NoAccount /\ TypeOK /\ RequestInv(r)
      /\ account' = [account EXCEPT ![a] = row]
      /\ request' = [request EXCEPT ![r].pc = "stamp", ![r].acct = a]
      /\ Release(r) /\ UNCHANGED <<order, voucher, commission, stripe, claimed, worker>>
  BY DEF CreateAccount, Inv
<1>1. /\ request[r] \in Job /\ request[r].order \in Orders /\ slotLock = r
      /\ Cardinality(Used) < SlotLimit /\ account[a].status = "none"
      /\ account' = [account EXCEPT ![a] = row]
      /\ request' = [request EXCEPT ![r] = new]
      /\ Release(r) /\ UNCHANGED <<order, voucher, commission, stripe, claimed, worker>>
  <2> HIDE DEF row
  <2>1. /\ request[r] \in Job /\ request[r].order \in Orders /\ slotLock = r
        /\ Cardinality(Used) < SlotLimit
    BY <1>0 DEF TypeOK, RequestInv
  <2>2. account[a].status = "none"
    BY <1>0 DEF NoAccount
  <2>3. request' = [request EXCEPT ![r] = new]
    BY <1>0 DEF TypeOK
  <2> QED
    BY <1>0, <2>1, <2>2, <2>3
<1>2. /\ new \in Job /\ row \in Account /\ new.pc = "stamp"
      /\ new.order = request[r].order /\ row.status = "active"
  BY <1>1 DEF Job, Account
<1> HIDE DEF new, row
<1>3. TypeOK'
  BY <1>1, <1>2, ReleaseEffect DEF Inv, TypeOK, stripe
<1>4. Used' = Used \cup {a} /\ a \notin Used
  BY <1>1, <1>2 DEF Used, Inv, TypeOK
<1>5. SlotsRespected'
  <2>1. Cardinality(Used \cup {a}) = Cardinality(Used) + 1
    BY <1>4, UsedCount, FS_AddElement
  <2> QED
    BY <1>1, <1>4, <2>1, UsedCount, OrdersAssumption DEF SlotsRespected
<1>6. RequestInv(r)' /\ \A q \in Requests \ {r} : request'[q] = request[q] /\ slotLock # q
  BY <1>1, <1>2 DEF RequestInv, Inv, TypeOK
<1>7. CodeInv'
  BY <1>1 DEF Inv, CodeInv
<1> QED
  BY <1>1, <1>3, <1>5, <1>6, <1>7, ReleaseEffect, RequestStep DEF Inv

LEMMA StampOrderKeeps == ASSUME Inv, NEW r \in Requests, StampOrder(r) PROVE Inv'
<1> DEFINE o == request[r].order
           new == [order[o] EXCEPT !.stamp = request[r].acct]
<1>1. /\ request[r] \in Job /\ o \in Orders /\ order[o] \in Order
      /\ order' = [order EXCEPT ![o] = new] /\ request' = [request EXCEPT ![r] = NoJob]
      /\ UNCHANGED <<voucher, commission, account, stripe, claimed, worker, locks>>
  BY DEF StampOrder, Inv, TypeOK, RequestInv
<1>2. new \in Order /\ new.status = order[o].status /\ new.code = order[o].code
  BY <1>1 DEF Order, Job
<1> HIDE DEF o, new
<1>3. TypeOK'
  BY <1>1, <1>2, RowTypes DEF Inv, TypeOK, stripe, locks
<1>4. /\ \A x \in Orders : /\ order'[x].status = order[x].status
                           /\ order'[x].code = order[x].code
      /\ Used' = Used
  BY <1>1, <1>2 DEF Inv, TypeOK, Used
<1>5. CodeInv' /\ SlotsRespected'
  BY <1>1, <1>4, CodesKept DEF Inv, TypeOK, SlotsRespected
<1>6. RequestInv(r)' /\ \A q \in Requests \ {r} : request'[q] = request[q]
  BY <1>1 DEF RequestInv, Inv, TypeOK, NoJob
<1>7. /\ UNCHANGED <<commission, stripe, worker, voucher>>
      /\ UNCHANGED <<rowLock, codeLock, slotLock>>
  BY <1>1 DEF locks
<1>8. \A q \in Requests \ {r} :
        /\ request'[q] = request[q]
        /\ \A x \in Orders : /\ rowLock[x] = q => rowLock'[x] = q
                            /\ codeLock[x] = q => codeLock'[x] = q
        /\ slotLock = q => slotLock' = q /\ Used' = Used
  BY <1>4, <1>6, <1>7
<1>9. /\ \A x \in Orders : order[x].status \in {"none"} \/ order'[x].status = order[x].status
      /\ \A x \in Orders : order'[x].status \notin Reversed \/ order[x].status \in Reversed
      /\ \A x \in Orders : voucher[x] = "issued" => voucher'[x] = "issued" \/ codeLock[x] = r
  BY <1>4, <1>7
<1> QED
  BY <1>3, <1>5, <1>6, <1>7, <1>8, <1>9, RequestStep

LEMMA RedeemKeeps ==
  ASSUME Inv, NEW r \in Requests, NEW n \in Orders, Redeem(r, n)
  PROVE  Inv'
<1> DEFINE o == request[r].order
           new == [order[n] EXCEPT !.status = "paid", !.code = o]
<1>1. /\ o \in Orders /\ order[n] = NoOrder /\ order[n] \in Order
      /\ codeLock[o] = r /\ voucher[o] = "issued"
      /\ order' = [order EXCEPT ![n] = new]
      /\ voucher' = [voucher EXCEPT ![o] = "claimed"]
      /\ Release(r) /\ request' = [request EXCEPT ![r] = NoJob]
      /\ UNCHANGED <<commission, account, stripe, claimed, worker>>
  <2>1. /\ request[r].pc = "redeem" /\ RequestInv(r) /\ order[n] = NoOrder
        /\ voucher' = [voucher EXCEPT ![o] = "claimed"]
        /\ Release(r) /\ request' = [request EXCEPT ![r] = NoJob]
        /\ UNCHANGED <<commission, account, stripe, claimed, worker>>
    BY DEF Redeem, Inv
  <2>2. o \in Orders /\ codeLock[o] = r /\ voucher[o] = "issued"
    BY <2>1 DEF RequestInv
  <2>3. order[n] \in Order
    BY DEF Inv, TypeOK
  <2>4. order' = [order EXCEPT ![n] = new]
    BY DEF Redeem
  <2> QED
    BY <2>1, <2>2, <2>3, <2>4
<1>2. new \in Order /\ new.status = "paid" /\ new.code = o /\ order[n].code = Null
  <2>1. order[n].code = Null
    BY <1>1 DEF NoOrder
  <2> HIDE DEF o
  <2>2. new \in Order /\ new.status = "paid" /\ new.code = o
    BY <1>1 DEF Order
  <2> QED
    BY <2>1, <2>2
<1> HIDE DEF o, new
<1>3. TypeOK'
  BY <1>1, <1>2, RowTypes, ReleaseEffect DEF Inv, TypeOK, stripe
<1>4. \A x \in Orders : IF x = n THEN order'[x].status = "paid" /\ order'[x].code = o
                                 ELSE order'[x] = order[x]
  BY <1>1, <1>2 DEF Inv, TypeOK
<1>5. \A x \in Orders : IF x = o THEN voucher'[x] = "claimed" ELSE voucher'[x] = voucher[x]
  BY <1>1 DEF Inv, TypeOK
<1>6. CodeInv'
  <2>1. \A m \in Orders : order[m].code # o
    BY <1>1 DEF Inv, CodeInv
  <2> SUFFICES ASSUME NEW x \in Orders
               PROVE  IF voucher'[x] = "claimed"
                      THEN \E y \in Orders : \A m \in Orders : order'[m].code = x <=> m = y
                      ELSE \A m \in Orders : order'[m].code # x
    BY DEF CodeInv
  <2>2. CASE x = o
    BY <1>4, <1>5, <2>1, <2>2
  <2>3. CASE x # o
    <3>1. \A m \in Orders : order'[m].code = x <=> order[m].code = x
      BY <1>2, <1>4, <2>3, OrdersAssumption
    <3> QED
      BY <1>5, <2>3, <3>1 DEF Inv, CodeInv
  <2> QED
    BY <2>2, <2>3
<1>7. Used' = Used /\ SlotsRespected'
  BY <1>1 DEF Used, SlotsRespected, Inv
<1>8. RequestInv(r)' /\ \A q \in Requests \ {r} : request'[q] = request[q]
  BY <1>1 DEF RequestInv, Inv, TypeOK, NoJob
<1>9. \A x \in Orders : /\ order[x].status \in {"none"} \/ order'[x].status = order[x].status
                        /\ order'[x].status \notin Reversed \/ order[x].status \in Reversed
                        /\ voucher[x] = "issued" => voucher'[x] = "issued" \/ codeLock[x] = r
  BY <1>1, <1>4, <1>5 DEF NoOrder, Reversed
<1> QED
  BY <1>1, <1>3, <1>6, <1>7, <1>8, <1>9, ReleaseEffect, RequestStep DEF Inv
-----------------------------------------------------------------------------
LEMMA InitInv == Init => Inv
<1> SUFFICES ASSUME Init PROVE Inv
  OBVIOUS
<1>1. TypeOK
  BY TypeInit
<1>2. StripeInv /\ CommissionFollowsMoney /\ CodeInv
  BY OrdersAssumption DEF Init, StripeInv, CommissionFollowsMoney, CodeInv, NoCheckout,
     NoDelivery, NoOrder
<1>3. SlotsRespected
  <2>1. Used = {}
    BY DEF Init, Used, NoAccount
  <2> QED
    BY <2>1, FS_EmptySet, OrdersAssumption DEF SlotsRespected
<1>4. \A r \in Requests : RequestInv(r)
  BY DEF Init, RequestInv, NoJob
<1> QED
  BY <1>1, <1>2, <1>3, <1>4 DEF Inv

LEMMA NextKeeps == Inv /\ [Next]_vars => Inv'
<1> SUFFICES ASSUME Inv, [Next]_vars PROVE Inv'
  OBVIOUS
<1>1. ASSUME NEW r \in Requests, Ask(r) \/ Create(r) \/ Redemption(r) \/ RequestFails(r)
      PROVE  Inv'
  BY <1>1, AskKeeps, GiveUpKeeps, LockOrderKeeps, CheckSlotKeeps, StampOrderKeeps,
     CreateAccountKeeps, LockVoucherKeeps, RedeemKeeps
     DEF Create, Redemption, RefuseUnpaid, RefuseFull, RefuseVoucher, RequestFails
<1>2. CASE UNCHANGED vars
  BY <1>2 DEF vars, tables, stripe, locks, Inv, TypeOK, StripeInv, CommissionFollowsMoney,
     CodeInv, SlotsRespected, Used, RequestInv
<1> QED
  BY <1>1, <1>2, BuyKeeps, ChargeKeeps, WebhookKeeps DEF Next

(* The invariant holds in every reachable state. *)
THEOREM Invariance == Spec => []Inv
BY InitInv, NextKeeps, PTL DEF Spec

(* Orders, accounts, events, deliveries and locks keep their shape. *)
THEOREM TypeCorrect == Spec => []TypeOK
<1>1. Inv => TypeOK
  BY DEF Inv
<1> QED
  BY <1>1, Invariance, PTL

(* No commission is kept on money that went back (billing.js:442-491).       *)
THEOREM CommissionFollows == Spec => []CommissionFollowsMoney
<1>1. Inv => CommissionFollowsMoney
  BY DEF Inv
<1> QED
  BY <1>1, Invariance, PTL

(* However many requests race for the last slot, it is sold once             *)
(* (utils/stepModels.js:354).                                                *)
THEOREM SlotsHold == Spec => []SlotsRespected
<1>1. Inv => SlotsRespected
  BY DEF Inv
<1> QED
  BY <1>1, Invariance, PTL

(* A gift code becomes one order, when it is marked claimed                  *)
(* (utils/giftVouchers.js:107).                                              *)
THEOREM VoucherBuys == Spec => []VoucherBuysOnce
<1>1. Inv => VoucherBuysOnce
  <2> SUFFICES ASSUME Inv, NEW o \in Orders
               PROVE  Cardinality({n \in Orders : order[n].code = o})
                        = IF voucher[o] = "claimed" THEN 1 ELSE 0
    BY DEF VoucherBuysOnce
  <2>1. CASE voucher[o] = "claimed"
    <3>1. PICK n \in Orders : \A m \in Orders : order[m].code = o <=> m = n
      BY <2>1 DEF Inv, CodeInv
    <3>2. {m \in Orders : order[m].code = o} = {n}
      BY <3>1
    <3> QED
      BY <2>1, <3>2, FS_Singleton
  <2>2. CASE voucher[o] # "claimed"
    <3>1. {m \in Orders : order[m].code = o} = {}
      BY <2>2 DEF Inv, CodeInv
    <3> QED
      BY <2>2, <3>1, FS_EmptySet
  <2> QED
    BY <2>1, <2>2
<1> QED
  BY <1>1, Invariance, PTL
-----------------------------------------------------------------------------
(* What every step does to the orders and the accounts. *)
OrdersStep ==
  /\ \A o \in Orders : order[o].status \in Reversed => order'[o].status = order[o].status
  /\ \A a \in Accounts : account[a] = NoAccount /\ account'[a] # NoAccount =>
       order'[account'[a].order].status = "paid"

LEMMA EveryStep == Inv /\ [Next]_vars => OrdersStep
<1> SUFFICES ASSUME Inv, [Next]_vars PROVE OrdersStep
  OBVIOUS
<1>0. TypeOK /\ StripeInv /\ CommissionFollowsMoney
  BY DEF Inv
<1>1. ASSUME UNCHANGED <<order, account>> PROVE OrdersStep
  BY <1>1 DEF OrdersStep
<1>2. ASSUME account' = account,
             \A o \in Orders : \/ order[o].status = "none"
                               \/ order'[o].status = order[o].status
      PROVE  OrdersStep
  BY <1>2 DEF OrdersStep, Reversed
<1>3. ASSUME Buy PROVE OrdersStep
  <2>1. ASSUME NEW o \in Orders, NEW gift, NEW source, PlaceOrder(o, gift, source)
        PROVE  OrdersStep
    BY <1>0, <1>2, <2>1 DEF PlaceOrder, TypeOK, NoOrder
  <2>2. ASSUME NEW s \in Sessions, OpenSession(s) PROVE OrdersStep
    <3>1. \A x \in Orders : order'[x].status = order[x].status
      BY <1>0, <2>2 DEF OpenSession, TypeOK, Order
    <3> QED
      BY <1>2, <2>2, <3>1 DEF OpenSession
  <2>3. ASSUME NEW s \in Sessions, NEW o \in Orders, AskSession(s, o) PROVE OrdersStep
    BY <1>1, <2>3 DEF AskSession, tables
  <2> QED
    BY <1>3, <2>1, <2>2, <2>3 DEF Buy
<1>4. ASSUME Charge PROVE OrdersStep
  BY <1>1, <1>4 DEF Charge, Capture, Expire, Refund, Dispute, Raise, tables
<1>5. ASSUME NEW w \in Workers, Handle(w) PROVE OrdersStep
  <2>1. HandlerKeeps(worker[w].order)
    BY <1>0, <1>5, MarkPaidEffect, AbandonEffect, ReverseEffect DEF Handle
  <2> QED
    BY <2>1 DEF HandlerKeeps, OrdersStep, NoAccount
<1>6. ASSUME NEW w \in Workers, Webhook(w), ~Handle(w) PROVE OrdersStep
  BY <1>1, <1>6 DEF Webhook, Deliver, DropUnresolved, DeliveryFails, tables
<1>7. ASSUME NEW r \in Requests, NEW a \in Accounts, CreateAccount(r, a) PROVE OrdersStep
  <2>1. /\ request[r].pc = "insert" /\ RequestInv(r) /\ order' = order
        /\ account' = [account EXCEPT ![a] = [status |-> "active", order |-> request[r].order]]
    BY <1>7 DEF CreateAccount, Inv
  <2>2. order[request[r].order].status = "paid"
    BY <2>1 DEF RequestInv
  <2>3. \A b \in Accounts : b # a => account'[b] = account[b]
    BY <1>0, <2>1 DEF TypeOK
  <2>4. account'[a].order = request[r].order
    BY <1>0, <2>1 DEF TypeOK
  <2> QED
    BY <2>1, <2>2, <2>3, <2>4 DEF OrdersStep
<1>8. ASSUME NEW r \in Requests, StampOrder(r) PROVE OrdersStep
  <2>1. \A x \in Orders : order'[x].status = order[x].status
    BY <1>0, <1>8 DEF StampOrder, TypeOK, Order
  <2> QED
    BY <1>2, <1>8, <2>1 DEF StampOrder
<1>9. ASSUME NEW r \in Requests, NEW n \in Orders, Redeem(r, n) PROVE OrdersStep
  BY <1>0, <1>2, <1>9 DEF Redeem, NoOrder, TypeOK
<1>10. ASSUME NEW r \in Requests, Ask(r) \/ RequestFails(r) PROVE OrdersStep
  BY <1>1, <1>10 DEF Ask, RequestAccount, RequestRedemption, RequestFails, GiveUp, tables
<1>11. ASSUME NEW r \in Requests, Create(r) PROVE OrdersStep
  BY <1>1, <1>7, <1>8, <1>11
     DEF Create, LockOrder, RefuseUnpaid, CheckSlot, RefuseFull, GiveUp, tables
<1>12. ASSUME NEW r \in Requests, Redemption(r) PROVE OrdersStep
  BY <1>1, <1>9, <1>12 DEF Redemption, LockVoucher, RefuseVoucher, GiveUp, tables
<1>13. CASE UNCHANGED vars
  BY <1>1, <1>13 DEF vars, tables
<1> QED
  BY <1>3, <1>4, <1>5, <1>6, <1>10, <1>11, <1>12, <1>13 DEF Next

(* The first reversal of an order stands, whatever is delivered after it     *)
(* (billing.js:452).                                                         *)
THEOREM ReversalFinalHolds == Spec => ReversalFinal
<1>1. Inv /\ [Next]_vars => [\A o \in Orders :
        order[o].status \in Reversed => order'[o].status = order[o].status]_vars
  BY EveryStep DEF OrdersStep
<1> QED
  BY <1>1, Invariance, PTL DEF Spec, ReversalFinal

(* An account is created only while its order is paid, also when a reversal  *)
(* is handled at the same time (accounts.js:501).                            *)
THEOREM CreatedWhilePaidHolds == Spec => CreatedWhilePaid
<1>1. Inv /\ [Next]_vars => [\A a \in Accounts :
        account[a] = NoAccount /\ account'[a] # NoAccount =>
          order'[account'[a].order].status = "paid"]_vars
  BY EveryStep DEF OrdersStep
<1> QED
  BY <1>1, Invariance, PTL DEF Spec, CreatedWhilePaid
=============================================================================
