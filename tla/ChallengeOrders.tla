-------------------------- MODULE ChallengeOrders ---------------------------
(***************************************************************************)
(* Buying a challenge: orders and checkout sessions (routes/accounts.js    *)
(* POST /orders, routes/billing.js createChallengePaymentSession), Stripe  *)
(* and its webhook (billing.js processStripeWebhookEvent), gift vouchers   *)
(* (utils/giftVouchers.js) and the account an order buys (accounts.js      *)
(* POST /create with utils/stepModels.js assertSlotAvailable).             *)
(*                                                                         *)
(* Stripe delivers each event at least once, in any order.  A webhook      *)
(* delivery and an account creation are one transaction each, split where  *)
(* they wait for a lock or act on an earlier read.                         *)
(*                                                                         *)
(* Abstractions.  All orders are for one model and size.  A session is     *)
(* charged once and refunds are for the whole charge.  Prices, coupons,    *)
(* mail and the prize vouchers, which are redeemed as gift vouchers are,   *)
(* are left out, as are the limit on active accounts (off by default) and  *)
(* the Idempotency-Key, which IdempotencyClaims is about.  Every buyer was *)
(* referred, so a payment always earns a commission.                       *)
(***************************************************************************)
EXTENDS Integers, FiniteSets

CONSTANTS
  Orders, Sessions, Accounts, Requests, Workers, Null,
  SlotLimit,   \* challenge_model_pricing.slot_limit
  Gifts,       \* may orders be gifts
  Sources      \* how orders start: "stripe" to be paid, "free" by coupon

ASSUME OrdersAssumption ==
  /\ IsFiniteSet(Accounts)
  /\ SlotLimit \in Nat /\ Gifts \in BOOLEAN /\ Sources \subseteq {"stripe", "free"}
  /\ Null \notin Orders \cup Sessions \cup Accounts \cup Requests

VARIABLES
  order,      \* challenge_orders
  voucher,    \* gift_vouchers, by the order that bought them
  commission, \* affiliate_commissions, by the order that earned them
  account,    \* accounts
  checkout,   \* checkout sessions at Stripe
  posted,     \* the events Stripe has raised
  claimed,    \* stripe_events
  worker,     \* webhook deliveries being handled
  request,    \* POST /create and voucher redemptions
  rowLock, codeLock, slotLock

tables == <<order, voucher, commission, account>>
stripe == <<checkout, posted>>
locks  == <<rowLock, codeLock, slotLock>>
vars   == <<tables, stripe, claimed, worker, request, locks>>

Kinds  == {"completed", "expired", "refunded", "disputed"}
Events == Kinds \X Sessions   \* an event's id stands for what it is about

Ref == ({"session", "intent"} \X Sessions) \cup {<<"none", Null>>}
Order == [status : {"none", "pending", "paid", "cancelled", "refunded", "disputed"},
          gift : BOOLEAN, ref : Ref, stamp : Accounts \cup {Null},
          code : Orders \cup {Null}]
Account == [status : {"none", "active", "locked"}, order : Orders \cup {Null}]
Checkout == [order : Orders \cup {Null},
             status : {"none", "asked", "open", "captured", "expired"}]
Delivery == [event : Events \cup {Null}, order : Orders \cup {Null},
             stamp : Accounts \cup {Null}]
Job == [pc : {"idle", "lock", "slot", "insert", "stamp", "code", "redeem"},
        order : Orders \cup {Null}, acct : Accounts \cup {Null}]

NoOrder    == [status |-> "none", gift |-> FALSE, ref |-> <<"none", Null>>,
               stamp |-> Null, code |-> Null]
NoAccount  == [status |-> "none", order |-> Null]
NoCheckout == [order |-> Null, status |-> "none"]
NoDelivery == [event |-> Null, order |-> Null, stamp |-> Null]
NoJob      == [pc |-> "idle", order |-> Null, acct |-> Null]

Reversed == {"refunded", "disputed"}
-----------------------------------------------------------------------------
(* POST /orders and the checkout session. *)

(* A paid gift order issues its voucher in the same transaction. *)
VoucherFor(o, gift) ==
  IF gift /\ voucher[o] = "none" THEN [voucher EXCEPT ![o] = "issued"] ELSE voucher

PlaceOrder(o, gift, source) ==
  /\ order[o] = NoOrder
  /\ order' = [order EXCEPT ![o].gift = gift,
                 ![o].status = IF source = "free" THEN "paid" ELSE "pending"]
  /\ voucher' = IF source = "free" THEN VoucherFor(o, gift) ELSE voucher
  /\ UNCHANGED <<commission, account, stripe, claimed, worker, request, locks>>

(* The order's status is read, then Stripe is asked for a session, and only *)
(* then is the reference written: whatever has happened to the order since. *)
AskSession(s, o) ==
  /\ checkout[s] = NoCheckout
  /\ order[o].status \notin {"none", "paid"}
  /\ checkout' = [checkout EXCEPT ![s] = [order |-> o, status |-> "asked"]]
  /\ UNCHANGED <<tables, posted, claimed, worker, request, locks>>

OpenSession(s) ==
  LET o == checkout[s].order
  IN /\ checkout[s].status = "asked"
     /\ rowLock[o] = Null
     /\ checkout' = [checkout EXCEPT ![s].status = "open"]
     /\ order' = [order EXCEPT ![o].ref = <<"session", s>>]
     /\ UNCHANGED <<voucher, commission, account, posted, claimed, worker, request, locks>>
-----------------------------------------------------------------------------
(* Stripe. *)

Raise(s, from, to, kind) ==
  /\ checkout[s].status = from
  /\ <<kind, s>> \notin posted
  /\ checkout' = [checkout EXCEPT ![s].status = to]
  /\ posted' = posted \cup {<<kind, s>>}
  /\ UNCHANGED <<tables, claimed, worker, request, locks>>

Capture(s) == Raise(s, "open", "captured", "completed")
Expire(s)  == Raise(s, "open", "expired", "expired")
Refund(s)  == Raise(s, "captured", "captured", "refunded")
Dispute(s) == Raise(s, "captured", "captured", "disputed")
-----------------------------------------------------------------------------
(* The webhook. *)

(* Sessions carry our order id; charges are found by the reference. *)
OrdersOf(e) ==
  IF e[1] \in {"completed", "expired"} THEN {checkout[e[2]].order}
  ELSE {o \in Orders : order[o].ref = <<"intent", e[2]>>}

InHand(e) == \E w \in Workers : worker[w].event = e

(* The claim is won (a second delivery waits for the first on the unique   *)
(* index) and the order is read.                                           *)
Deliver(w, e) ==
  /\ worker[w] = NoDelivery /\ e \in posted \ claimed /\ ~InHand(e)
  /\ \E o \in OrdersOf(e) :
       worker' = [worker EXCEPT ![w] =
                    [event |-> e, order |-> o, stamp |-> order[o].stamp]]
  /\ UNCHANGED <<tables, stripe, claimed, request, locks>>

(* A reversal that resolves to no order is claimed and dropped. *)
DropUnresolved(w, e) ==
  /\ worker[w] = NoDelivery /\ e \in posted \ claimed /\ ~InHand(e)
  /\ OrdersOf(e) = {}
  /\ claimed' = claimed \cup {e}
  /\ UNCHANGED <<tables, stripe, worker, request, locks>>

Handles(w, kinds) ==
  /\ worker[w].event # Null /\ worker[w].event[1] \in kinds
  /\ rowLock[worker[w].order] = Null

CommitDelivery(w) ==
  /\ claimed' = claimed \cup {worker[w].event}
  /\ worker' = [worker EXCEPT ![w] = NoDelivery]
  /\ UNCHANGED <<stripe, request, locks>>

(* Fault: a redelivered or late capture pays a reversed order. *)
MarkPaidUnguarded(w) ==
  LET o == worker[w].order
  IN /\ Handles(w, {"completed"})
     /\ order' = [order EXCEPT ![o].status = "paid", ![o].ref = <<"intent", worker[w].event[2]>>]
     /\ voucher' = VoucherFor(o, order[o].gift)
     /\ commission' = [commission EXCEPT ![o] = IF @ = "none" THEN "earned" ELSE @]
     /\ UNCHANGED account
     /\ CommitDelivery(w)

(* markChallengeOrderPaid; a paid order may be paid again. *)
MarkPaid(w) ==
  LET o == worker[w].order
  IN /\ Handles(w, {"completed"})
     /\ IF order[o].status \in Reversed \cup {"cancelled"}
        THEN UNCHANGED tables
        ELSE /\ order' = [order EXCEPT ![o].status = "paid",
                                       ![o].ref = <<"intent", worker[w].event[2]>>]
             /\ voucher' = VoucherFor(o, order[o].gift)
             /\ commission' = [commission EXCEPT ![o] = IF @ = "none" THEN "earned" ELSE @]
             /\ UNCHANGED account
     /\ CommitDelivery(w)

(* handleSessionAbandoned. *)
Abandon(w) ==
  LET o == worker[w].order
  IN /\ Handles(w, {"expired"})
     /\ order' = [order EXCEPT ![o].status = IF @ = "pending" THEN "cancelled" ELSE @]
     /\ UNCHANGED <<voucher, commission, account>>
     /\ CommitDelivery(w)

(* freezeAccountsForOrder: the account stamped on the order when it was read. *)
Frozen(a) ==
  [b \in Accounts |-> IF b = a /\ account[b].status = "active"
                      THEN [account[b] EXCEPT !.status = "locked"] ELSE account[b]]

(* Fault: the last reversal wins. *)
ReverseAgain(w) ==
  LET o == worker[w].order
  IN /\ Handles(w, Reversed)
     /\ order' = [order EXCEPT ![o].status = worker[w].event[1]]
     /\ account' = Frozen(worker[w].stamp)
     /\ commission' = [commission EXCEPT ![o] = IF @ = "earned" THEN "clawedBack" ELSE @]
     /\ UNCHANGED voucher
     /\ CommitDelivery(w)

(* handleChargeReversal: the first reversal stays. *)
Reverse(w) ==
  LET o == worker[w].order
  IN /\ Handles(w, Reversed)
     /\ IF order[o].status \in Reversed
        THEN UNCHANGED tables
        ELSE /\ order' = [order EXCEPT ![o].status = worker[w].event[1]]
             /\ account' = Frozen(worker[w].stamp)
             /\ commission' = [commission EXCEPT ![o] = IF @ = "earned" THEN "clawedBack" ELSE @]
             /\ UNCHANGED voucher
     /\ CommitDelivery(w)

(* The handler throws or the process dies: Stripe delivers again. *)
DeliveryFails(w) ==
  /\ worker[w] # NoDelivery
  /\ worker' = [worker EXCEPT ![w] = NoDelivery]
  /\ UNCHANGED <<tables, stripe, claimed, request, locks>>
-----------------------------------------------------------------------------
(* POST /create. *)

Become(r, pc, o) == request' = [request EXCEPT ![r] = [NoJob EXCEPT !.pc = pc, !.order = o]]

Release(r) ==
  /\ rowLock' = [o \in Orders |-> IF rowLock[o] = r THEN Null ELSE rowLock[o]]
  /\ codeLock' = [o \in Orders |-> IF codeLock[o] = r THEN Null ELSE codeLock[o]]
  /\ slotLock' = IF slotLock = r THEN Null ELSE slotLock

(* Fault: a refused request returns without ROLLBACK. *)
GiveUpHoldingLocks(r) ==
  /\ request' = [request EXCEPT ![r] = NoJob]
  /\ UNCHANGED <<tables, stripe, claimed, worker, locks>>

GiveUp(r) ==
  /\ Release(r)
  /\ request' = [request EXCEPT ![r] = NoJob]
  /\ UNCHANGED <<tables, stripe, claimed, worker>>

RequestAccount(r, o) ==
  /\ request[r] = NoJob /\ order[o] # NoOrder
  /\ Become(r, "lock", o)
  /\ UNCHANGED <<tables, stripe, claimed, worker, locks>>

(* Fault: the order is read without FOR UPDATE. *)
LockOrderUnlocked(r) ==
  LET o == request[r].order
  IN /\ request[r].pc = "lock" /\ order[o].status = "paid"
     /\ Become(r, "slot", o)
     /\ UNCHANGED <<tables, stripe, claimed, worker, locks>>

LockOrder(r) ==
  LET o == request[r].order
  IN /\ request[r].pc = "lock" /\ rowLock[o] = Null
     /\ order[o].status = "paid"
     /\ rowLock' = [rowLock EXCEPT ![o] = r]
     /\ Become(r, "slot", o)
     /\ UNCHANGED <<tables, stripe, claimed, worker, codeLock, slotLock>>

RefuseUnpaid(r) ==
  LET o == request[r].order
  IN request[r].pc = "lock" /\ rowLock[o] = Null /\ order[o].status # "paid" /\ GiveUp(r)

Used == {a \in Accounts : account[a].status # "none"}

(* Fault: the slots are counted without the advisory lock. *)
CheckSlotUnlocked(r) ==
  /\ request[r].pc = "slot"
  /\ Cardinality(Used) < SlotLimit
  /\ Become(r, "insert", request[r].order)
  /\ UNCHANGED <<tables, stripe, claimed, worker, locks>>

(* assertSlotAvailable under its advisory lock, held to COMMIT. *)
CheckSlot(r) ==
  /\ request[r].pc = "slot" /\ slotLock = Null
  /\ Cardinality(Used) < SlotLimit
  /\ slotLock' = r
  /\ Become(r, "insert", request[r].order)
  /\ UNCHANGED <<tables, stripe, claimed, worker, rowLock, codeLock>>

RefuseFull(r) ==
  /\ request[r].pc = "slot" /\ slotLock = Null
  /\ Cardinality(Used) >= SlotLimit /\ GiveUp(r)

CreateAccount(r, a) ==
  /\ request[r].pc = "insert" /\ account[a] = NoAccount
  /\ account' = [account EXCEPT ![a] = [status |-> "active", order |-> request[r].order]]
  /\ Release(r)
  /\ request' = [request EXCEPT ![r].pc = "stamp", ![r].acct = a]
  /\ UNCHANGED <<order, voucher, commission, stripe, claimed, worker>>

(* After COMMIT, on another connection; a failure is only logged. *)
StampOrder(r) ==
  LET o == request[r].order
  IN /\ request[r].pc = "stamp" /\ rowLock[o] = Null
     /\ order' = [order EXCEPT ![o].stamp = request[r].acct]
     /\ request' = [request EXCEPT ![r] = NoJob]
     /\ UNCHANGED <<voucher, commission, account, stripe, claimed, worker, locks>>

(* The connection is lost or the process dies: ROLLBACK, or no stamp. *)
RequestFails(r) == request[r] # NoJob /\ GiveUp(r)
-----------------------------------------------------------------------------
(* POST /orders with a voucher code: redeemGiftVoucher. *)

RequestRedemption(r, o) ==
  /\ request[r] = NoJob /\ voucher[o] # "none"
  /\ Become(r, "code", o)
  /\ UNCHANGED <<tables, stripe, claimed, worker, locks>>

(* Fault: neither the advisory lock nor FOR UPDATE. *)
LockVoucherUnlocked(r) ==
  LET o == request[r].order
  IN /\ request[r].pc = "code" /\ voucher[o] = "issued"
     /\ Become(r, "redeem", o)
     /\ UNCHANGED <<tables, stripe, claimed, worker, locks>>

LockVoucher(r) ==
  LET o == request[r].order
  IN /\ request[r].pc = "code" /\ codeLock[o] = Null
     /\ voucher[o] = "issued"
     /\ codeLock' = [codeLock EXCEPT ![o] = r]
     /\ Become(r, "redeem", o)
     /\ UNCHANGED <<tables, stripe, claimed, worker, rowLock, slotLock>>

RefuseVoucher(r) ==
  LET o == request[r].order
  IN request[r].pc = "code" /\ codeLock[o] = Null /\ voucher[o] # "issued" /\ GiveUp(r)

Redeem(r, new) ==
  LET o == request[r].order
  IN /\ request[r].pc = "redeem" /\ order[new] = NoOrder
     /\ order' = [order EXCEPT ![new].status = "paid", ![new].code = o]
     /\ voucher' = [voucher EXCEPT ![o] = "claimed"]
     /\ Release(r)
     /\ request' = [request EXCEPT ![r] = NoJob]
     /\ UNCHANGED <<commission, account, stripe, claimed, worker>>
-----------------------------------------------------------------------------
Init ==
  /\ order = [o \in Orders |-> NoOrder]
  /\ voucher = [o \in Orders |-> "none"] /\ commission = [o \in Orders |-> "none"]
  /\ account = [a \in Accounts |-> NoAccount]
  /\ checkout = [s \in Sessions |-> NoCheckout] /\ posted = {} /\ claimed = {}
  /\ worker = [w \in Workers |-> NoDelivery] /\ request = [r \in Requests |-> NoJob]
  /\ rowLock = [o \in Orders |-> Null] /\ codeLock = [o \in Orders |-> Null]
  /\ slotLock = Null

Buy ==
  \/ \E o \in Orders, gift \in {FALSE, Gifts}, source \in Sources : PlaceOrder(o, gift, source)
  \/ \E s \in Sessions : OpenSession(s) \/ \E o \in Orders : AskSession(s, o)

Charge == \E s \in Sessions : Capture(s) \/ Expire(s) \/ Refund(s) \/ Dispute(s)

Handle(w) == MarkPaid(w) \/ Abandon(w) \/ Reverse(w)

Webhook(w) ==
  \/ \E e \in Events : Deliver(w, e) \/ DropUnresolved(w, e)
  \/ Handle(w) \/ DeliveryFails(w)

Create(r) ==
  \/ LockOrder(r) \/ RefuseUnpaid(r) \/ CheckSlot(r) \/ RefuseFull(r)
  \/ StampOrder(r) \/ \E a \in Accounts : CreateAccount(r, a)

Redemption(r) ==
  \/ LockVoucher(r) \/ RefuseVoucher(r)
  \/ \E o \in Orders : Redeem(r, o)

Ask(r) == \E o \in Orders : RequestAccount(r, o) \/ RequestRedemption(r, o)

Next ==
  \/ Buy \/ Charge
  \/ \E w \in Workers : Webhook(w)
  \/ \E r \in Requests : Ask(r) \/ Create(r) \/ Redemption(r) \/ RequestFails(r)

Spec == Init /\ [][Next]_vars

(* Stripe retries a delivery that was not acknowledged, Postgres serves who *)
(* waits for a row lock, and deliveries do not fail for ever.               *)
FairSpec ==
  /\ Spec
  /\ \A r \in Requests : WF_vars(Create(r)) /\ WF_vars(Redemption(r))
  /\ \A w \in Workers : SF_vars(Handle(w))
  /\ WF_vars(\E w \in Workers, e \in Events : Deliver(w, e) \/ DropUnresolved(w, e))
  /\ <>[][\A w \in Workers : ~DeliveryFails(w)]_vars
-----------------------------------------------------------------------------
(* Properties. *)

(* Every table keeps its shape. *)
TypeOK ==
  /\ order \in [Orders -> Order] /\ account \in [Accounts -> Account]
  /\ voucher \in [Orders -> {"none", "issued", "claimed"}]
  /\ commission \in [Orders -> {"none", "earned", "clawedBack"}]
  /\ checkout \in [Sessions -> Checkout]
  /\ posted \subseteq Events /\ claimed \subseteq posted
  /\ worker \in [Workers -> Delivery] /\ request \in [Requests -> Job]
  /\ rowLock \in [Orders -> Requests \cup {Null}]
  /\ codeLock \in [Orders -> Requests \cup {Null}]
  /\ slotLock \in Requests \cup {Null}

(* The first reversal of an order stands, whatever Stripe delivers later    *)
(* and in whatever order (billing.js:452).                                  *)
ReversalFinal == [][\A o \in Orders :
  order[o].status \in Reversed => order'[o].status = order[o].status]_vars

(* An affiliate keeps no commission on an order whose money went back, and  *)
(* earns none on an order that was not paid.                                *)
CommissionFollowsMoney == \A o \in Orders :
  /\ commission[o] = "earned" => order[o].status = "paid"
  /\ commission[o] = "clawedBack" => order[o].status \in Reversed

(* An account is created only while its order is paid, also when a reversal *)
(* is handled at the same time.                                             *)
CreatedWhilePaid == [][\A a \in Accounts :
  account[a] = NoAccount /\ account'[a] # NoAccount =>
    order'[account'[a].order].status = "paid"]_vars

(* Requests racing for the last slot do not oversell it (stepModels.js:354). *)
SlotsRespected == Cardinality(Used) <= SlotLimit

(* A gift code becomes one order, and only when it is marked claimed. *)
VoucherBuysOnce == \A o \in Orders :
  Cardinality({n \in Orders : order[n].code = o}) = IF voucher[o] = "claimed" THEN 1 ELSE 0

(* Every event Stripe raises is handled, whoever else uses the order: again *)
(* and again nothing is left to deliver.                                    *)
EventsHandled == []<>(claimed = posted)

(* billing.js:404: reversing an order freezes every account issued from it. *)
ReversedAreFrozen == \A a \in Accounts :
  account[a].status = "active" => order[account[a].order].status \notin Reversed

(* billing.js:418: an order leads to the account it bought. *)
OneAccountPerOrder == \A o \in Orders :
  Cardinality({a \in Accounts : account[a].order = o}) <= 1

(* billing.js:500: an order whose payment was captured and handled is not   *)
(* abandoned.                                                               *)
PaidNotCancelled == \A s \in Sessions :
  <<"completed", s>> \in claimed => order[checkout[s].order].status # "cancelled"

(* billing.js:250: once refund and payment of an order are both handled it  *)
(* does not count as paid.                                                  *)
RefundRecorded == \A s \in Sessions :
  {<<"completed", s>>, <<"refunded", s>>} \subseteq claimed =>
     order[checkout[s].order].status # "paid"
=============================================================================
