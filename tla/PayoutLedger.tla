---------------------------- MODULE PayoutLedger ----------------------------
(***************************************************************************)
(* What the payout subsystem promises.  A request is answered once, and    *)
(* the answer is final.  It is paid only when, at that moment, the account *)
(* may trade, has no exposure and still has the profit, after an approver  *)
(* found the user's KYC approved; at or above the dual-control limit the   *)
(* row names two different admins, the second being the one who pays.  The *)
(* amount leaves the account in that step and in no other.                 *)
(* Payouts.tla is the code.                                                *)
(***************************************************************************)
EXTENDS Integers

CONSTANTS Accounts, Payouts, Admins, Null, Amounts

VARIABLES
  account,   \* the accounts: active, busy (exposure) and profit
  kyc,       \* is the KYC of the account's user approved
  request,   \* the requests and their answers
  limit,     \* the amount from which two admins are needed, or Null
  withdrawn, \* what has left the accounts on behalf of each request
  vetted     \* the requests an approver has in hand, KYC found approved

ledger == <<account, kyc, request, limit, withdrawn, vetted>>

NoRequest == [status |-> "none", acct |-> Null, amount |-> 0,
              first |-> Null, second |-> Null]

OpenFor(a) == {p \in Payouts : request[p].status = "pending" /\ request[p].acct = a}
NeedsTwo(p) == limit # Null /\ request[p].amount >= limit
Funds(a, n) == account[a].active /\ ~account[a].busy /\ n <= account[a].profit

Init ==
  /\ request = [p \in Payouts |-> NoRequest]
  /\ withdrawn = [p \in Payouts |-> 0]
  /\ vetted = {}

Ask(p, a, n) ==
  /\ request[p] = NoRequest /\ OpenFor(a) = {} /\ Funds(a, n)
  /\ request' = [request EXCEPT
       ![p] = [NoRequest EXCEPT !.status = "pending", !.acct = a, !.amount = n]]
  /\ UNCHANGED <<account, kyc, limit, withdrawn, vetted>>

(* An approver takes the request in hand, and puts it back undecided. *)
Vet(p) ==
  /\ request[p].status = "pending" /\ kyc[request[p].acct]
  /\ p \notin vetted /\ vetted' = vetted \cup {p}
  /\ UNCHANGED <<account, kyc, request, limit, withdrawn>>

Lapse(p) ==
  /\ p \in vetted /\ vetted' = vetted \ {p}
  /\ UNCHANGED <<account, kyc, request, limit, withdrawn>>

Approvable(p) ==
  /\ request[p].status = "pending" /\ p \in vetted
  /\ Funds(request[p].acct, request[p].amount)

Endorse(p, x) ==
  /\ Approvable(p) /\ NeedsTwo(p) /\ request[p].first = Null
  /\ request' = [request EXCEPT ![p].first = x]
  /\ vetted' = vetted \ {p}
  /\ UNCHANGED <<account, kyc, limit, withdrawn>>

Pay(p, x) ==
  /\ Approvable(p)
  /\ NeedsTwo(p) => request[p].first \notin {Null, x}
  /\ request' = [request EXCEPT ![p].status = "paid",
                                ![p].second = IF NeedsTwo(p) THEN x ELSE @]
  /\ account' = [account EXCEPT ![request[p].acct].profit = @ - request[p].amount]
  /\ withdrawn' = [withdrawn EXCEPT ![p] = request[p].amount]
  /\ vetted' = vetted \ {p}
  /\ UNCHANGED <<kyc, limit>>

Refuse(p) ==
  /\ request[p].status = "pending" /\ p \notin vetted
  /\ request' = [request EXCEPT ![p].status = "rejected"]
  /\ UNCHANGED <<account, kyc, limit, withdrawn, vetted>>

(* Trading, the KYC desk and the operator do as they like. *)
World == UNCHANGED <<request, withdrawn, vetted>>

Next ==
  \/ \E p \in Payouts :
       \/ \E a \in Accounts, n \in Amounts : Ask(p, a, n)
       \/ Vet(p) \/ Lapse(p) \/ Refuse(p)
       \/ \E x \in Admins : Endorse(p, x) \/ Pay(p, x)
  \/ World

Spec == Init /\ [][Next]_ledger
=============================================================================
