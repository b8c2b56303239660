----------------------------- MODULE Withdrawal -----------------------------
(***************************************************************************)
(* How money leaves the wallet of a store, as in                           *)
(* src/backend/src/payments/withdrawal-workflow.service.ts and the manual  *)
(* payout of payments.service.ts.  A request holds its amount in the       *)
(* frozen balance, an administrator approves it and later completes it:    *)
(* the debts of the store are settled from it, oldest first, and what is   *)
(* left goes to the store through Stripe or its bank.                      *)
(*                                                                         *)
(* A worker is an HTTP request.  Each of its steps is a transaction, a     *)
(* statement outside a transaction or a call of Stripe, and what it read   *)
(* before may be out of date.  overtaken is a history variable: the kinds  *)
(* of step that were taken on something that was not so any more.          *)
(***************************************************************************)
EXTENDS Integers, FiniteSetsExt

CONSTANTS
    Workers,
    Requests,     \* withdrawal requests the store may ever make
    NoRequest,
    Lines,        \* debts of the store, numbered by age
    Amount,       \* of each request
    DueAtFirst,   \* the debts it starts with
    Debt,         \* of each line
    Method,       \* payoutMethod of each request
    Initial,      \* the available balance at first
    CaseAmount,   \* what a return or a dispute freezes
    PayoutAmount, \* of a manual payout
    MaxPayouts,   \* bound: manual payouts
    MaxFaults     \* bound: requests cut off, errors and lost answers

ASSUME WithdrawalAssumption ==
    /\ IsFiniteSet(Workers)
    /\ IsFiniteSet(Requests) /\ NoRequest \notin Requests
    /\ IsFiniteSet(Lines) /\ Lines \subseteq Nat
    /\ DueAtFirst \subseteq Lines
    /\ Amount \in [Requests -> Nat \ {0}]
    /\ Debt \in [Lines -> Nat \ {0}]
    /\ Method \in [Requests -> {"STRIPE", "BANK_TRANSFER"}]
    /\ {Initial, CaseAmount, PayoutAmount, MaxPayouts, MaxFaults} \subseteq Nat
    /\ PayoutAmount > 0

VARIABLES
    available, \* stores.balance
    frozen,    \* stores.frozenBalance: the holds of requests and of cases
    onCase,    \* what open cases hold of it
    line,      \* each debt: not yet made, due or paid
    lineRows,  \* wallet rows that settle each debt
    status,    \* withdrawal_requests.status
    marker,    \* withdrawal_requests.stripeTransferId: null, pending_ or tr_
    row,       \* the withdrawal row of the wallet, 0 when there is none
    debits,    \* history: how often a request was burnt from the frozen balance
    transfer,  \* Stripe: the transfer made under the key of a request, or 0
    sent,      \* Stripe: the money of manual payouts
    out,       \* what has left the account
    payouts,   \* manual payouts so far
    req,       \* what each worker is at and what it has read
    overtaken,
    faults

balances == <<available, frozen, onCase, out>>
ledger   == <<line, lineRows, row, debits>>
request  == <<status, marker>>
stripe   == <<transfer, sent>>
vars == <<balances, ledger, request, stripe, payouts, req, overtaken, faults>>

Statuses == {"none", "PENDING", "PROCESSING", "COMPLETED", "REJECTED", "CANCELLED"}
Steps == {"idle", "approve", "reject", "cancel",
          "claim", "hold", "send", "store", "ledger",
          "payout", "sendPayout", "reverse"}
Kinds == {"decision", "plan", "hold", "reset", "reverse"}

Idle == [at |-> "idle", for |-> NoRequest, settles |-> {}, known |-> FALSE]

Init ==
    /\ available = Initial
    /\ frozen = 0
    /\ onCase = 0
    /\ line = [l \in Lines |-> IF l \in DueAtFirst THEN "due" ELSE "none"]
    /\ lineRows = [l \in Lines |-> 0]
    /\ status = [r \in Requests |-> "none"]
    /\ marker = [r \in Requests |-> "none"]
    /\ row = [r \in Requests |-> 0]
    /\ debits = [r \in Requests |-> 0]
    /\ transfer = [r \in Requests |-> 0]
    /\ sent = 0
    /\ out = 0
    /\ payouts = 0
    /\ req = [w \in Workers |-> Idle]
    /\ overtaken = {}
    /\ faults = 0

Fault == faults < MaxFaults /\ faults' = faults + 1
Goto(w, step) == req' = [req EXCEPT ![w].at = step]
Leave(w) == req' = [req EXCEPT ![w] = Idle]
Note(kind, happened) == overtaken' = IF happened THEN overtaken \cup {kind} ELSE overtaken

-----------------------------------------------------------------------------
(* Debts: loadStorePendingLiabilities and allocateLiabilitySettlement.      *)

\* The sum of f over the rows of S.
Total(f, S) == MapThenSumSet(LAMBDA x : f[x], S)
Owed(S) == Total(Debt, S)

Due == {l \in Lines : line[l] = "due"}

\* The oldest debts an amount pays in full; the first it does not ends the list.
Settled(amount) == {l \in Due : Owed({k \in Due : k <= l}) <= amount}

\* assertWithdrawalSettlesLiabilitiesOrThrow
Payable(amount) == Due # {} => Settled(amount) # {}

\* Lines are marked and a row is written for each, by id.
SettleLines(S) ==
    /\ line' = [l \in Lines |-> IF l \in S THEN "paid" ELSE line[l]]
    /\ lineRows' = [l \in Lines |-> IF l \in S THEN lineRows[l] + 1 ELSE lineRows[l]]

Settle_due(w) == SettleLines(Due)
Settle(w) == SettleLines(req[w].settles)

\* A verdict charges the store; the fee may also be paid from elsewhere.
Charge(l) ==
    /\ line[l] = "none"
    /\ line' = [line EXCEPT ![l] = "due"]
    /\ UNCHANGED <<balances, lineRows, row, debits, request, stripe, payouts, req, overtaken, faults>>

PayElsewhere(l) ==
    /\ line[l] = "due"
    /\ line' = [line EXCEPT ![l] = "paid"]
    /\ UNCHANGED <<balances, lineRows, row, debits, request, stripe, payouts, req, overtaken, faults>>

\* The escrow of a part is frozen for a case and leaves the frozen balance with it.
FreezeCase ==
    /\ onCase = 0
    /\ CaseAmount > 0
    /\ onCase' = CaseAmount
    /\ frozen' = frozen + CaseAmount
    /\ UNCHANGED <<available, out, ledger, request, stripe, payouts, req, overtaken, faults>>

ThawCase ==
    /\ onCase > 0
    /\ onCase' = 0
    /\ frozen' = frozen - onCase
    /\ UNCHANGED <<available, out, ledger, request, stripe, payouts, req, overtaken, faults>>

-----------------------------------------------------------------------------
(* The request and its hold.                                                *)

Active == {r \in Requests : status[r] \in {"PENDING", "PROCESSING"}}

\* unholdBalance
Releasable(amount) == IF frozen <= 0 THEN 0 ELSE IF frozen < amount THEN frozen ELSE amount

Unhold_full(amount) ==
    /\ available' = available + amount
    /\ frozen' = frozen - Releasable(amount)
    /\ UNCHANGED <<onCase, out>>
Unhold(amount) ==
    /\ available' = available + Releasable(amount)
    /\ frozen' = frozen - Releasable(amount)
    /\ UNCHANGED <<onCase, out>>

\* holdTopUp
TopUp(amount) == IF frozen >= amount THEN 0 ELSE amount - frozen
Fundable_always(amount) == TRUE
Fundable(amount) == TopUp(amount) <= available

\* The transaction repeats the checks under the lock of the store.
Withdrawable(amount) == amount <= available /\ amount <= available - Owed(Due)
NoneActive_pending == \A r \in Requests : status[r] # "PENDING"
NoneActive == Active = {}

Request(r) ==
    /\ status[r] = "none"
    /\ Withdrawable(Amount[r])
    /\ NoneActive
    /\ status' = [status EXCEPT ![r] = "PENDING"]
    /\ available' = available - Amount[r]
    /\ frozen' = frozen + Amount[r]
    /\ UNCHANGED <<onCase, out, ledger, marker, stripe, payouts, req, overtaken, faults>>

\* An administrator or the merchant acts on a pending request ...
StartDecision(w, r, step) ==
    /\ req[w] = Idle
    /\ status[r] = "PENDING"
    /\ req' = [req EXCEPT ![w] = [Idle EXCEPT !.at = step, !.for = r]]
    /\ UNCHANGED <<balances, ledger, request, stripe, payouts, overtaken, faults>>

\* ... and the transaction writes by id, without another look at the status.
Moved(r) == status[r] # "PENDING"

Approve(w) ==
    LET r == req[w].for
    IN  /\ req[w].at = "approve"
        /\ status' = [status EXCEPT ![r] = "PROCESSING"]
        /\ Note("decision", Moved(r))
        /\ Leave(w)
        /\ UNCHANGED <<balances, ledger, marker, stripe, payouts, faults>>

Reject(w) ==
    LET r == req[w].for
    IN  /\ req[w].at = "reject"
        /\ Unhold(Amount[r])
        /\ status' = [status EXCEPT ![r] = "REJECTED"]
        /\ Note("decision", Moved(r))
        /\ Leave(w)
        /\ UNCHANGED <<ledger, marker, stripe, payouts, faults>>

Cancel(w) ==
    LET r == req[w].for
    IN  /\ req[w].at = "cancel"
        /\ Unhold(Amount[r])
        /\ status' = [status EXCEPT ![r] = "CANCELLED"]
        /\ Note("decision", Moved(r))
        /\ Leave(w)
        /\ UNCHANGED <<ledger, marker, stripe, payouts, faults>>

\* An approved request is given up unless a transfer has begun; the row is
\* locked and both are tested again.
Movement_id(r) == marker[r] = "tr"
Movement(r) == marker[r] \in {"pending", "tr"}

Release(r) ==
    /\ status[r] = "PROCESSING"
    /\ ~Movement(r)
    /\ Unhold(Amount[r])
    /\ status' = [status EXCEPT ![r] = "REJECTED"]
    /\ UNCHANGED <<ledger, marker, stripe, payouts, req, overtaken, faults>>

-----------------------------------------------------------------------------
(* Completion: the plan, the claim, the hold, Stripe, its id, the ledger.   *)

Net(w) == Amount[req[w].for] - Owed(req[w].settles)

\* A transfer whose id is stored is not made again; a claim is not a transfer.
Known_claim(r) == marker[r] # "none"
Known(r) == marker[r] = "tr"

\* What is read before the first write.  The map of recent keys is in the memory
\* of one process and per administrator: it delays a repetition, no more.
StartComplete(w, r) ==
    LET S == Settled(Amount[r])
        net == Amount[r] - Owed(S)
        known == Method[r] = "STRIPE" /\ Known(r)
        calls == Method[r] = "STRIPE" /\ net > 0 /\ ~known
    IN  /\ req[w] = Idle
        /\ status[r] = "PROCESSING"
        /\ Payable(Amount[r])
        /\ net > 0 \/ S = Due
        /\ req' = [req EXCEPT ![w] = [at |-> IF calls THEN "claim" ELSE "ledger",
                                      for |-> r, settles |-> S, known |-> known]]
        /\ UNCHANGED <<balances, ledger, request, stripe, payouts, overtaken, faults>>

Claimable(r) == status[r] = "PROCESSING" /\ marker[r] = "none"

\* A lost claim goes on with the id, or with the same key at Stripe.
Claim(w) ==
    LET r == req[w].for
    IN  /\ req[w].at = "claim"
        /\ \/ /\ Claimable(r)
              /\ marker' = [marker EXCEPT ![r] = "pending"]
              /\ Goto(w, "hold")
           \/ /\ ~Claimable(r)
              /\ \/ /\ status[r] # "COMPLETED" /\ marker[r] = "tr"
                    /\ req' = [req EXCEPT ![w].at = "ledger", ![w].known = TRUE]
                 \/ status[r] # "COMPLETED" /\ marker[r] = "pending" /\ Goto(w, "hold")
                 \/ (status[r] = "COMPLETED" \/ marker[r] = "none") /\ Leave(w)
              /\ UNCHANGED marker
        /\ UNCHANGED <<balances, ledger, status, stripe, payouts, overtaken, faults>>

\* The catch block gives the claim back, also when another request relies on it
\* or when Stripe has made the transfer.
Relies(w, r) == req[w].for = r /\ req[w].at \in {"hold", "send", "store"}

ClaimBack(w, r, made) ==
    /\ marker' = IF marker[r] = "pending" THEN [marker EXCEPT ![r] = "none"] ELSE marker
    /\ Note("reset", made > 0 \/ \E v \in Workers \ {w} : Relies(v, r))

\* ensureHeldForCompletion, which does not look at the request.
Raise(amount) ==
    /\ available' = available - TopUp(amount)
    /\ frozen' = frozen + TopUp(amount)
    /\ UNCHANGED <<onCase, out>>

Hold(w) ==
    LET r == req[w].for
    IN  /\ req[w].at = "hold"
        /\ \/ /\ Fundable(Amount[r])
              /\ Raise(Amount[r])
              /\ Note("hold", status[r] # "PROCESSING")
              /\ Goto(w, "send")
              /\ UNCHANGED marker
           \/ /\ ~Fundable(Amount[r])
              /\ ClaimBack(w, r, transfer[r])
              /\ Leave(w)
              /\ UNCHANGED balances
        /\ UNCHANGED <<ledger, status, stripe, payouts, faults>>

\* One key, one transfer: Stripe answers a repetition with the transfer it made
\* and refuses another amount under the same key.
Key(r) == transfer[r]
Accepts(w) == Key(req[w].for) \in {0, Net(w)}

Send(w) ==
    LET r == req[w].for
        made == [transfer EXCEPT ![r] = Net(w)]
    IN  /\ req[w].at = "send"
        /\ \/ /\ Accepts(w)
              /\ transfer' = made
              /\ Note("plan", debits[r] > 0 /\ transfer[r] = 0)
              /\ Goto(w, "store")
              /\ UNCHANGED <<marker, faults>>
           \/ /\ IF Accepts(w) THEN Fault ELSE UNCHANGED faults
              /\ \/ UNCHANGED transfer
                 \/ Accepts(w) /\ transfer' = made
              /\ ClaimBack(w, r, transfer'[r])
              /\ Leave(w)
        /\ UNCHANGED <<balances, ledger, status, sent, payouts>>

\* The id is stored by id of the row; if that fails the catch block tries again.
Store(w) ==
    LET r == req[w].for
    IN  /\ req[w].at = "store"
        /\ \/ /\ marker' = [marker EXCEPT ![r] = "tr"]
              /\ req' = [req EXCEPT ![w].at = "ledger", ![w].known = TRUE]
              /\ UNCHANGED faults
           \/ /\ Fault
              /\ \/ UNCHANGED marker
                 \/ marker[r] = "pending" /\ marker' = [marker EXCEPT ![r] = "tr"]
              /\ Leave(w)
        /\ UNCHANGED <<balances, ledger, status, stripe, payouts, overtaken>>

\* The transaction under the lock of the request.
Completable_any(r) == TRUE
Completable(r) == status[r] = "PROCESSING"
Debited(r) == row[r] > 0

Burn_available(amount) ==
    /\ available' = available - amount
    /\ out' = out + amount
    /\ UNCHANGED <<frozen, onCase>>
Burn(amount) ==
    /\ available' = available - TopUp(amount)
    /\ frozen' = frozen + TopUp(amount) - amount
    /\ out' = out + amount
    /\ UNCHANGED onCase

MarkCompleted_legacy(w, r) ==
    /\ status' = [status EXCEPT ![r] = "TRANSFERRED"]
    /\ marker' = [marker EXCEPT ![r] = IF req[w].known THEN "tr" ELSE "none"]
MarkCompleted(w, r) ==
    /\ status' = [status EXCEPT ![r] = "COMPLETED"]
    /\ marker' = [marker EXCEPT ![r] = IF req[w].known THEN "tr" ELSE "none"]

\* The debts of the plan are not due any more, or Stripe has sent something else.
StalePlan(S) == \E l \in S : line[l] # "due"
SentOtherwise(w, r) == Method[r] = "STRIPE" /\ transfer[r] # Net(w)

Record(w) ==
    LET r == req[w].for
    IN  /\ req[w].at = "ledger"
        /\ Completable(r)
        /\ ~Debited(r)
        /\ Fundable(Amount[r])
        /\ Burn(Amount[r])
        /\ debits' = [debits EXCEPT ![r] = @ + 1]
        /\ Settle(w)
        /\ row' = [row EXCEPT ![r] = Net(w)]
        /\ MarkCompleted(w, r)
        /\ Note("plan", StalePlan(req[w].settles) \/ SentOtherwise(w, r))
        /\ Leave(w)
        /\ UNCHANGED <<stripe, payouts, faults>>

\* Debited before: only the status is written.
Close(w) ==
    LET r == req[w].for
    IN  /\ req[w].at = "ledger"
        /\ Completable(r)
        /\ Debited(r)
        /\ MarkCompleted(w, r)
        /\ Leave(w)
        /\ UNCHANGED <<balances, ledger, stripe, payouts, overtaken, faults>>

GiveUp(w) ==
    LET r == req[w].for
    IN  /\ req[w].at = "ledger"
        /\ ~Completable(r) \/ (~Debited(r) /\ ~Fundable(Amount[r]))
        /\ Leave(w)
        /\ UNCHANGED <<balances, ledger, request, stripe, payouts, overtaken, faults>>

\* transfer.created and transfer.paid; every write repeats its condition.
TransferEvent(r) ==
    /\ transfer[r] > 0
    /\ status[r] = "PROCESSING"
    /\ \/ Debited(r) /\ status' = [status EXCEPT ![r] = "COMPLETED"]
       \/ ~Debited(r) /\ UNCHANGED status
    /\ marker' = [marker EXCEPT ![r] = "tr"]
    /\ UNCHANGED <<balances, ledger, stripe, payouts, req, overtaken, faults>>

-----------------------------------------------------------------------------
(* The manual payout: debited first, then transferred unless it goes through *)
(* the bank, and credited again on failure.                                 *)

PayoutNet(w) == PayoutAmount - Owed(req[w].settles)

StartPayout(w) ==
    /\ req[w] = Idle
    /\ payouts < MaxPayouts
    /\ Active = {}
    /\ Payable(PayoutAmount)
    /\ Withdrawable(PayoutAmount)
    /\ req' = [req EXCEPT ![w] = [Idle EXCEPT !.at = "payout", !.settles = Settled(PayoutAmount)]]
    /\ payouts' = payouts + 1
    /\ UNCHANGED <<balances, ledger, request, stripe, overtaken, faults>>

Payout(w) ==
    /\ req[w].at = "payout"
    /\ \/ /\ PayoutAmount <= available
          /\ available' = available - PayoutAmount
          /\ out' = out + PayoutAmount
          /\ Settle(w)
          /\ Note("plan", StalePlan(req[w].settles))
          /\ \/ PayoutNet(w) > 0 /\ Goto(w, "sendPayout")
             \/ Leave(w)
       \/ /\ PayoutAmount > available
          /\ Leave(w)
          /\ UNCHANGED <<available, out, line, lineRows, overtaken>>
    /\ UNCHANGED <<frozen, onCase, row, debits, request, stripe, payouts, faults>>

\* The transfer, and its id in the wallet row: an error of either is "Stripe failed".
SendPayout(w) ==
    /\ req[w].at = "sendPayout"
    /\ \/ /\ sent' = sent + PayoutNet(w)
          /\ Leave(w)
          /\ UNCHANGED faults
       \/ /\ Fault
          /\ \/ UNCHANGED sent /\ Goto(w, "reverse")
             \/ /\ sent' = sent + PayoutNet(w)
                /\ req' = [req EXCEPT ![w].at = "reverse", ![w].known = TRUE]
    /\ UNCHANGED <<balances, ledger, request, transfer, payouts, overtaken>>

\* The whole amount comes back; the debts stay paid.
Reverse(w) ==
    /\ req[w].at = "reverse"
    /\ available' = available + PayoutAmount
    /\ out' = out - PayoutAmount
    /\ Note("reverse", req[w].known \/ req[w].settles # {})
    /\ Leave(w)
    /\ UNCHANGED <<frozen, onCase, ledger, request, stripe, payouts, faults>>

-----------------------------------------------------------------------------
\* A request is cut off: what it has committed stays.
Crash(w) ==
    /\ req[w] # Idle
    /\ Fault
    /\ Leave(w)
    /\ UNCHANGED <<balances, ledger, request, stripe, payouts, overtaken>>

Decide(w) == Approve(w) \/ Reject(w) \/ Cancel(w)
Finish(w) == Record(w) \/ Close(w) \/ GiveUp(w)

Next ==
    \/ \E r \in Requests : Request(r) \/ Release(r) \/ TransferEvent(r)
    \/ \E l \in Lines : Charge(l) \/ PayElsewhere(l)
    \/ FreezeCase \/ ThawCase
    \/ \E w \in Workers, r \in Requests :
        \/ \E step \in {"approve", "reject", "cancel"} : StartDecision(w, r, step)
        \/ StartComplete(w, r)
    \/ \E w \in Workers :
        \/ Decide(w)
        \/ Claim(w) \/ Hold(w) \/ Send(w) \/ Store(w) \/ Finish(w)
        \/ StartPayout(w) \/ Payout(w) \/ SendPayout(w) \/ Reverse(w)
        \/ Crash(w)

Spec == Init /\ [][Next]_vars

-----------------------------------------------------------------------------
\* The types of the rows and of the requests in flight.
TypeOK ==
    /\ {available, frozen, out, sent} \subseteq Int
    /\ {onCase, payouts, faults} \subseteq Nat
    /\ line \in [Lines -> {"none", "due", "paid"}]
    /\ lineRows \in [Lines -> Nat]
    /\ status \in [Requests -> Statuses]
    /\ marker \in [Requests -> {"none", "pending", "tr"}]
    /\ row \in [Requests -> Int]
    /\ debits \in [Requests -> Nat]
    /\ transfer \in [Requests -> Int]
    /\ req \in [Workers -> [at : Steps, for : Requests \cup {NoRequest},
                            settles : SUBSET Lines, known : BOOLEAN]]
    /\ overtaken \subseteq Kinds

\* The steps that may break a property are named by their kind: a decision on a
\* request that was not pending any more, a plan that was out of date, a hold for a
\* request that was over, a claim given back in spite of a transfer or of another
\* request, a payout credited in spite of a transfer or of debts it had paid.
Never(kinds) == overtaken \cap kinds = {}

\* Money only moves: what is available, what is held for requests and what has
\* left make up what the store had ("Frozen is burned, never returned to
\* available"), and no hold or top-up takes more than is available.
WalletConserved ==
    /\ available + (frozen - onCase) + out = Initial
    /\ available >= 0

\* "only one request allowed per user/store", unless a late decision revived one.
OneActive == Never({"decision"}) => \A r, s \in Active : r = s

\* The frozen balance is what open cases and active requests hold: nobody's hold
\* is released or burnt by another's request, and none is left behind.
HoldsMatch ==
    Never({"decision", "hold"}) =>
        frozen = onCase + Total(Amount, Active)

\* A completion that is repeated, resumed or overtaken burns the hold once, and a
\* debt is taken from the store once, and not when it was paid elsewhere.
TakenOnce ==
    /\ Never({"decision"}) => \A r \in Requests : debits[r] <= 1
    /\ Never({"plan"}) => \A l \in Lines : lineRows[l] <= 1

\* The wallet never shows a payout through Stripe that Stripe has not made, and
\* shows its amount if no plan was out of date.
LedgerFollowsStripe ==
    \A r \in Requests : Method[r] = "STRIPE" /\ row[r] > 0 =>
        /\ transfer[r] > 0
        /\ Never({"plan"}) => row[r] = transfer[r]

\* "Stripe transfer already started ... do not release the hold": money that was
\* returned to the wallet has not gone to Stripe as well.
ReleasedNotSent ==
    Never({"decision", "reset"}) =>
        \A r \in Requests : status[r] \in {"REJECTED", "CANCELLED"} => transfer[r] = 0

\* All that was sent, and all debts that were paid, was taken from the account or
\* is still held for it.
SentIsTaken ==
    Never(Kinds \ {"hold"}) =>
        sent + Total(transfer, Requests)
             + Total([l \in Lines |-> lineRows[l] * Debt[l]], Lines)
          <= out + Total(Amount, Active)
=============================================================================
