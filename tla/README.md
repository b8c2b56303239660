# e-Tashleh marketplace: models, checks and proofs

e-Tashleh is a marketplace for used car parts. A customer asks for parts,
merchants bid, the customer accepts one offer per part and pays with Stripe; the
platform holds the money in escrow until the part is delivered and its return
window is over, and judges returns and disputes. The backend is one NestJS
application over PostgreSQL (Prisma), with cron jobs, Stripe webhooks and a React
client. This directory models what can go wrong in it when requests overlap, are
cut off or are repeated.

## The system

| Part | Code (`src/backend/src`) | State of record | Operations | Hard because |
|---|---|---|---|---|
| Escrow ledger | `payments/escrow.service.ts` | `escrow_transactions.status`, `payment_transactions.{status, escrowStatus, refundedAmount}`, the three balances of a store, wallet rows | `holdFunds`, `releaseFunds`, `freezeFundsForPayment`, `unfreezeFundsForPayment`, `executeStripeRefundOnly`, `applyRefundDbUpdates`, `refundPaidOrderOnCancel` | status is read outside the transaction that moves the money; Stripe is called between two database steps |
| Completion finance | `payments/order-completion-finance.service.ts`, `scheduler/escrow-cron.service.ts` | none of its own | `settleCompletedOffer`, `settleCompletedOrder`, `syncEligibleEscrowReleases`, `releaseExpiredWarrantyHolds` | several crons and requests release the same escrow |
| Returns and disputes | `returns/returns.service.ts` | case status, verdict lock, `refundExecutionStatus` | open, withdraw, answer, escalate, `issueVerdict`, `retryFailedCustomerRefund`, `checkAutoEscalation`, `checkExpiredHandovers` | a case freezes money first and is recorded later; verdicts call Stripe after they commit |
| Orders | `orders/orders.service.ts`, `orders/fsm` | `orders.status`, deadlines, audit rows | `transitionStatus`, `acceptOffer`, `enforceExpiredSla`, cancellations and their refunds | a status machine written both with and without compare-and-set |
| Offer fulfilment | `orders/offer-fulfillment.service.ts` | `offers.fulfillmentStatus`, `resolutionLocked` | `recomputeOrderStatus`, `cancelOffersFulfillment`, `completeOfferAfterWindow` | the order's status is derived from offers read earlier |
| Payments | `payments/payments.service.ts`, `stripe` | payment rows | `createPaymentIntent`, `fulfillStripePayment`, `handlePaymentFailure`, `handleStripeChargeRefunded` | webhooks are repeated, late and out of order |
| Crons | `scheduler`, `common/cron-lock.service.ts` | `cron_locks` | `runWithLock` | a lease may expire while the job still runs |
| Withdrawals | `payments/withdrawal-workflow.service.ts`, the manual payout of `payments.service.ts` | requests, holds in the frozen balance, the debts of a store | request, approve, reject, cancel, complete, release, pay out | a debit, a transfer and debts have to agree across retries; decisions are checked before they are written |
| Offers and bidding | `offers/offers.service.ts`, `offers/shipping-review.service.ts` | bids, shipping reviews | bid, edit, withdraw, review, accept, reject, expire | customer, rivals, administrator and crons act on the same bids |
| Fees and return shipping | `returns/returns.service.ts`, `payments/payments.service.ts`, `payments/store-settlement-liabilities.util.ts` | payment statuses of the fee and the shipping of a case, wallet rows, Stripe checkouts | `issueVerdict`, `deduct…FromBalance`, `payMerchantObligationsFromWallet`, `fulfill…Payment`, `runReturnShippingLogistics` | one debt may be paid in six ways, alone or with others, and each way claims it differently |
| Shipments and waybills | `shipments`, `waybills` | `assemblyCartShipmentId`, `deliveredAt` | request shipping, deliver | parts of one order leave in different shipments |
| Accounts | `auth` | users, sessions, one-time codes | register, sign in, recover | codes expire and are counted |
| The rest | verification tasks, violations, loyalty, chat, notifications, invoices, reviews, settings, `Frontend` | their own rows | mostly single transactions | `PROJECT.json` says for each why it is not modelled (yet) |

How they interact: a Stripe webhook reaches Payments, which captures a payment and
calls the escrow ledger in one transaction. Orders and offer fulfilment move the
part to delivery. Completion finance releases the escrow; a return or dispute
freezes it first, and its verdict releases it or refunds it through Stripe. A
cancellation before shipping refunds it too. All of them share the rows of one
payment and none of them holds a lock across its steps. What is released lands in
the balance of the store, from which withdrawals, payouts and debts are paid. A verdict
also leaves debts, a fee and the shipping of the return, and the return starts when
its shipping is paid.

## Escrow: the money of a part

`Escrow.tla` follows a payment from its capture. A *worker* is an HTTP request, a
webhook or a cron pass. Each worker takes one step at a time, and a step is one
transaction, one statement outside a transaction, or one call of Stripe; what a
worker has read stays in its request record (`seen`, `prior`, `amt`, `skip`) and may
be stale when it is used. `MarkReleasing`, `Freeze`, `Unfreeze`, `Award` and
`ApplyLedger` therefore write without testing the status again, as the code updates
by id.

| Variables | Rows |
|---|---|
| `stage`, `late`, `covered`, `locked` | the offer: fulfilment status, window over, warranty running, `resolutionLocked` |
| `escrow`, `payStatus`, `payEscrow`, `refunded` | the escrow and payment rows |
| `pending`, `frozen`, `balance` | what the payment contributes to the store's three balances |
| `releases`, `awards`, `debits`, `commission` | ledger rows: ESCROW_RELEASE, release by verdict, share taken back, commission added |
| `charge`, `chargeBack`, `events` | Stripe: refunds by idempotency key, amount refunded, undelivered events |
| `case`, `verdictLocked`, `exec`, `owed` | the return and the dispute; the row a retry of a part refund reads: none, due, or lapsed once it is older than 14 days |
| `req`, `faults`, `opened` | the requests in flight; the two bounds |

`EscrowAccount` says what all of this is for: the merchant's share of a payment is
in one place, moves from pending to available or back to the customer, is not paid
out once the customer has money back, and is taken back after a refund.
`EscrowImplementsAccount` maps rows and balances to it; its steps are proved to be
steps of `EscrowAccount` in `EscrowSerialProofs`, its fairness is model-checked.

Abstractions: preparation, verification and shipping, which move no money, are one
step. An answer in the merchant's or the administrator's name and the 48 hour
escalation are one action. The hold window of the merchant and the return window
are configured separately and are one flag (`late`) here; a handover may expire
before it. An amount is a constant per payment, so a verdict refunds one amount of
`1..Paid`; partial refunds, their sum and the cap remain. Not in the model:
order-level freezing of single-item orders, payments without Stripe, warranty
exchanges, loyalty and invoices.

A refund reads in four steps, as `executeStripeRefundOnly` does, and another request,
a webhook or a cron may act between any two of them: `FixTarget` what is wanted,
`ReadRows` the payment and escrow rows that the ledger transaction will rely on,
`FixAmount` the payment again and Stripe's own figure, which cap the amount, and
`CallStripe`.

A share leaves escrow by itself in two ways. `StartSettlement` is every route that
asks for a payment in SUCCESS: the completion of the part, the end of its warranty,
and the sync of a finished order. `StartSync` is the sync of an order whose other
parts are open, which does not ask. `SyncLimit` and `RetryLimit` are the rows one
pass takes; see *Fairness* for what they promise.

Two assumptions are worth knowing. A request cut off is one fault, and so is a refund
that fails, whether or not Stripe's side of it took effect; the caller's catch block
runs then (`RefundFails`). The retry of owed part refunds does not overlap itself on
the same part, because its cron runs under the lock of `CronLock`.

## PaymentIntake: from the customer's card to the escrow

`PaymentIntake.tla` follows one accepted offer, its payment row and the intents that
were created for it. A worker is again a request, a webhook or a cron pass.

| Actions | Code |
|---|---|
| `StartCreate`, `ReadRow`, `ResolveIntent`, `UpsertRow` | `createPaymentIntent`: the order, the row, Stripe and the upsert, each at its own time |
| `Deliver`, `FindPayment`, `Claim` | the webhook controller and `fulfillStripePayment` with its transaction and `holdFunds` |
| `Confirm` | `confirmPaymentIntentFromClient`, which also repairs a paid offer that was not advanced |
| `ReadOrder`, `WriteOrder` | `recomputeOrderStatus` after a payment |
| `CheckFailed`, `MarkFailed` | `handlePaymentFailure` |
| `ExpireOrder`, `RefundCancelled` | the payment deadline and the refund of what was paid |
| `Pay`, `Decline` | the customer at Stripe, with a client secret the page was given |
| `Crash` | a request cut off; the event of a webhook is not acknowledged then |

Abstractions: the other offers of the order are one constant (`HasSiblings`), because
they reach this one only through the status they derive for the order. The refund of
a cancelled order is one step; `Escrow` has its steps. Stripe repeats a webhook until
it is acknowledged, without an end to the repetitions. An intent is open until it is
captured; `processing` is not told apart. The statuses in which an order may be paid
are the two the payment page leads through. Shipping payments, settlement links and
events of refunds are not in this module.

## CronLock: one job on several instances

`CronLock.tla` is `runWithLock` for one key. A *call* is a tick of the job: it looks
at the set of its process, takes the row by a conditional upsert, notes the key, runs
the job, removes the key and gives the lease back. A slot of `Calls` is used again
and stands for the random owner of each tick. `owner` and `leased` are the row,
`local` the set of each process, `pc` the step of each call, and `late` is a history
variable with the runs that have outlived their lease. Processes die with what they
hold, statements fail before or after they have taken effect.

`LeaseEnds` has one assumption, in its guard: a statement is answered within a lease
(300 seconds). The job itself may take longer, and nothing renews its lease.
`order-cleanup.service.ts:47` says "Prevent overlapping runs across instances";
`OverlapOnlyPastLease` is the exact form in which that holds.

## Selection: bids and their choice

`Selection.tla` is the auction of an order. A worker is a request or a cron pass that
reads in one step and writes in another: `Start...` actions make the checks of the
code, the action that follows is the transaction, which tests again only what the
code tests again (`Claimable`, `Expirable`, the claim in `Resolve`, `Unmoved`).

| Variables | Rows |
|---|---|
| `status`, `stopped`, `due` | the order, whether `offersStopAt` and the deadline of its status have passed |
| `offer`, `withdrawn`, `review` | the bids: status, `isWithdrawn`, `shippingReviewStatus` |
| `latecomers` | history: bids made on a part that already had a winner |
| `req` | what each worker is at and what it has read |

A cron or an enforcement chooses a target status from its own reading;
`transitionStatus` reads the order again (`CheckTransition`) and updates it only if it
has not moved since (`ApplyTransition`).

Abstractions: an order starts collecting bids and every bid is on a part (rows
without a part and `AWAITING_OFFERS` are legacy). A shipping class is told apart only
by whether a bid may differ from the customer's (`Odd`); edits and decisions that
cannot change a review are left out. Bids expire one statement at a time: the cron's
choice of a bid and its claim are two steps (`StartExpire`, `Expire`), and
`enforceExpiredSla` reads the order (`EnforceReveal`), then the bids without a decision
(`ReadUnresolved`), expires them one after another (`ExpireUnresolved`), and only then
counts what is left (`CountBids`). `Pay` stands for `PaymentIntake`. Quotas of stores, the administrator's free edits and deletions of
bids and the data of a bid are left out. That an auction comes to an end is not
stated yet.

## Fulfilment: an order of several parts

`Fulfilment.tla` takes an order from its payment to its completion. Each part has an
accepted offer of its own and moves by itself; `recomputeOrderStatus` derives the
status of the order from the parts after each move.

| Variables | Rows |
|---|---|
| `order`, `ful`, `payment` | `orders.status`, `offers.fulfillmentStatus`, the payment of a part |
| `due` | a refund recorded for a part and not made yet, by the rules it will follow |
| `grace` | the extra time for preparation: none, running, over |
| `docs` | the verification documents of a part: pending, approved, rejected with a clock that runs, has run out or was cleared |
| `cart`, `arrived` | the shipment a part left with, and whether it has a `deliveredAt` |
| `req`, `late` | the requests in flight; history: the kinds of late steps there have been |

A handler is several steps: `Start...` makes its checks, the next action moves parts
or documents (`Prepare`, `Submit`, `Decide` and `Apply`, `Ready`, `Ship`, `Cancel`),
`ReadOrder` reads the order and its parts and derives a status (`Derived`),
`WriteOrder` writes it by id, and what the handler does afterwards follows (`Retire`,
`Again`, `MarkRefund`, `Return`, `ShipOrder`). The order goes to its extra time in one
statement (`Delay`) and gets its deadlines in later ones (`Grace`). Only preparation claims its part with a
condition (`Prepare`); the other handlers write by id what was checked before. A step
that finds its part, its document or its order moved adds its kind to `late`, and a
property that such a step can break names the kind.

Abstractions: the order has several parts, so the statuses of a correction or of a
case, which only an order with a single part takes, do not occur; warranties and
cases of a delivered part are in `Escrow`. The administrator's free changes of status,
the tasks of field verifiers and the numbers of waybills are left out. Reading the
order and its offers is one step, and so are the read and the `updateMany` of
`cancelOffersFulfillment`. Deadlines pass at any time. A grace period whose part
leaves preparation is forgotten, because nothing reads it afterwards; for the same
reason `Grace` keeps no deadline of a part that has left it meanwhile, although the
code writes one. Until an order in its extra time has its deadline, the code counts
from its last update, so `StartLate` waits for `Grace` or for a crash. `Pay` and
`Refund` are single steps; `PaymentIntake` and `Escrow` have theirs.

## Withdrawal: how money leaves a store's wallet

`Withdrawal.tla` is the wallet of one store. A request moves its amount from the
available to the frozen balance; an administrator approves it and completes it: the
debts of the store are paid from it, oldest first, and the rest is transferred.

| Variables | Rows |
|---|---|
| `available`, `frozen`, `onCase` | the two balances, and what open cases hold of the second |
| `line`, `lineRows` | each debt (none, due, paid) and the wallet rows that settle it |
| `status`, `marker` | a request and its `stripeTransferId`: null, a claim (`pending_`), an id (`tr_`) |
| `row`, `debits` | the withdrawal row of the wallet; history: how often a hold was burnt |
| `transfer`, `sent`, `out` | Stripe: the transfer under the key of a request, and those of manual payouts; all that has left the account |
| `req`, `overtaken`, `payouts`, `faults` | the requests in flight; history: late steps by kind; the two bounds |

| Actions | Code |
|---|---|
| `Request` | `createWithdrawalRequest`: checks and hold in one transaction under the lock of the store |
| `StartDecision`, `Approve`, `Reject`, `Cancel` | the check before the transaction, and the write by id |
| `Release` | giving up an approved request, unless a transfer has begun |
| `StartComplete`, `Claim`, `Hold`, `Send`, `Store` | the plan, the conditional claim, the top-up of the hold, the call of Stripe, its id |
| `Record`, `Close`, `GiveUp` | the completing transaction under the lock of the request: debit, debts, status; or only the status; or nothing |
| `TransferEvent` | Stripe's `transfer.created` and `transfer.paid` |
| `StartPayout`, `Payout`, `SendPayout`, `Reverse` | the manual payout: checks, debit, transfer, credit after an error |
| `Charge`, `PayElsewhere`, `FreezeCase`, `ThawCase` | what verdicts, payments of debts and cases do to the same rows |

Abstractions: the wallet of a customer is the same machine without debts and is not
modelled apart. Checks before the lock that can only refuse, the percentage kept back
by the governance settings and the map of recent keys in the memory of one process are
left out; the last delays a repetition of one administrator and excludes none. The
debts a verdict charges appear whole (`Charge`).

## Settlement: what a verdict makes a party pay

`Settlement.tla` is one case: the fee of its verdict and the shipping of its return.
A worker is a request or a webhook; a step is a transaction or a read that a later
step relies on.

| Variables | Rows |
|---|---|
| `locked`, `due`, `payee`, `method` | the case: `verdictLocked`, the two payment statuses, `shippingPayee`, `shippingPaymentMethod` |
| `purse` | the balance of the store and of the customer |
| `charges`, `credits`, `keyed` | wallet rows for each obligation, credits of the platform, the row with the key of the verdict's debit |
| `session`, `settled`, `credited` | the checkouts of the case at Stripe, what was settled in the name of each and what went back to the store |
| `starts` | how often the logistics of the return ran |
| `req`, `noted`, `earned`, `faults` | the requests in flight; history: late steps by kind; the two bounds |

| Actions | Code |
|---|---|
| `StartVerdict`, `Verdict` | `issueVerdict`: lock and balance are read, then the transaction debits the fee or leaves it due and says who pays the shipping |
| `StartRetry`, `Retry` | a failed refund is made again and marks the shipping that was withheld from it as paid |
| `StartPay`, `Look`, `Pay`, `PayRefused` | the fee, the shipping or both from a wallet: the case, the balance, the claim with the debit |
| `PayLines` | `payMerchantObligationsFromWallet`, under the lock of the store |
| `OpenSession`, `Capture` | a checkout of one of the four kinds, paid by its customer |
| `StartFulfil`, `Fulfil`, `FulfilRepeated` | the webhook or the confirming page: what is still due, the claims, the credit of the rest |
| `Logistics` | `runReturnShippingLogistics`, after the commit |
| `StartWithdrawal`, `Withdraw` | debts planned and marked as paid by a withdrawal or a payout; the debit is in `Withdrawal` |

A step that finds the case settled or decided otherwise than its request has read adds
its kind to `noted` (a second verdict, a retry after a payment, shipping a wallet pays
again, an outdated plan), and so do logistics that fail and, as it credits no platform
fee and starts no logistics, every withdrawal. A property that such a step can break
names the kind; nothing else may break it.

Abstractions: amounts are two constants, and a payment moves them whole; the split of a
fee between its components, taxes and rounding are left out. Checkouts expire by not
being captured. What the store earns with other parts is one action (`Earn`), as a
payment that was refused becomes possible by it. A balance is read without a lock, so a
purse may become negative here as in the code; no property speaks of its sign. The
settlement between a carrier and the platform is not modelled.

## Runs

Each run asks one question; `PROJECT.json` lists its properties.

| Run (`cfg`) | Question | Instance |
|---|---|---|
| `escrow_concurrent` (`MCEscrowConcurrent`) | what survives every interleaving of two requests with a fault? | 1 payment, 2 workers, 1 fault, 2 cases, unit amounts; 6.5 million states |
| `escrow_serial` (`MCEscrowSerial`) | do rows and balances implement `EscrowAccount` when nothing overlaps or fails? | 1 worker, no fault, 2 cases |
| `escrow_recovery` (`MCEscrowRecovery`) | what do two faults leave intact, and what do the crons heal? | 1 worker, 2 faults, 2 cases, a warranty, a verdict that refunds all that was paid; 20 thousand states |
| `intake_concurrent` (`MCPaymentIntakeConcurrent`) | is the merchant credited once and only for captured money? | 2 workers, 3 intents, 2 declines, 1 fault; 2.4 million states |
| `intake_serial` (`MCPaymentIntakeSerial`) | is nothing held after a cancellation, and a named capture held in the end? | 1 worker, 2 intents, 1 decline, 2 faults |
| `intake_decline` (`MCPaymentIntakeDecline`) | is a capture after a decline held? It is not | 1 worker, 1 intent, 1 decline |
| `cron_lock` (`MCCronLock`) | who may run a job beside whom, and does it keep running? | 2 processes, 3 calls, 2 faults |
| `selection` (`MCSelection`) | who wins a part, and where may an order go? | 2 workers, 2 rival bids and one on another part; 4.1 million states |
| `fulfilment` (`MCFulfilment`) | does an order tell of its parts, and do refunds and shipments exclude each other, whichever handlers overlap? | 2 workers, 2 parts, 3 documents, `MaxLate` 1; 2.9 million states |
| `fulfilment_refunded` (`MCFulfilmentRefunded`) | does the cancellation of an order spare what has left? It does not | 1 worker, 2 parts, 2 documents |
| `withdrawal` (`MCWithdrawal`) | is money conserved, taken once and sent once, and what breaks each of it? | 2 workers, 2 requests, 2 debts, 1 payout, 1 fault |
| `settlement` (`MCSettlement`) | is each obligation charged once, the return started once, the platform credited once, the cash of a checkout accounted for? | 2 workers, 2 checkouts, 1 fault; 4.8 million states |

Why these bounds are enough. Payments share no row but the totals of a store, of
which the model has each payment's part, so one payment shows what there is; the
theorems hold for any number. Two requests in flight are the least in which a
reading can be stale. Two faults cut off a request and the one that is to repair it.
Two cases are a return and a dispute of one part, or a case that is opened again.
One payment never has more rows than a pass takes, so limits of 1 do not bind; with
more payments they are the condition under which a cron promises anything. The
verdict of `escrow_recovery` is the whole amount, so that Stripe's event may turn the
payment REFUNDED before the ledger is written.
With three intents one can be replaced
while its predecessor and its successor are paid. Two rival bids and one on another
part are enough for a part with two candidates, a latecomer and an order that waits
for a second part. Two parts of an order can be on both sides of every line its
status draws, and three documents are a rejection, its correction and the first
document of the other part. `MaxLate` is a bound on the schedule of `Fulfilment`: two
requests overlap until a first late step has happened, and one runs at a time after
it, to the end of the order; what the late step leaves behind is explored to the end,
a second one on top of it is not. A request that is cut off counts as one. Two
withdrawals are the least in which one request can take what another holds; two debts
are one that is due when a plan is made and one that comes after it. With two checkouts
the same fee and shipping are paid twice at Stripe, alone or together, while a wallet
pays them too; a fee of 2 and a shipping of 1 are told apart in every sum, and a store
that has nothing and may earn 3 once cannot pay, can pay all, or can pay what is left
beside another payment. The bounds
`MaxFaults`, `MaxEarnings`, `MaxCases`, `MaxDeclines`, `MaxDocs`, `MaxPayouts` and the set
`Intents` cut behaviours off; no property counts on their being reached.
`MaxOffers` is the code's own limit and does not bind on this instance. Workers, and
intents, are interchangeable, and reduced by symmetry where a run checks safety only.

Every run but `cron_lock` sets `CHECK_DEADLOCK FALSE`: a part that is settled, a
payment that is made, an auction that is over, an order that is completed or
cancelled, a wallet whose requests are over and a case whose debts are paid have
nothing left to do.

### Fairness

- A request that is not cut off reaches its end (weak fairness of `Continue`): no
  step of the code waits for another request.
- The hourly sync and the retry cron come round for ever (`SyncComesRound`,
  `RetryComesRound`): a row that stays in want is taken up at last, if the rows in want
  beside it fit in one pass. Nothing more is promised. A row that is in want only now and
  then may be missed each time, rows beyond the limit may starve (the sync takes its
  rows in no order; the retry cron reads at most 500 rows, those already resolved
  included, and attempts 20), a row older than 14 days is not looked for
  (`RetryLapses`), and a share whose payment is not SUCCESS is released by no settlement.
  A pass is due whether or not a worker is idle, because a real cron takes nobody's
  place.
- Stripe repeats an event until it is acknowledged: strong fairness of `Deliver` in
  `PaymentIntake`, weak fairness of `ChargeRefunded` in `Escrow`, which needs no worker.
- Time passes (`WindowEnds`, `WarrantyEnds`, `LeaseEnds`), and the completion pass and
  the ticks of a job come.
- Nothing is assumed of customers, merchants or administrators.

### Disagreements with what the repository says

`PROJECT.json` quotes the lines; each is a run whose property TLC refutes.

1. After a declined card the page still pays the same intent, and that capture is
   never held (`intake_decline`).
2. A part of a partly paid order is shipped, and the payment deadline then cancels the
   order and refunds the shipped part, with nothing overlapping (`fulfilment_refunded`).

## Proofs

The theorems hold for every set of payments, workers, intents, calls, bids, parts,
requests, debts and checkouts, every amount and every bound, from the assumptions on the constants:
`AmountsAssumption` (amounts are natural, a verdict is positive and at most what was
paid, a gateway fee is less than it), `IntakeAssumption`, `CronLockAssumption` (each
call belongs to a process), `SelectionAssumption` (each bid is on a part),
`FulfilmentAssumption` (an order has finitely many parts, and one at least),
`WithdrawalAssumption` (requests, debts and payouts are of positive amounts, and
workers, requests and debts are finitely many, so that their sums exist) and
`SettlementAssumption` (the fee and the shipping are positive).

| Module | Theorems | Strengthening |
|---|---|---|
| `EscrowProofs` | `TypeCorrect` | none; a request in flight is whole (`RequestAt`) |
| | `ShareConserved`, `LedgerFollowsStripe`, `ReleasedAtMostOnce` | `OnlyCaptured`: no request concerns a payment without an escrow row; `RefundsAreSafe`: a refund in flight has a positive amount, and one that Stripe has answered, an event or a debit means that Stripe has refunded. `ReleasedOnce` is inductive beside the types: only `SettleRelease` writes the ledger row it looks for |
| `EscrowSerialProofs` | `SerialSettledOnce`, `SerialFrozenWhileCaseOpen`, `SerialWithinPaid`, `SerialImplementsAccount`; `OneWorkerIsSafe`, `OneWorkerImplementsAccount` | What a request in flight has read still holds: of the escrow row and its ledger rows (`EscrowInv`), of the cases and the lock of the part (`CaseInv`: at most one case is open, and none beside an early or a cancelled part whose refund is owed), of the refunded totals (`WithinInv`: what a refund has read and fixed fits the payment on top of what Stripe and the row have by then, or the verdict was applied already and the transaction will find it so), of the bucket that holds the share (`PlaceInv`: it is that of the escrow status, and a release or a refund that has begun has a request that will end it) |
| `PaymentIntakeProofs` | `IntakeTypeCorrect`, `MerchantCreditedOnce`, `PreparedAgainstCharge`, `SerialNothingHeldAfterCancel`, `OneWorkerNothingHeldAfterCancel` | `Addressed`: a request that concerns an intent has one; `Sound`: where a captured intent may appear; `ClaimsOpenOrder`: a request about to claim, or to write a status it derived, found an order that is not cancelled and still is not |
| `CronLockProofs` | `CronLockTypeCorrect`, `OncePerProcess`, `RunsExclude`, `ReleasedByOwner` | `Noted`, `Holding`, `Beside`: the key is noted while the job runs, a call that has the lease keeps it until it is late, and a call started beside a run asks in vain |
| `SelectionProofs` | `SelectionTypeCorrect`, `RivalsExclude`, `WithdrawnStaysOut`, `DecisionsAreKept` | `Beaten`: beside a winner only latecomers are pending; `Gone`: a bid taken back is not made anew |
| `WithdrawalProofs` | `WithdrawalType`, `WithdrawalConserved`, `WithdrawalOneActive`, `WithdrawalTakenOnce`, `WithdrawalLedgerFollowsStripe`, `WithdrawalReleasedNotSent`, `WithdrawalHoldsMatch`, `WithdrawalSentIsTaken` | `ActsFor`: a worker acts for a request; `BurntOnce`, `PaidOnce`: a row beside each debit, and a paid line beside each of its rows; `StripeSide`: a worker past the transfer has one, of its amount; `RowsFollow`; `Committed`: a request with a transfer has a marker or a worker that will write it; `Burnt`: what is completed was burnt; `Fits`, `SentFits`: a plan fits into the amount it is made for, and so does a transfer; `Accounted`: transfers of completed requests, paid debts and what payouts in flight may still send or claim back do not exceed what left the account |
| `FulfilmentProofs` | `FulfilmentType`, `CancelledIsTerminal`, `CancelledArePaidBack`, `RefundedHasNotShipped`, `PartsFollowReviews`, `OrderFollowsItsParts` | `Reasons`: why a worker is at its step; `Unrefunded`: a cancelled part is refunded or has a worker that will; `Tidy`: what a refund excludes as long as no step was late, in six conjuncts (`UnpaidUntouched`, `UnpaidEarly`, `RequestsPaid`, `StruckCancelled`, `CartGone`, `RefundCancelled`); for the reviews, `Deciding` and its neighbours: a part under verification has a document somebody can act on or a request about to move it; for the order, `Told`: its status is true of its parts or a request is on its way to derive it, with `WantedRefund`, `PaidMoved` and `ShipsParts` for what such a request will find |
| `SettlementProofs` | `SettlementType`, `SettlementChargedOnce`, `SettlementCashAccounted`, `SettlementStartedOnce`, `SettlementCreditedOnce` | `Unlocked`: before the first verdict nothing is due and nothing but verdicts is under way; `Fulfilling`: a request that settles a checkout found it captured and covers no more than its lines; `Earned`: what the platform was credited with is paid. The properties are conjuncts of the invariant themselves: each payment needs that what is due was not charged |

Each proof has a lemma per action (or per group of actions that change the same
rows), and the temporal step at the end. What a snapshot still guarantees when it is
used is the centre of each: the code reads outside its transactions, so an invariant
of the rows alone is not inductive.

`SettledOnce`, `FrozenWhileCaseOpen` and `NothingHeldAfterCancel` hold only of schedules
without overlap: the code writes by id what it has tested before, and two requests on one
payment can break each of them (see below). `WithinPaid` is proved under the same
hypothesis: with overlap the total a refund adds to may be older than the cap of its
amount, and Stripe answers a known idempotency key without refunding again, so that the
bound rests on how many requests there are; `escrow_concurrent` checks it for two
requests and the webhooks. Their theorems state that as a hypothesis on the behaviour, `[]Serial`: in `EscrowSerialProofs` no two requests *in
flight concern the same payment*, while requests of different payments, crashes, failed
refunds, repeated events, customers, merchants and time interleave freely; in
`PaymentIntakeProofs`, where there is one payment, no two requests are in flight. One
worker satisfies it, and the theorems named `OneWorker...` say so of every behaviour. The
refinement needs `MaxFaults = 0` besides: a request cut off between Stripe's refund and
the ledger leaves a share that a later release still pays out, which `EscrowAccount`
forbids.

`HoldsMatch` and `SentIsTaken` speak of sums over sets of requests, debts and workers.
The library's induction theorem takes an operator, so `WithdrawalProofs` starts with a
small library of its own: an induction over the subsets of a finite set, taken from the
minimal element that the strict subset order has in every set of them, and from it how a sum changes
when one summand does, and that a sum of natural numbers is one.

Checked on instances only: the liveness properties `HealedByCrons`,
`NamedCaptureIsHeld` and `JobKeepsRunning`, and the fairness of `EscrowAccount` in
`ImplementsAccount` (the proof system does not handle fairness here;
`SerialImplementsAccount` proves the rest of that refinement). Every other property of a
passing run is the subject of a theorem.

## Seen while modelling, stated by no run yet

These follow from the code as read.

Payments and escrow

- A release that began before a case was opened overwrites the freeze by id.
- A return closed by the handover cron counts as an open case, so its part never
  completes (`offer-fulfillment.service.ts:1189`).
- The commission is added again by a verdict that releases an escrow
  (`returns.service.ts:2464`).
- A verdict refunds a completed part in full and the process dies before the ledger:
  `charge.refunded` sets the payment to REFUNDED, and its share stays in HELD, because
  every settlement of a finished order asks for SUCCESS
  (`order-completion-finance.service.ts:110`); `HealedByCrons` excepts it.
- Owed part refunds beyond the limits of the retry cron, or older than 14 days, are not
  retried (`orders.service.ts:5480`).
- A part refund is lost when the process dies before its audit row, which is what the
  retry looks for (`orders.service.ts:5236`).
- A captured intent is orphaned when a second request for an intent replaces it in
  the row, and a row that was paid meanwhile goes back to PENDING
  (`payments.service.ts:694`); a late failure event sets it to FAILED.
- An order that is cancelled between the check of its status and the fulfilment
  transaction has its payment held all the same (`payments.service.ts:1201`).
- `ensurePaidOfferInPreparation` heals the offer of a payment whose request was cut
  off, not its order.

Auction and orders

- The update by id of `acceptOffer` may undo a cancellation (`orders.service.ts:1336`),
  and two accepts for different parts both move the order.
- `transitionStatus` judges the step from the order as it is by then: a cron that
  found an order without a choice may cancel it after the customer has chosen or
  paid (`orders.service.ts:841`).
- Bids that were accepted or paid can be withdrawn, edited or rejected by id
  (`offers.service.ts:797`, `orders.service.ts:2813`), and a bid made on a part after
  its winner may be accepted too while the order still collects.
- `enforceExpiredSla` counts pending bids only, the cron accepted ones as well, so
  they may decide differently about the same order (`orders.service.ts:1567`).
- A rejected document whose clock was cleared counts as one that may be answered, so
  the documents of a cancelled part can be handed in again.
- `enforceExpiredSla` cancels a part for an overdue correction although a new document
  has been handed in; the cron of the same deadline does not.
- A review moves its part by id and so revives one that was cancelled meanwhile
  (`orders.service.ts:4335`).

Withdrawals

- An approval that was checked before a rejection writes by id and brings the request
  back to life beside the next one (`withdrawal-workflow.service.ts:266`), although
  "only one request allowed until cleared" (`withdrawal-workflow.constants.ts:1`);
  `OneActive` names it.
- A completion whose debts take the whole amount transfers nothing and is completed
  without a claim.
- A hold raised for a request that another administrator completed meanwhile stays in
  the frozen balance (`HoldsMatch` names it).
- A claim is given back after an error although another request relies on it, and the
  hold may then be released beside a transfer (`ReleasedNotSent` names it).
- A manual payout that failed is credited with the debts it settled still paid
  (`SentIsTaken` names it).
- Debts that change between the transfer and the ledger make the two differ
  (`LedgerFollowsStripe` names it).

Fees of a verdict and return shipping (the first four are kinds of `Settlement`)

- Two verdicts on one case both take effect, because the lock is read before the
  transaction and set by id in it (`returns.service.ts:1932`).
- The shipping of a case is tested, debited and marked as paid by id, so it may be paid
  from a wallet and through Stripe (`returns.service.ts:4035`).
- A withdrawal or a manual payout marks a shipping debt as paid and does not start the
  return's logistics, which the other ways of paying it do
  (`returns.service.ts:3811` "Shared by every shipping-payment path").
- After a payment of return shipping has committed, its logistics are not tried again
  when they fail: the repeated webhook finds the payment done.
- A checkout of shipping is opened whether or not the shipping is paid
  (`createShippingCheckoutSession`), although `fee-settlement-plan.util.ts:63` says that
  shipping must not be paid twice; what it captures is kept.
- A checkout of a fee, or of a fee with shipping, whose parts were paid otherwise in the
  meantime is captured and kept; only the checkout of obligations credits the rest back.
- Shipping withheld from a refund becomes paid only when the refund failed and is made
  again: the first refund is made with the case as it was read before the verdict
  (`returns.service.ts:1708`, `2821`).
- A fee refund of zero leaves its amount withheld.
- Fees that are rounded one by one may differ from their sum by a cent.

## Not modelled

`PROJECT.json` says for each component why. Web front end, chat, notifications,
invoices, reports, reviews, catalogue and settings keep no state the modelled parts
depend on. The amounts of a verdict are arithmetic with unit tests of its own; the
models take them as constants. Verification tasks end in a review, which is in
`Fulfilment`. One-time codes and the approval
of changes of profiles and contracts are records of one user and touch neither orders
nor money. Violations and loyalty do: fines and rewards move the balances of stores and
customers; the plan has them. Prisma's generated client is no code of the project.

## Plan

What would come next, in this order.

1. An end to the auction: under fair crons an order does not stay in collection, choice or
   payment past its deadline.
2. `Violation` and `Loyalty`: a fine is taken once and a reward given once, with their
   appeals and reversals, beside the withdrawals that use the same balances.
3. The amounts of a verdict as operators, against the sums a settlement has to have.
4. `Otp`: a code is used once, before it expires, within its attempts.
5. `VerificationTask`: assignment, report and review of a part, with their deadlines.

The runs are kept few: a run of a disagreement is dropped before a question about
another part of the system is.
