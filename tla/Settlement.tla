----------------------------- MODULE Settlement -----------------------------
(***************************************************************************)
(* What a verdict makes a party pay, as in issueVerdict and the wallet     *)
(* payments of src/backend/src/returns/returns.service.ts and the Stripe   *)
(* payments of src/backend/src/payments/payments.service.ts: the fee of    *)
(* the verdict and the return shipping of one case.  Both may be paid in   *)
(* many ways, alone or together, from a wallet, through Stripe or from a   *)
(* withdrawal, and the return starts when its shipping is paid.            *)
(*                                                                         *)
(* A worker is an HTTP request or a webhook.  Each step is a transaction   *)
(* or a read that a later step relies on.  noted is a history variable:    *)
(* the kinds of step that explain why the two obligations may come apart.  *)
(***************************************************************************)
EXTENDS Integers

CONSTANTS
    Workers,
    Sessions,      \* Stripe checkouts that may ever be opened for the case
    NoSession,
    Fee,           \* adjudicationFeeAmount
    Shipping,      \* shippingRefund, also shippingRoundtrip
    MerchantFunds, \* stores.balance at first
    CustomerFunds, \* users.customerBalance at first
    Earning,       \* what the store earns with other parts, each time
    MaxEarnings,   \* bound: how often
    MaxFaults      \* bound: requests cut off and failures of the logistics

ASSUME SettlementAssumption ==
    /\ NoSession \notin Sessions
    /\ {Fee, Shipping} \subseteq Nat \ {0}
    /\ {MerchantFunds, CustomerFunds, Earning, MaxEarnings, MaxFaults} \subseteq Nat

Obligations == {"fee", "ship"}
Payees == {"MERCHANT", "CUSTOMER"}

VARIABLES
    locked,   \* verdictLocked
    due,      \* adjudicationFeePaymentStatus and shippingPaymentStatus; "none" is a
              \* status of a case that has no amount yet
    payee,    \* shippingPayee; the fee is the merchant's
    method,   \* shippingPaymentMethod
    keyed,    \* a wallet row carries the key under which a verdict debits the fee
    purse,    \* the balances of the two payees
    charges,  \* wallet rows that charge each obligation
    credits,  \* how often the platform was credited with each
    session,  \* Stripe: the checkouts of the case
    settled,  \* what was settled in the name of the payment of a checkout
    credited, \* what of it went back to the store
    earned,   \* how often the store has earned something
    starts,   \* how often the return was started
    req,      \* what each worker is at and what it has read
    noted,
    faults

books   == <<purse, charges, credits>>
caseRow == <<locked, due, payee, method>>
stripe  == <<session, settled, credited>>
vars == <<books, caseRow, stripe, keyed, earned, starts, req, noted, faults>>

Routes == {"fee", "ship", "both", "lines"}
Verdicts == {"merchant", "customer", "withheld"}
Steps == {"idle", "verdict", "retry", "look", "pay", "fulfil", "withdraw", "logistics"}
Kinds == {"verdict", "retry", "shipping", "withdrawal", "plan", "lost"}

Idle == [at |-> "idle", for |-> {}, by |-> "MERCHANT", session |-> NoSession,
         verdict |-> "merchant", funds |-> FALSE]

Unopened == [stage |-> "none", via |-> "lines", for |-> {}]

Init ==
    /\ locked = FALSE
    /\ due = [o \in Obligations |-> "none"]
    /\ payee = "MERCHANT"
    /\ method = "none"
    /\ keyed = FALSE
    /\ purse = [p \in Payees |-> IF p = "MERCHANT" THEN MerchantFunds ELSE CustomerFunds]
    /\ charges = [o \in Obligations |-> 0]
    /\ credits = [o \in Obligations |-> 0]
    /\ session = [s \in Sessions |-> Unopened]
    /\ settled = [s \in Sessions |-> {}]
    /\ credited = [s \in Sessions |-> 0]
    /\ earned = 0
    /\ starts = 0
    /\ req = [w \in Workers |-> Idle]
    /\ noted = {}
    /\ faults = 0

Fault == faults < MaxFaults /\ faults' = faults + 1
Leave(w) == req' = [req EXCEPT ![w] = Idle]
Note(kind, happened) == noted' = IF happened THEN noted \cup {kind} ELSE noted

Total(S) == (IF "fee" \in S THEN Fee ELSE 0) + (IF "ship" \in S THEN Shipping ELSE 0)

-----------------------------------------------------------------------------
(* What a payment writes.                                                   *)

MarkPaid(S, how) ==
    /\ due' = [o \in Obligations |-> IF o \in S THEN "PAID" ELSE due[o]]
    /\ method' = IF "ship" \in S THEN how ELSE method

Counted(rows, S) == [o \in Obligations |-> IF o \in S THEN rows[o] + 1 ELSE rows[o]]

Charge(S) == charges' = Counted(charges, S)
Credit(S) == credits' = Counted(credits, S)
Debit(p, amount) == purse' = [purse EXCEPT ![p] = @ - amount]

\* Only a payment that did not run the logistics in its own transaction has them
\* to run after it.
Proceed_paid(w, S) == Leave(w)
Proceed(w, S) ==
    req' = [req EXCEPT ![w] = [Idle EXCEPT !.at = IF "ship" \in S THEN "logistics" ELSE "idle"]]

-----------------------------------------------------------------------------
(* The verdict.                                                             *)

\* The lock and the balance of the store are read with the case.
StartVerdict(w, v) ==
    /\ req[w] = Idle
    /\ ~locked
    /\ req' = [req EXCEPT ![w] = [Idle EXCEPT !.at = "verdict", !.verdict = v,
                                              !.funds = purse["MERCHANT"] >= Fee]]
    /\ UNCHANGED <<books, caseRow, stripe, keyed, earned, starts, noted, faults>>

\* debitMerchantWalletOrPending: the fee is taken from the wallet if that sufficed,
\* a row with the key counts as paid, and the platform is credited either way.
MerchantPays(w) ==
    /\ due' = [fee |-> IF keyed \/ req[w].funds THEN "PAID" ELSE "PENDING", ship |-> "PENDING"]
    /\ payee' = "MERCHANT"
    /\ keyed' = (keyed \/ req[w].funds)
    /\ \/ keyed /\ Credit({"fee"}) /\ UNCHANGED <<purse, charges>>
       \/ ~keyed /\ req[w].funds /\ Debit("MERCHANT", Fee) /\ Charge({"fee"}) /\ Credit({"fee"})
       \/ ~keyed /\ ~req[w].funds /\ UNCHANGED books
    /\ UNCHANGED method

\* The customer pays, or the shipping is kept back from the refund.
CustomerPays ==
    /\ due' = [due EXCEPT !["ship"] = "PENDING"]
    /\ payee' = "CUSTOMER"
    /\ UNCHANGED <<method, keyed, books>>

Withhold ==
    /\ due' = [due EXCEPT !["ship"] = "WITHHELD"]
    /\ payee' = "CUSTOMER"
    /\ method' = "STRIPE_WITHHOLD"
    /\ UNCHANGED <<keyed, books>>

Verdict(w) ==
    /\ req[w].at = "verdict"
    /\ \/ req[w].verdict = "merchant" /\ MerchantPays(w)
       \/ req[w].verdict = "customer" /\ CustomerPays
       \/ req[w].verdict = "withheld" /\ Withhold
    /\ locked' = TRUE
    /\ Note("verdict", locked)
    /\ Leave(w)
    /\ UNCHANGED <<stripe, earned, starts, faults>>

\* A refund that failed is retried with the case read at the start; the transaction
\* after Stripe then marks what was withheld as paid, by id.
StartRetry(w) ==
    /\ req[w] = Idle
    /\ locked
    /\ due["ship"] = "WITHHELD"
    /\ req' = [req EXCEPT ![w] = [Idle EXCEPT !.at = "retry"]]
    /\ UNCHANGED <<books, caseRow, stripe, keyed, earned, starts, noted, faults>>

Retry(w) ==
    /\ req[w].at = "retry"
    /\ MarkPaid({"ship"}, "STRIPE_WITHHOLD")
    /\ Note("retry", due["ship"] # "WITHHELD" /\ method # "STRIPE_WITHHOLD")
    /\ Leave(w)
    /\ UNCHANGED <<locked, payee, books, stripe, keyed, earned, starts, faults>>

-----------------------------------------------------------------------------
(* Payment from a wallet: the fee, the shipping, or both as a settlement.   *)

Payable(S) ==
    \/ S = {"fee"} /\ due["fee"] = "PENDING"
    \/ S = {"ship"} /\ due["ship"] = "PENDING" /\ method # "STRIPE_WITHHOLD"
    \/ /\ S = Obligations
       /\ \A o \in S : due[o] = "PENDING"
       /\ payee = "MERCHANT"

\* The case is read ...
StartPay(w, S) ==
    /\ req[w] = Idle
    /\ Payable(S)
    /\ req' = [req EXCEPT ![w] = [Idle EXCEPT !.at = "look", !.for = S,
                                              !.by = IF S = {"ship"} THEN payee ELSE "MERCHANT"]]
    /\ UNCHANGED <<books, caseRow, stripe, keyed, earned, starts, noted, faults>>

\* ... then the balance, without a lock ...
Look(w) ==
    /\ req[w].at = "look"
    /\ \/ purse[req[w].by] >= Total(req[w].for) /\ req' = [req EXCEPT ![w].at = "pay"]
       \/ purse[req[w].by] < Total(req[w].for) /\ Leave(w)
    /\ UNCHANGED <<books, caseRow, stripe, keyed, earned, starts, noted, faults>>

\* ... and the debit is committed with the status.  The fee, alone or with the
\* shipping, is claimed; the shipping alone is marked by id.
Claims_read(S) == TRUE
Claims(S) == "fee" \in S => \A o \in S : due[o] = "PENDING"

Pay(w) ==
    LET S == req[w].for
    IN  /\ req[w].at = "pay"
        /\ Claims(S)
        /\ Debit(req[w].by, Total(S))
        /\ MarkPaid(S, "WALLET")
        /\ Charge(S)
        /\ Credit(S \ {"ship"})
        /\ starts' = IF "ship" \in S THEN starts + 1 ELSE starts
        \* The key of the row holds the state of the refund, which may have moved on.
        /\ \/ UNCHANGED keyed
           \/ S = {"fee"} /\ keyed' = TRUE
        /\ Note("shipping", S = {"ship"} /\ due["ship"] # "PENDING")
        /\ Leave(w)
        /\ UNCHANGED <<locked, payee, stripe, earned, faults>>

PayRefused(w) ==
    /\ req[w].at = "pay"
    /\ ~Claims(req[w].for)
    /\ Leave(w)
    /\ UNCHANGED <<books, caseRow, stripe, keyed, earned, starts, noted, faults>>

\* loadMerchantObligationsLedger: what the merchant is shown as open.
Unpaid == {o \in Obligations : due[o] = "PENDING" \/ (o = "ship" /\ due[o] = "WITHHELD")}
OpenLines == {o \in Unpaid : o = "ship" => payee = "MERCHANT"}

\* payMerchantObligationsFromWallet holds the row of the store from its first read.
PayLines(w, S) ==
    /\ req[w] = Idle
    /\ S # {}
    /\ S \subseteq OpenLines
    /\ purse["MERCHANT"] >= Total(S)
    /\ Debit("MERCHANT", Total(S))
    /\ MarkPaid(S, "WALLET")
    /\ Charge(S)
    /\ Credit(S)
    /\ Proceed(w, S)
    /\ UNCHANGED <<locked, payee, stripe, keyed, earned, starts, noted, faults>>

-----------------------------------------------------------------------------
(* Payment through Stripe.                                                  *)

\* What each kind of checkout requires; the one for shipping does not look
\* whether there is anything left to pay.
Offered(via, S) ==
    \/ via = "fee" /\ S = {"fee"} /\ due["fee"] = "PENDING"
    \/ via = "ship" /\ S = {"ship"} /\ locked
    \/ /\ via = "both"
       /\ S = Obligations
       /\ payee = "MERCHANT"
       /\ \A o \in S : due[o] = "PENDING"
    \/ via = "lines" /\ S # {} /\ S \subseteq OpenLines

OpenSession(s, via, S) ==
    /\ session[s].stage = "none"
    /\ Offered(via, S)
    /\ session' = [session EXCEPT ![s] = [stage |-> "open", via |-> via, for |-> S]]
    /\ UNCHANGED <<books, caseRow, settled, credited, keyed, earned, starts, req, noted, faults>>

Capture(s) ==
    /\ session[s].stage = "open"
    /\ session' = [session EXCEPT ![s].stage = "captured"]
    /\ UNCHANGED <<books, caseRow, settled, credited, keyed, earned, starts, req, noted, faults>>

\* A row in the wallet of the merchant names the payment.
Answered_settled(s) == settled[s] # {}
Answered(s) == settled[s] # {} \/ credited[s] > 0

\* The webhook, repeated by Stripe, and the confirming page read what is still due.
StillDue(s) ==
    IF session[s].via = "lines"
    THEN session[s].for \cap OpenLines
    ELSE {o \in session[s].for : due[o] = "PENDING"}

StartFulfil(w, s) ==
    /\ req[w] = Idle
    /\ session[s].stage = "captured"
    /\ IF session[s].via = "lines" THEN ~Answered(s) ELSE StillDue(s) # {}
    /\ req' = [req EXCEPT ![w] = [Idle EXCEPT !.at = "fulfil", !.session = s, !.for = StillDue(s)]]
    /\ UNCHANGED <<books, caseRow, stripe, keyed, earned, starts, noted, faults>>

\* Of what was due at the read, each is claimed on its own.
Claimed_seen(s, S) == S
Claimed(s, S) ==
    IF session[s].via = "lines"
    THEN S \cap Unpaid
    ELSE {o \in S : due[o] = "PENDING"}

\* creditObligationOverpayment: the rest of a payment of obligations goes back to
\* the store; the other routes keep it.
Rest_swapped(s, C) == Total(C) - Total(session[s].for)
Rest(s, C) == Total(session[s].for) - Total(C)

Repay(s, C) ==
    IF session[s].via = "lines"
    THEN /\ credited' = [credited EXCEPT ![s] = @ + Rest(s, C)]
         /\ purse' = [purse EXCEPT !["MERCHANT"] = @ + Rest(s, C)]
    ELSE UNCHANGED <<credited, purse>>

\* Obligations credit the platform with the shipping too.
Income(s, C) == IF session[s].via = "lines" THEN C ELSE C \ {"ship"}

Fulfil(w) ==
    LET s == req[w].session
        C == Claimed(s, req[w].for)
    IN  /\ req[w].at = "fulfil"
        /\ session[s].via = "lines" => ~Answered(s)
        /\ MarkPaid(C, "STRIPE")
        /\ settled' = [settled EXCEPT ![s] = @ \cup C]
        /\ Repay(s, C)
        /\ Charge(C)
        /\ Credit(Income(s, C))
        /\ Proceed(w, C)
        /\ UNCHANGED <<locked, payee, session, keyed, earned, starts, noted, faults>>

\* Another delivery has answered the payment: seen under the lock of the store.
FulfilRepeated(w) ==
    /\ req[w].at = "fulfil"
    /\ session[req[w].session].via = "lines" /\ Answered(req[w].session)
    /\ Leave(w)
    /\ UNCHANGED <<books, caseRow, stripe, keyed, earned, starts, noted, faults>>

\* runReturnShippingLogistics, after the commit; its errors are logged.
Logistics(w) ==
    /\ req[w].at = "logistics"
    /\ \/ starts' = starts + 1 /\ UNCHANGED <<noted, faults>>
       \/ Fault /\ Note("lost", TRUE) /\ UNCHANGED starts
    /\ Leave(w)
    /\ UNCHANGED <<books, caseRow, stripe, keyed, earned>>

-----------------------------------------------------------------------------
(* Payment from a withdrawal or a manual payout: planned, oldest debt first, *)
(* and marked by id when the money has left.                                *)

StartWithdrawal(w, S) ==
    /\ req[w] = Idle
    /\ S # {}
    /\ S \subseteq OpenLines
    /\ "fee" \in OpenLines => "fee" \in S
    /\ req' = [req EXCEPT ![w] = [Idle EXCEPT !.at = "withdraw", !.for = S]]
    /\ UNCHANGED <<books, caseRow, stripe, keyed, earned, starts, noted, faults>>

Withdraw(w) ==
    /\ req[w].at = "withdraw"
    /\ MarkPaid(req[w].for, "WALLET")
    /\ Charge(req[w].for)
    /\ noted' = noted \cup {"withdrawal"}
                      \cup (IF req[w].for \subseteq Unpaid THEN {} ELSE {"plan"})
    /\ Leave(w)
    /\ UNCHANGED <<locked, payee, purse, credits, stripe, keyed, earned, starts, faults>>

\* The store earns with its other parts meanwhile.
Earn ==
    /\ earned < MaxEarnings
    /\ earned' = earned + 1
    /\ purse' = [purse EXCEPT !["MERCHANT"] = @ + Earning]
    /\ UNCHANGED <<charges, credits, caseRow, stripe, keyed, starts, req, noted, faults>>

-----------------------------------------------------------------------------
\* A request is cut off: what it has committed stays, and nothing resumes it.
Crash(w) ==
    /\ req[w] # Idle
    /\ Fault
    /\ Note("lost", req[w].at = "logistics")
    /\ Leave(w)
    /\ UNCHANGED <<books, caseRow, stripe, keyed, earned, starts>>

Next ==
    \/ \E w \in Workers :
        \/ \E v \in Verdicts : StartVerdict(w, v)
        \/ Verdict(w) \/ StartRetry(w) \/ Retry(w)
        \/ \E S \in SUBSET Obligations :
            StartPay(w, S) \/ PayLines(w, S) \/ StartWithdrawal(w, S)
        \/ Look(w) \/ Pay(w) \/ PayRefused(w)
        \/ \E s \in Sessions : StartFulfil(w, s)
        \/ Fulfil(w) \/ FulfilRepeated(w) \/ Logistics(w) \/ Withdraw(w)
        \/ Crash(w)
    \/ \E s \in Sessions :
        \/ Capture(s)
        \/ \E via \in Routes, S \in SUBSET Obligations : OpenSession(s, via, S)
    \/ Earn

Spec == Init /\ [][Next]_vars

-----------------------------------------------------------------------------
\* The types of the case, of the books and of the requests in flight.
TypeOK ==
    /\ {locked, keyed} \subseteq BOOLEAN
    /\ due \in [Obligations -> {"none", "PENDING", "WITHHELD", "PAID"}]
    /\ due["fee"] # "WITHHELD"
    /\ payee \in Payees
    /\ method \in {"none", "WALLET", "STRIPE", "STRIPE_WITHHOLD"}
    /\ purse \in [Payees -> Int]
    /\ charges \in [Obligations -> Nat]
    /\ credits \in [Obligations -> Nat]
    /\ session \in [Sessions -> [stage : {"none", "open", "captured"}, via : Routes,
                                 for : SUBSET Obligations]]
    /\ settled \in [Sessions -> SUBSET Obligations]
    /\ credited \in [Sessions -> Nat]
    /\ {earned, starts, faults} \subseteq Nat
    /\ req \in [Workers -> [at : Steps, for : SUBSET Obligations, by : Payees,
                            session : Sessions \cup {NoSession}, verdict : Verdicts,
                            funds : BOOLEAN]]
    /\ noted \subseteq Kinds

\* The steps that may break a property are named by their kind: a verdict or a
\* retried refund that found the case decided or settled by another, shipping that
\* a wallet paid although it was not due any more, a withdrawal that settled an
\* obligation or whose plan was out of date, and logistics that were lost.
Never(kinds) == noted \cap kinds = {}

\* Paid by somebody, and not kept back from a refund.
PaidFor(o) == due[o] = "PAID" /\ ~(o = "ship" /\ method = "STRIPE_WITHHOLD")

\* "Claim PENDING first so concurrent Stripe webhook / double-click cannot
\* double-settle": whichever routes overlap, an obligation that was paid was
\* charged once and one that was not was not charged.
ChargedOnce ==
    Never({"verdict", "retry", "shipping", "plan"}) =>
        \A o \in Obligations : charges[o] = IF PaidFor(o) THEN 1 ELSE 0

\* "... the captured cash must not vanish, so it is credited back to the store": a
\* payment of obligations that was answered, however often and whatever was paid
\* otherwise meanwhile, went into its lines and back to the store, and only once.
CashAccounted ==
    \A s \in Sessions :
        session[s].via = "lines" /\ (settled[s] # {} \/ credited[s] > 0) =>
        Total(settled[s]) + credited[s] = Total(session[s].for)

\* "Moves only the case's own return shipment ... every shipping-payment path": the
\* return starts once, and when its shipping is paid and not before; a request that
\* has taken the payment may still be about to start it.
StartedOnce ==
    Never({"verdict", "retry", "shipping", "withdrawal", "lost"}) =>
        LET Starting == {w \in Workers : req[w].at = "logistics"}
        IN  /\ starts <= 1
            /\ PaidFor("ship") <=> (starts = 1 \/ Starting # {})
            /\ starts = 1 => Starting = {}
            /\ \A v, w \in Starting : v = w

\* "Case fees paid by Stripe bring real cash - credit platform fees once": the
\* platform is never credited twice or with what nobody was charged, and has the
\* fee when it was paid, unless from a withdrawal.
PlatformCreditedOnce ==
    Never({"verdict"}) =>
        /\ \A o \in Obligations : credits[o] <= 1 /\ credits[o] <= charges[o]
        /\ due["fee"] = "PAID" /\ Never({"withdrawal"}) => credits["fee"] = 1
=============================================================================
