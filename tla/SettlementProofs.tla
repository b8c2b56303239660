-------------------------- MODULE SettlementProofs --------------------------
(***************************************************************************)
(* The obligations of a case are charged once, the return starts once, the *)
(* platform is credited once and what a checkout captured is accounted     *)
(* for, for every set of requests and checkouts, every amount and bound.   *)
(* The properties are not inductive: a first verdict finds an untouched    *)
(* case (Unlocked), a payment settles no more than its checkout covers     *)
(* (Fulfilling), and what the platform was credited with is paid (Earned). *)
(***************************************************************************)
EXTENDS Settlement, TLAPS

Calls == [at : Steps, for : SUBSET Obligations, by : Payees,
          session : Sessions \cup {NoSession}, verdict : Verdicts, funds : BOOLEAN]

\* Before the first verdict nothing is due, and nothing but verdicts is under way.
Unlocked ==
    ~locked =>
        /\ \A o \in Obligations : due[o] = "none" /\ charges[o] = 0 /\ credits[o] = 0
        /\ ~keyed /\ method = "none" /\ starts = 0
        /\ \A w \in Workers : req[w].at \in {"idle", "verdict"}
        /\ \A s \in Sessions : session[s].stage = "none"

\* A request that settles a payment has found it captured, and its lines cover what
\* the request found due.
Covered(r) ==
    r.at = "fulfil" =>
        /\ r.session \in Sessions
        /\ session[r.session].stage = "captured"
        /\ r.for \subseteq session[r.session].for

Fulfilling ==
    /\ \A w \in Workers : Covered(req[w])
    /\ \A s \in Sessions : session[s].stage = "none" => settled[s] = {} /\ credited[s] = 0

Earned ==
    Never({"verdict"}) =>
        /\ \A o \in Obligations :
              /\ credits[o] <= 1 /\ credits[o] <= charges[o]
              /\ credits[o] = 1 => due[o] = "PAID"
        /\ due["fee"] = "PAID" /\ Never({"withdrawal"}) => credits["fee"] = 1

IInv ==
    /\ TypeOK /\ Unlocked /\ Fulfilling
    /\ ChargedOnce /\ CashAccounted /\ StartedOnce /\ Earned

-----------------------------------------------------------------------------
(* Amounts and requests.                                                    *)

LEMMA TotalType ==
    ASSUME NEW S, NEW T, S \subseteq T
    PROVE  /\ Total(S) \in Nat /\ Total(T) \in Nat
           /\ Total(S) <= Total(T)
           /\ Total({}) = 0
BY SettlementAssumption DEF Total

LEMMA CallType ==
    /\ Idle \in Calls
    /\ \A w \in Workers : TypeOK => req[w] \in Calls
BY DEF Idle, Calls, TypeOK, Steps, Verdicts, Obligations, Payees

\* The type of the requests is the only part of TypeOK a quiet step can disturb.
LEMMA MoveType ==
    ASSUME TypeOK, NEW w \in Workers, NEW r \in Calls, req' = [req EXCEPT ![w] = r]
    PROVE  /\ (req \in [Workers -> Calls])'
           /\ req'[w] = r
           /\ \A v \in Workers : v # w => req'[v] = req[v]
BY DEF TypeOK, Calls

-----------------------------------------------------------------------------
(* Steps that leave the case, the books and the checkouts alone.            *)

LEMMA QuietKeeps ==
    ASSUME IInv, NEW w \in Workers, NEW r \in Calls, req' = [req EXCEPT ![w] = r],
           UNCHANGED <<books, caseRow, stripe, keyed, earned, starts>>,
           noted \subseteq noted', noted' \subseteq Kinds, faults' \in Nat,
           ~locked => r.at \in {"idle", "verdict"},
           Covered(r),
           (req[w].at = "logistics" <=> r.at = "logistics") \/ "lost" \in noted'
    PROVE  IInv'
<1>1. TypeOK  BY DEF IInv
<1>2. /\ (req \in [Workers -> Calls])' /\ req'[w] = r
      /\ \A v \in Workers : v # w => req'[v] = req[v]
      BY <1>1, MoveType
<1>3. TypeOK'
      BY <1>1, <1>2 DEF TypeOK, Calls, books, caseRow, stripe
<1>4. Unlocked'
      BY <1>2 DEF IInv, Unlocked, books, caseRow, stripe
<1>5. Fulfilling'
      BY <1>2 DEF IInv, Fulfilling, Covered, stripe
<1>6. ChargedOnce'
      BY DEF IInv, ChargedOnce, PaidFor, Never, books, caseRow
<1>7. CashAccounted'
      BY DEF IInv, CashAccounted, stripe
<1>8. Earned'
      BY DEF IInv, Earned, Never, books, caseRow
<1>9. StartedOnce'
  <2>1. CASE "lost" \in noted'
        BY <2>1 DEF StartedOnce, Never
  <2>2. CASE req[w].at = "logistics" <=> r.at = "logistics"
    <3>1. \A v \in Workers : req'[v].at = "logistics" <=> req[v].at = "logistics"
          BY <1>2, <2>2
    <3>2. {v \in Workers : req'[v].at = "logistics"} = {v \in Workers : req[v].at = "logistics"}
          BY <3>1
    <3>3. PaidFor("ship")' <=> PaidFor("ship")
          BY DEF PaidFor, caseRow
    <3> QED  BY <3>2, <3>3 DEF IInv, StartedOnce, Never
  <2> QED  BY <2>1, <2>2
<1> QED  BY <1>3, <1>4, <1>5, <1>6, <1>7, <1>8, <1>9 DEF IInv

-----------------------------------------------------------------------------
(* A payment of the obligations S, of which the platform is credited with I. *)

\* It pays what was not paid, or the kind of step that it is has been noted.
Timely(S) ==
    \/ S \subseteq Unpaid
    \/ "shipping" \in noted'
    \/ {"plan", "withdrawal"} \subseteq noted'

\* It starts the return itself or leaves that to be done after it.
Begins(S, r) ==
    \/ "withdrawal" \in noted'
    \/ r.at = "logistics" /\ "ship" \in S /\ starts' = starts
    \/ r.at # "logistics" /\ starts' = IF "ship" \in S THEN starts + 1 ELSE starts

LEMMA PaymentType ==
    ASSUME TypeOK, NEW S \in SUBSET Obligations, NEW I \in SUBSET S,
           NEW how \in {"WALLET", "STRIPE", "STRIPE_WITHHOLD"},
           MarkPaid(S, how), Charge(S), Credit(I)
    PROVE  /\ due' \in [Obligations -> {"none", "PENDING", "WITHHELD", "PAID"}]
           /\ due'["fee"] # "WITHHELD"
           /\ method' \in {"none", "WALLET", "STRIPE", "STRIPE_WITHHOLD"}
           /\ charges' \in [Obligations -> Nat] /\ credits' \in [Obligations -> Nat]
BY DEF TypeOK, MarkPaid, Charge, Credit, Counted, Obligations

LEMMA PaymentCharged ==
    ASSUME TypeOK, ChargedOnce, NEW S \in SUBSET Obligations,
           NEW how \in {"WALLET", "STRIPE"},
           MarkPaid(S, how), Charge(S), noted \subseteq noted', Timely(S)
    PROVE  ChargedOnce'
<1>. SUFFICES ASSUME Never({"verdict", "retry", "shipping", "plan"})', NEW o \in Obligations
              PROVE  (charges[o] = IF PaidFor(o) THEN 1 ELSE 0)'
     BY DEF ChargedOnce
<1>1. S \subseteq Unpaid  BY DEF Timely, Never
<1>2. charges[o] = IF PaidFor(o) THEN 1 ELSE 0
      BY DEF ChargedOnce, Never
<1>3. CASE o \in S
  <2>1. ~PaidFor(o)  BY <1>1, <1>3 DEF PaidFor, Unpaid
  <2> QED  BY <1>2, <1>3, <2>1 DEF MarkPaid, Charge, Counted, PaidFor
<1>4. CASE o \notin S
      BY <1>2, <1>4 DEF MarkPaid, Charge, Counted, PaidFor
<1> QED  BY <1>3, <1>4

LEMMA PaymentEarned ==
    ASSUME TypeOK, Earned, NEW S \in SUBSET Obligations, NEW I \in SUBSET S, NEW how,
           MarkPaid(S, how), Charge(S), Credit(I), noted \subseteq noted',
           I \subseteq Unpaid, "fee" \in S => "fee" \in I \/ "withdrawal" \in noted'
    PROVE  Earned'
<1>. SUFFICES ASSUME Never({"verdict"})' PROVE Earned'
     BY DEF Earned
<1>1. Never({"verdict"})  BY DEF Never
<1>2. ASSUME NEW o \in Obligations
      PROVE  (/\ credits[o] <= 1 /\ credits[o] <= charges[o]
              /\ credits[o] = 1 => due[o] = "PAID")'
  <2>1. credits[o] \in Nat /\ charges[o] \in Nat  BY DEF TypeOK
  <2>2. /\ credits[o] <= 1 /\ credits[o] <= charges[o]
        /\ credits[o] = 1 => due[o] = "PAID"
        BY <1>1 DEF Earned
  <2>3. o \in I => due[o] # "PAID"  BY DEF Unpaid
  <2> QED  BY <2>1, <2>2, <2>3 DEF MarkPaid, Charge, Credit, Counted
<1>3. (due["fee"] = "PAID" /\ Never({"withdrawal"}) => credits["fee"] = 1)'
  <2>1. credits["fee"] \in Nat /\ "fee" \in Obligations  BY DEF TypeOK, Obligations
  <2>2. "fee" \in I => due["fee"] # "PAID"  BY DEF Unpaid
  <2>3. "fee" \in I => credits["fee"] = 0  BY <1>1, <2>1, <2>2 DEF Earned
  <2>4. Never({"withdrawal"})' => Never({"withdrawal"}) /\ "withdrawal" \notin noted'
        BY DEF Never
  <2> QED  BY <1>1, <2>1, <2>3, <2>4 DEF Earned, MarkPaid, Credit, Counted
<1> QED  BY <1>2, <1>3 DEF Earned

LEMMA PaymentStarted ==
    ASSUME TypeOK, StartedOnce, NEW S \in SUBSET Obligations,
           NEW how \in {"WALLET", "STRIPE"}, MarkPaid(S, how),
           NEW w \in Workers, NEW r \in Calls, req' = [req EXCEPT ![w] = r],
           req[w].at # "logistics", noted \subseteq noted', Timely(S), Begins(S, r)
    PROVE  StartedOnce'
<1> DEFINE Starting == {v \in Workers : req[v].at = "logistics"}
<1>. SUFFICES ASSUME Never({"verdict", "retry", "shipping", "withdrawal", "lost"})'
              PROVE  /\ starts' <= 1
                     /\ PaidFor("ship")' <=> (starts' = 1 \/ Starting' # {})
                     /\ starts' = 1 => Starting' = {}
                     /\ \A v, x \in Starting' : v = x
     BY DEF StartedOnce
<1>1. /\ starts <= 1
      /\ PaidFor("ship") <=> (starts = 1 \/ Starting # {})
      /\ starts = 1 => Starting = {}
      /\ \A v, x \in Starting : v = x
      BY DEF StartedOnce, Never
<1>2. /\ S \subseteq Unpaid
      /\ \/ r.at = "logistics" /\ "ship" \in S /\ starts' = starts
         \/ r.at # "logistics" /\ starts' = IF "ship" \in S THEN starts + 1 ELSE starts
      BY DEF Timely, Begins, Never
<1>3. req'[w] = r /\ \A v \in Workers : v # w => req'[v] = req[v]
      BY MoveType
<1>4. Starting' = IF r.at = "logistics" THEN Starting \cup {w} ELSE Starting
      BY <1>3
<1>5. starts \in Nat  BY DEF TypeOK
<1>6. CASE "ship" \in S
  <2>1. ~PaidFor("ship")  BY <1>2, <1>6 DEF PaidFor, Unpaid
  <2>2. PaidFor("ship")'  BY <1>6 DEF PaidFor, MarkPaid, Obligations
  <2>3. starts = 0 /\ Starting = {}  BY <1>1, <1>5, <2>1
  <2> HIDE DEF Starting
  <2> QED  BY <1>2, <1>4, <1>6, <2>2, <2>3
<1>7. CASE "ship" \notin S
  <2>1. PaidFor("ship")' <=> PaidFor("ship")
        BY <1>7 DEF PaidFor, MarkPaid, Obligations
  <2> HIDE DEF Starting
  <2> QED  BY <1>1, <1>2, <1>4, <1>7, <2>1
<1> QED  BY <1>6, <1>7

\* What is under way has locked the case.
LEMMA Locked ==
    ASSUME IInv
    PROVE  /\ \A w \in Workers : req[w].at \notin {"idle", "verdict"} => locked
           /\ Unpaid # {} => locked
           /\ \A s \in Sessions : session[s].stage # "none" => locked
BY DEF IInv, Unlocked, Unpaid, Obligations

LEMMA PaymentKeeps ==
    ASSUME IInv, locked, locked' = locked, payee' = payee, purse' \in [Payees -> Int],
           NEW S \in SUBSET Obligations, NEW I \in SUBSET S, I \subseteq Unpaid,
           "fee" \in S => "fee" \in I \/ "withdrawal" \in noted',
           NEW how \in {"WALLET", "STRIPE"}, MarkPaid(S, how), Charge(S), Credit(I),
           keyed' \in BOOLEAN, earned' = earned, faults' = faults, starts' \in Nat,
           NEW w \in Workers, NEW r \in Calls, req' = [req EXCEPT ![w] = r],
           req[w].at # "logistics", r.at # "fulfil",
           noted \subseteq noted', noted' \subseteq Kinds, Timely(S), Begins(S, r),
           session' = session, settled' \in [Sessions -> SUBSET Obligations],
           credited' \in [Sessions -> Nat], CashAccounted',
           \A s \in Sessions : session[s].stage = "none" =>
                settled'[s] = settled[s] /\ credited'[s] = credited[s]
    PROVE  IInv'
<1>1. TypeOK  BY DEF IInv
<1>2. /\ (req \in [Workers -> Calls])' /\ req'[w] = r
      /\ \A v \in Workers : v # w => req'[v] = req[v]
      BY <1>1, MoveType
<1>3. TypeOK'
      BY <1>1, <1>2, PaymentType DEF TypeOK, Calls
<1>4. Unlocked'  BY DEF Unlocked
<1>5. Fulfilling'
      BY <1>2 DEF IInv, Fulfilling, Covered
<1>6. ChargedOnce' /\ Earned' /\ StartedOnce'
      BY <1>1, PaymentCharged, PaymentEarned, PaymentStarted DEF IInv
<1> QED  BY <1>3, <1>4, <1>5, <1>6 DEF IInv

\* When the checkouts are left alone.
LEMMA WalletKeeps ==
    ASSUME IInv, locked, locked' = locked, payee' = payee, purse' \in [Payees -> Int],
           NEW S \in SUBSET Obligations, NEW I \in SUBSET S, I \subseteq Unpaid,
           "fee" \in S => "fee" \in I \/ "withdrawal" \in noted',
           MarkPaid(S, "WALLET"), Charge(S), Credit(I),
           keyed' \in BOOLEAN, earned' = earned, faults' = faults, starts' \in Nat,
           NEW w \in Workers, NEW r \in Calls, req' = [req EXCEPT ![w] = r],
           req[w].at # "logistics", r.at # "fulfil",
           noted \subseteq noted', noted' \subseteq Kinds, Timely(S), Begins(S, r),
           UNCHANGED stripe
    PROVE  IInv'
<1>1. CashAccounted'
      BY DEF IInv, CashAccounted, stripe
<1>2. /\ session' = session /\ settled' = settled /\ credited' = credited
      BY DEF stripe
<1>3. settled \in [Sessions -> SUBSET Obligations] /\ credited \in [Sessions -> Nat]
      BY DEF IInv, TypeOK
<1> QED  BY <1>1, <1>2, <1>3, PaymentKeeps

LEMMA DebitType ==
    ASSUME TypeOK, NEW p \in Payees, NEW S, Debit(p, Total(S))
    PROVE  purse' \in [Payees -> Int]
BY TotalType DEF TypeOK, Debit

LEMMA PayKeeps ==
    ASSUME IInv, NEW w \in Workers, Pay(w)
    PROVE  IInv'
<1> DEFINE S == req[w].for
<1>1. TypeOK /\ req[w] \in Calls  BY CallType DEF IInv
<1>2. S \in SUBSET Obligations /\ req[w].by \in Payees  BY <1>1 DEF Calls
<1>3. locked /\ req[w].at = "pay"  BY Locked DEF Pay
<1>4. purse' \in [Payees -> Int]  BY <1>1, <1>2, DebitType DEF Pay
<1>5. "fee" \in S => S \subseteq Unpaid  BY <1>2 DEF Pay, Claims, Unpaid
<1>6. S \ {"ship"} \subseteq Unpaid  BY <1>2, <1>5 DEF Obligations
<1>7. S \subseteq Unpaid \/ "shipping" \in noted'
  <2>1. S = {} \/ S = {"ship"} \/ "fee" \in S  BY <1>2 DEF Obligations
  <2>2. S = {"ship"} /\ due["ship"] # "PENDING" => "shipping" \in noted'
        BY DEF Pay, Note
  <2>3. S = {"ship"} /\ due["ship"] = "PENDING" => S \subseteq Unpaid
        BY DEF Unpaid, Obligations
  <2> QED  BY <1>5, <2>1, <2>2, <2>3
<1>8. noted \subseteq noted' /\ noted' \subseteq Kinds
      BY <1>1 DEF Pay, Note, TypeOK, Kinds
<1>9. /\ req' = [req EXCEPT ![w] = Idle] /\ Idle \in Calls /\ Idle.at = "idle"
      BY CallType DEF Pay, Leave, Idle
<1>10. /\ starts' = IF "ship" \in S THEN starts + 1 ELSE starts
       /\ starts' \in Nat /\ keyed' \in BOOLEAN
  <2>1. starts' = IF "ship" \in S THEN starts + 1 ELSE starts  BY DEF Pay
  <2>2. starts \in Nat /\ keyed \in BOOLEAN  BY <1>1 DEF TypeOK
  <2>3. keyed' = keyed \/ keyed' = TRUE  BY DEF Pay
  <2>4. starts + 1 \in Nat  BY <2>2
  <2>5. starts' \in Nat  BY <2>1, <2>2, <2>4, Zenon
  <2>6. keyed' \in BOOLEAN  BY <2>2, <2>3, Zenon
  <2> QED  BY <2>1, <2>5, <2>6, Zenon
<1>11. Timely(S) /\ Begins(S, Idle)
       BY <1>7, <1>9, <1>10 DEF Timely, Begins
<1>12. /\ MarkPaid(S, "WALLET") /\ Charge(S) /\ Credit(S \ {"ship"})
       /\ locked' = locked /\ payee' = payee /\ earned' = earned /\ faults' = faults
       /\ UNCHANGED stripe
       BY DEF Pay
<1> HIDE DEF S
<1> QED  BY <1>2, <1>3, <1>4, <1>6, <1>8, <1>9, <1>10, <1>11, <1>12, WalletKeeps

LEMMA ProceedsTo ==
    ASSUME TypeOK, NEW w \in Workers, NEW S, Proceed(w, S), starts' = starts
    PROVE  \E r \in Calls : /\ req' = [req EXCEPT ![w] = r]
                           /\ r.at # "fulfil" /\ Begins(S, r)
<1> DEFINE r == [Idle EXCEPT !.at = IF "ship" \in S THEN "logistics" ELSE "idle"]
<1>1. r \in Calls /\ r.at = IF "ship" \in S THEN "logistics" ELSE "idle"
      BY CallType DEF Calls, Idle, Steps
<1>2. req' = [req EXCEPT ![w] = r]  BY DEF Proceed
<1> HIDE DEF r
<1>3. r.at # "fulfil" /\ Begins(S, r)  BY <1>1 DEF Begins
<1> QED  BY <1>1, <1>2, <1>3

LEMMA PayLinesKeeps ==
    ASSUME IInv, NEW w \in Workers, NEW S \in SUBSET Obligations, PayLines(w, S)
    PROVE  IInv'
<1>1. TypeOK  BY DEF IInv
<1>2. S \subseteq Unpaid /\ S # {}  BY DEF PayLines, OpenLines
<1>3. locked  BY <1>2, Locked
<1>4. purse' \in [Payees -> Int]  BY <1>1, DebitType DEF PayLines, Payees
<1>5. PICK r \in Calls : /\ req' = [req EXCEPT ![w] = r]
                         /\ r.at # "fulfil" /\ Begins(S, r)
      BY <1>1, ProceedsTo DEF PayLines
<1>6. Timely(S)  BY <1>2 DEF Timely
<1>7. req[w].at # "logistics"  BY DEF PayLines, Idle
<1>8. /\ MarkPaid(S, "WALLET") /\ Charge(S) /\ Credit(S)
      /\ locked' = locked /\ payee' = payee /\ earned' = earned /\ faults' = faults
      /\ UNCHANGED stripe /\ keyed' = keyed /\ starts' = starts /\ noted' = noted
      BY DEF PayLines
<1>9. keyed \in BOOLEAN /\ starts \in Nat /\ noted \subseteq Kinds  BY <1>1 DEF TypeOK
<1> QED  BY <1>2, <1>3, <1>4, <1>5, <1>6, <1>7, <1>8, <1>9, WalletKeeps

LEMMA WithdrawKeeps ==
    ASSUME IInv, NEW w \in Workers, Withdraw(w)
    PROVE  IInv'
<1> DEFINE S == req[w].for
<1>1. TypeOK /\ req[w] \in Calls  BY CallType DEF IInv
<1>2. S \in SUBSET Obligations /\ {} \in SUBSET S  BY <1>1 DEF Calls
<1>3. locked /\ req[w].at = "withdraw"  BY Locked DEF Withdraw
<1>4. Credit({})
      BY <1>1 DEF Credit, Counted, Withdraw, TypeOK
<1>5. /\ noted \subseteq noted' /\ noted' \subseteq Kinds
      /\ "withdrawal" \in noted' /\ (S \subseteq Unpaid \/ "plan" \in noted')
      BY <1>1 DEF Withdraw, TypeOK, Kinds
<1>6. /\ req' = [req EXCEPT ![w] = Idle] /\ Idle \in Calls /\ Idle.at = "idle"
      BY CallType DEF Withdraw, Leave, Idle
<1>7. Timely(S) /\ Begins(S, Idle)  BY <1>5 DEF Timely, Begins
<1>8. /\ MarkPaid(S, "WALLET") /\ Charge(S)
      /\ locked' = locked /\ payee' = payee /\ earned' = earned /\ faults' = faults
      /\ UNCHANGED stripe /\ keyed' = keyed /\ starts' = starts /\ purse' = purse
      BY DEF Withdraw
<1>9. keyed \in BOOLEAN /\ starts \in Nat /\ purse \in [Payees -> Int]  BY <1>1 DEF TypeOK
<1> HIDE DEF S
<1> QED  BY <1>2, <1>3, <1>4, <1>5, <1>6, <1>7, <1>8, <1>9, WalletKeeps

-----------------------------------------------------------------------------
(* The settlement of what a checkout captured.                              *)

LEMMA FulfilKeeps ==
    ASSUME IInv, NEW w \in Workers, Fulfil(w)
    PROVE  IInv'
<1> DEFINE s == req[w].session
           C == Claimed(s, req[w].for)
           I == Income(s, C)
<1>1. TypeOK /\ req[w] \in Calls  BY CallType DEF IInv
<1>2. /\ s \in Sessions /\ session[s].stage = "captured"
      /\ req[w].for \subseteq session[s].for
      BY DEF IInv, Fulfilling, Covered, Fulfil
<1>3. /\ C \subseteq req[w].for /\ C \subseteq Unpaid /\ C \in SUBSET Obligations
      BY <1>1 DEF Claimed, Unpaid, Calls
<1>4. /\ I \in SUBSET C /\ ("fee" \in C => "fee" \in I)
      BY DEF Income
<1>5. locked /\ req[w].at = "fulfil"  BY Locked DEF Fulfil
<1>6. /\ session[s].via = "lines" => ~Answered(s)
      /\ MarkPaid(C, "STRIPE")
      /\ settled' = [settled EXCEPT ![s] = @ \cup C]
      /\ Repay(s, C) /\ Charge(C) /\ Credit(I) /\ Proceed(w, C)
      /\ locked' = locked /\ payee' = payee /\ earned' = earned /\ faults' = faults
      /\ session' = session /\ keyed' = keyed /\ starts' = starts /\ noted' = noted
      BY DEF Fulfil
<1>7. keyed \in BOOLEAN /\ starts \in Nat /\ noted \subseteq Kinds  BY <1>1 DEF TypeOK
<1>8. PICK r \in Calls : /\ req' = [req EXCEPT ![w] = r]
                         /\ r.at # "fulfil" /\ Begins(C, r)
      BY <1>1, <1>6, ProceedsTo
<1>9. Timely(C)  BY <1>3 DEF Timely
<1> HIDE DEF C, I
<1>10. Rest(s, C) \in Nat /\ Rest(s, C) + Total(C) = Total(session[s].for)
  <2>1. C \subseteq session[s].for  BY <1>2, <1>3
  <2>2. /\ Total(C) \in Nat /\ Total(session[s].for) \in Nat
        /\ Total(C) <= Total(session[s].for)
        BY <2>1, TotalType
  <2> QED  BY <2>2 DEF Rest
<1>11. /\ credited \in [Sessions -> Nat] /\ purse \in [Payees -> Int]
       /\ settled \in [Sessions -> SUBSET Obligations]
       BY <1>1 DEF TypeOK
<1>12. credited' \in [Sessions -> Nat] /\ purse' \in [Payees -> Int]
  <2>1. CASE session[s].via = "lines"
    <3>1. /\ credited' = [credited EXCEPT ![s] = @ + Rest(s, C)]
          /\ purse' = [purse EXCEPT !["MERCHANT"] = @ + Rest(s, C)]
          BY <1>6, <2>1 DEF Repay
    <3> QED  BY <1>2, <1>10, <1>11, <3>1 DEF Payees
  <2>2. CASE session[s].via # "lines"
        BY <1>6, <1>11, <2>2 DEF Repay
  <2> QED  BY <2>1, <2>2
<1>13. settled' \in [Sessions -> SUBSET Obligations]
       BY <1>2, <1>3, <1>6, <1>11
<1>14. \A t \in Sessions : t # s => settled'[t] = settled[t] /\ credited'[t] = credited[t]
       BY <1>6, <1>11 DEF Repay
<1>15. CashAccounted'
  <2>. SUFFICES ASSUME NEW t \in Sessions, session[t].via = "lines",
                       settled'[t] # {} \/ credited'[t] > 0
                PROVE  Total(settled'[t]) + credited'[t] = Total(session[t].for)
       BY <1>6 DEF CashAccounted, Total
  <2>1. CASE t # s
        BY <1>14, <2>1 DEF IInv, CashAccounted
  <2>2. CASE t = s
    <3>1. settled[s] = {} /\ credited[s] = 0
          BY <1>2, <1>6, <1>11, <2>2 DEF Answered
    <3>2. settled'[s] = C /\ credited'[s] = Rest(s, C)
          BY <1>2, <1>6, <1>10, <1>11, <2>2, <3>1 DEF Repay
    <3>3. Total(C) \in Nat  BY TotalType
    <3> QED  BY <1>10, <2>2, <3>2, <3>3
  <2> QED  BY <2>1, <2>2
<1>16. I \subseteq Unpaid  BY <1>3, <1>4
<1>17. \A t \in Sessions : session[t].stage = "none" =>
          settled'[t] = settled[t] /\ credited'[t] = credited[t]
       BY <1>2, <1>14
<1>18. req[w].at # "logistics"  BY <1>5
<1> HIDE DEF s
<1> QED  BY <1>3, <1>4, <1>5, <1>6, <1>7, <1>8, <1>9, <1>12, <1>13, <1>15, <1>16, <1>17,
            <1>18, PaymentKeeps

-----------------------------------------------------------------------------
(* The verdict, and the retry of its refund.                                *)

\* A first verdict finds nothing due, nothing charged and nothing under way.
LEMMA VerdictKeeps ==
    ASSUME IInv, NEW w \in Workers, Verdict(w)
    PROVE  IInv'
<1>1. TypeOK /\ req[w] \in Calls  BY CallType DEF IInv
<1>2. /\ req' = [req EXCEPT ![w] = Idle] /\ Idle \in Calls /\ Idle.at = "idle"
      /\ locked' = TRUE /\ UNCHANGED stripe
      /\ earned' = earned /\ starts' = starts /\ faults' = faults
      /\ req[w].at = "verdict"
      BY CallType DEF Verdict, Leave, Idle
<1>3. /\ (req \in [Workers -> Calls])' /\ req'[w] = Idle
      /\ \A v \in Workers : v # w => req'[v] = req[v]
      BY <1>1, <1>2, MoveType
<1>4. noted \subseteq noted' /\ noted' \subseteq Kinds /\ (locked => "verdict" \in noted')
      BY <1>1 DEF Verdict, Note, TypeOK, Kinds
<1>5. MerchantPays(w) \/ CustomerPays \/ Withhold
      BY DEF Verdict
<1>6. TypeOK'
  <2>1. keyed' \in BOOLEAN
    <3>1. keyed \in BOOLEAN /\ req[w].funds \in BOOLEAN  BY <1>1 DEF TypeOK, Calls
    <3>2. keyed' = (keyed \/ req[w].funds) \/ keyed' = keyed
          BY <1>5 DEF MerchantPays, CustomerPays, Withhold
    <3> QED  BY <3>1, <3>2, Zenon
  <2>2. /\ due' \in [Obligations -> {"none", "PENDING", "WITHHELD", "PAID"}]
        /\ due'["fee"] # "WITHHELD"
    <3>1. CASE MerchantPays(w)
          BY <3>1 DEF MerchantPays, Obligations
    <3>2. CASE CustomerPays \/ Withhold
          BY <1>1, <3>2 DEF CustomerPays, Withhold, TypeOK, Obligations
    <3> QED  BY <1>5, <3>1, <3>2
  <2>3. /\ payee' \in Payees
        /\ method' \in {"none", "WALLET", "STRIPE", "STRIPE_WITHHOLD"}
        BY <1>1, <1>5 DEF MerchantPays, CustomerPays, Withhold, TypeOK, Payees
  <2>4. /\ purse' \in [Payees -> Int]
        /\ charges' \in [Obligations -> Nat] /\ credits' \in [Obligations -> Nat]
    <3>1. CASE MerchantPays(w)
      <4>1. Fee \in Nat  BY SettlementAssumption
      <4> QED  BY <1>1, <3>1, <4>1
               DEF MerchantPays, Debit, Charge, Credit, Counted, TypeOK, books, Payees
    <3>2. CASE CustomerPays \/ Withhold
          BY <1>1, <3>2 DEF CustomerPays, Withhold, TypeOK, books
    <3> QED  BY <1>5, <3>1, <3>2
  <2> QED  BY <1>1, <1>2, <1>3, <1>4, <2>1, <2>2, <2>3, <2>4 DEF TypeOK, Calls, stripe
<1>7. Unlocked'  BY <1>2 DEF Unlocked
<1>8. Fulfilling'  BY <1>2, <1>3 DEF IInv, Fulfilling, Covered, stripe
<1>9. CashAccounted'  BY <1>2 DEF IInv, CashAccounted, stripe
<1>10. CASE locked
  <2>1. "verdict" \in noted'  BY <1>4, <1>10
  <2>2. ChargedOnce' /\ Earned' /\ StartedOnce'
        BY <2>1 DEF ChargedOnce, Earned, StartedOnce, Never
  <2> QED  BY <1>6, <1>7, <1>8, <1>9, <2>2 DEF IInv
<1>11. CASE ~locked
  <2>1. /\ \A o \in Obligations : due[o] = "none" /\ charges[o] = 0 /\ credits[o] = 0
        /\ ~keyed /\ method = "none" /\ starts = 0
        /\ \A v \in Workers : req[v].at \in {"idle", "verdict"}
        BY <1>11 DEF IInv, Unlocked
  <2>2. /\ charges' \in [Obligations -> Nat] /\ credits' \in [Obligations -> Nat]
        BY <1>6 DEF TypeOK
  <2>3. /\ due'["ship"] \in {"PENDING", "WITHHELD"}
        /\ charges'["ship"] = 0 /\ credits'["ship"] = 0
        BY <1>1, <1>5, <2>1 DEF MerchantPays, CustomerPays, Withhold, Charge, Credit, Counted,
           books, TypeOK, Obligations
  <2>4. \/ due'["fee"] = "PAID" /\ charges'["fee"] = 1 /\ credits'["fee"] = 1
        \/ due'["fee"] # "PAID" /\ charges'["fee"] = 0 /\ credits'["fee"] = 0
    <3>1. CASE MerchantPays(w)
          BY <2>1, <3>1 DEF MerchantPays, Charge, Credit, Counted, books, Obligations
    <3>2. CASE CustomerPays \/ Withhold
          BY <1>1, <2>1, <3>2 DEF CustomerPays, Withhold, books, TypeOK, Obligations
    <3> QED  BY <1>5, <3>1, <3>2
  <2>5. ChargedOnce'
        BY <2>3, <2>4 DEF ChargedOnce, PaidFor, Obligations
  <2>6. Earned'
        BY <2>3, <2>4 DEF Earned, Obligations
  <2>7. StartedOnce'
    <3>1. {v \in Workers : req'[v].at = "logistics"} = {}
          BY <1>2, <1>3, <2>1
    <3>2. ~PaidFor("ship")' /\ starts' = 0
          BY <1>2, <2>1, <2>3 DEF PaidFor
    <3> QED  BY <3>1, <3>2 DEF StartedOnce
  <2> QED  BY <1>6, <1>7, <1>8, <1>9, <2>5, <2>6, <2>7 DEF IInv
<1> QED  BY <1>10, <1>11

\* What is withheld was not charged, and is not.
LEMMA RetryKeeps ==
    ASSUME IInv, NEW w \in Workers, Retry(w)
    PROVE  IInv'
<1>1. TypeOK /\ req[w] \in Calls  BY CallType DEF IInv
<1>2. /\ req' = [req EXCEPT ![w] = Idle] /\ Idle \in Calls /\ Idle.at = "idle"
      /\ MarkPaid({"ship"}, "STRIPE_WITHHOLD") /\ req[w].at = "retry"
      /\ UNCHANGED <<locked, payee, books, stripe, keyed, earned, starts, faults>>
      BY CallType DEF Retry, Leave, Idle
<1>3. /\ (req \in [Workers -> Calls])' /\ req'[w] = Idle
      /\ \A v \in Workers : v # w => req'[v] = req[v]
      BY <1>1, <1>2, MoveType
<1>4. /\ noted \subseteq noted' /\ noted' \subseteq Kinds
      /\ "retry" \in noted' \/ ~PaidFor("ship")
      BY <1>1 DEF Retry, Note, TypeOK, Kinds, PaidFor
<1>5. locked  BY <1>2, Locked
<1>6. ~PaidFor("ship")' /\ due'["ship"] = "PAID" /\ due'["fee"] = due["fee"]
      BY <1>2 DEF MarkPaid, PaidFor, Obligations
<1>7. /\ due' \in [Obligations -> {"none", "PENDING", "WITHHELD", "PAID"}]
      /\ method' \in {"none", "WALLET", "STRIPE", "STRIPE_WITHHOLD"}
      BY <1>1, <1>2 DEF TypeOK, MarkPaid
<1>8. TypeOK'
      BY <1>1, <1>2, <1>3, <1>4, <1>6, <1>7 DEF TypeOK, Calls, books, stripe
<1>9. Unlocked'  BY <1>2, <1>5 DEF Unlocked
<1>10. Fulfilling'  BY <1>2, <1>3 DEF IInv, Fulfilling, Covered, stripe
<1>11. CashAccounted'  BY <1>2 DEF IInv, CashAccounted, stripe
<1>12. ChargedOnce'
       BY <1>2, <1>4, <1>6 DEF IInv, ChargedOnce, PaidFor, Never, books, Obligations
<1>13. Earned'
       BY <1>2, <1>4, <1>6 DEF IInv, Earned, Never, books, Obligations
<1>14. StartedOnce'
  <2>1. {v \in Workers : req'[v].at = "logistics"} = {v \in Workers : req[v].at = "logistics"}
        BY <1>2, <1>3
  <2> QED  BY <1>2, <1>4, <1>6, <2>1 DEF IInv, StartedOnce, Never
<1> QED  BY <1>8, <1>9, <1>10, <1>11, <1>12, <1>13, <1>14 DEF IInv

-----------------------------------------------------------------------------
(* The remaining steps.                                                     *)

LEMMA LeaveKeeps ==
    ASSUME IInv, NEW w \in Workers,
           FulfilRepeated(w) \/ PayRefused(w) \/ Crash(w)
    PROVE  IInv'
<1>1. TypeOK  BY DEF IInv
<1>2. /\ Idle \in Calls /\ Idle.at = "idle" /\ req' = [req EXCEPT ![w] = Idle]
      /\ UNCHANGED <<books, caseRow, stripe, keyed, earned, starts>>
      BY CallType DEF FulfilRepeated, PayRefused, Crash, Leave, Idle
<1>3. noted \subseteq noted' /\ noted' \subseteq Kinds
      BY <1>1 DEF FulfilRepeated, PayRefused, Crash, Note, TypeOK, Kinds
<1>4. faults' \in Nat
  <2>1. faults \in Nat  BY <1>1 DEF TypeOK
  <2> QED  BY <2>1 DEF FulfilRepeated, PayRefused, Crash, Fault
<1>5. req[w].at # "logistics" \/ "lost" \in noted'
      BY DEF FulfilRepeated, PayRefused, Crash, Note
<1>6. Covered(Idle)  BY <1>2 DEF Covered
<1> QED  BY <1>2, <1>3, <1>4, <1>5, <1>6, QuietKeeps

\* A request that begins, or reads on, changes itself only.
LEMMA ReadKeeps ==
    ASSUME IInv, NEW w \in Workers, NEW r \in Calls, req' = [req EXCEPT ![w] = r],
           UNCHANGED <<books, caseRow, stripe, keyed, earned, starts, noted, faults>>,
           ~locked => r.at \in {"idle", "verdict"},
           Covered(r), req[w].at # "logistics", r.at # "logistics"
    PROVE  IInv'
<1>1. noted \subseteq Kinds  BY DEF IInv, TypeOK
<1>2. faults \in Nat  BY DEF IInv, TypeOK
<1> QED  BY <1>1, <1>2, QuietKeeps

LEMMA StartVerdictKeeps ==
    ASSUME IInv, NEW w \in Workers, NEW v \in Verdicts, StartVerdict(w, v)
    PROVE  IInv'
<1> DEFINE f == purse["MERCHANT"] >= Fee
           r == [Idle EXCEPT !.at = "verdict", !.verdict = v, !.funds = f]
<1>1. r \in Calls /\ r.at = "verdict"
  <2>1. f \in BOOLEAN  OBVIOUS
  <2> HIDE DEF f
  <2> QED  BY <2>1, CallType DEF Calls, Steps, Idle
<1>2. req' = [req EXCEPT ![w] = r] /\ req[w].at = "idle"
      BY DEF StartVerdict, Idle
<1>3. UNCHANGED <<books, caseRow, stripe, keyed, earned, starts, noted, faults>>
      BY DEF StartVerdict
<1> HIDE DEF r
<1>4. Covered(r)  BY <1>1 DEF Covered
<1> QED  BY <1>1, <1>2, <1>3, <1>4, ReadKeeps

LEMMA StartRetryKeeps ==
    ASSUME IInv, NEW w \in Workers, StartRetry(w)
    PROVE  IInv'
<1> DEFINE r == [Idle EXCEPT !.at = "retry"]
<1>1. r \in Calls /\ r.at = "retry"
      BY CallType DEF Calls, Steps, Idle
<1>2. req' = [req EXCEPT ![w] = r] /\ req[w].at = "idle" /\ locked
      BY DEF StartRetry, Idle
<1>3. UNCHANGED <<books, caseRow, stripe, keyed, earned, starts, noted, faults>>
      BY DEF StartRetry
<1> HIDE DEF r
<1>4. Covered(r)  BY <1>1 DEF Covered
<1> QED  BY <1>1, <1>2, <1>3, <1>4, ReadKeeps

LEMMA StartPayKeeps ==
    ASSUME IInv, NEW w \in Workers, NEW S \in SUBSET Obligations, StartPay(w, S)
    PROVE  IInv'
<1> DEFINE r == [Idle EXCEPT !.at = "look", !.for = S,
                             !.by = IF S = {"ship"} THEN payee ELSE "MERCHANT"]
<1>1. payee \in Payees  BY DEF IInv, TypeOK
<1>2. r \in Calls /\ r.at = "look"
      BY <1>1, CallType DEF Calls, Steps, Idle, Payees
<1>3. Unpaid # {}
      BY DEF StartPay, Payable, Unpaid, Obligations
<1>4. req' = [req EXCEPT ![w] = r] /\ req[w].at = "idle" /\ locked
      BY <1>3, Locked DEF StartPay, Idle
<1>5. UNCHANGED <<books, caseRow, stripe, keyed, earned, starts, noted, faults>>
      BY DEF StartPay
<1> HIDE DEF r
<1>6. Covered(r)  BY <1>2 DEF Covered
<1> QED  BY <1>2, <1>4, <1>5, <1>6, ReadKeeps

LEMMA LookKeeps ==
    ASSUME IInv, NEW w \in Workers, Look(w)
    PROVE  IInv'
<1>1. TypeOK /\ req[w] \in Calls  BY CallType DEF IInv
<1>2. locked /\ req[w].at = "look"  BY Locked DEF Look
<1>3. UNCHANGED <<books, caseRow, stripe, keyed, earned, starts, noted, faults>>
      BY DEF Look
<1>4. CASE Leave(w)
  <2>1. Idle \in Calls /\ Idle.at = "idle"  BY CallType DEF Idle
  <2>2. Covered(Idle)  BY <2>1 DEF Covered
  <2> QED  BY <1>2, <1>3, <1>4, <2>1, <2>2, ReadKeeps DEF Leave
<1>5. CASE req' = [req EXCEPT ![w].at = "pay"]
  <2> DEFINE r == [req[w] EXCEPT !.at = "pay"]
  <2>1. r \in Calls /\ r.at = "pay"  BY <1>1 DEF Calls, Steps
  <2>2. req' = [req EXCEPT ![w] = r]  BY <1>5
  <2> HIDE DEF r
  <2>3. Covered(r)  BY <2>1 DEF Covered
  <2> QED  BY <1>2, <1>3, <2>1, <2>2, <2>3, ReadKeeps
<1> QED  BY <1>4, <1>5 DEF Look

LEMMA StartFulfilKeeps ==
    ASSUME IInv, NEW w \in Workers, NEW s \in Sessions, StartFulfil(w, s)
    PROVE  IInv'
<1> DEFINE r == [Idle EXCEPT !.at = "fulfil", !.session = s, !.for = StillDue(s)]
<1>1. session[s].for \in SUBSET Obligations  BY DEF IInv, TypeOK
<1>2. StillDue(s) \subseteq session[s].for  BY DEF StillDue
<1>3. r \in Calls /\ r.at = "fulfil" /\ r.session = s /\ r.for = StillDue(s)
      BY <1>1, <1>2, CallType DEF Calls, Steps, Idle
<1>4. /\ req' = [req EXCEPT ![w] = r] /\ req[w].at = "idle"
      /\ session[s].stage = "captured"
      BY DEF StartFulfil, Idle
<1>5. UNCHANGED <<books, caseRow, stripe, keyed, earned, starts, noted, faults>>
      BY DEF StartFulfil
<1> HIDE DEF r
<1>6. Covered(r)  BY <1>2, <1>3, <1>4 DEF Covered
<1>7. locked  BY <1>4, Locked
<1> QED  BY <1>3, <1>4, <1>5, <1>6, <1>7, ReadKeeps

LEMMA StartWithdrawalKeeps ==
    ASSUME IInv, NEW w \in Workers, NEW S \in SUBSET Obligations, StartWithdrawal(w, S)
    PROVE  IInv'
<1> DEFINE r == [Idle EXCEPT !.at = "withdraw", !.for = S]
<1>1. r \in Calls /\ r.at = "withdraw"
      BY CallType DEF Calls, Steps, Idle
<1>2. Unpaid # {}  BY DEF StartWithdrawal, OpenLines
<1>3. req' = [req EXCEPT ![w] = r] /\ req[w].at = "idle" /\ locked
      BY <1>2, Locked DEF StartWithdrawal, Idle
<1>4. UNCHANGED <<books, caseRow, stripe, keyed, earned, starts, noted, faults>>
      BY DEF StartWithdrawal
<1> HIDE DEF r
<1>5. Covered(r)  BY <1>1 DEF Covered
<1> QED  BY <1>1, <1>3, <1>4, <1>5, ReadKeeps

\* The one request that has the return to start starts it.
LEMMA LogisticsKeeps ==
    ASSUME IInv, NEW w \in Workers, Logistics(w)
    PROVE  IInv'
<1>1. TypeOK  BY DEF IInv
<1>2. /\ Idle \in Calls /\ Idle.at = "idle" /\ req' = [req EXCEPT ![w] = Idle]
      /\ UNCHANGED <<books, caseRow, stripe, keyed, earned>> /\ req[w].at = "logistics"
      BY CallType DEF Logistics, Leave, Idle
<1>3. Covered(Idle)  BY <1>2 DEF Covered
<1>4. faults \in Nat /\ starts \in Nat /\ noted \subseteq Kinds  BY <1>1 DEF TypeOK
<1>5. CASE Fault /\ Note("lost", TRUE) /\ UNCHANGED starts
  <2>1. /\ noted \subseteq noted' /\ noted' \subseteq Kinds /\ "lost" \in noted'
        BY <1>4, <1>5 DEF Note, Kinds
  <2>2. faults' \in Nat  BY <1>4, <1>5 DEF Fault
  <2> QED  BY <1>2, <1>3, <1>5, <2>1, <2>2, QuietKeeps
<1>6. CASE starts' = starts + 1 /\ UNCHANGED <<noted, faults>>
  <2>1. /\ (req \in [Workers -> Calls])' /\ req'[w] = Idle
        /\ \A v \in Workers : v # w => req'[v] = req[v]
        BY <1>1, <1>2, MoveType
  <2>2. starts' \in Nat  BY <1>4, <1>6
  <2>3. TypeOK'
        BY <1>1, <1>2, <1>6, <2>1, <2>2 DEF TypeOK, Calls, books, caseRow, stripe
  <2>4. Unlocked'  BY <1>2, Locked DEF Unlocked, caseRow
  <2>5. Fulfilling'  BY <1>2, <2>1 DEF IInv, Fulfilling, Covered, stripe
  <2>6. ChargedOnce'
        BY <1>2, <1>6 DEF IInv, ChargedOnce, PaidFor, Never, books, caseRow
  <2>7. CashAccounted'  BY <1>2 DEF IInv, CashAccounted, stripe
  <2>8. Earned'  BY <1>2, <1>6 DEF IInv, Earned, Never, books, caseRow
  <2>9. StartedOnce'
    <3> DEFINE Starting == {v \in Workers : req[v].at = "logistics"}
    <3>. SUFFICES ASSUME Never({"verdict", "retry", "shipping", "withdrawal", "lost"})
                  PROVE  /\ starts' = 1 /\ PaidFor("ship")' /\ Starting' = {}
         BY <1>6 DEF StartedOnce, Never
    <3>1. /\ PaidFor("ship") /\ starts # 1 /\ starts <= 1
          /\ \A v \in Starting : v = w
          BY <1>2 DEF IInv, StartedOnce
    <3>2. Starting' = {}  BY <1>2, <2>1, <3>1
    <3>3. PaidFor("ship")'  BY <1>2, <3>1 DEF PaidFor, caseRow
    <3> QED  BY <1>4, <1>6, <3>1, <3>2, <3>3
  <2> QED  BY <2>3, <2>4, <2>5, <2>6, <2>7, <2>8, <2>9 DEF IInv
<1> QED  BY <1>5, <1>6 DEF Logistics

\* A checkout is opened, or paid; the store earns otherwise.
LEMMA OutsideKeeps ==
    ASSUME IInv, UNCHANGED <<caseRow, charges, credits, settled, credited, keyed, starts, req,
                             noted, faults>>,
           earned' \in Nat, purse' \in [Payees -> Int],
           session' \in [Sessions -> [stage : {"none", "open", "captured"}, via : Routes,
                                      for : SUBSET Obligations]],
           session' = session \/ locked,
           \A s \in Sessions :
              /\ session[s].stage # "none" =>
                    session'[s].for = session[s].for /\ session'[s].via = session[s].via
              /\ session[s].stage = "captured" => session'[s].stage = "captured"
              /\ session'[s].stage = "none" => session[s].stage = "none"
    PROVE  IInv'
<1>1. TypeOK  BY DEF IInv
<1>2. TypeOK'  BY <1>1 DEF TypeOK, caseRow
<1>3. Unlocked'  BY DEF IInv, Unlocked, caseRow
<1>4. Fulfilling'  BY DEF IInv, Fulfilling, Covered
<1>5. ChargedOnce'  BY DEF IInv, ChargedOnce, PaidFor, Never, caseRow
<1>6. CashAccounted'
      BY DEF IInv, Fulfilling, CashAccounted
<1>7. Earned'  BY DEF IInv, Earned, Never, caseRow
<1>8. StartedOnce'  BY DEF IInv, StartedOnce, PaidFor, Never, caseRow
<1> QED  BY <1>2, <1>3, <1>4, <1>5, <1>6, <1>7, <1>8 DEF IInv

LEMMA SessionKeeps ==
    ASSUME IInv, NEW s \in Sessions,
           \/ Capture(s)
           \/ \E via \in Routes, S \in SUBSET Obligations : OpenSession(s, via, S)
    PROVE  IInv'
<1>1. TypeOK  BY DEF IInv
<1>2. /\ UNCHANGED <<caseRow, charges, credits, settled, credited, keyed, starts, req,
                     noted, faults>>
      /\ earned' = earned /\ purse' = purse
      BY DEF Capture, OpenSession, books
<1>3. session \in [Sessions -> [stage : {"none", "open", "captured"}, via : Routes,
                                for : SUBSET Obligations]]
      BY <1>1 DEF TypeOK
<1>4. earned' \in Nat /\ purse' \in [Payees -> Int]
      BY <1>1, <1>2 DEF TypeOK
<1>5. CASE Capture(s)
  <2>1. session[s].stage = "open" /\ session' = [session EXCEPT ![s].stage = "captured"]
        BY <1>5 DEF Capture
  <2>2. locked  BY <2>1, Locked
  <2> QED  BY <1>2, <1>3, <1>4, <2>1, <2>2, OutsideKeeps
<1>6. ASSUME NEW via \in Routes, NEW S \in SUBSET Obligations, OpenSession(s, via, S)
      PROVE  IInv'
  <2>1. /\ session[s].stage = "none"
        /\ session' = [session EXCEPT ![s] = [stage |-> "open", via |-> via, for |-> S]]
        BY <1>6 DEF OpenSession
  <2>2. locked \/ Unpaid # {}
        BY <1>6 DEF OpenSession, Offered, Unpaid, OpenLines, Obligations
  <2>3. locked  BY <2>2, Locked
  <2> QED  BY <1>2, <1>3, <1>4, <2>1, <2>3, OutsideKeeps
<1> QED  BY <1>5, <1>6

LEMMA EarnKeeps ==
    ASSUME IInv, Earn
    PROVE  IInv'
<1>1. purse \in [Payees -> Int]  BY DEF IInv, TypeOK
<1>2. earned \in Nat  BY DEF IInv, TypeOK
<1>3. session \in [Sessions -> [stage : {"none", "open", "captured"}, via : Routes,
                                for : SUBSET Obligations]]
      BY DEF IInv, TypeOK
<1>4. Earning \in Nat  BY SettlementAssumption
<1>5. purse' \in [Payees -> Int] /\ earned' \in Nat
      BY <1>1, <1>2, <1>4 DEF Earn, Payees
<1> QED  BY <1>3, <1>5, OutsideKeeps DEF Earn, stripe

-----------------------------------------------------------------------------
LEMMA InitInv == Init => IInv
<1>. SUFFICES ASSUME Init PROVE IInv
     OBVIOUS
<1>1. TypeOK
  <2>1. locked \in BOOLEAN /\ keyed \in BOOLEAN  BY DEF Init
  <2>2. /\ purse \in [Payees -> Int]
        /\ charges \in [Obligations -> Nat] /\ credits \in [Obligations -> Nat]
        BY SettlementAssumption DEF Init
  <2>3. session \in [Sessions -> [stage : {"none", "open", "captured"}, via : Routes,
                                  for : SUBSET Obligations]]
        BY DEF Init, Unopened, Routes
  <2>4. req \in [Workers -> Calls]  BY CallType DEF Init
  <2>5. earned \in Nat /\ starts \in Nat /\ faults \in Nat  BY DEF Init
  <2>6. /\ settled \in [Sessions -> SUBSET Obligations] /\ credited \in [Sessions -> Nat]
        /\ due \in [Obligations -> {"none", "PENDING", "WITHHELD", "PAID"}]
        /\ due["fee"] # "WITHHELD" /\ payee \in Payees
        /\ method \in {"none", "WALLET", "STRIPE", "STRIPE_WITHHOLD"} /\ noted \subseteq Kinds
        BY DEF Init, Obligations, Payees
  <2> QED  BY <2>1, <2>2, <2>3, <2>4, <2>5, <2>6 DEF TypeOK, Calls
<1>2. Unlocked /\ Fulfilling
      BY DEF Init, Unlocked, Fulfilling, Covered, Idle, Unopened
<1>3. ChargedOnce /\ CashAccounted /\ Earned
      BY DEF Init, ChargedOnce, PaidFor, CashAccounted, Unopened, Earned, Obligations
<1>4. StartedOnce
      BY DEF Init, StartedOnce, PaidFor, Idle, Obligations
<1> QED  BY <1>1, <1>2, <1>3, <1>4 DEF IInv

LEMMA NextInv == IInv /\ [Next]_vars => IInv'
<1>. SUFFICES ASSUME IInv, [Next]_vars PROVE IInv'
     OBVIOUS
<1>1. ASSUME NEW w \in Workers, NEW v \in Verdicts, StartVerdict(w, v) PROVE IInv'
      BY <1>1, StartVerdictKeeps
<1>2. ASSUME NEW w \in Workers, Verdict(w) \/ StartRetry(w) \/ Retry(w) PROVE IInv'
      BY <1>2, VerdictKeeps, StartRetryKeeps, RetryKeeps
<1>3. ASSUME NEW w \in Workers, NEW S \in SUBSET Obligations,
             StartPay(w, S) \/ PayLines(w, S) \/ StartWithdrawal(w, S)
      PROVE  IInv'
      BY <1>3, StartPayKeeps, PayLinesKeeps, StartWithdrawalKeeps
<1>4. ASSUME NEW w \in Workers, Look(w) \/ Pay(w) \/ Withdraw(w) PROVE IInv'
      BY <1>4, LookKeeps, PayKeeps, WithdrawKeeps
<1>5. ASSUME NEW w \in Workers, NEW s \in Sessions, StartFulfil(w, s) PROVE IInv'
      BY <1>5, StartFulfilKeeps
<1>6. ASSUME NEW w \in Workers, Fulfil(w) \/ Logistics(w) PROVE IInv'
      BY <1>6, FulfilKeeps, LogisticsKeeps
<1>7. ASSUME NEW w \in Workers, FulfilRepeated(w) \/ PayRefused(w) \/ Crash(w) PROVE IInv'
      BY <1>7, LeaveKeeps
<1>8. ASSUME NEW s \in Sessions,
             \/ Capture(s)
             \/ \E via \in Routes, S \in SUBSET Obligations : OpenSession(s, via, S)
      PROVE  IInv'
      BY <1>8, SessionKeeps
<1>9. CASE Earn  BY <1>9, EarnKeeps
<1>10. CASE UNCHANGED vars
  <2>1. UNCHANGED <<caseRow, charges, credits, settled, credited, keyed, starts, req,
                    noted, faults, session, earned, purse>>
        BY <1>10 DEF vars, books, stripe
  <2>2. earned \in Nat /\ purse \in [Payees -> Int]  BY DEF IInv, TypeOK
  <2>3. session \in [Sessions -> [stage : {"none", "open", "captured"}, via : Routes,
                                  for : SUBSET Obligations]]
        BY DEF IInv, TypeOK
  <2> QED  BY <2>1, <2>2, <2>3, OutsideKeeps
<1> QED  BY <1>1, <1>2, <1>3, <1>4, <1>5, <1>6, <1>7, <1>8, <1>9, <1>10, Zenon DEF Next

LEMMA Invariance == Spec => []IInv
BY InitInv, NextInv, PTL DEF Spec

\* The rows of the case, the books and the requests keep their types.
THEOREM SettlementType == Spec => []TypeOK
<1>1. IInv => TypeOK  BY DEF IInv
<1> QED  BY <1>1, Invariance, PTL

\* An obligation that was paid was charged once (the claims of
\* deductAdjudicationFeeFromBalance, fulfillShippingPayment and the others).
THEOREM SettlementChargedOnce == Spec => []ChargedOnce
<1>1. IInv => ChargedOnce  BY DEF IInv
<1> QED  BY <1>1, Invariance, PTL

\* A captured payment of obligations is settled or credited back, once
\* (fulfillMerchantObligationPayment, creditObligationOverpayment).
THEOREM SettlementCashAccounted == Spec => []CashAccounted
<1>1. IInv => CashAccounted  BY DEF IInv
<1> QED  BY <1>1, Invariance, PTL

\* The return is started once, by whoever was paid for its shipping
\* (applyShippingPaidLogistics, runReturnShippingLogistics).
THEOREM SettlementStartedOnce == Spec => []StartedOnce
<1>1. IInv => StartedOnce  BY DEF IInv
<1> QED  BY <1>1, Invariance, PTL

\* The platform is credited once with what was charged.
THEOREM SettlementCreditedOnce == Spec => []PlatformCreditedOnce
<1>1. IInv => PlatformCreditedOnce  BY DEF IInv, Earned, PlatformCreditedOnce
<1> QED  BY <1>1, Invariance, PTL
=============================================================================
