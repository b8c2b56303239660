-------------------------- MODULE WithdrawalProofs --------------------------
(***************************************************************************)
(* Proofs about Withdrawal for every set of requests, debts and workers,   *)
(* every amount and every bound on faults and payouts.                     *)
(***************************************************************************)
EXTENDS Withdrawal, FiniteSetTheorems, TLAPS

-----------------------------------------------------------------------------
(* Sums over finite sets of rows.                                           *)

\* One step of the sum over a set: an element, and the sum of the rest.
Pick(s) == CHOOSE x \in s : TRUE
Sums(f, T, g) == g = [s \in SUBSET T |-> IF s = {} THEN 0
                                  ELSE f[Pick(s)] + g[s \ {Pick(s)}]]

LEMMA TotalIs == ASSUME NEW f, NEW T PROVE Total(f, T) = (CHOOSE g : Sums(f, T, g))[T]
BY DEF Total, MapThenSumSet, MapThenFoldSet, Sums, Pick

LEMMA PickIn == \A s : s # {} => Pick(s) \in s
BY DEF Pick

\* What holds of a set when it holds of its parts holds of every subset of S.
LEMMA SetInduction ==
    ASSUME NEW S, IsFiniteSet(S), NEW P,
           \A T \in SUBSET S : (\A U \in SUBSET T : U # T => U \in P) => T \in P
    PROVE  \A T \in SUBSET S : T \in P
<1> DEFINE R == StrictSubsetOrdering(S)
           B == (SUBSET S) \ P
<1>1. IsWellFoundedOn(R, SUBSET S)
      BY FS_StrictSubsetOrderingWellFounded, FS_FiniteSubsetsOfFinite
<1>2. SUFFICES ASSUME B # {} PROVE FALSE  OBVIOUS
<1>3. PICK T \in B : \A U \in B : ~ (<<U, T>> \in R)
  <2>1. B \subseteq SUBSET S  OBVIOUS
  <2> HIDE DEF B, R
  <2> QED  BY <1>1, <1>2, <2>1, WFMin
<1>4. \A U \in SUBSET T : U # T => U \in P
      BY <1>3 DEF StrictSubsetOrdering
<1> QED  BY <1>3, <1>4

\* The sum of a set is one of its elements and the sum of the rest.
LEMMA TotalStep ==
    ASSUME NEW S, IsFiniteSet(S), NEW f
    PROVE  \A T \in SUBSET S : Total(f, T) = IF T = {} THEN 0
               ELSE f[Pick(T)] + Total(f, T \ {Pick(T)})
<1> DEFINE Right(T) == Total(f, T) = IF T = {} THEN 0
                           ELSE f[Pick(T)] + Total(f, T \ {Pick(T)})
           P == {T \in SUBSET S : Right(T)}
<1>1. ASSUME NEW T \in SUBSET S, \A U \in SUBSET T : U # T => Right(U)
      PROVE  Right(T)
  <2> DEFINE Sum(U) == Total(f, U)
             g == [s \in SUBSET T |-> IF s = {} THEN 0
                                      ELSE f[Pick(s)] + Sum(s \ {Pick(s)})]
             h == CHOOSE k : Sums(f, T, k)
  <2>1. \A s \in SUBSET T : s # {} => s \ {Pick(s)} \in SUBSET T /\ s \ {Pick(s)} # T
        BY PickIn
  <2>2. \A s \in SUBSET T : s # T => g[s] = Sum(s)
        BY <1>1
  <2>3. \A s \in SUBSET T : s # {} => g[s \ {Pick(s)}] = Sum(s \ {Pick(s)})
        BY <2>1, <2>2
  <2>4. Sums(f, T, g)
    <3>1. \A s \in SUBSET T : g[s] = IF s = {} THEN 0
                                     ELSE f[Pick(s)] + g[s \ {Pick(s)}]
          BY <2>3
    <3>2. g = [s \in SUBSET T |-> g[s]]  OBVIOUS
    <3> HIDE DEF g
    <3> QED  BY <3>1, <3>2 DEF Sums
  <2>5. Sums(f, T, h)  BY <2>4
  <2> HIDE DEF g, h
  <2>6. \A s \in SUBSET T : h[s] = IF s = {} THEN 0 ELSE f[Pick(s)] + h[s \ {Pick(s)}]
        BY <2>5 DEF Sums
  <2> DEFINE Q == {s \in SUBSET T : s # T => h[s] = Sum(s)}
  <2>7. IsFiniteSet(T)  BY FS_Subset
  <2>8. ASSUME NEW s \in SUBSET T, \A u \in SUBSET s : u # s => u \in Q
        PROVE  s \in Q
    <3>1. SUFFICES ASSUME s # T PROVE h[s] = Sum(s)  OBVIOUS
    <3>2. CASE s = {}  BY <1>1, <2>6, <3>1, <3>2
    <3>3. CASE s # {}
      <4>1. s \ {Pick(s)} \in Q  BY <2>8, <3>3, PickIn
      <4>2. h[s \ {Pick(s)}] = Sum(s \ {Pick(s)})  BY <2>1, <3>3, <4>1
      <4>3. h[s] = f[Pick(s)] + h[s \ {Pick(s)}]  BY <2>6, <3>3
      <4>4. Sum(s) = f[Pick(s)] + Sum(s \ {Pick(s)})  BY <1>1, <3>1, <3>3
      <4> QED  BY <4>2, <4>3, <4>4
    <3> QED  BY <3>2, <3>3
  <2>9. \A s \in SUBSET T : s \in Q
    <3> HIDE DEF Q
    <3> QED  BY <2>7, <2>8, SetInduction
  <2>10. Sum(T) = h[T]  BY TotalIs DEF h
  <2>11. CASE T = {}  BY <2>6, <2>10, <2>11
  <2>12. CASE T # {}
    <3>1. h[T \ {Pick(T)}] = Sum(T \ {Pick(T)})  BY <2>1, <2>9, <2>12
    <3>2. h[T] = f[Pick(T)] + h[T \ {Pick(T)}]  BY <2>6, <2>12
    <3> QED  BY <2>10, <2>12, <3>1, <3>2
  <2> QED  BY <2>11, <2>12
<1>2. ASSUME NEW T \in SUBSET S, \A U \in SUBSET T : U # T => U \in P
      PROVE  T \in P
  <2>1. \A U \in SUBSET T : U # T => Right(U)  BY <1>2
  <2> HIDE DEF Steps
  <2> QED  BY <2>1, <1>1
<1>3. \A T \in SUBSET S : T \in P
  <2> HIDE DEF P
  <2> QED  BY <1>2, SetInduction
<1> QED  BY <1>3
LEMMA TotalNone == ASSUME NEW f PROVE Total(f, {}) = 0
<1>1. IsFiniteSet({}) /\ {} \in SUBSET {}  BY FS_EmptySet
<1> QED  BY <1>1, TotalStep

LEMMA TotalInt ==
    ASSUME NEW S, IsFiniteSet(S), NEW f \in [S -> Int]
    PROVE  \A T \in SUBSET S : Total(f, T) \in Int
<1> DEFINE P == {T \in SUBSET S : Total(f, T) \in Int}
<1>1. ASSUME NEW T \in SUBSET S, \A U \in SUBSET T : U # T => U \in P
      PROVE  T \in P
  <2>1. CASE T = {}  BY <2>1, TotalNone
  <2>2. CASE T # {}
    <3> DEFINE p == Pick(T)  rest == Total(f, T \ {p})
    <3>1. p \in T /\ p \in S  BY <2>2, PickIn
    <3>2. rest \in Int  BY <1>1, <3>1
    <3>3. Total(f, T) = f[p] + rest  BY <2>2, TotalStep
    <3>4. f[p] \in Int  BY <3>1
    <3> HIDE DEF rest, p
    <3> QED  BY <3>2, <3>3, <3>4
  <2> QED  BY <2>1, <2>2
<1>3. \A T \in SUBSET S : T \in P
  <2> HIDE DEF P
  <2> QED  BY <1>1, SetInduction
<1> QED  BY <1>3

\* Any element may be taken out of a sum.
Takes(S, f) ==
    \A T \in SUBSET S : \A x \in T : Total(f, T) = f[x] + Total(f, T \ {x})

LEMMA TotalTake ==
    ASSUME NEW S, IsFiniteSet(S), NEW f \in [S -> Int]
    PROVE  Takes(S, f)
<1> DEFINE P == {T \in SUBSET S : \A x \in T : Total(f, T) = f[x] + Total(f, T \ {x})}
<1>1. ASSUME NEW T \in SUBSET S, \A U \in SUBSET T : U # T => U \in P
      PROVE  T \in P
  <2> SUFFICES ASSUME NEW x \in T
               PROVE  Total(f, T) = f[x] + Total(f, T \ {x})
      OBVIOUS
  <2> DEFINE p == Pick(T)
  <2>1. p \in T  BY PickIn
  <2>2. Total(f, T) = f[p] + Total(f, T \ {p})  BY TotalStep
  <2>3. CASE x = p  BY <2>2, <2>3
  <2>4. CASE x # p
    <3> DEFINE a == Total(f, T \ {p})  b == Total(f, T \ {x})
               c == Total(f, (T \ {p}) \ {x})
    <3>1. a = f[x] + c  BY <1>1, <2>1, <2>4
    <3>2. (T \ {x}) \ {p} = (T \ {p}) \ {x}  OBVIOUS
    <3>3. b = f[p] + c  BY <1>1, <2>1, <2>4, <3>2
    <3>4. c \in Int /\ f[x] \in Int /\ f[p] \in Int  BY <2>1, TotalInt
    <3>5. Total(f, T) = f[p] + a  BY <2>2
    <3> HIDE DEF a, b, c, p
    <3>6. Total(f, T) = f[x] + b  BY <3>1, <3>3, <3>4, <3>5
    <3> QED  BY <3>6 DEF b
  <2> QED  BY <2>3, <2>4
<1>3. \A T \in SUBSET S : T \in P
  <2> HIDE DEF P
  <2> QED  BY <1>1, SetInduction
<1> QED  BY <1>3 DEF Takes

\* Adding d to what is summed, over the elements of D, adds the sum of d over D.
Adds(S, f, g, d, D) == \A x \in S : g[x] = f[x] + (IF x \in D THEN d[x] ELSE 0)

LEMMA TotalAdds ==
    ASSUME NEW S, IsFiniteSet(S), NEW f \in [S -> Int], NEW g \in [S -> Int],
           NEW d \in [S -> Int], NEW D \in SUBSET S,
           Adds(S, f, g, d, D)
    PROVE  \A T \in SUBSET S : Total(g, T) = Total(f, T) + Total(d, T \cap D)
<1> DEFINE P == {T \in SUBSET S : Total(g, T) = Total(f, T) + Total(d, T \cap D)}
<1>1. ASSUME NEW T \in SUBSET S, \A U \in SUBSET T : U # T => U \in P
      PROVE  T \in P
  <2>1. CASE T = {}
    <3>1. T \cap D = {}  BY <2>1
    <3>2. Total(g, T) = 0 /\ Total(f, T) = 0 /\ Total(d, T \cap D) = 0
          BY <2>1, <3>1, TotalNone
    <3> QED  BY <3>2
  <2>2. CASE T # {}
    <3> DEFINE p == Pick(T)
               R == T \ {p}
               fr == Total(f, R)  gr == Total(g, R)  dr == Total(d, R \cap D)
    <3>1. p \in T /\ p \in S /\ R \in SUBSET S /\ R # T /\ R \in SUBSET T  BY <2>2, PickIn
    <3>2. Total(f, T) = f[p] + fr /\ Total(g, T) = g[p] + gr  BY <2>2, TotalStep
    <3>3. gr = fr + dr  BY <1>1, <3>1
    <3>4. Total(d, T \cap D) = (IF p \in D THEN d[p] ELSE 0) + dr
      <4>1. dr \in Int
        <5>1. R \cap D \in SUBSET S  BY <3>1
        <5> QED  BY <5>1, TotalInt
      <4>2. CASE p \in D
        <5>1. (T \cap D) \ {p} = R \cap D /\ p \in T \cap D /\ T \cap D \in SUBSET S
              BY <3>1, <4>2
        <5>2. Total(d, T \cap D) = d[p] + Total(d, (T \cap D) \ {p})
              BY <5>1, TotalTake DEF Takes
        <5> QED  BY <4>2, <5>1, <5>2
      <4>3. CASE p \notin D
        <5>1. T \cap D = R \cap D  BY <4>3
        <5>2. Total(d, T \cap D) = dr  BY <5>1
        <5> HIDE DEF dr, p
        <5> QED  BY <4>1, <4>3, <5>2
      <4> QED  BY <4>2, <4>3
    <3>5. fr \in Int /\ gr \in Int /\ dr \in Int /\ f[p] \in Int /\ g[p] \in Int /\ d[p] \in Int
      <4>1. R \in SUBSET S /\ R \cap D \in SUBSET S  BY <3>1
      <4> QED  BY <3>1, <4>1, TotalInt
    <3>6. g[p] = f[p] + (IF p \in D THEN d[p] ELSE 0)  BY <3>1 DEF Adds
    <3> HIDE DEF p, fr, gr, dr, R
    <3>7. Total(g, T) = Total(f, T) + Total(d, T \cap D)
          BY <3>2, <3>3, <3>4, <3>5, <3>6
    <3> QED  BY <3>7
  <2> QED  BY <2>1, <2>2
<1>3. \A T \in SUBSET S : T \in P
  <2> HIDE DEF P
  <2> QED  BY <1>1, SetInduction
<1> QED  BY <1>3

\* A larger summand makes a larger sum.
LEMMA TotalGrows ==
    ASSUME NEW S, IsFiniteSet(S), NEW f \in [S -> Int], NEW g \in [S -> Int],
           \A x \in S : f[x] <= g[x]
    PROVE  \A T \in SUBSET S : Total(f, T) <= Total(g, T)
<1> DEFINE P == {T \in SUBSET S : Total(f, T) <= Total(g, T)}
<1>1. ASSUME NEW T \in SUBSET S, \A U \in SUBSET T : U # T => U \in P
      PROVE  T \in P
  <2>1. CASE T = {}
    <3>1. Total(g, T) = 0 /\ Total(f, T) = 0  BY <2>1, TotalNone
    <3> QED  BY <3>1
  <2>2. CASE T # {}
    <3> DEFINE p == Pick(T)
               R == T \ {p}
               fr == Total(f, R)  gr == Total(g, R)
    <3>1. p \in T /\ p \in S /\ R \in SUBSET S /\ R # T /\ R \in SUBSET T  BY <2>2, PickIn
    <3>2. Total(f, T) = f[p] + fr /\ Total(g, T) = g[p] + gr  BY <2>2, TotalStep
    <3>3. fr <= gr  BY <1>1, <3>1
    <3>5. fr \in Int /\ gr \in Int /\ f[p] \in Int /\ g[p] \in Int
      <4> QED  BY <3>1, TotalInt
    <3>6. f[p] <= g[p]  BY <3>1
    <3> HIDE DEF p, fr, gr, R
    <3>7. Total(f, T) <= Total(g, T)  BY <3>2, <3>3, <3>5, <3>6
    <3> QED  BY <3>7
  <2> QED  BY <2>1, <2>2
<1>3. \A T \in SUBSET S : T \in P
  <2> HIDE DEF P
  <2> QED  BY <1>1, SetInduction
<1> QED  BY <1>3

LEMMA TotalZero ==
    ASSUME NEW S, IsFiniteSet(S), NEW f \in [S -> Int], \A x \in S : f[x] = 0
    PROVE  \A T \in SUBSET S : Total(f, T) = 0
<1> SUFFICES ASSUME NEW T \in SUBSET S PROVE Total(f, T) = 0
    OBVIOUS
<1>1. Adds(S, f, f, f, S)  BY DEF Adds
<1>2. S \in SUBSET S /\ T \cap S = T  OBVIOUS
<1>3. \A U \in SUBSET S : Total(f, U) = Total(f, U) + Total(f, U \cap S)
      BY <1>1, <1>2, TotalAdds
<1>4. Total(f, T) = Total(f, T) + Total(f, T)  BY <1>2, <1>3
<1> QED  BY <1>4, TotalInt

\* Changing one summand changes the sum by as much.
LEMMA TotalChanges ==
    ASSUME NEW S, IsFiniteSet(S), NEW f \in [S -> Int], NEW g \in [S -> Int],
           NEW x \in S, \A y \in S \ {x} : g[y] = f[y]
    PROVE  Total(g, S) = Total(f, S) - f[x] + g[x]
<1> DEFINE d == [y \in S |-> g[y] - f[y]]
<1>1. /\ d \in [S -> Int] /\ d[x] = g[x] - f[x]
      /\ {x} \in SUBSET S /\ S \cap {x} = {x} /\ {x} \ {x} = {} /\ S \in SUBSET S
      /\ Adds(S, f, g, d, {x})
  BY DEF Adds
<1> HIDE DEF d
<1>2. Total(g, S) = Total(f, S) + Total(d, {x})
  <2>1. \A T \in SUBSET S : Total(g, T) = Total(f, T) + Total(d, T \cap {x})
    BY <1>1, TotalAdds
  <2> QED  BY <1>1, <2>1
<1>3. Total(d, {x}) = d[x]
  <2>1. Total(d, {x}) = d[x] + Total(d, {x} \ {x})
    <3>1. d \in [S -> Int]  BY <1>1
    <3>2. Takes(S, d)  BY <3>1, TotalTake
    <3> QED  BY <1>1, <3>2 DEF Takes
  <2>2. d[x] \in Int  BY <1>1
  <2> QED  BY <1>1, <2>1, <2>2, TotalNone
<1>4. Total(f, S) \in Int  BY <1>1, TotalInt
<1> QED  BY <1>1, <1>2, <1>3, <1>4

\* Sums of natural numbers are natural, and grow with the set.
LEMMA TotalNat ==
    ASSUME NEW S, IsFiniteSet(S), NEW f \in [S -> Nat]
    PROVE  /\ \A T \in SUBSET S : Total(f, T) \in Nat
           /\ \A T \in SUBSET S : \A U \in SUBSET T : Total(f, U) <= Total(f, T)
<1> DEFINE z == [x \in S |-> 0]
<1>1. z \in [S -> Int] /\ f \in [S -> Int] /\ \A x \in S : z[x] <= f[x] /\ z[x] = 0
      OBVIOUS
<1> HIDE DEF z
<1>2. ASSUME NEW T \in SUBSET S PROVE Total(f, T) \in Nat
  <2>1. Total(z, T) <= Total(f, T)  BY <1>1, TotalGrows
  <2>2. Total(z, T) = 0  BY <1>1, TotalZero
  <2>3. Total(f, T) \in Int  BY <1>1, TotalInt
  <2> QED  BY <2>1, <2>2, <2>3
<1>3. ASSUME NEW T \in SUBSET S, NEW U \in SUBSET T
      PROVE  Total(f, U) <= Total(f, T)
  <2> DEFINE g == [x \in S |-> IF x \in U THEN f[x] ELSE 0]
  <2>1. /\ g \in [S -> Int]
        /\ \A x \in S : g[x] <= f[x]
        /\ Adds(S, z, g, f, U)
        /\ U \in SUBSET S /\ T \cap U = U
        BY <1>1 DEF Adds
  <2> HIDE DEF g
  <2>2. Total(g, T) <= Total(f, T)  BY <1>1, <2>1, TotalGrows
  <2>3. Total(g, T) = Total(z, T) + Total(f, U)
    <3>1. \A V \in SUBSET S : Total(g, V) = Total(z, V) + Total(f, V \cap U)
          BY <1>1, <2>1, TotalAdds
    <3> QED  BY <2>1, <3>1
  <2>4. Total(z, T) = 0  BY <1>1, TotalZero
  <2>5. Total(f, U) \in Int  BY <1>2, <2>1
  <2> QED  BY <2>2, <2>3, <2>4, <2>5
<1> QED  BY <1>2, <1>3

\* The debts of a set of lines add up, and those of a part to no more.
LEMMA OwedNat ==
    /\ \A S \in SUBSET Lines : Owed(S) \in Nat
    /\ \A S \in SUBSET Lines : \A U \in SUBSET S : Owed(U) <= Owed(S)
<1>1. Debt \in [Lines -> Nat] /\ IsFiniteSet(Lines)  BY WithdrawalAssumption
<1> QED  BY <1>1, TotalNat DEF Owed


-----------------------------------------------------------------------------
(* The requests in flight.                                                  *)

Calls == [at : Steps, for : Requests \cup {NoRequest}, settles : SUBSET Lines, known : BOOLEAN]

\* What a step does to the other workers and to its own.
LEMMA GotoType ==
    ASSUME req \in [Workers -> Calls], NEW w \in Workers, NEW step \in Steps, Goto(w, step)
    PROVE  req' \in [Workers -> Calls]
<1>1. [req[w] EXCEPT !.at = step] \in Calls  BY DEF Calls
<1> QED  BY <1>1 DEF Goto

LEMMA LeaveType ==
    ASSUME req \in [Workers -> Calls], NEW w \in Workers, Leave(w)
    PROVE  req' \in [Workers -> Calls]
<1>1. Idle \in Calls  BY DEF Calls, Idle, Steps
<1> HIDE DEF Calls, Idle
<1> QED  BY <1>1 DEF Leave

LEMMA LearnType ==
    ASSUME req \in [Workers -> Calls], NEW w \in Workers, NEW step \in Steps,
           req' = [req EXCEPT ![w].at = step, ![w].known = TRUE]
    PROVE  req' \in [Workers -> Calls]
<1>1. [[req[w] EXCEPT !.at = step] EXCEPT !.known = TRUE] \in Calls  BY DEF Calls
<1>2. req' = [req EXCEPT ![w] = [[req[w] EXCEPT !.at = step] EXCEPT !.known = TRUE]]  OBVIOUS
<1> QED  BY <1>1, <1>2

LEMMA EnterType ==
    ASSUME req \in [Workers -> Calls], NEW w \in Workers, NEW c \in Calls,
           req' = [req EXCEPT ![w] = c]
    PROVE  req' \in [Workers -> Calls]
OBVIOUS

\* Sums of debts are numbers, and so is what a plan leaves.
LEMMA NetInt ==
    ASSUME req \in [Workers -> Calls], NEW w \in Workers, req[w].for \in Requests
    PROVE  Net(w) \in Int
<1>1. req[w].settles \in SUBSET Lines  BY DEF Calls
<1>2. Owed(req[w].settles) \in Nat  BY <1>1, OwedNat
<1> QED  BY <1>2, WithdrawalAssumption DEF Net

LEMMA PayoutNetInt ==
    ASSUME req \in [Workers -> Calls], NEW w \in Workers
    PROVE  PayoutNet(w) \in Int
<1>1. req[w].settles \in SUBSET Lines  BY DEF Calls
<1>2. Owed(req[w].settles) \in Nat  BY <1>1, OwedNat
<1> QED  BY <1>2, WithdrawalAssumption DEF PayoutNet

LEMMA SettledLines == ASSUME NEW amount PROVE Settled(amount) \in SUBSET Lines
BY DEF Settled, Due

\* A worker that is not idle and not at a payout acts for a request.
OnRequest == {"approve", "reject", "cancel", "claim", "hold", "send", "store", "ledger"}
ActsFor == \A w \in Workers : req[w].at \in OnRequest => req[w].for \in Requests

-----------------------------------------------------------------------------
(* Type correctness.                                                        *)

LEMMA InitType == Init => TypeOK /\ ActsFor
<1>1. Idle \in Calls  BY DEF Calls, Idle, Steps
<1>2. Init => req \in [Workers -> Calls]  BY <1>1 DEF Init
<1> QED  BY <1>2, WithdrawalAssumption DEF Init, TypeOK, Calls, ActsFor, OnRequest, Idle, Statuses

\* Debts, cases and requests keep their types; only the statement of a worker
\* that is not about its request is left to the steps below.
LEMMA EnvironmentType ==
    ASSUME TypeOK,
           \/ \E l \in Lines : Charge(l) \/ PayElsewhere(l)
           \/ FreezeCase \/ ThawCase
           \/ \E r \in Requests : Request(r) \/ Release(r) \/ TransferEvent(r)
    PROVE  TypeOK' /\ req' = req
<1> USE WithdrawalAssumption DEF TypeOK, Statuses, balances, ledger, request, stripe
<1>1. CASE \E l \in Lines : Charge(l) \/ PayElsewhere(l)
  BY <1>1 DEF Charge, PayElsewhere
<1>2. CASE FreezeCase \/ ThawCase
  BY <1>2 DEF FreezeCase, ThawCase
<1>3. ASSUME NEW r \in Requests, Request(r)  PROVE TypeOK' /\ req' = req
  BY <1>3 DEF Request
<1>4. ASSUME NEW r \in Requests, Release(r)  PROVE TypeOK' /\ req' = req
  BY <1>4 DEF Release, Unhold, Releasable
<1>5. ASSUME NEW r \in Requests, TransferEvent(r)  PROVE TypeOK' /\ req' = req
  BY <1>5 DEF TransferEvent
<1> QED  BY <1>1, <1>2, <1>3, <1>4, <1>5

\* The rows a worker's step writes keep their types.
RowsOK ==
    /\ {available, frozen, out, sent} \subseteq Int
    /\ {onCase, payouts, faults} \subseteq Nat
    /\ line \in [Lines -> {"none", "due", "paid"}]
    /\ lineRows \in [Lines -> Nat]
    /\ status \in [Requests -> Statuses]
    /\ marker \in [Requests -> {"none", "pending", "tr"}]
    /\ row \in [Requests -> Int]
    /\ debits \in [Requests -> Nat]
    /\ transfer \in [Requests -> Int]
    /\ overtaken \subseteq Kinds

LEMMA TypeIsRows == TypeOK <=> RowsOK /\ req \in [Workers -> Calls]
BY DEF TypeOK, RowsOK, Calls

LEMMA TypeIsRowsLater == TypeOK' <=> RowsOK' /\ req' \in [Workers -> Calls]
BY DEF TypeOK, RowsOK, Calls

LEMMA SettleType ==
    ASSUME RowsOK, NEW w \in Workers, Settle(w)
    PROVE  /\ line' \in [Lines -> {"none", "due", "paid"}]
           /\ lineRows' \in [Lines -> Nat]
BY DEF RowsOK, Settle, SettleLines

\* A worker at a step of a request, with the request as a name of its own.
LEMMA DecideRows ==
    ASSUME RowsOK, NEW w \in Workers, NEW r \in Requests, r = req[w].for, Decide(w)
    PROVE  RowsOK'
<1> USE WithdrawalAssumption DEF RowsOK, Statuses, Kinds, balances, ledger, request, stripe, Note
<1>1. CASE Approve(w)  BY <1>1 DEF Approve
<1>2. CASE Reject(w)  BY <1>2 DEF Reject, Unhold, Releasable
<1>3. CASE Cancel(w)  BY <1>3 DEF Cancel, Unhold, Releasable
<1> QED  BY <1>1, <1>2, <1>3 DEF Decide

LEMMA CompleteRows ==
    ASSUME RowsOK, NEW w \in Workers, NEW r \in Requests, r = req[w].for,
           Net(w) \in Int,
           Claim(w) \/ Hold(w) \/ Send(w) \/ Store(w)
    PROVE  RowsOK'
<1> USE WithdrawalAssumption DEF RowsOK, Statuses, Kinds, balances, ledger, request, stripe, Note, Fault
<1>1. CASE Claim(w)  BY <1>1 DEF Claim
<1>2. CASE Hold(w)
  <2>1. CASE Fundable(Amount[r]) /\ Raise(Amount[r]) /\ Note("hold", status[r] # "PROCESSING")
    BY <1>2, <2>1 DEF Hold, Raise, TopUp
  <2>2. CASE ClaimBack(w, r, transfer[r]) /\ UNCHANGED balances
    BY <1>2, <2>2 DEF Hold, ClaimBack
  <2> QED  BY <1>2, <2>1, <2>2 DEF Hold
<1>3. CASE Send(w)
  <2>1. transfer' \in [Requests -> Int]  BY <1>3 DEF Send
  <2>2. marker' \in [Requests -> {"none", "pending", "tr"}]  BY <1>3 DEF Send, ClaimBack
  <2>3. overtaken' \subseteq Kinds  BY <1>3 DEF Send, ClaimBack
  <2>4. faults' \in Nat  BY <1>3 DEF Send
  <2>5. UNCHANGED <<balances, ledger, status, sent, payouts>>  BY <1>3 DEF Send
  <2> QED  BY <2>1, <2>2, <2>3, <2>4, <2>5
<1>4. CASE Store(w)  BY <1>4 DEF Store
<1> QED  BY <1>1, <1>2, <1>3, <1>4

LEMMA FinishRows ==
    ASSUME RowsOK, NEW w \in Workers, NEW r \in Requests, r = req[w].for,
           Net(w) \in Int, Finish(w)
    PROVE  RowsOK'
<1> USE WithdrawalAssumption DEF RowsOK, Statuses, Kinds, balances, ledger, request, stripe, Note
<1>1. CASE Record(w)
  <2>1. line' \in [Lines -> {"none", "due", "paid"}] /\ lineRows' \in [Lines -> Nat]
    BY <1>1, SettleType DEF Record
  <2>2. {available', frozen', out', sent'} \subseteq Int /\ {onCase', payouts', faults'} \subseteq Nat
    BY <1>1 DEF Record, Burn, TopUp
  <2>3. /\ status' \in [Requests -> Statuses]
        /\ marker' \in [Requests -> {"none", "pending", "tr"}]
    BY <1>1 DEF Record, MarkCompleted
  <2>4. /\ row' \in [Requests -> Int]
        /\ debits' \in [Requests -> Nat]
        /\ transfer' \in [Requests -> Int]
        /\ overtaken' \subseteq Kinds
    BY <1>1 DEF Record
  <2> QED  BY <2>1, <2>2, <2>3, <2>4
<1>2. CASE Close(w)  BY <1>2 DEF Close, MarkCompleted
<1>3. CASE GiveUp(w)  BY <1>3 DEF GiveUp
<1> QED  BY <1>1, <1>2, <1>3 DEF Finish

LEMMA PayoutRows ==
    ASSUME RowsOK, NEW w \in Workers, PayoutNet(w) \in Int,
           StartPayout(w) \/ Payout(w) \/ SendPayout(w) \/ Reverse(w) \/ Crash(w)
    PROVE  RowsOK'
<1> USE WithdrawalAssumption DEF RowsOK, Statuses, Kinds, balances, ledger, request, stripe, Note, Fault
<1>1. CASE StartPayout(w)  BY <1>1 DEF StartPayout
<1>2. CASE Payout(w)
  <2>1. line' \in [Lines -> {"none", "due", "paid"}] /\ lineRows' \in [Lines -> Nat]
    BY <1>2, SettleType DEF Payout
  <2>2. available' \in Int /\ out' \in Int
    <3>1. CASE available' = available - PayoutAmount /\ out' = out + PayoutAmount  BY <3>1
    <3>2. CASE UNCHANGED <<available, out>>  BY <3>2
    <3> QED  BY <1>2, <3>1, <3>2 DEF Payout
  <2>3. overtaken' \subseteq Kinds  BY <1>2 DEF Payout
  <2>4. UNCHANGED <<frozen, onCase, row, debits, request, stripe, payouts, faults>>
    BY <1>2 DEF Payout
  <2> QED  BY <2>1, <2>2, <2>3, <2>4
<1>3. CASE SendPayout(w)  BY <1>3 DEF SendPayout
<1>4. CASE Reverse(w)  BY <1>4 DEF Reverse
<1>5. CASE Crash(w)  BY <1>5 DEF Crash
<1> QED  BY <1>1, <1>2, <1>3, <1>4, <1>5

\* What a worker's step does to the requests in flight.
Moves(w) ==
    \/ \E step \in Steps \ OnRequest : Goto(w, step)
    \/ \E step \in Steps : Goto(w, step) /\ req[w].at \in OnRequest
    \/ Leave(w)
    \/ \E step \in Steps : /\ req[w].at \in OnRequest
                           /\ req' = [req EXCEPT ![w].at = step, ![w].known = TRUE]
    \/ req' = [req EXCEPT ![w].at = "reverse", ![w].known = TRUE]
    \/ \E c \in Calls : /\ c.at \in OnRequest => c.for \in Requests
                        /\ req' = [req EXCEPT ![w] = c]

LEMMA MovesType ==
    ASSUME req \in [Workers -> Calls], ActsFor, NEW w \in Workers, Moves(w)
    PROVE  req' \in [Workers -> Calls] /\ ActsFor'
<1>1. CASE \E step \in Steps \ OnRequest : Goto(w, step)
  <2>1. PICK step \in Steps \ OnRequest : Goto(w, step)  BY <1>1
  <2>2. req' \in [Workers -> Calls]  BY <2>1, GotoType
  <2>3. req'[w].at = step /\ \A v \in Workers \ {w} : req'[v] = req[v]  BY <2>1 DEF Goto, Calls
  <2> QED  BY <2>1, <2>2, <2>3 DEF ActsFor
<1>2. CASE \E step \in Steps : Goto(w, step) /\ req[w].at \in OnRequest
  <2>1. PICK step \in Steps : Goto(w, step) /\ req[w].at \in OnRequest  BY <1>2
  <2>2. req' \in [Workers -> Calls]  BY <2>1, GotoType
  <2>3. req'[w].for = req[w].for /\ \A v \in Workers \ {w} : req'[v] = req[v]  BY <2>1 DEF Goto, Calls
  <2> QED  BY <2>1, <2>2, <2>3 DEF ActsFor
<1>3. CASE Leave(w)
  <2>1. req' \in [Workers -> Calls]  BY <1>3, LeaveType
  <2>2. req'[w] = Idle /\ \A v \in Workers \ {w} : req'[v] = req[v]  BY <1>3 DEF Leave
  <2>3. Idle.at \notin OnRequest  BY DEF Idle, OnRequest
  <2> QED  BY <2>1, <2>2, <2>3 DEF ActsFor
<1>4. CASE \E step \in Steps : /\ req[w].at \in OnRequest
                               /\ req' = [req EXCEPT ![w].at = step, ![w].known = TRUE]
  <2>1. PICK step \in Steps : /\ req[w].at \in OnRequest
                              /\ req' = [req EXCEPT ![w].at = step, ![w].known = TRUE]
    BY <1>4
  <2>2. req' \in [Workers -> Calls]  BY <2>1, LearnType
  <2>3. req'[w].for = req[w].for /\ \A v \in Workers \ {w} : req'[v] = req[v]  BY <2>1 DEF Calls
  <2> QED  BY <2>1, <2>2, <2>3 DEF ActsFor
<1>5. CASE req' = [req EXCEPT ![w].at = "reverse", ![w].known = TRUE]
  <2>1. "reverse" \in Steps  BY DEF Steps
  <2>2. req' \in [Workers -> Calls]  BY <1>5, <2>1, LearnType
  <2>3. req'[w].at = "reverse" /\ \A v \in Workers \ {w} : req'[v] = req[v]  BY <1>5 DEF Calls
  <2>4. "reverse" \notin OnRequest  BY DEF OnRequest
  <2> QED  BY <2>2, <2>3, <2>4 DEF ActsFor
<1>6. CASE \E c \in Calls : /\ c.at \in OnRequest => c.for \in Requests
                            /\ req' = [req EXCEPT ![w] = c]
  <2>1. PICK c \in Calls : /\ c.at \in OnRequest => c.for \in Requests
                           /\ req' = [req EXCEPT ![w] = c]
    BY <1>6
  <2>2. req' \in [Workers -> Calls]  BY <2>1, EnterType
  <2>3. req'[w] = c /\ \A v \in Workers \ {w} : req'[v] = req[v]  BY <2>1
  <2> QED  BY <2>1, <2>2, <2>3 DEF ActsFor
<1> QED  BY <1>1, <1>2, <1>3, <1>4, <1>5, <1>6 DEF Moves

\* Every step of a worker is one of these moves.
LEMMA WorkerMoves ==
    ASSUME req \in [Workers -> Calls], NEW w \in Workers,
           \/ Decide(w) \/ Claim(w) \/ Hold(w) \/ Send(w) \/ Store(w) \/ Finish(w)
           \/ StartPayout(w) \/ Payout(w) \/ SendPayout(w) \/ Reverse(w) \/ Crash(w)
    PROVE  Moves(w)
<1> USE DEF Moves, Steps, OnRequest
<1>1. CASE Decide(w)  BY <1>1 DEF Decide, Approve, Reject, Cancel
<1>2. CASE Claim(w)  BY <1>2 DEF Claim
<1>3. CASE Hold(w)  BY <1>3 DEF Hold
<1>4. CASE Send(w)  BY <1>4 DEF Send
<1>5. CASE Store(w)  BY <1>5 DEF Store
<1>6. CASE Finish(w)  BY <1>6 DEF Finish, Record, Close, GiveUp
<1>7. CASE StartPayout(w)
  <2> DEFINE c == [Idle EXCEPT !.at = "payout", !.settles = Settled(PayoutAmount)]
  <2>1. c \in Calls /\ c.at = "payout"  BY SettledLines DEF Calls, Idle
  <2>2. req' = [req EXCEPT ![w] = c]  BY <1>7 DEF StartPayout
  <2> HIDE DEF c
  <2> QED  BY <2>1, <2>2
<1>8. CASE Payout(w)  BY <1>8 DEF Payout
<1>9. CASE SendPayout(w)  BY <1>9 DEF SendPayout
<1>10. CASE Reverse(w)  BY <1>10 DEF Reverse
<1>11. CASE Crash(w)  BY <1>11 DEF Crash
<1> QED  BY <1>1, <1>2, <1>3, <1>4, <1>5, <1>6, <1>7, <1>8, <1>9, <1>10, <1>11

\* Starting a request changes only the request in flight.
Starts(w, r) ==
    \/ \E step \in {"approve", "reject", "cancel"} : StartDecision(w, r, step)
    \/ StartComplete(w, r)

LEMMA StartMoves ==
    ASSUME req \in [Workers -> Calls], NEW w \in Workers, NEW r \in Requests, Starts(w, r)
    PROVE  Moves(w) /\ UNCHANGED <<balances, ledger, request, stripe, payouts, overtaken, faults>>
<1>1. CASE \E step \in {"approve", "reject", "cancel"} : StartDecision(w, r, step)
  <2>1. PICK step \in {"approve", "reject", "cancel"} : StartDecision(w, r, step)  BY <1>1
  <2> DEFINE c == [Idle EXCEPT !.at = step, !.for = r]
  <2>2. c \in Calls /\ c.for \in Requests  BY DEF Calls, Idle, Steps
  <2>3. req' = [req EXCEPT ![w] = c]  BY <2>1 DEF StartDecision
  <2> HIDE DEF c
  <2> QED  BY <2>1, <2>2, <2>3 DEF Moves, StartDecision
<1>2. CASE StartComplete(w, r)
  <2>1. PICK a \in {"claim", "ledger"}, k \in BOOLEAN :
          req' = [req EXCEPT ![w] = [at |-> a, for |-> r, settles |-> Settled(Amount[r]), known |-> k]]
    BY <1>2, Zenon DEF StartComplete, Known
  <2> DEFINE c == [at |-> a, for |-> r, settles |-> Settled(Amount[r]), known |-> k]
  <2>2. c \in Calls /\ c.for \in Requests  BY SettledLines DEF Calls, Steps
  <2>3. req' = [req EXCEPT ![w] = c]  BY <2>1
  <2> HIDE DEF c
  <2> QED  BY <1>2, <2>2, <2>3 DEF Moves, StartComplete
<1> QED  BY <1>1, <1>2 DEF Starts

\* The steps, one kind after the other.
LEMMA Kind ==
    ASSUME [Next]_vars
    PROVE  \/ \E r \in Requests : Request(r) \/ Release(r) \/ TransferEvent(r)
           \/ \E l \in Lines : Charge(l) \/ PayElsewhere(l)
           \/ FreezeCase \/ ThawCase
           \/ \E w \in Workers, r \in Requests : Starts(w, r)
           \/ \E w \in Workers : Decide(w)
           \/ \E w \in Workers : Claim(w) \/ Hold(w) \/ Send(w) \/ Store(w)
           \/ \E w \in Workers : Finish(w)
           \/ \E w \in Workers : StartPayout(w) \/ Payout(w) \/ SendPayout(w) \/ Reverse(w) \/ Crash(w)
           \/ UNCHANGED vars
BY Zenon DEF Next, Starts

LEMMA TypeNext ==
    ASSUME TypeOK, ActsFor, [Next]_vars
    PROVE  TypeOK' /\ ActsFor'
<1>0. RowsOK /\ req \in [Workers -> Calls]  BY TypeIsRows
<1>1. CASE \/ \E r \in Requests : Request(r) \/ Release(r) \/ TransferEvent(r)
           \/ \E l \in Lines : Charge(l) \/ PayElsewhere(l)
           \/ FreezeCase \/ ThawCase
  BY <1>1, EnvironmentType DEF ActsFor
<1>2. CASE \E w \in Workers, r \in Requests : Starts(w, r)
  <2>1. PICK w \in Workers, r \in Requests : Starts(w, r)  BY <1>2
  <2>2. RowsOK'
    BY <1>0, <2>1, StartMoves DEF RowsOK, balances, ledger, request, stripe
  <2> QED  BY <1>0, <2>1, <2>2, StartMoves, MovesType, TypeIsRowsLater
<1>3. CASE \E w \in Workers : Decide(w)
  <2>1. PICK w \in Workers : Decide(w)  BY <1>3
  <2>2. req[w].for \in Requests
    BY <2>1 DEF Decide, Approve, Reject, Cancel, ActsFor, OnRequest
  <2>3. Moves(w)  BY <1>0, <2>1, WorkerMoves
  <2> QED  BY <1>0, <2>1, <2>2, <2>3, DecideRows, MovesType, TypeIsRowsLater
<1>4. CASE \E w \in Workers : Claim(w) \/ Hold(w) \/ Send(w) \/ Store(w)
  <2>1. PICK w \in Workers : Claim(w) \/ Hold(w) \/ Send(w) \/ Store(w)  BY <1>4
  <2>2. req[w].for \in Requests
    BY <2>1 DEF Claim, Hold, Send, Store, ActsFor, OnRequest
  <2>3. Moves(w)  BY <1>0, <2>1, WorkerMoves
  <2>4. Net(w) \in Int  BY <1>0, <2>2, NetInt
  <2> QED  BY <1>0, <2>1, <2>2, <2>3, <2>4, CompleteRows, MovesType, TypeIsRowsLater
<1>5. CASE \E w \in Workers : Finish(w)
  <2>1. PICK w \in Workers : Finish(w)  BY <1>5
  <2>2. req[w].for \in Requests
    BY <2>1 DEF Finish, Record, Close, GiveUp, ActsFor, OnRequest
  <2>3. Moves(w)  BY <1>0, <2>1, WorkerMoves
  <2>4. Net(w) \in Int  BY <1>0, <2>2, NetInt
  <2> QED  BY <1>0, <2>1, <2>2, <2>3, <2>4, FinishRows, MovesType, TypeIsRowsLater
<1>6. CASE \E w \in Workers :
             StartPayout(w) \/ Payout(w) \/ SendPayout(w) \/ Reverse(w) \/ Crash(w)
  <2>1. PICK w \in Workers :
             StartPayout(w) \/ Payout(w) \/ SendPayout(w) \/ Reverse(w) \/ Crash(w)
    BY <1>6
  <2>2. Moves(w)  BY <1>0, <2>1, WorkerMoves
  <2>3. PayoutNet(w) \in Int  BY <1>0, PayoutNetInt
  <2> QED  BY <1>0, <2>1, <2>2, <2>3, PayoutRows, MovesType, TypeIsRowsLater
<1>7. CASE UNCHANGED vars
  BY <1>7 DEF vars, balances, ledger, request, stripe, TypeOK, ActsFor
<1> QED  BY <1>1, <1>2, <1>3, <1>4, <1>5, <1>6, <1>7, Kind, Zenon

\* A request in flight, the money of an account and the rows of the wallet have
\* their types after every step of every actor.
THEOREM WithdrawalType == Spec => []TypeOK
<1>1. Init => TypeOK /\ ActsFor  BY InitType
<1>2. TypeOK /\ ActsFor /\ [Next]_vars => (TypeOK /\ ActsFor)'  BY TypeNext
<1> QED  BY <1>1, <1>2, PTL DEF Spec

THEOREM Typed == Spec => [](TypeOK /\ ActsFor)
<1>1. Init => TypeOK /\ ActsFor  BY InitType
<1>2. TypeOK /\ ActsFor /\ [Next]_vars => (TypeOK /\ ActsFor)'  BY TypeNext
<1> QED  BY <1>1, <1>2, PTL DEF Spec

-----------------------------------------------------------------------------
(* The money of the account.                                                *)

LEMMA ConservedNext ==
    ASSUME TypeOK, ActsFor, WalletConserved, [Next]_vars
    PROVE  WalletConserved'
<1> USE DEF WalletConserved, balances
<1>0. /\ {available, frozen, out} \subseteq Int
      /\ onCase \in Nat
      /\ \A r \in Requests : Amount[r] \in Nat
      /\ PayoutAmount \in Nat
  BY WithdrawalAssumption DEF TypeOK
<1>1. CASE \/ \E r \in Requests : Request(r) \/ Release(r) \/ TransferEvent(r)
           \/ \E l \in Lines : Charge(l) \/ PayElsewhere(l)
           \/ FreezeCase \/ ThawCase
  <2>1. ASSUME NEW r \in Requests, Request(r)  PROVE WalletConserved'
    BY <1>0, <2>1 DEF Request, Withdrawable
  <2>2. ASSUME NEW r \in Requests, Release(r)  PROVE WalletConserved'
    BY <1>0, <2>2 DEF Release, Unhold, Releasable
  <2>3. ASSUME NEW r \in Requests, TransferEvent(r)  PROVE WalletConserved'
    BY <1>0, <2>3 DEF TransferEvent
  <2>4. CASE \E l \in Lines : Charge(l) \/ PayElsewhere(l)
    BY <2>4 DEF Charge, PayElsewhere
  <2>5. CASE FreezeCase \/ ThawCase
    BY <1>0, <2>5, WithdrawalAssumption DEF FreezeCase, ThawCase
  <2> QED  BY <1>1, <2>1, <2>2, <2>3, <2>4, <2>5
<1>2. CASE \E w \in Workers, r \in Requests : Starts(w, r)
  BY <1>2, StartMoves, TypeIsRows
<1>3. CASE \E w \in Workers : Decide(w)
  <2>1. PICK w \in Workers : Decide(w)  BY <1>3
  <2>2. PICK r \in Requests : r = req[w].for
    BY <2>1 DEF Decide, Approve, Reject, Cancel, ActsFor, OnRequest
  <2>3. UNCHANGED balances \/ Unhold(Amount[r])
    BY <2>1, <2>2 DEF Decide, Approve, Reject, Cancel
  <2> QED  BY <1>0, <2>3 DEF Unhold, Releasable
<1>4. CASE \E w \in Workers : Claim(w) \/ Hold(w) \/ Send(w) \/ Store(w)
  <2>1. PICK w \in Workers : Claim(w) \/ Hold(w) \/ Send(w) \/ Store(w)  BY <1>4
  <2>2. PICK r \in Requests : r = req[w].for
    BY <2>1 DEF Claim, Hold, Send, Store, ActsFor, OnRequest
  <2>3. UNCHANGED balances \/ (Fundable(Amount[r]) /\ Raise(Amount[r]))
    BY <2>1, <2>2 DEF Claim, Hold, Send, Store
  <2> QED  BY <1>0, <2>3 DEF Raise, Fundable, TopUp
<1>5. CASE \E w \in Workers : Finish(w)
  <2>1. PICK w \in Workers : Finish(w)  BY <1>5
  <2>2. PICK r \in Requests : r = req[w].for
    BY <2>1 DEF Finish, Record, Close, GiveUp, ActsFor, OnRequest
  <2>3. UNCHANGED balances \/ (Fundable(Amount[r]) /\ Burn(Amount[r]))
    BY <2>1, <2>2 DEF Finish, Record, Close, GiveUp
  <2> QED  BY <1>0, <2>3 DEF Burn, Fundable, TopUp
<1>6. CASE \E w \in Workers :
             StartPayout(w) \/ Payout(w) \/ SendPayout(w) \/ Reverse(w) \/ Crash(w)
  <2>1. PICK w \in Workers :
             StartPayout(w) \/ Payout(w) \/ SendPayout(w) \/ Reverse(w) \/ Crash(w)
    BY <1>6
  <2>2. UNCHANGED <<frozen, onCase>>
    BY <2>1 DEF StartPayout, Payout, SendPayout, Reverse, Crash
  <2>3. \/ UNCHANGED <<available, out>>
        \/ /\ PayoutAmount <= available
           /\ available' = available - PayoutAmount
           /\ out' = out + PayoutAmount
        \/ available' = available + PayoutAmount /\ out' = out - PayoutAmount
    BY <2>1 DEF StartPayout, Payout, SendPayout, Reverse, Crash
  <2> QED  BY <1>0, <2>2, <2>3
<1>7. CASE UNCHANGED vars  BY <1>7 DEF vars
<1> QED  BY <1>1, <1>2, <1>3, <1>4, <1>5, <1>6, <1>7, Kind, Zenon

\* "Frozen is burned, never returned to available": requests, releases, top-ups,
\* completions and payouts only move money, whoever else acts at the same time.
THEOREM WithdrawalConserved == Spec => []WalletConserved
<1>1. Init => WalletConserved
  BY WithdrawalAssumption DEF Init, WalletConserved
<1>2. (TypeOK /\ ActsFor) /\ WalletConserved /\ [Next]_vars => WalletConserved'
  BY ConservedNext
<1> QED  BY <1>1, <1>2, Typed, PTL DEF Spec

-----------------------------------------------------------------------------
(* One active request, one debit.                                           *)

\* What was noted stays noted.
LEMMA NeverBefore ==
    ASSUME [Next]_vars, NEW K, Never(K)'
    PROVE  Never(K)
<1>1. overtaken \subseteq overtaken'
  <2> USE DEF Note
  <2>1. CASE \/ \E r \in Requests : Request(r) \/ Release(r) \/ TransferEvent(r)
             \/ \E l \in Lines : Charge(l) \/ PayElsewhere(l)
             \/ FreezeCase \/ ThawCase
    BY <2>1 DEF Request, Release, TransferEvent, Charge, PayElsewhere, FreezeCase, ThawCase
  <2>2. CASE \E w \in Workers, r \in Requests : Starts(w, r)
    BY <2>2 DEF Starts, StartDecision, StartComplete
  <2>3. CASE \E w \in Workers : Decide(w)
    BY <2>3 DEF Decide, Approve, Reject, Cancel
  <2>4. CASE \E w \in Workers : Claim(w) \/ Hold(w) \/ Send(w) \/ Store(w)
    BY <2>4 DEF Claim, Hold, Send, Store, ClaimBack
  <2>5. CASE \E w \in Workers : Finish(w)
    BY <2>5 DEF Finish, Record, Close, GiveUp
  <2>6. CASE \E w \in Workers :
             StartPayout(w) \/ Payout(w) \/ SendPayout(w) \/ Reverse(w) \/ Crash(w)
    BY <2>6 DEF StartPayout, Payout, SendPayout, Reverse, Crash
  <2>7. CASE UNCHANGED vars  BY <2>7 DEF vars
  <2> QED  BY <2>1, <2>2, <2>3, <2>4, <2>5, <2>6, <2>7, Kind, Zenon
<1> QED  BY <1>1 DEF Never

\* How the status of a request may change.
LEMMA StatusStep ==
    ASSUME TypeOK, ActsFor, [Next]_vars
    PROVE  \/ UNCHANGED <<status, debits>>
           \/ \E r \in Requests : Request(r)
           \/ \E r \in Requests, s \in {"PROCESSING", "REJECTED", "CANCELLED"} :
                /\ status' = [status EXCEPT ![r] = s]
                /\ Moved(r) => "decision" \in overtaken'
                /\ UNCHANGED <<debits, marker, transfer>>
                /\ \E w \in Workers : Leave(w)
           \/ \E r \in Requests : Release(r)
           \/ \E r \in Requests :
                /\ status[r] = "PROCESSING"
                /\ status' = [status EXCEPT ![r] = "COMPLETED"]
                /\ UNCHANGED debits \/ debits' = [debits EXCEPT ![r] = @ + 1]
<1> USE DEF ledger, request, stripe
<1>1. CASE \/ \E r \in Requests : Request(r) \/ Release(r) \/ TransferEvent(r)
           \/ \E l \in Lines : Charge(l) \/ PayElsewhere(l)
           \/ FreezeCase \/ ThawCase
  BY <1>1 DEF TransferEvent, Charge, PayElsewhere, FreezeCase, ThawCase
<1>2. CASE \E w \in Workers, r \in Requests : Starts(w, r)
  BY <1>2 DEF Starts, StartDecision, StartComplete
<1>3. CASE \E w \in Workers : Decide(w)
  <2>1. PICK w \in Workers : Decide(w)  BY <1>3
  <2>2. PICK r \in Requests : r = req[w].for
    BY <2>1 DEF Decide, Approve, Reject, Cancel, ActsFor, OnRequest
  <2>3. PICK s \in {"PROCESSING", "REJECTED", "CANCELLED"} :
          /\ status' = [status EXCEPT ![r] = s]
          /\ Note("decision", Moved(r))
          /\ UNCHANGED <<debits, marker, transfer>>
          /\ Leave(w)
    BY <2>1, <2>2 DEF Decide, Approve, Reject, Cancel
  <2> QED  BY <2>3 DEF Note
<1>4. CASE \E w \in Workers : Claim(w) \/ Hold(w) \/ Send(w) \/ Store(w)
  BY <1>4 DEF Claim, Hold, Send, Store
<1>5. CASE \E w \in Workers : Finish(w)
  <2>1. PICK w \in Workers : Finish(w)  BY <1>5
  <2>2. PICK r \in Requests : r = req[w].for
    BY <2>1 DEF Finish, Record, Close, GiveUp, ActsFor, OnRequest
  <2> QED
    BY <2>1, <2>2 DEF Finish, Record, Close, GiveUp, MarkCompleted, Completable
<1>6. CASE \E w \in Workers :
             StartPayout(w) \/ Payout(w) \/ SendPayout(w) \/ Reverse(w) \/ Crash(w)
  BY <1>6 DEF StartPayout, Payout, SendPayout, Reverse, Crash
<1>7. CASE UNCHANGED vars  BY <1>7 DEF vars
<1> QED  BY <1>1, <1>2, <1>3, <1>4, <1>5, <1>6, <1>7, Kind, Zenon

\* "only one request allowed per user/store": a store never has two requests
\* pending or in processing, if no late decision revived one.
THEOREM WithdrawalOneActive == Spec => []OneActive
<1>1. Init => OneActive  BY DEF Init, OneActive, Active
<1>2. ASSUME TypeOK, ActsFor, OneActive, [Next]_vars  PROVE OneActive'
  <2>1. SUFFICES ASSUME Never({"decision"})'
                 PROVE  \A r, s \in Active' : r = s
    BY DEF OneActive
  <2>2. Never({"decision"})  BY <1>2, <2>1, NeverBefore
  <2>3. \A r, s \in Active : r = s  BY <1>2, <2>2 DEF OneActive
  <2>4. status \in [Requests -> Statuses]  BY <1>2 DEF TypeOK
  <2>5. "decision" \notin overtaken'  BY <2>1 DEF Never
  <2>6. CASE UNCHANGED <<status, debits>>  BY <2>3, <2>6 DEF Active
  <2>7. CASE \E r \in Requests : Request(r)
    BY <2>4, <2>7 DEF Request, NoneActive, Active
  <2>8. CASE \E r \in Requests, s \in {"PROCESSING", "REJECTED", "CANCELLED"} :
                /\ status' = [status EXCEPT ![r] = s]
                /\ Moved(r) => "decision" \in overtaken'
    <3>1. Active' \subseteq Active  BY <2>4, <2>5, <2>8 DEF Active, Moved
    <3> QED  BY <2>3, <3>1
  <2>9. CASE \/ \E r \in Requests : Release(r)
             \/ \E r \in Requests : /\ status[r] = "PROCESSING"
                                    /\ status' = [status EXCEPT ![r] = "COMPLETED"]
    <3>1. Active' \subseteq Active  BY <2>4, <2>9 DEF Active, Release
    <3> QED  BY <2>3, <3>1
  <2> QED  BY <1>2, <2>6, <2>7, <2>8, <2>9, StatusStep, Zenon
<1> QED  BY <1>1, <1>2, Typed, PTL DEF Spec

\* A request was burnt once and is completed, or was not burnt.
BurntOnce ==
    Never({"decision"}) =>
        \A r \in Requests : debits[r] = 0 \/ (debits[r] = 1 /\ status[r] = "COMPLETED")

LEMMA BurntOnceNext ==
    ASSUME TypeOK, ActsFor, BurntOnce, [Next]_vars
    PROVE  BurntOnce'
<1>1. SUFFICES ASSUME Never({"decision"})'
               PROVE  \A r \in Requests : debits'[r] = 0 \/ (debits'[r] = 1 /\ status'[r] = "COMPLETED")
  BY DEF BurntOnce
<1>2. \A r \in Requests : debits[r] = 0 \/ (debits[r] = 1 /\ status[r] = "COMPLETED")
  BY <1>1, NeverBefore DEF BurntOnce
<1>3. "decision" \notin overtaken'  BY <1>1 DEF Never
<1>4. status \in [Requests -> Statuses] /\ debits \in [Requests -> Nat]  BY DEF TypeOK
<1>5. CASE UNCHANGED <<status, debits>>  BY <1>2, <1>5
<1>6. CASE \E r \in Requests : Request(r)
  BY <1>2, <1>4, <1>6 DEF Request, ledger
<1>7. CASE \E r \in Requests, s \in {"PROCESSING", "REJECTED", "CANCELLED"} :
                /\ status' = [status EXCEPT ![r] = s]
                /\ Moved(r) => "decision" \in overtaken'
                /\ UNCHANGED <<debits, marker, transfer>>
  BY <1>2, <1>3, <1>4, <1>7 DEF Moved
<1>8. CASE \E r \in Requests : Release(r)
  BY <1>2, <1>4, <1>8 DEF Release, ledger
<1>9. CASE \E r \in Requests :
                /\ status[r] = "PROCESSING"
                /\ status' = [status EXCEPT ![r] = "COMPLETED"]
                /\ UNCHANGED debits \/ debits' = [debits EXCEPT ![r] = @ + 1]
  BY <1>2, <1>4, <1>9
<1> QED  BY <1>5, <1>6, <1>7, <1>8, <1>9, StatusStep, Zenon

\* A debt was taken once and is paid, or was not taken.
PaidOnce ==
    Never({"plan"}) =>
        \A l \in Lines : lineRows[l] = 0 \/ (lineRows[l] = 1 /\ line[l] = "paid")

\* How the debts may change.
LEMMA LineStep ==
    ASSUME [Next]_vars
    PROVE  \/ UNCHANGED <<line, lineRows>>
           \/ \E l \in Lines : Charge(l) \/ PayElsewhere(l)
           \/ \E w \in Workers : Settle(w) /\ Note("plan", TRUE)
           \/ \E w \in Workers : Settle(w) /\ ~StalePlan(req[w].settles)
<1> USE DEF ledger
<1>1. CASE \/ \E r \in Requests : Request(r) \/ Release(r) \/ TransferEvent(r)
           \/ \E l \in Lines : Charge(l) \/ PayElsewhere(l)
           \/ FreezeCase \/ ThawCase
  BY <1>1 DEF Request, Release, TransferEvent, FreezeCase, ThawCase
<1>2. CASE \E w \in Workers, r \in Requests : Starts(w, r)
  BY <1>2 DEF Starts, StartDecision, StartComplete
<1>3. CASE \E w \in Workers : Decide(w)
  BY <1>3 DEF Decide, Approve, Reject, Cancel
<1>4. CASE \E w \in Workers : Claim(w) \/ Hold(w) \/ Send(w) \/ Store(w)
  BY <1>4 DEF Claim, Hold, Send, Store
<1>5. CASE \E w \in Workers : Finish(w)
  BY <1>5 DEF Finish, Record, Close, GiveUp, Note
<1>6. CASE \E w \in Workers :
             StartPayout(w) \/ Payout(w) \/ SendPayout(w) \/ Reverse(w) \/ Crash(w)
  BY <1>6 DEF StartPayout, Payout, SendPayout, Reverse, Crash, Note
<1>7. CASE UNCHANGED vars  BY <1>7 DEF vars
<1> QED  BY <1>1, <1>2, <1>3, <1>4, <1>5, <1>6, <1>7, Kind, Zenon

LEMMA PaidOnceNext ==
    ASSUME TypeOK, ActsFor, PaidOnce, [Next]_vars
    PROVE  PaidOnce'
<1>1. SUFFICES ASSUME Never({"plan"})'
               PROVE  \A l \in Lines : lineRows'[l] = 0 \/ (lineRows'[l] = 1 /\ line'[l] = "paid")
  BY DEF PaidOnce
<1>2. \A l \in Lines : lineRows[l] = 0 \/ (lineRows[l] = 1 /\ line[l] = "paid")
  BY <1>1, NeverBefore DEF PaidOnce
<1>3. "plan" \notin overtaken'  BY <1>1 DEF Never
<1>4. line \in [Lines -> {"none", "due", "paid"}] /\ lineRows \in [Lines -> Nat]  BY DEF TypeOK
<1>5. CASE UNCHANGED <<line, lineRows>>  BY <1>2, <1>5
<1>6. CASE \E l \in Lines : Charge(l) \/ PayElsewhere(l)
  BY <1>2, <1>4, <1>6 DEF Charge, PayElsewhere
<1>7. CASE \E w \in Workers : Settle(w) /\ Note("plan", TRUE)
  BY <1>3, <1>7 DEF Note
<1>8. CASE \E w \in Workers : Settle(w) /\ ~StalePlan(req[w].settles)
  <2>1. PICK w \in Workers : Settle(w) /\ ~StalePlan(req[w].settles)  BY <1>8
  <2>2. PICK S : S = req[w].settles  OBVIOUS
  <2>3. SettleLines(S) /\ \A l \in S : line[l] = "due"  BY <2>1, <2>2 DEF Settle, StalePlan
  <2> QED  BY <1>2, <1>4, <2>3 DEF SettleLines
<1> QED  BY <1>5, <1>6, <1>7, <1>8, LineStep, Zenon

\* A completion that is repeated, resumed or overtaken burns the hold of its
\* request once, and no debt is taken from the store twice.
THEOREM WithdrawalTakenOnce == Spec => []TakenOnce
<1>1. Init => BurntOnce /\ PaidOnce  BY DEF Init, BurntOnce, PaidOnce
<1>2. (TypeOK /\ ActsFor) /\ (BurntOnce /\ PaidOnce) /\ [Next]_vars => (BurntOnce /\ PaidOnce)'
  BY BurntOnceNext, PaidOnceNext
<1>3. BurntOnce /\ PaidOnce => TakenOnce
  BY DEF BurntOnce, PaidOnce, TakenOnce
<1> QED  BY <1>1, <1>2, <1>3, Typed, PTL DEF Spec

-----------------------------------------------------------------------------
(* Stripe and the ledger.                                                   *)

NetOf(c) == Amount[c.for] - Owed(c.settles)

\* What a request in flight may rely on when Stripe has made the transfers t.
CallOK(c, t) ==
    /\ c.at \in {"claim", "hold", "send", "store"} => Method[c.for] = "STRIPE" /\ NetOf(c) > 0
    /\ c.at = "store" => t[c.for] = NetOf(c)
    /\ c.at = "ledger" /\ c.known => t[c.for] > 0
    /\ c.at = "ledger" /\ Method[c.for] = "STRIPE" /\ ~c.known => NetOf(c) <= 0

StripeSide ==
    /\ \A w \in Workers : CallOK(req[w], transfer)
    /\ \A r \in Requests : transfer[r] >= 0 /\ (marker[r] = "tr" => transfer[r] > 0)

\* A transfer that was made stays, so the other requests may go on relying on it.
Kept == \A r \in Requests : transfer[r] > 0 => transfer'[r] = transfer[r]

LEMMA OthersRely ==
    ASSUME TypeOK, ActsFor, NEW w \in Workers, StripeSide, Kept,
           NEW v \in Workers, req'[v] = req[v]
    PROVE  CallOK(req'[v], transfer')
<1>1. PICK c : c = req[v]  OBVIOUS
<1>2. c \in Calls /\ CallOK(c, transfer) /\ (c.at \in OnRequest => c.for \in Requests)
  BY <1>1 DEF StripeSide, ActsFor, TypeOK, Calls
<1>3. c.at = "store" => transfer[c.for] > 0
  BY <1>2, WithdrawalAssumption DEF CallOK
<1>4. CallOK(c, transfer')
  BY <1>2, <1>3 DEF CallOK, Kept, OnRequest
<1> QED  BY <1>1, <1>4

LEMMA IdleOK == ASSUME NEW t PROVE CallOK(Idle, t)
BY DEF CallOK, Idle

\* It is enough to look at the worker that moves.
LEMMA OneMoves ==
    ASSUME TypeOK, ActsFor, StripeSide, Kept, NEW w \in Workers, Moves(w),
           CallOK(req'[w], transfer'),
           \A r \in Requests : transfer'[r] >= 0 /\ (marker'[r] = "tr" => transfer'[r] > 0)
    PROVE  StripeSide'
<1>1. req \in [Workers -> Calls]  BY DEF TypeOK, Calls
<1>2. \A v \in Workers \ {w} : req'[v] = req[v]  BY <1>1 DEF Moves, Goto, Leave
<1>3. \A v \in Workers : CallOK(req'[v], transfer')  BY <1>2, OthersRely
<1> QED  BY <1>3 DEF StripeSide

LEMMA SameTransfers ==
    ASSUME StripeSide, UNCHANGED transfer,
           \A r \in Requests : marker'[r] = "tr" => transfer[r] > 0
    PROVE  /\ Kept
           /\ \A r \in Requests : transfer'[r] >= 0 /\ (marker'[r] = "tr" => transfer'[r] > 0)
BY DEF StripeSide, Kept

LEMMA ClaimStripe ==
    ASSUME TypeOK, ActsFor, StripeSide, NEW w \in Workers, Claim(w), Moves(w)
    PROVE  StripeSide'
<1>1. PICK c : c = req[w]  OBVIOUS
<1>2. /\ c \in Calls
      /\ c.at = "claim"
      /\ c.for \in Requests
      /\ CallOK(c, transfer)
      /\ req \in [Workers -> Calls]
      /\ marker \in [Requests -> {"none", "pending", "tr"}]
  BY <1>1 DEF Claim, StripeSide, ActsFor, OnRequest, TypeOK, Calls
<1>3. UNCHANGED transfer  BY DEF Claim, stripe
<1>4. \A r \in Requests : marker'[r] = "tr" => transfer[r] > 0
  BY <1>1, <1>2 DEF Claim, StripeSide
<1>5. \/ req'[w] = [c EXCEPT !.at = "hold"]
      \/ /\ req' = [req EXCEPT ![w].at = "ledger", ![w].known = TRUE]
         /\ transfer[c.for] > 0
      \/ req'[w] = Idle
  BY <1>1, <1>2 DEF Claim, Goto, Leave, StripeSide
<1>6. CallOK(req'[w], transfer)
  <2>1. CASE req'[w] = [c EXCEPT !.at = "hold"]
    <3>1. PICK d : d = req'[w]  OBVIOUS
    <3>2. d.at = "hold" /\ d.for = c.for /\ d.settles = c.settles  BY <1>2, <2>1, <3>1 DEF Calls
    <3> QED  BY <1>2, <3>1, <3>2 DEF CallOK, NetOf
  <2>2. CASE /\ req' = [req EXCEPT ![w].at = "ledger", ![w].known = TRUE]
             /\ transfer[c.for] > 0
    <3>1. PICK d : d = req'[w]  OBVIOUS
    <3>2. d.at = "ledger" /\ d.known = TRUE /\ d.for = c.for  BY <1>1, <1>2, <2>2, <3>1 DEF Calls
    <3> QED  BY <2>2, <3>1, <3>2 DEF CallOK
  <2> QED  BY <1>5, <2>1, <2>2, IdleOK
<1> QED  BY <1>3, <1>4, <1>6, SameTransfers, OneMoves

LEMMA HoldStripe ==
    ASSUME TypeOK, ActsFor, StripeSide, NEW w \in Workers, Hold(w), Moves(w)
    PROVE  StripeSide'
<1>1. PICK c : c = req[w]  OBVIOUS
<1>2. /\ c \in Calls
      /\ c.at = "hold"
      /\ c.for \in Requests
      /\ CallOK(c, transfer)
      /\ req \in [Workers -> Calls]
      /\ marker \in [Requests -> {"none", "pending", "tr"}]
  BY <1>1 DEF Hold, StripeSide, ActsFor, OnRequest, TypeOK, Calls
<1>3. UNCHANGED transfer  BY DEF Hold, stripe
<1>4. \A r \in Requests : marker'[r] = "tr" => transfer[r] > 0
  BY <1>1, <1>2 DEF Hold, ClaimBack, StripeSide
<1>5. req'[w] = [c EXCEPT !.at = "send"] \/ req'[w] = Idle
  BY <1>1, <1>2 DEF Hold, Goto, Leave
<1>6. CallOK(req'[w], transfer)
  <2>1. CASE req'[w] = [c EXCEPT !.at = "send"]
    <3>1. PICK d : d = req'[w]  OBVIOUS
    <3>2. d.at = "send" /\ d.for = c.for /\ d.settles = c.settles  BY <1>2, <2>1, <3>1 DEF Calls
    <3> QED  BY <1>2, <3>1, <3>2 DEF CallOK, NetOf
  <2> QED  BY <1>5, <2>1, IdleOK
<1> QED  BY <1>3, <1>4, <1>6, SameTransfers, OneMoves

LEMMA SendStripe ==
    ASSUME TypeOK, ActsFor, StripeSide, NEW w \in Workers, Send(w), Moves(w)
    PROVE  StripeSide'
<1>1. PICK c : c = req[w]  OBVIOUS
<1>2. PICK n : n = NetOf(c)  OBVIOUS
<1>3. /\ c \in Calls
      /\ c.at = "send"
      /\ c.for \in Requests
      /\ CallOK(c, transfer)
      /\ req \in [Workers -> Calls]
      /\ marker \in [Requests -> {"none", "pending", "tr"}]
      /\ transfer \in [Requests -> Int]
  BY <1>1 DEF Send, StripeSide, ActsFor, OnRequest, TypeOK, Calls
<1>4. Net(w) = n  BY <1>1, <1>2 DEF Net, NetOf
<1>5. n \in Int  BY <1>1, <1>3, <1>4, NetInt
<1>6. n > 0  BY <1>2, <1>3 DEF CallOK
<1>7. \/ UNCHANGED transfer
      \/ transfer[c.for] \in {0, n} /\ transfer' = [transfer EXCEPT ![c.for] = n]
  BY <1>1, <1>4 DEF Send, Accepts, Key
<1>8. Kept /\ \A r \in Requests : transfer'[r] >= transfer[r]
  BY <1>3, <1>5, <1>6, <1>7 DEF Kept
<1>9. \A r \in Requests : marker'[r] = "tr" => marker[r] = "tr"
  BY <1>1, <1>3 DEF Send, ClaimBack
<1>10. \A r \in Requests : transfer'[r] >= 0 /\ (marker'[r] = "tr" => transfer'[r] > 0)
  BY <1>3, <1>5, <1>7, <1>8, <1>9 DEF StripeSide, Kept
<1>11. \/ /\ req'[w] = [c EXCEPT !.at = "store"]
          /\ transfer' = [transfer EXCEPT ![c.for] = n]
       \/ req'[w] = Idle
  BY <1>1, <1>3, <1>4 DEF Send, Goto, Leave
<1>12. CallOK(req'[w], transfer')
  <2>1. CASE /\ req'[w] = [c EXCEPT !.at = "store"]
             /\ transfer' = [transfer EXCEPT ![c.for] = n]
    <3>1. PICK d : d = req'[w]  OBVIOUS
    <3>2. d.at = "store" /\ d.for = c.for /\ d.settles = c.settles  BY <1>3, <2>1, <3>1 DEF Calls
    <3>3. transfer'[d.for] = n /\ NetOf(d) = n  BY <1>2, <1>3, <2>1, <3>2 DEF NetOf
    <3> QED  BY <1>3, <1>6, <3>1, <3>2, <3>3 DEF CallOK
  <2> QED  BY <1>11, <2>1, IdleOK
<1> QED  BY <1>8, <1>10, <1>12, OneMoves

LEMMA StoreStripe ==
    ASSUME TypeOK, ActsFor, StripeSide, NEW w \in Workers, Store(w), Moves(w)
    PROVE  StripeSide'
<1>1. PICK c : c = req[w]  OBVIOUS
<1>2. /\ c \in Calls
      /\ c.at = "store"
      /\ c.for \in Requests
      /\ CallOK(c, transfer)
      /\ req \in [Workers -> Calls]
      /\ marker \in [Requests -> {"none", "pending", "tr"}]
  BY <1>1 DEF Store, StripeSide, ActsFor, OnRequest, TypeOK, Calls
<1>3. UNCHANGED transfer  BY DEF Store, stripe
<1>4. transfer[c.for] > 0  BY <1>2 DEF CallOK
<1>5. \A r \in Requests : marker'[r] = "tr" => transfer[r] > 0
  BY <1>1, <1>2, <1>4 DEF Store, StripeSide
<1>6. CallOK(req'[w], transfer)
  <2>1. CASE req' = [req EXCEPT ![w].at = "ledger", ![w].known = TRUE]
    <3>1. PICK d : d = req'[w]  OBVIOUS
    <3>2. d.at = "ledger" /\ d.known = TRUE /\ d.for = c.for  BY <1>1, <1>2, <2>1, <3>1 DEF Calls
    <3> QED  BY <1>4, <3>1, <3>2 DEF CallOK
  <2>2. CASE Leave(w)  BY <1>2, <2>2, IdleOK DEF Leave
  <2> QED  BY <2>1, <2>2 DEF Store
<1> QED  BY <1>3, <1>5, <1>6, SameTransfers, OneMoves

LEMMA CompleteStripe ==
    ASSUME TypeOK, ActsFor, StripeSide, NEW w \in Workers, NEW r \in Requests,
           StartComplete(w, r), Moves(w)
    PROVE  StripeSide'
<1> DEFINE S == Settled(Amount[r])
           net == Amount[r] - Owed(S)
           known == Method[r] = "STRIPE" /\ Known(r)
           calls == Method[r] = "STRIPE" /\ net > 0 /\ ~known
<1>1. UNCHANGED <<transfer, marker>>  BY DEF StartComplete, stripe, request
<1>2. req \in [Workers -> Calls]  BY DEF TypeOK, Calls
<1>3. PICK d : d = [at |-> IF calls THEN "claim" ELSE "ledger",
                    for |-> r, settles |-> S, known |-> known]
  OBVIOUS
<1>4. req'[w] = d  BY <1>2, <1>3 DEF StartComplete
<1>5. S \in SUBSET Lines  BY SettledLines
<1>6. net \in Int  BY <1>5, OwedNat, WithdrawalAssumption
<1>7. /\ d.at = IF calls THEN "claim" ELSE "ledger"
      /\ d.for = r
      /\ NetOf(d) = net
      /\ d.known = known
  BY <1>3 DEF NetOf
<1>8. known => transfer[r] > 0  BY DEF Known, StripeSide
<1> HIDE DEF net, S
<1>9. CallOK(d, transfer)
  <2>1. CASE calls
    <3>1. d.at = "claim"  BY <1>7, <2>1
    <3> QED  BY <1>7, <2>1, <3>1 DEF CallOK
  <2>2. CASE ~calls
    <3>1. d.at = "ledger"  BY <1>7, <2>2
    <3>2. d.known => transfer[d.for] > 0  BY <1>7, <1>8
    <3>3. Method[d.for] = "STRIPE" /\ ~d.known => ~(net > 0)  BY <1>7, <2>2
    <3>4. Method[d.for] = "STRIPE" /\ ~d.known => NetOf(d) <= 0  BY <1>6, <1>7, <3>3
    <3> QED  BY <3>1, <3>2, <3>4 DEF CallOK
  <2> QED  BY <2>1, <2>2
<1>10. \A q \in Requests : marker'[q] = "tr" => transfer[q] > 0  BY <1>1 DEF StripeSide
<1> QED  BY <1>1, <1>4, <1>9, <1>10, SameTransfers, OneMoves

\* The worker takes a step that is neither of Stripe nor of a completion to come.
LEMMA OtherStripe ==
    ASSUME TypeOK, ActsFor, StripeSide, NEW w \in Workers, Moves(w),
           UNCHANGED transfer,
           \A r \in Requests : marker'[r] = "tr" => transfer[r] > 0,
           req'[w].at \notin {"claim", "hold", "send", "store", "ledger"}
    PROVE  StripeSide'
<1>1. CallOK(req'[w], transfer')  BY DEF CallOK
<1> QED  BY <1>1, SameTransfers, OneMoves

LEMMA StripeSideNext ==
    ASSUME TypeOK, ActsFor, StripeSide, [Next]_vars
    PROVE  StripeSide'
<1> USE DEF request, stripe
<1>0. /\ RowsOK
      /\ req \in [Workers -> Calls]
      /\ marker \in [Requests -> {"none", "pending", "tr"}]
      /\ \A r \in Requests : marker[r] = "tr" => transfer[r] > 0
  BY TypeIsRows DEF RowsOK, StripeSide
<1>1. CASE \/ \E r \in Requests : Request(r) \/ Release(r) \/ TransferEvent(r)
           \/ \E l \in Lines : Charge(l) \/ PayElsewhere(l)
           \/ FreezeCase \/ ThawCase
  <2>1. UNCHANGED <<transfer, req>>
    BY <1>1 DEF Request, Release, TransferEvent, Charge, PayElsewhere, FreezeCase, ThawCase
  <2>2. \A r \in Requests : marker'[r] = "tr" => transfer[r] > 0
    BY <1>0, <1>1 DEF Request, Release, TransferEvent, Charge, PayElsewhere, FreezeCase, ThawCase
  <2> QED  BY <2>1, <2>2, SameTransfers DEF StripeSide
<1>2. CASE \E w \in Workers, r \in Requests : Starts(w, r)
  <2>1. PICK w \in Workers, r \in Requests : Starts(w, r)  BY <1>2
  <2>2. Moves(w) /\ UNCHANGED <<marker, transfer>>  BY <1>0, <2>1, StartMoves
  <2>3. CASE StartComplete(w, r)  BY <2>2, <2>3, CompleteStripe
  <2>4. CASE \E step \in {"approve", "reject", "cancel"} : StartDecision(w, r, step)
    <3>1. req'[w].at \in {"approve", "reject", "cancel"}
      BY <1>0, <2>4 DEF StartDecision, Idle
    <3>2. req'[w].at \notin {"claim", "hold", "send", "store", "ledger"}  BY <3>1
    <3> QED  BY <1>0, <2>2, <3>2, OtherStripe
  <2> QED  BY <2>1, <2>3, <2>4 DEF Starts
<1>3. CASE \E w \in Workers : Decide(w)
  <2>1. PICK w \in Workers : Decide(w)  BY <1>3
  <2>2. Moves(w)  BY <1>0, <2>1, WorkerMoves
  <2>3. UNCHANGED <<marker, transfer>> /\ Leave(w)
    BY <2>1 DEF Decide, Approve, Reject, Cancel
  <2>4. req'[w].at \notin {"claim", "hold", "send", "store", "ledger"}
    BY <1>0, <2>3 DEF Leave, Idle
  <2> QED  BY <1>0, <2>2, <2>3, <2>4, OtherStripe
<1>4. CASE \E w \in Workers : Claim(w) \/ Hold(w) \/ Send(w) \/ Store(w)
  BY <1>0, <1>4, WorkerMoves, ClaimStripe, HoldStripe, SendStripe, StoreStripe
<1>5. CASE \E w \in Workers : Finish(w)
  <2>1. PICK w \in Workers : Finish(w)  BY <1>5
  <2>2. Moves(w)  BY <1>0, <2>1, WorkerMoves
  <2>3. UNCHANGED transfer /\ Leave(w)
    BY <2>1 DEF Finish, Record, Close, GiveUp
  <2>4. req'[w].at \notin {"claim", "hold", "send", "store", "ledger"}
    BY <1>0, <2>3 DEF Leave, Idle
  <2>5. PICK c : c = req[w]  OBVIOUS
  <2>6. c.at = "ledger" /\ c.for \in Requests /\ CallOK(c, transfer)
    BY <2>1, <2>5 DEF Finish, Record, Close, GiveUp, StripeSide, ActsFor, OnRequest
  <2>7. \/ UNCHANGED marker
        \/ marker' = [marker EXCEPT ![c.for] = IF c.known THEN "tr" ELSE "none"]
    BY <2>1, <2>5 DEF Finish, Record, Close, GiveUp, MarkCompleted
  <2>8. \A r \in Requests : marker'[r] = "tr" => transfer[r] > 0
    BY <1>0, <2>6, <2>7 DEF CallOK
  <2> QED  BY <2>2, <2>3, <2>4, <2>8, OtherStripe
<1>6. CASE \E w \in Workers :
             StartPayout(w) \/ Payout(w) \/ SendPayout(w) \/ Reverse(w) \/ Crash(w)
  <2>1. PICK w \in Workers :
             StartPayout(w) \/ Payout(w) \/ SendPayout(w) \/ Reverse(w) \/ Crash(w)
    BY <1>6
  <2>2. Moves(w)  BY <1>0, <2>1, WorkerMoves
  <2>3. UNCHANGED <<marker, transfer>>
    BY <2>1 DEF StartPayout, Payout, SendPayout, Reverse, Crash
  <2>4. req'[w].at \in {"payout", "sendPayout", "reverse", "idle"}
    <3>1. CASE StartPayout(w)  BY <1>0, <3>1 DEF StartPayout, Idle
    <3>2. CASE Payout(w)  BY <1>0, <3>2 DEF Payout, Goto, Leave, Idle, Calls
    <3>3. CASE SendPayout(w)  BY <1>0, <3>3 DEF SendPayout, Goto, Leave, Idle, Calls
    <3>4. CASE Reverse(w) \/ Crash(w)  BY <1>0, <3>4 DEF Reverse, Crash, Leave, Idle
    <3> QED  BY <2>1, <3>1, <3>2, <3>3, <3>4
  <2>5. req'[w].at \notin {"claim", "hold", "send", "store", "ledger"}  BY <2>4
  <2> QED  BY <1>0, <2>2, <2>3, <2>5, OtherStripe
<1>7. CASE UNCHANGED vars
  BY <1>7 DEF vars, StripeSide
<1> QED  BY <1>1, <1>2, <1>3, <1>4, <1>5, <1>6, <1>7, Kind, Zenon

\* A payout row of Stripe stands for a transfer, and for its amount.
RowsFollow ==
    \A r \in Requests : Method[r] = "STRIPE" /\ row[r] > 0 =>
        /\ transfer[r] > 0
        /\ Never({"plan"}) => row[r] = transfer[r]

\* Only a completion writes the row, and no step takes a transfer back.
LEMMA RowStep ==
    ASSUME TypeOK, ActsFor, StripeSide, [Next]_vars
    PROVE  /\ Kept
           /\ \/ UNCHANGED row
              \/ \E w \in Workers : Record(w)
<1> USE DEF stripe, ledger
<1>0. /\ req \in [Workers -> Calls]
      /\ \A r \in Requests : transfer[r] >= 0
      /\ transfer \in [Requests -> Int]
  BY DEF StripeSide, TypeOK, Calls
<1>1. CASE \/ \E r \in Requests : Request(r) \/ Release(r) \/ TransferEvent(r)
           \/ \E l \in Lines : Charge(l) \/ PayElsewhere(l)
           \/ FreezeCase \/ ThawCase
  BY <1>1 DEF Request, Release, TransferEvent, Charge, PayElsewhere, FreezeCase, ThawCase, Kept
<1>2. CASE \E w \in Workers, r \in Requests : Starts(w, r)
  BY <1>0, <1>2, StartMoves DEF Kept
<1>3. CASE \E w \in Workers : Decide(w)
  BY <1>3 DEF Decide, Approve, Reject, Cancel, Kept
<1>4. CASE \E w \in Workers : Claim(w) \/ Hold(w) \/ Send(w) \/ Store(w)
  <2>1. CASE \E w \in Workers : Claim(w) \/ Hold(w) \/ Store(w)
    BY <2>1 DEF Claim, Hold, Store, Kept
  <2>2. CASE \E w \in Workers : Send(w)
    <3>1. PICK w \in Workers : Send(w)  BY <2>2
    <3>2. PICK c, n : c = req[w] /\ n = NetOf(c)  OBVIOUS
    <3>3. c.at = "send" /\ c.for \in Requests /\ CallOK(c, transfer)
      BY <3>1, <3>2 DEF Send, StripeSide, ActsFor, OnRequest
    <3>4. Net(w) = n /\ n > 0  BY <3>2, <3>3 DEF Net, NetOf, CallOK
    <3>5. n \in Int  BY <1>0, <3>2, <3>3, <3>4, NetInt
    <3>6. \/ UNCHANGED transfer
          \/ transfer[c.for] \in {0, n} /\ transfer' = [transfer EXCEPT ![c.for] = n]
      BY <3>1, <3>2, <3>4 DEF Send, Accepts, Key
    <3>7. Kept  BY <1>0, <3>3, <3>4, <3>5, <3>6 DEF Kept
    <3>8. UNCHANGED row  BY <3>1 DEF Send
    <3> QED  BY <3>7, <3>8
  <2> QED  BY <1>4, <2>1, <2>2
<1>5. CASE \E w \in Workers : Finish(w)
  BY <1>5 DEF Finish, Record, Close, GiveUp, Kept
<1>6. CASE \E w \in Workers :
             StartPayout(w) \/ Payout(w) \/ SendPayout(w) \/ Reverse(w) \/ Crash(w)
  BY <1>6 DEF StartPayout, Payout, SendPayout, Reverse, Crash, Kept
<1>7. CASE UNCHANGED vars  BY <1>7 DEF vars, Kept
<1> QED  BY <1>1, <1>2, <1>3, <1>4, <1>5, <1>6, <1>7, Kind, Zenon

LEMMA RowsFollowNext ==
    ASSUME TypeOK, ActsFor, StripeSide, RowsFollow, [Next]_vars
    PROVE  RowsFollow'
<1>1. Kept  BY RowStep
<1>2. Never({"plan"})' => Never({"plan"})  BY NeverBefore
<1>3. SUFFICES ASSUME NEW r \in Requests, Method[r] = "STRIPE", row'[r] > 0
               PROVE  /\ transfer'[r] > 0
                      /\ Never({"plan"})' => row'[r] = transfer'[r]
  BY DEF RowsFollow
<1>4. CASE row'[r] = row[r]
  BY <1>1, <1>2, <1>3, <1>4 DEF RowsFollow, Kept
<1>5. CASE row'[r] # row[r]
  <2>1. PICK w \in Workers : Record(w)  BY <1>5, RowStep
  <2>2. PICK c, n : c = req[w] /\ n = NetOf(c)  OBVIOUS
  <2>3. c.at = "ledger" /\ c.for \in Requests /\ CallOK(c, transfer)
    BY <2>1, <2>2 DEF Record, StripeSide, ActsFor, OnRequest
  <2>4. Net(w) = n  BY <2>2 DEF Net, NetOf
  <2>5. /\ row' = [row EXCEPT ![c.for] = n]
        /\ UNCHANGED transfer
        /\ Note("plan", StalePlan(c.settles) \/ SentOtherwise(w, c.for))
    BY <2>1, <2>2, <2>4 DEF Record, stripe
  <2>6. c.for = r /\ row'[r] = n
    BY <1>5, <2>3, <2>5 DEF TypeOK
  <2>7. req \in [Workers -> Calls]  BY DEF TypeOK, Calls
  <2>8. n \in Int  BY <2>2, <2>3, <2>4, <2>7, NetInt
  <2>9. c.known
    <3>1. c.known \in BOOLEAN  BY <2>2, <2>7 DEF Calls
    <3> QED  BY <1>3, <2>2, <2>3, <2>6, <2>8, <3>1 DEF CallOK
  <2>10. transfer[r] > 0  BY <2>3, <2>6, <2>9 DEF CallOK
  <2>11. Never({"plan"})' => transfer[r] = n
    <3>1. "plan" \in overtaken' \/ ~SentOtherwise(w, c.for)  BY <2>5 DEF Note
    <3> QED  BY <1>3, <2>4, <2>6, <3>1 DEF SentOtherwise, Never
  <2> QED  BY <2>5, <2>6, <2>10, <2>11
<1> QED  BY <1>4, <1>5

LEMMA InitStripe == Init => StripeSide /\ RowsFollow
<1>1. SUFFICES ASSUME Init PROVE StripeSide /\ RowsFollow  OBVIOUS
<1>2. \A w \in Workers : CallOK(req[w], transfer)  BY <1>1, IdleOK DEF Init
<1>3. \A r \in Requests : transfer[r] = 0 /\ marker[r] = "none" /\ row[r] = 0  BY <1>1 DEF Init
<1> QED  BY <1>2, <1>3 DEF StripeSide, RowsFollow

THEOREM StripeKnown == Spec => [](TypeOK /\ ActsFor /\ StripeSide /\ RowsFollow)
<1>1. (TypeOK /\ ActsFor) /\ (StripeSide /\ RowsFollow) /\ [Next]_vars => (StripeSide /\ RowsFollow)'
  BY StripeSideNext, RowsFollowNext
<1> QED  BY <1>1, InitStripe, Typed, PTL DEF Spec

\* The wallet never shows a payout through Stripe that Stripe has not made, and
\* shows its amount if no plan was out of date, whatever is cut off or repeated.
THEOREM WithdrawalLedgerFollowsStripe == Spec => []LedgerFollowsStripe
<1>1. RowsFollow => LedgerFollowsStripe  BY DEF RowsFollow, LedgerFollowsStripe
<1> QED  BY <1>1, StripeKnown, PTL

-----------------------------------------------------------------------------
(* What was released was not sent.                                          *)

\* A request with a claim or a transfer is past the point of release, and so is
\* one that a worker is about to send.
Past(r) ==
    \/ status[r] = "COMPLETED"
    \/ status[r] = "PROCESSING" /\ marker[r] # "none"

AllPast ==
    /\ \A r \in Requests : /\ marker[r] # "none" => status[r] \in {"PROCESSING", "COMPLETED"}
                           /\ transfer[r] # 0 => Past(r)
    /\ \A w \in Workers, r \in Requests : Relies(w, r) => Past(r)

Committed == Never({"decision", "reset"}) => AllPast

\* Steps that take no request back and send nothing.
LEMMA PastStays ==
    ASSUME AllPast,
           \A r \in Requests : Past(r) => Past(r)',
           \A r \in Requests : marker'[r] # "none" => marker[r] # "none" \/ Past(r)',
           UNCHANGED transfer,
           \A w \in Workers, r \in Requests : Relies(w, r)' => Relies(w, r) \/ Past(r)'
    PROVE  AllPast'
<1>1. \A r \in Requests : marker[r] # "none" => Past(r)  BY DEF AllPast, Past
<1>2. \A r \in Requests : marker'[r] # "none" => status'[r] \in {"PROCESSING", "COMPLETED"}
  BY <1>1 DEF Past
<1>3. \A r \in Requests : transfer'[r] # 0 => Past(r)'  BY DEF AllPast
<1>4. \A w \in Workers, r \in Requests : Relies(w, r)' => Past(r)'  BY DEF AllPast
<1> QED  BY <1>2, <1>3, <1>4 DEF AllPast

\* A worker that leaves, or goes on without sending, relies on nothing.
LEMMA NoneRelies ==
    ASSUME req \in [Workers -> Calls], NEW w \in Workers, Moves(w),
           req'[w].at \notin {"hold", "send", "store"}
    PROVE  /\ \A v \in Workers, r \in Requests : Relies(v, r)' => v # w /\ Relies(v, r)
<1>1. \A v \in Workers \ {w} : req'[v] = req[v]  BY DEF Moves, Goto, Leave
<1> QED  BY <1>1 DEF Relies

\* The claim is given back by the only request that relied on it, before a transfer.
LEMMA ClaimBackPast ==
    ASSUME TypeOK, AllPast, NEW w \in Workers, NEW r \in Requests,
           Moves(w), Leave(w), NEW made, transfer' = transfer \/ made > 0,
           made = transfer[r] \/ made > 0, transfer[r] \in Int, transfer[r] >= 0,
           ClaimBack(w, r, made), UNCHANGED status, "reset" \notin overtaken'
    PROVE  AllPast'
<1>1. req \in [Workers -> Calls]  BY DEF TypeOK, Calls
<1>2. ~(made > 0) /\ \A v \in Workers \ {w} : ~Relies(v, r)
  BY DEF ClaimBack, Note
<1>3. transfer' = transfer /\ transfer[r] = 0  BY <1>2
<1>4. req'[w].at \notin {"hold", "send", "store"}  BY <1>1 DEF Leave, Idle
<1>5. \A v \in Workers, q \in Requests : Relies(v, q)' => v # w /\ Relies(v, q)
  BY <1>1, <1>4, NoneRelies
<1>6. /\ \A q \in Requests \ {r} : marker'[q] = marker[q]
      /\ marker'[r] # "none" => marker'[r] = marker[r]
  BY DEF ClaimBack, TypeOK
<1>7. \A q \in Requests \ {r} : Past(q) => Past(q)'  BY <1>6 DEF Past
<1>8. \A q \in Requests : marker'[q] # "none" => status'[q] \in {"PROCESSING", "COMPLETED"}
  BY <1>6 DEF AllPast
<1>9. \A q \in Requests : transfer'[q] # 0 => Past(q)'  BY <1>3, <1>7 DEF AllPast
<1>10. \A v \in Workers, q \in Requests : Relies(v, q)' => Past(q)'
  BY <1>2, <1>5, <1>7 DEF AllPast
<1> QED  BY <1>8, <1>9, <1>10 DEF AllPast

LEMMA CompletionPast ==
    ASSUME TypeOK, ActsFor, StripeSide, AllPast, NEW w \in Workers, Moves(w),
           Claim(w) \/ Hold(w) \/ Send(w) \/ Store(w), "reset" \notin overtaken'
    PROVE  AllPast'
<1> USE DEF request, stripe
<1>1. PICK c : c = req[w]  OBVIOUS
<1>2. PICK r : r = c.for  OBVIOUS
<1>3. /\ c \in Calls
      /\ r \in Requests
      /\ req \in [Workers -> Calls]
      /\ marker \in [Requests -> {"none", "pending", "tr"}]
      /\ transfer \in [Requests -> Int]
      /\ \A q \in Requests : transfer[q] >= 0
      /\ CallOK(c, transfer)
  BY <1>1, <1>2 DEF Claim, Hold, Send, Store, StripeSide, ActsFor, OnRequest, TypeOK, Calls
<1>4. c.at \in {"hold", "send", "store"} => Past(r)
  BY <1>1, <1>2, <1>3 DEF AllPast, Relies
<1>5. \A v \in Workers \ {w} : req'[v] = req[v]  BY <1>3 DEF Moves, Goto, Leave
<1>6. \A v \in Workers \ {w}, q \in Requests : Relies(v, q)' => Relies(v, q)
  BY <1>5 DEF Relies
<1>7. CASE Claim(w)
  <2>1. UNCHANGED <<transfer, status>>  BY <1>7 DEF Claim
  <2>2. \/ Claimable(r) /\ marker' = [marker EXCEPT ![r] = "pending"]
        \/ UNCHANGED marker
    BY <1>1, <1>2, <1>7 DEF Claim
  <2>3. \A q \in Requests : Past(q) => Past(q)'
    BY <1>3, <2>1, <2>2 DEF Past, Claimable
  <2>4. \A q \in Requests : marker'[q] # "none" => marker[q] # "none" \/ Past(q)'
    BY <1>3, <2>1, <2>2 DEF Past, Claimable
  <2>5. \/ Past(r)' /\ req'[w] = [c EXCEPT !.at = "hold"]
        \/ req' = [req EXCEPT ![w].at = "ledger", ![w].known = TRUE]
        \/ req'[w] = Idle
    <3>1. CASE Claimable(r) /\ marker' = [marker EXCEPT ![r] = "pending"] /\ Goto(w, "hold")
      BY <1>1, <1>3, <2>1, <3>1 DEF Goto, Past, Claimable
    <3>2. CASE status[r] # "COMPLETED" /\ marker[r] = "pending" /\ Goto(w, "hold") /\ UNCHANGED marker
      BY <1>1, <1>3, <2>1, <3>2 DEF Goto, Past, AllPast
    <3>3. CASE req' = [req EXCEPT ![w].at = "ledger", ![w].known = TRUE] \/ Leave(w)
      BY <1>3, <3>3 DEF Leave
    <3> QED  BY <1>1, <1>2, <1>7, <3>1, <3>2, <3>3 DEF Claim
  <2>6. \A q \in Requests : Relies(w, q)' => Past(q)'
    <3>1. CASE Past(r)' /\ req'[w] = [c EXCEPT !.at = "hold"]
      <4>1. req'[w].for = r  BY <1>2, <1>3, <3>1 DEF Calls
      <4> QED  BY <3>1, <4>1 DEF Relies
    <3>2. CASE req' = [req EXCEPT ![w].at = "ledger", ![w].known = TRUE]
      <4>1. req'[w].at = "ledger"  BY <1>3, <3>2 DEF Calls
      <4> QED  BY <4>1 DEF Relies
    <3>3. CASE req'[w] = Idle  BY <3>3 DEF Relies, Idle
    <3> QED  BY <2>5, <3>1, <3>2, <3>3
  <2> QED  BY <1>6, <2>1, <2>3, <2>4, <2>6, PastStays
<1>8. CASE Hold(w)
  <2>1. CASE UNCHANGED marker /\ Goto(w, "send")
    <3>1. UNCHANGED <<transfer, status, marker>>  BY <1>8, <2>1 DEF Hold
    <3>2. \A q \in Requests : Past(q) => Past(q)'  BY <3>1 DEF Past
    <3>3. req'[w] = [c EXCEPT !.at = "send"]  BY <1>1, <1>3, <2>1 DEF Goto
    <3>4. req'[w].for = r  BY <1>2, <1>3, <3>3 DEF Calls
    <3>5. Past(r)  BY <1>1, <1>4, <1>8 DEF Hold
    <3>6. \A q \in Requests : Relies(w, q)' => Past(q)'  BY <3>2, <3>4, <3>5 DEF Relies
    <3> QED  BY <1>6, <3>1, <3>2, <3>6, PastStays
  <2>2. CASE ClaimBack(w, r, transfer[r]) /\ Leave(w)
    <3>1. UNCHANGED <<transfer, status>>  BY <1>8 DEF Hold
    <3> QED  BY <1>3, <2>2, <3>1, ClaimBackPast
  <2> QED  BY <1>1, <1>2, <1>8, <2>1, <2>2 DEF Hold
<1>9. CASE Send(w)
  <2>1. PICK n : n = NetOf(c)  OBVIOUS
  <2>2. Net(w) = n /\ n > 0 /\ c.at = "send"
    BY <1>1, <1>3, <1>9, <2>1 DEF Send, Net, NetOf, CallOK
  <2>3. n \in Int  BY <1>1, <1>2, <1>3, <2>2, NetInt
  <2>4. UNCHANGED status  BY <1>9 DEF Send
  <2>5. CASE UNCHANGED marker /\ Goto(w, "store") /\ transfer' = [transfer EXCEPT ![r] = n]
    <3>1. \A q \in Requests : Past(q) => Past(q)'  BY <2>4, <2>5 DEF Past
    <3>2. Past(r)  BY <1>4, <2>2
    <3>3. req'[w] = [c EXCEPT !.at = "store"]  BY <1>1, <1>3, <2>5 DEF Goto
    <3>4. req'[w].for = r  BY <1>2, <1>3, <3>3 DEF Calls
    <3>5. \A v \in Workers, q \in Requests : Relies(v, q)' => Past(q)'
      BY <1>6, <3>1, <3>2, <3>4 DEF Relies, AllPast
    <3>6. \A q \in Requests : transfer'[q] # 0 => Past(q)'
      BY <1>3, <2>5, <3>1, <3>2 DEF AllPast
    <3>7. \A q \in Requests : marker'[q] # "none" => status'[q] \in {"PROCESSING", "COMPLETED"}
      BY <2>4, <2>5 DEF AllPast
    <3> QED  BY <3>5, <3>6, <3>7 DEF AllPast
  <2>6. CASE /\ UNCHANGED transfer \/ transfer' = [transfer EXCEPT ![r] = n]
             /\ ClaimBack(w, r, transfer'[r])
             /\ Leave(w)
    <3>1. transfer'[r] = transfer[r] \/ transfer'[r] > 0  BY <1>3, <2>2, <2>3, <2>6
    <3>2. transfer' = transfer \/ transfer'[r] > 0  BY <1>3, <2>2, <2>3, <2>6
    <3>3. PICK made : made = transfer'[r]  OBVIOUS
    <3> QED  BY <1>3, <2>4, <2>6, <3>1, <3>2, <3>3, ClaimBackPast
  <2> QED  BY <1>1, <1>2, <1>9, <2>2, <2>5, <2>6 DEF Send
<1>10. CASE Store(w)
  <2>1. UNCHANGED <<transfer, status>>  BY <1>10 DEF Store
  <2>2. UNCHANGED marker \/ marker' = [marker EXCEPT ![r] = "tr"]
    BY <1>1, <1>2, <1>10 DEF Store
  <2>3. Past(r)  BY <1>1, <1>4, <1>10 DEF Store
  <2>4. \A q \in Requests : Past(q) => Past(q)'  BY <1>3, <2>1, <2>2 DEF Past
  <2>5. \A q \in Requests : marker'[q] # "none" => marker[q] # "none" \/ Past(q)'
    BY <1>3, <2>2, <2>3, <2>4
  <2>6. req'[w].at \notin {"hold", "send", "store"}
    <3>1. CASE req' = [req EXCEPT ![w].at = "ledger", ![w].known = TRUE]
      BY <1>3, <3>1 DEF Calls
    <3>2. CASE Leave(w)  BY <1>3, <3>2 DEF Leave, Idle
    <3> QED  BY <1>10, <3>1, <3>2 DEF Store
  <2>7. \A q \in Requests : ~Relies(w, q)'  BY <2>6 DEF Relies
  <2> QED  BY <1>6, <2>1, <2>4, <2>5, <2>7, PastStays
<1> QED  BY <1>7, <1>8, <1>9, <1>10

LEMMA CommittedNext ==
    ASSUME TypeOK, ActsFor, StripeSide, Committed, [Next]_vars
    PROVE  Committed'
<1> USE DEF request, stripe
<1>1. SUFFICES ASSUME Never({"decision", "reset"})' PROVE AllPast'  BY DEF Committed
<1>2. AllPast  BY <1>1, NeverBefore DEF Committed
<1>3. "decision" \notin overtaken' /\ "reset" \notin overtaken'  BY <1>1 DEF Never
<1>4. /\ req \in [Workers -> Calls]
      /\ status \in [Requests -> Statuses]
      /\ marker \in [Requests -> {"none", "pending", "tr"}]
  BY DEF TypeOK, Calls
<1>5. CASE \/ \E r \in Requests : Request(r) \/ Release(r) \/ TransferEvent(r)
           \/ \E l \in Lines : Charge(l) \/ PayElsewhere(l)
           \/ FreezeCase \/ ThawCase
  <2>1. UNCHANGED <<transfer, req>>
    BY <1>5 DEF Request, Release, TransferEvent, Charge, PayElsewhere, FreezeCase, ThawCase
  <2>2. \A r \in Requests : Past(r) => Past(r)'
    <3>1. ASSUME NEW r \in Requests, Request(r)  PROVE \A q \in Requests : Past(q) => Past(q)'
      BY <1>4, <3>1 DEF Request, Past
    <3>2. ASSUME NEW r \in Requests, Release(r)  PROVE \A q \in Requests : Past(q) => Past(q)'
      BY <1>4, <3>2 DEF Release, Movement, Past
    <3>3. ASSUME NEW r \in Requests, TransferEvent(r)  PROVE \A q \in Requests : Past(q) => Past(q)'
      BY <1>4, <3>3 DEF TransferEvent, Past
    <3>4. CASE \/ \E l \in Lines : Charge(l) \/ PayElsewhere(l)
               \/ FreezeCase \/ ThawCase
      BY <3>4 DEF Charge, PayElsewhere, FreezeCase, ThawCase, Past
    <3> QED  BY <1>5, <3>1, <3>2, <3>3, <3>4
  <2>3. \A r \in Requests : marker'[r] # "none" => marker[r] # "none" \/ Past(r)'
    <3>1. CASE \E r \in Requests : TransferEvent(r)
      BY <1>4, <3>1 DEF TransferEvent, Past
    <3>2. CASE \/ \E r \in Requests : Request(r) \/ Release(r)
               \/ \E l \in Lines : Charge(l) \/ PayElsewhere(l)
               \/ FreezeCase \/ ThawCase
      BY <3>2 DEF Request, Release, Charge, PayElsewhere, FreezeCase, ThawCase
    <3> QED  BY <1>5, <3>1, <3>2
  <2>4. \A w \in Workers, r \in Requests : Relies(w, r)' => Relies(w, r)
    BY <2>1 DEF Relies
  <2> QED  BY <1>2, <2>1, <2>2, <2>3, <2>4, PastStays
<1>6. CASE \E w \in Workers, r \in Requests : Starts(w, r)
  <2>1. PICK w \in Workers, r \in Requests : Starts(w, r)  BY <1>6
  <2>2. Moves(w) /\ UNCHANGED <<transfer, marker, status>>  BY <1>4, <2>1, StartMoves
  <2>3. req'[w].at \notin {"hold", "send", "store"}
    <3>1. CASE StartComplete(w, r)
      <4>1. req'[w].at \in {"claim", "ledger"}
        BY <1>4, <3>1, Zenon DEF StartComplete
      <4> QED  BY <4>1
    <3>2. CASE \E step \in {"approve", "reject", "cancel"} : StartDecision(w, r, step)
      <4>1. req'[w].at \in {"approve", "reject", "cancel"}
        BY <1>4, <3>2 DEF StartDecision, Idle
      <4> QED  BY <4>1
    <3> QED  BY <2>1, <3>1, <3>2 DEF Starts
  <2>4. \A v \in Workers, q \in Requests : Relies(v, q)' => Relies(v, q)
    BY <1>4, <2>2, <2>3, NoneRelies
  <2>5. \A q \in Requests : Past(q) => Past(q)'  BY <2>2 DEF Past
  <2> QED  BY <1>2, <2>2, <2>4, <2>5, PastStays
<1>7. CASE \E w \in Workers : Decide(w)
  <2>1. PICK w \in Workers : Decide(w)  BY <1>7
  <2>2. PICK r \in Requests : r = req[w].for
    BY <2>1 DEF Decide, Approve, Reject, Cancel, ActsFor, OnRequest
  <2>3. /\ UNCHANGED <<marker, transfer>>
        /\ Leave(w)
        /\ Note("decision", Moved(r))
        /\ \E s \in {"PROCESSING", "REJECTED", "CANCELLED"} : status' = [status EXCEPT ![r] = s]
    BY <2>1, <2>2 DEF Decide, Approve, Reject, Cancel
  <2>4. status[r] = "PENDING"  BY <1>3, <2>3 DEF Note, Moved
  <2>5. \A q \in Requests : Past(q) => Past(q)'  BY <1>4, <2>3, <2>4 DEF Past
  <2>6. Moves(w)  BY <2>3 DEF Moves
  <2>7. req'[w].at \notin {"hold", "send", "store"}  BY <1>4, <2>3 DEF Leave, Idle
  <2>8. \A v \in Workers, q \in Requests : Relies(v, q)' => Relies(v, q)
    BY <1>4, <2>6, <2>7, NoneRelies
  <2> QED  BY <1>2, <2>3, <2>5, <2>8, PastStays
<1>8. CASE \E w \in Workers : Claim(w) \/ Hold(w) \/ Send(w) \/ Store(w)
  BY <1>2, <1>3, <1>4, <1>8, WorkerMoves, CompletionPast
<1>9. CASE \E w \in Workers : Finish(w)
  <2>1. PICK w \in Workers : Finish(w)  BY <1>9
  <2>2. PICK c, r : c = req[w] /\ r = c.for  OBVIOUS
  <2>3. UNCHANGED transfer /\ Leave(w) /\ r \in Requests
    BY <2>1, <2>2 DEF Finish, Record, Close, GiveUp, ActsFor, OnRequest
  <2>4. \/ UNCHANGED <<marker, status>>
        \/ /\ status' = [status EXCEPT ![r] = "COMPLETED"]
           /\ marker' = [marker EXCEPT ![r] = IF c.known THEN "tr" ELSE "none"]
    BY <2>1, <2>2 DEF Finish, Record, Close, GiveUp, MarkCompleted
  <2>5. \A q \in Requests : Past(q) => Past(q)'  BY <1>4, <2>3, <2>4 DEF Past
  <2>6. \A q \in Requests : marker'[q] # "none" => marker[q] # "none" \/ Past(q)'
    BY <1>4, <2>3, <2>4 DEF Past
  <2>7. Moves(w)  BY <2>3 DEF Moves
  <2>8. req'[w].at \notin {"hold", "send", "store"}  BY <1>4, <2>3 DEF Leave, Idle
  <2>9. \A v \in Workers, q \in Requests : Relies(v, q)' => Relies(v, q)
    BY <1>4, <2>7, <2>8, NoneRelies
  <2> QED  BY <1>2, <2>3, <2>5, <2>6, <2>9, PastStays
<1>10. CASE \E w \in Workers :
             StartPayout(w) \/ Payout(w) \/ SendPayout(w) \/ Reverse(w) \/ Crash(w)
  <2>1. PICK w \in Workers :
             StartPayout(w) \/ Payout(w) \/ SendPayout(w) \/ Reverse(w) \/ Crash(w)
    BY <1>10
  <2>2. Moves(w)  BY <1>4, <2>1, WorkerMoves
  <2>3. UNCHANGED <<marker, transfer, status>>
    BY <2>1 DEF StartPayout, Payout, SendPayout, Reverse, Crash
  <2>4. req'[w].at \in {"payout", "sendPayout", "reverse", "idle"}
    <3>1. CASE StartPayout(w)  BY <1>4, <3>1 DEF StartPayout, Idle
    <3>2. CASE Payout(w)  BY <1>4, <3>2 DEF Payout, Goto, Leave, Idle, Calls
    <3>3. CASE SendPayout(w)  BY <1>4, <3>3 DEF SendPayout, Goto, Leave, Idle, Calls
    <3>4. CASE Reverse(w) \/ Crash(w)  BY <1>4, <3>4 DEF Reverse, Crash, Leave, Idle
    <3> QED  BY <2>1, <3>1, <3>2, <3>3, <3>4
  <2>5. req'[w].at \notin {"hold", "send", "store"}  BY <2>4
  <2>6. \A v \in Workers, q \in Requests : Relies(v, q)' => Relies(v, q)
    BY <1>4, <2>2, <2>5, NoneRelies
  <2>7. \A q \in Requests : Past(q) => Past(q)'  BY <2>3 DEF Past
  <2> QED  BY <1>2, <2>3, <2>6, <2>7, PastStays
<1>11. CASE UNCHANGED vars
  BY <1>2, <1>11 DEF vars, AllPast, Past, Relies
<1> QED  BY <1>5, <1>6, <1>7, <1>8, <1>9, <1>10, <1>11, Kind, Zenon

\* "Stripe transfer already started ... do not release the hold": a request whose
\* hold went back to the wallet has no transfer, and never gets one, however the
\* release, a completion, its repetition and the webhook interleave.
THEOREM WithdrawalReleasedNotSent == Spec => []ReleasedNotSent
<1>1. Init => Committed  BY DEF Init, Committed, AllPast, Relies, Idle
<1>2. (TypeOK /\ ActsFor /\ StripeSide /\ RowsFollow) /\ Committed /\ [Next]_vars => Committed'
  BY CommittedNext
<1>3. Committed => ReleasedNotSent
  BY DEF Committed, AllPast, Past, ReleasedNotSent
<1> QED  BY <1>1, <1>2, <1>3, StripeKnown, PTL DEF Spec
-----------------------------------------------------------------------------
(* The holds of the requests and of the cases make up the frozen balance.    *)

LEMMA AmountTake ==
    \A T \in SUBSET Requests :
        /\ Total(Amount, T) \in Nat
        /\ \A r \in T : /\ Total(Amount, T \ {r}) \in Nat
                        /\ Total(Amount, T) = Amount[r] + Total(Amount, T \ {r})
<1>1. /\ IsFiniteSet(Requests)
      /\ Amount \in [Requests -> Nat]
      /\ Amount \in [Requests -> Int]
  BY WithdrawalAssumption
<1>2. \A T \in SUBSET Requests : Total(Amount, T) \in Nat  BY <1>1, TotalNat
<1>3. Takes(Requests, Amount)  BY <1>1, TotalTake
<1> QED  BY <1>2, <1>3 DEF Takes

\* A row of the wallet and a completed request were burnt.
Burnt == \A r \in Requests : row[r] > 0 \/ status[r] = "COMPLETED" => debits[r] > 0

LEMMA BurntNext ==
    ASSUME TypeOK, ActsFor, Burnt, [Next]_vars
    PROVE  Burnt'
<1> USE DEF ledger, request
<1>0. /\ status \in [Requests -> Statuses]
      /\ debits \in [Requests -> Nat]
      /\ row \in [Requests -> Int]
  BY DEF TypeOK
<1>1. ASSUME UNCHANGED <<row, debits>>,
             \A r \in Requests : status'[r] = "COMPLETED" => status[r] = "COMPLETED" \/ row[r] > 0
      PROVE  Burnt'
  BY <1>1 DEF Burnt
<1>2. CASE \/ \E r \in Requests : Request(r) \/ Release(r) \/ TransferEvent(r)
           \/ \E l \in Lines : Charge(l) \/ PayElsewhere(l)
           \/ FreezeCase \/ ThawCase
  <2>1. UNCHANGED <<row, debits>>
    BY <1>2 DEF Request, Release, TransferEvent, Charge, PayElsewhere, FreezeCase, ThawCase
  <2>2. \A r \in Requests : status'[r] = "COMPLETED" => status[r] = "COMPLETED" \/ row[r] > 0
    BY <1>0, <1>2 DEF Request, Release, TransferEvent, Debited, Charge, PayElsewhere,
       FreezeCase, ThawCase
  <2> QED  BY <1>1, <2>1, <2>2
<1>3. CASE \E w \in Workers, r \in Requests : Starts(w, r)
  <2>1. UNCHANGED <<row, debits, status>>
    BY <1>3 DEF Starts, StartDecision, StartComplete
  <2> QED  BY <1>1, <2>1
<1>4. CASE \E w \in Workers : Decide(w)
  <2>1. PICK w \in Workers : Decide(w)  BY <1>4
  <2>2. PICK r \in Requests : r = req[w].for
    BY <2>1 DEF Decide, Approve, Reject, Cancel, ActsFor, OnRequest
  <2>3. UNCHANGED <<row, debits>>  BY <2>1 DEF Decide, Approve, Reject, Cancel
  <2>4. \E s \in {"PROCESSING", "REJECTED", "CANCELLED"} : status' = [status EXCEPT ![r] = s]
    BY <2>1, <2>2 DEF Decide, Approve, Reject, Cancel
  <2>5. \A q \in Requests : status'[q] = "COMPLETED" => status[q] = "COMPLETED"
    BY <1>0, <2>4
  <2> QED  BY <1>1, <2>3, <2>5
<1>5. CASE \E w \in Workers : Claim(w) \/ Hold(w) \/ Send(w) \/ Store(w)
  <2>1. UNCHANGED <<row, debits, status>>
    BY <1>5 DEF Claim, Hold, Send, Store
  <2> QED  BY <1>1, <2>1
<1>6. CASE \E w \in Workers : Finish(w)
  <2>1. PICK w \in Workers : Finish(w)  BY <1>6
  <2>2. PICK r \in Requests : r = req[w].for
    BY <2>1 DEF Finish, Record, Close, GiveUp, ActsFor, OnRequest
  <2>3. CASE Record(w)
    <3>1. /\ debits' = [debits EXCEPT ![r] = @ + 1]
          /\ \A q \in Requests \ {r} : row'[q] = row[q] /\ status'[q] = status[q]
      BY <2>2, <2>3 DEF Record, MarkCompleted
    <3> QED  BY <1>0, <3>1 DEF Burnt
  <2>4. CASE Close(w)
    <3>1. UNCHANGED <<row, debits>>  BY <2>4 DEF Close
    <3>2. row[r] > 0 /\ status' = [status EXCEPT ![r] = "COMPLETED"]
      BY <2>2, <2>4 DEF Close, Debited, MarkCompleted
    <3>3. \A q \in Requests : status'[q] = "COMPLETED" => status[q] = "COMPLETED" \/ row[q] > 0
      BY <1>0, <3>2
    <3> QED  BY <1>1, <3>1, <3>3
  <2>5. CASE GiveUp(w)
    <3>1. UNCHANGED <<row, debits, status>>  BY <2>5 DEF GiveUp
    <3> QED  BY <1>1, <3>1
  <2> QED  BY <2>1, <2>3, <2>4, <2>5 DEF Finish
<1>7. CASE \E w \in Workers :
             StartPayout(w) \/ Payout(w) \/ SendPayout(w) \/ Reverse(w) \/ Crash(w)
  <2>1. UNCHANGED <<row, debits, status>>
    BY <1>7 DEF StartPayout, Payout, SendPayout, Reverse, Crash
  <2> QED  BY <1>1, <2>1
<1>8. CASE UNCHANGED vars
  BY <1>1, <1>8 DEF vars
<1> QED  BY <1>2, <1>3, <1>4, <1>5, <1>6, <1>7, <1>8, Kind, Zenon

\* A hold goes back to the wallet, or is burnt, whole and with its request.
LEMMA HoldGoes ==
    ASSUME TypeOK, frozen = onCase + Total(Amount, Active), NEW r \in Active,
           Active' = Active \ {r}, UNCHANGED onCase,
           frozen' = frozen - Releasable(Amount[r])
              \/ frozen' = frozen + TopUp(Amount[r]) - Amount[r]
    PROVE  (frozen = onCase + Total(Amount, Active))'
<1> DEFINE rest == Total(Amount, Active \ {r})
<1>1. r \in Requests /\ Active \in SUBSET Requests  BY DEF Active
<1>2. rest \in Nat /\ Total(Amount, Active) = Amount[r] + rest  BY <1>1, AmountTake
<1>3. Amount[r] \in Nat \ {0} /\ onCase \in Nat  BY <1>1, WithdrawalAssumption DEF TypeOK
<1>4. Total(Amount, Active)' = rest  OBVIOUS
<1> HIDE DEF rest
<1>5. frozen >= Amount[r] /\ frozen \in Int  BY <1>2, <1>3
<1>6. Releasable(Amount[r]) = Amount[r]  BY <1>3, <1>5 DEF Releasable
<1>7. TopUp(Amount[r]) = 0  BY <1>5 DEF TopUp
<1>8. frozen' = frozen - Amount[r]  BY <1>3, <1>5, <1>6, <1>7
<1> QED  BY <1>2, <1>3, <1>4, <1>8

LEMMA HoldsMatchNext ==
    ASSUME TypeOK, ActsFor, BurntOnce, Burnt, HoldsMatch, [Next]_vars
    PROVE  HoldsMatch'
<1> USE DEF balances, ledger, request
<1>0. SUFFICES ASSUME Never({"decision", "hold"})'
               PROVE  (frozen = onCase + Total(Amount, Active))'
  BY DEF HoldsMatch
<1>1. Never({"decision", "hold"})  BY <1>0, NeverBefore
<1>2. frozen = onCase + Total(Amount, Active)  BY <1>1 DEF HoldsMatch
<1>3. "decision" \notin overtaken' /\ "hold" \notin overtaken'  BY <1>0 DEF Never
<1>4. /\ status \in [Requests -> Statuses]
      /\ req \in [Workers -> Calls]
      /\ onCase \in Nat /\ frozen \in Int
      /\ \A r \in Requests : Amount[r] \in Nat \ {0}
  BY WithdrawalAssumption DEF TypeOK, Calls
<1>5. \A r \in Requests : status[r] = "PROCESSING" => ~(row[r] > 0)
  <2>1. Never({"decision"})  BY <1>1 DEF Never
  <2> QED  BY <2>1 DEF BurntOnce, Burnt, TypeOK
<1>6. ASSUME UNCHANGED <<frozen, onCase>>, Active' = Active
      PROVE  (frozen = onCase + Total(Amount, Active))'
  BY <1>2, <1>6
<1>7. CASE \E r \in Requests : Request(r)
  <2>1. PICK r \in Requests : Request(r)  BY <1>7
  <2>2. Active = {} /\ Active' = {r}
    BY <1>4, <2>1 DEF Request, NoneActive, Active
  <2>3. Total(Amount, {r}) = Amount[r] + Total(Amount, {r} \ {r}) /\ {r} \ {r} = {}
    BY AmountTake
  <2>4. Total(Amount, {}) = 0  BY TotalNone
  <2>5. frozen' = frozen + Amount[r] /\ onCase' = onCase  BY <2>1 DEF Request
  <2>6. Total(Amount, Active)' = Amount[r]  BY <1>4, <2>2, <2>3, <2>4
  <2>7. frozen = onCase  BY <1>2, <1>4, <2>2, <2>4
  <2> QED  BY <1>4, <2>5, <2>6, <2>7
<1>8. CASE \E r \in Requests : Release(r)
  <2>1. PICK r \in Requests : Release(r)  BY <1>8
  <2>2. r \in Active /\ Active' = Active \ {r}
    BY <1>4, <2>1 DEF Release, Active
  <2>3. UNCHANGED onCase /\ frozen' = frozen - Releasable(Amount[r])
    BY <2>1 DEF Release, Unhold
  <2> QED  BY <1>2, <2>2, <2>3, HoldGoes
<1>9. CASE \E r \in Requests : TransferEvent(r)
  <2>1. UNCHANGED status  BY <1>5, <1>9 DEF TransferEvent, Debited
  <2>2. UNCHANGED <<frozen, onCase>>  BY <1>9 DEF TransferEvent
  <2> QED  BY <1>6, <2>1, <2>2 DEF Active
<1>10. CASE \E l \in Lines : Charge(l) \/ PayElsewhere(l)
  BY <1>6, <1>10 DEF Charge, PayElsewhere, Active
<1>11. CASE FreezeCase \/ ThawCase
  <2>1. Active' = Active  BY <1>11 DEF FreezeCase, ThawCase, Active
  <2>2. Total(Amount, Active) \in Nat
    <3>1. Active \in SUBSET Requests  BY DEF Active
    <3> QED  BY <3>1, AmountTake
  <2>3. CaseAmount \in Nat  BY WithdrawalAssumption
  <2>4. frozen' - onCase' = frozen - onCase /\ onCase' \in Nat /\ frozen' \in Int
    BY <1>4, <1>11, <2>3 DEF FreezeCase, ThawCase
  <2> QED  BY <1>2, <1>4, <2>1, <2>2, <2>4
<1>12. CASE \E w \in Workers, r \in Requests : Starts(w, r)
  BY <1>6, <1>12 DEF Starts, StartDecision, StartComplete, Active
<1>13. CASE \E w \in Workers : Decide(w)
  <2>1. PICK w \in Workers : Decide(w)  BY <1>13
  <2>2. PICK r \in Requests : r = req[w].for
    BY <2>1 DEF Decide, Approve, Reject, Cancel, ActsFor, OnRequest
  <2>3. status[r] = "PENDING"
    BY <1>3, <2>1, <2>2 DEF Decide, Approve, Reject, Cancel, Note, Moved
  <2>4. CASE Approve(w)
    <3>1. Active' = Active  BY <1>4, <2>2, <2>3, <2>4 DEF Approve, Active
    <3> QED  BY <1>6, <2>4, <3>1 DEF Approve
  <2>5. CASE Reject(w) \/ Cancel(w)
    <3>1. r \in Active /\ Active' = Active \ {r}
      BY <1>4, <2>2, <2>3, <2>5 DEF Reject, Cancel, Active
    <3>2. UNCHANGED onCase /\ frozen' = frozen - Releasable(Amount[r])
      BY <2>2, <2>5 DEF Reject, Cancel, Unhold
    <3> QED  BY <1>2, <3>1, <3>2, HoldGoes
  <2> QED  BY <2>1, <2>4, <2>5 DEF Decide
<1>14. CASE \E w \in Workers : Claim(w) \/ Hold(w) \/ Send(w) \/ Store(w)
  <2>1. PICK w \in Workers : Claim(w) \/ Hold(w) \/ Send(w) \/ Store(w)  BY <1>14
  <2>2. UNCHANGED status  BY <2>1 DEF Claim, Hold, Send, Store
  <2>3. CASE UNCHANGED balances  BY <1>6, <2>2, <2>3 DEF Active
  <2>4. CASE Hold(w) /\ ~UNCHANGED balances
    <3>1. PICK r \in Requests : r = req[w].for  BY <2>4 DEF Hold, ActsFor, OnRequest
    <3>2. Raise(Amount[r]) /\ status[r] = "PROCESSING"
      BY <1>3, <2>4, <3>1 DEF Hold, Note
    <3>3. r \in Active /\ Active \in SUBSET Requests  BY <3>2 DEF Active
    <3>4. Total(Amount, Active) = Amount[r] + Total(Amount, Active \ {r})
          /\ Total(Amount, Active \ {r}) \in Nat
      BY <3>3, AmountTake
    <3>5. frozen >= Amount[r]  BY <1>2, <1>4, <3>4
    <3>6. UNCHANGED <<frozen, onCase>>  BY <1>4, <3>2, <3>5 DEF Raise, TopUp
    <3> QED  BY <1>6, <2>2, <3>6 DEF Active
  <2> QED  BY <2>1, <2>3, <2>4 DEF Claim, Send, Store
<1>15. CASE \E w \in Workers : Finish(w)
  <2>1. PICK w \in Workers : Finish(w)  BY <1>15
  <2>2. PICK r \in Requests : r = req[w].for
    BY <2>1 DEF Finish, Record, Close, GiveUp, ActsFor, OnRequest
  <2>3. CASE Record(w)
    <3>1. r \in Active /\ Active' = Active \ {r}
      BY <1>4, <2>2, <2>3 DEF Record, Completable, MarkCompleted, Active
    <3>2. UNCHANGED onCase /\ frozen' = frozen + TopUp(Amount[r]) - Amount[r]
      BY <2>2, <2>3 DEF Record, Burn
    <3> QED  BY <1>2, <3>1, <3>2, HoldGoes
  <2>4. ~Close(w)
    BY <1>5, <2>2 DEF Close, Completable, Debited
  <2>5. CASE GiveUp(w)  BY <1>6, <2>5 DEF GiveUp, Active
  <2> QED  BY <2>1, <2>3, <2>4, <2>5 DEF Finish
<1>16. CASE \E w \in Workers :
             StartPayout(w) \/ Payout(w) \/ SendPayout(w) \/ Reverse(w) \/ Crash(w)
  BY <1>6, <1>16 DEF StartPayout, Payout, SendPayout, Reverse, Crash, Active
<1>17. CASE UNCHANGED vars
  BY <1>6, <1>17 DEF vars, Active
<1> QED  BY <1>7, <1>8, <1>9, <1>10, <1>11, <1>12, <1>13, <1>14, <1>15, <1>16, <1>17, Kind, Zenon

\* The frozen balance is what open cases and active requests hold, for any number
\* of requests and whatever is released, topped up, completed or repeated, unless
\* a late decision or a hold for a request that was over came in between.
THEOREM WithdrawalHoldsMatch == Spec => []HoldsMatch
<1>1. Init => BurntOnce /\ Burnt /\ HoldsMatch
  <2>1. SUFFICES ASSUME Init PROVE BurntOnce /\ Burnt /\ HoldsMatch  OBVIOUS
  <2>2. Active = {}  BY <2>1 DEF Init, Active
  <2>3. Total(Amount, Active) = 0  BY <2>2, TotalNone
  <2> QED  BY <2>1, <2>3 DEF Init, BurntOnce, Burnt, HoldsMatch
<1>2. (TypeOK /\ ActsFor) /\ (BurntOnce /\ Burnt /\ HoldsMatch) /\ [Next]_vars
          => (BurntOnce /\ Burnt /\ HoldsMatch)'
  BY BurntOnceNext, BurntNext, HoldsMatchNext
<1> QED  BY <1>1, <1>2, Typed, PTL DEF Spec

-----------------------------------------------------------------------------
(* What was sent was taken.                                                  *)

\* A finite set of numbers has a largest one.
LEMMA Largest ==
    ASSUME NEW S, IsFiniteSet(S), S \subseteq Nat
    PROVE  \A T \in SUBSET S : T # {} => \E m \in T : \A x \in T : x <= m
<1> DEFINE P == {T \in SUBSET S : T # {} => \E m \in T : \A x \in T : x <= m}
<1>1. ASSUME NEW T \in SUBSET S, \A U \in SUBSET T : U # T => U \in P
      PROVE  T \in P
  <2>1. SUFFICES ASSUME NEW p \in T  PROVE \E m \in T : \A x \in T : x <= m  OBVIOUS
  <2>2. CASE T = {p}  BY <2>2
  <2>3. CASE T # {p}
    <3>1. PICK m \in T \ {p} : \A x \in T \ {p} : x <= m
      <4>1. T \ {p} \in P  BY <1>1
      <4>2. T \ {p} # {}  BY <2>3
      <4> QED  BY <4>1, <4>2
    <3>2. CASE p <= m  BY <3>1, <3>2
    <3>3. CASE ~(p <= m)
      <4>1. \A x \in T : x <= p  BY <3>1, <3>3
      <4> QED  BY <4>1
    <3> QED  BY <3>2, <3>3
  <2> QED  BY <2>2, <2>3
<1>2. \A T \in SUBSET S : T \in P
  <2> HIDE DEF P
  <2> QED  BY <1>1, SetInduction
<1> QED  BY <1>2

\* The debts that an amount is said to settle are not more than the amount.
LEMMA SettledFits ==
    ASSUME NEW amount \in Nat
    PROVE  Owed(Settled(amount)) <= amount
<1> DEFINE S == Settled(amount)
<1>1. Due \in SUBSET Lines /\ S \in SUBSET Lines /\ S \subseteq Due  BY DEF Settled, Due
<1>2. CASE S = {}
  <2>1. Owed({}) = 0  BY TotalNone DEF Owed
  <2> QED  BY <1>2, <2>1
<1>3. CASE S # {}
  <2>1. PICK m \in S : \A l \in S : l <= m
    BY <1>1, <1>3, WithdrawalAssumption, Largest
  <2> DEFINE upTo == {k \in Due : k <= m}
  <2>2. Owed(upTo) <= amount  BY <2>1 DEF Settled
  <2>3. S \in SUBSET upTo /\ upTo \in SUBSET Lines  BY <1>1, <2>1
  <2> HIDE DEF S, upTo
  <2>4. Owed(S) <= Owed(upTo) /\ Owed(S) \in Nat /\ Owed(upTo) \in Nat
    BY <1>1, <2>3, OwedNat
  <2>5. Owed(S) <= amount  BY <2>2, <2>4
  <2> QED  BY <2>5 DEF S
<1> QED  BY <1>2, <1>3

\* What a request is about to settle fits into what it is about to take.
OnPayout == {"payout", "sendPayout", "reverse"}
FitsOK(c) ==
    /\ c.at \in OnRequest => Owed(c.settles) <= Amount[c.for]
    /\ c.at \in OnPayout => Owed(c.settles) <= PayoutAmount
Fits == \A w \in Workers : FitsOK(req[w])

\* The worker goes on with what it has read, leaves, or starts with a plan that fits.
LEMMA FitsGoesOn ==
    ASSUME TypeOK, Fits, NEW w \in Workers, NEW c \in Calls, c = req'[w],
           \A v \in Workers \ {w} : req'[v] = req[v],
           \/ c = Idle
           \/ /\ c.for = req[w].for /\ c.settles = req[w].settles
              /\ c.at \in OnRequest => req[w].at \in OnRequest
              /\ c.at \in OnPayout => req[w].at \in OnPayout
           \/ FitsOK(c)
    PROVE  Fits'
<1>1. FitsOK(Idle)  BY DEF FitsOK, Idle, OnRequest, OnPayout
<1>2. PICK b : b = req[w]  OBVIOUS
<1>3. FitsOK(b)  BY <1>2 DEF Fits
<1>4. FitsOK(c)  BY <1>1, <1>2, <1>3 DEF FitsOK
<1> QED  BY <1>4 DEF Fits

LEMMA StartFits ==
    ASSUME TypeOK, Fits, NEW w \in Workers, NEW r \in Requests, Starts(w, r)
    PROVE  Fits'
<1>0. req \in [Workers -> Calls] /\ Amount[r] \in Nat
  BY WithdrawalAssumption DEF TypeOK, Calls
<1>1. CASE \E step \in {"approve", "reject", "cancel"} : StartDecision(w, r, step)
  <2>1. PICK step \in {"approve", "reject", "cancel"} : StartDecision(w, r, step)  BY <1>1
  <2> DEFINE c == [Idle EXCEPT !.at = step, !.for = r]
  <2>2. c \in Calls /\ c.at \in OnRequest /\ c.at \notin OnPayout /\ c.for = r /\ c.settles = {}
    BY DEF Calls, Idle, Steps, OnRequest, OnPayout
  <2>3. req' = [req EXCEPT ![w] = c]  BY <2>1 DEF StartDecision
  <2> HIDE DEF c
  <2>4. Owed({}) = 0  BY TotalNone DEF Owed
  <2>5. FitsOK(c)  BY <1>0, <2>2, <2>4 DEF FitsOK
  <2>6. c = req'[w] /\ \A v \in Workers \ {w} : req'[v] = req[v]  BY <1>0, <2>3
  <2> QED  BY <2>2, <2>5, <2>6, FitsGoesOn
<1>2. CASE StartComplete(w, r)
  <2>1. PICK a \in {"claim", "ledger"}, k \in BOOLEAN :
          req' = [req EXCEPT ![w] = [at |-> a, for |-> r, settles |-> Settled(Amount[r]), known |-> k]]
    BY <1>2, Zenon DEF StartComplete, Known
  <2> DEFINE c == [at |-> a, for |-> r, settles |-> Settled(Amount[r]), known |-> k]
  <2>2. c \in Calls /\ c.at \notin OnPayout /\ c.for = r /\ c.settles = Settled(Amount[r])
    BY SettledLines DEF Calls, Steps, OnPayout
  <2>3. req' = [req EXCEPT ![w] = c]  BY <2>1
  <2> HIDE DEF c
  <2>4. Owed(c.settles) <= Amount[r]  BY <1>0, <2>2, SettledFits
  <2>5. FitsOK(c)  BY <2>2, <2>4 DEF FitsOK
  <2>6. c = req'[w] /\ \A v \in Workers \ {w} : req'[v] = req[v]  BY <1>0, <2>3
  <2> QED  BY <2>2, <2>5, <2>6, FitsGoesOn
<1> QED  BY <1>1, <1>2 DEF Starts

LEMMA FitsNext ==
    ASSUME TypeOK, ActsFor, Fits, [Next]_vars
    PROVE  Fits'
<1>0. req \in [Workers -> Calls]  BY DEF TypeOK, Calls
<1>1. CASE \/ \E r \in Requests : Request(r) \/ Release(r) \/ TransferEvent(r)
           \/ \E l \in Lines : Charge(l) \/ PayElsewhere(l)
           \/ FreezeCase \/ ThawCase
  <2>1. UNCHANGED req
    BY <1>1 DEF Request, Release, TransferEvent, Charge, PayElsewhere, FreezeCase, ThawCase
  <2> QED  BY <2>1 DEF Fits
<1>2. CASE \E w \in Workers, r \in Requests : Starts(w, r)  BY <1>2, StartFits
<1>3. ASSUME NEW w \in Workers,
             \/ Decide(w) \/ Claim(w) \/ Hold(w) \/ Send(w) \/ Store(w) \/ Finish(w)
             \/ StartPayout(w) \/ Payout(w) \/ SendPayout(w) \/ Reverse(w) \/ Crash(w)
      PROVE  Fits'
  <2>1. PICK b, c : b = req[w] /\ c = req'[w]  OBVIOUS
  <2>2. b \in Calls  BY <1>0, <2>1
  <2>3. Moves(w)  BY <1>0, <1>3, WorkerMoves
  <2>4. \A v \in Workers \ {w} : req'[v] = req[v]
    BY <1>0, <2>3 DEF Moves, Goto, Leave
  <2>5. c \in Calls
    <3>1. req' \in [Workers -> Calls]  BY <1>0, <2>3, MovesType
    <3> QED  BY <2>1, <3>1
  <2>6. \/ c = Idle
        \/ /\ c.for = b.for /\ c.settles = b.settles
           /\ c.at \in OnRequest => b.at \in OnRequest
           /\ c.at \in OnPayout => b.at \in OnPayout
        \/ FitsOK(c)
    <3> USE DEF OnRequest, OnPayout
    <3>1. CASE Leave(w)  BY <1>0, <2>1, <3>1 DEF Leave
    <3>2. CASE (Claim(w) \/ Hold(w) \/ Send(w) \/ Store(w)) /\ ~Leave(w)
      <4>1. b.at \in OnRequest
        BY <2>1, <3>2 DEF Claim, Hold, Send, Store
      <4>2. \/ \E step \in OnRequest : c = [b EXCEPT !.at = step]
            \/ c = [[b EXCEPT !.at = "ledger"] EXCEPT !.known = TRUE]
        BY <1>0, <2>1, <3>2 DEF Claim, Hold, Send, Store, Goto
      <4> QED  BY <2>2, <4>1, <4>2 DEF Calls
    <3>3. CASE StartPayout(w)
      <4>1. c = [Idle EXCEPT !.at = "payout", !.settles = Settled(PayoutAmount)]
        BY <1>0, <2>1, <3>3 DEF StartPayout
      <4>2. c.at = "payout" /\ c.settles = Settled(PayoutAmount)  BY <4>1 DEF Idle
      <4>3. PayoutAmount \in Nat  BY WithdrawalAssumption
      <4>4. Owed(c.settles) <= PayoutAmount  BY <4>2, <4>3, SettledFits
      <4> QED  BY <4>2, <4>4 DEF FitsOK
    <3>4. CASE (Payout(w) \/ SendPayout(w)) /\ ~Leave(w)
      <4>1. b.at \in OnPayout  BY <2>1, <3>4 DEF Payout, SendPayout
      <4>2. \/ \E step \in OnPayout : c = [b EXCEPT !.at = step]
            \/ c = [[b EXCEPT !.at = "reverse"] EXCEPT !.known = TRUE]
        BY <1>0, <2>1, <3>4 DEF Payout, SendPayout, Goto
      <4> QED  BY <2>2, <4>1, <4>2 DEF Calls
    <3> QED  BY <1>3, <3>1, <3>2, <3>3, <3>4 DEF Decide, Approve, Reject, Cancel, Finish,
             Record, Close, GiveUp, Reverse, Crash
  <2> QED  BY <2>1, <2>4, <2>5, <2>6, FitsGoesOn
<1>4. CASE UNCHANGED vars  BY <1>4 DEF vars, Fits
<1> QED  BY <1>1, <1>2, <1>3, <1>4, Kind, Zenon

\* Stripe is sent no more than a request holds, and nothing for a bank transfer.
SentFits ==
    \A r \in Requests : /\ transfer[r] <= Amount[r]
                        /\ Method[r] # "STRIPE" => transfer[r] = 0

\* Only a worker about to send makes a transfer.
LEMMA SendStep ==
    ASSUME TypeOK, ActsFor, StripeSide, NEW w \in Workers, Send(w)
    PROVE  \E r \in Requests, n \in Int :
             /\ r = req[w].for /\ n = Net(w) /\ n > 0
             /\ Method[r] = "STRIPE"
             /\ UNCHANGED transfer
                \/ (transfer[r] \in {0, n} /\ transfer' = [transfer EXCEPT ![r] = n])
<1>1. PICK c, n : c = req[w] /\ n = NetOf(c)  OBVIOUS
<1>2. /\ c.at = "send" /\ c.for \in Requests /\ CallOK(c, transfer)
      /\ req \in [Workers -> Calls]
  BY <1>1 DEF Send, StripeSide, ActsFor, OnRequest, TypeOK, Calls
<1>3. Net(w) = n  BY <1>1 DEF Net, NetOf
<1>4. n > 0 /\ Method[c.for] = "STRIPE"  BY <1>1, <1>2 DEF CallOK
<1>5. n \in Int  BY <1>1, <1>2, <1>3, NetInt
<1>6. \/ UNCHANGED transfer
      \/ transfer[c.for] \in {0, n} /\ transfer' = [transfer EXCEPT ![c.for] = n]
  BY <1>1, <1>3 DEF Send, Accepts, Key
<1> QED  BY <1>1, <1>2, <1>3, <1>4, <1>5, <1>6

LEMMA SentFitsNext ==
    ASSUME TypeOK, ActsFor, StripeSide, Fits, SentFits, [Next]_vars
    PROVE  SentFits'
<1> USE DEF stripe
<1>0. req \in [Workers -> Calls] /\ transfer \in [Requests -> Int]  BY DEF TypeOK, Calls
<1>1. CASE UNCHANGED transfer  BY <1>1 DEF SentFits
<1>2. CASE \E w \in Workers : Send(w)
  <2>1. PICK w \in Workers : Send(w)  BY <1>2
  <2>2. PICK r \in Requests, n \in Int :
             /\ r = req[w].for /\ n = Net(w) /\ n > 0
             /\ Method[r] = "STRIPE"
             /\ UNCHANGED transfer
                \/ (transfer[r] \in {0, n} /\ transfer' = [transfer EXCEPT ![r] = n])
    BY <2>1, SendStep
  <2>3. n <= Amount[r]
    <3>1. PICK S : S = req[w].settles  OBVIOUS
    <3>2. S \in SUBSET Lines  BY <1>0, <3>1 DEF Calls
    <3>3. Owed(S) \in Nat  BY <3>2, OwedNat
    <3>4. n = Amount[r] - Owed(S)  BY <2>2, <3>1 DEF Net
    <3> QED  BY <3>3, <3>4, WithdrawalAssumption
  <2> QED  BY <1>0, <2>2, <2>3 DEF SentFits
<1>3. CASE ~ \E w \in Workers : Send(w)
  <2>1. CASE \/ \E r \in Requests : Request(r) \/ Release(r) \/ TransferEvent(r)
             \/ \E l \in Lines : Charge(l) \/ PayElsewhere(l)
             \/ FreezeCase \/ ThawCase
    BY <1>1, <2>1 DEF Request, Release, TransferEvent, Charge, PayElsewhere, FreezeCase, ThawCase
  <2>2. CASE \E w \in Workers, r \in Requests : Starts(w, r)
    BY <1>1, <2>2 DEF Starts, StartDecision, StartComplete
  <2>3. CASE \E w \in Workers : Decide(w)
    BY <1>1, <2>3 DEF Decide, Approve, Reject, Cancel
  <2>4. CASE \E w \in Workers : Claim(w) \/ Hold(w) \/ Send(w) \/ Store(w)
    BY <1>1, <1>3, <2>4 DEF Claim, Hold, Store
  <2>5. CASE \E w \in Workers : Finish(w)
    BY <1>1, <2>5 DEF Finish, Record, Close, GiveUp
  <2>6. CASE \E w \in Workers :
             StartPayout(w) \/ Payout(w) \/ SendPayout(w) \/ Reverse(w) \/ Crash(w)
    BY <1>1, <2>6 DEF StartPayout, Payout, SendPayout, Reverse, Crash
  <2>7. CASE UNCHANGED vars  BY <1>1, <2>7 DEF vars
  <2> QED  BY <2>1, <2>2, <2>3, <2>4, <2>5, <2>6, <2>7, Kind, Zenon
<1> QED  BY <1>2, <1>3

\* What completed requests sent, the debts that were paid, and what payouts in
\* flight may still send or get back.
Gone == [r \in Requests |-> IF status[r] = "COMPLETED" THEN transfer[r] ELSE 0]
Spent == [l \in Lines |-> lineRows[l] * Debt[l]]
RestOf(c) ==
    IF c.at = "sendPayout" THEN PayoutAmount - Owed(c.settles)
    ELSE IF c.at = "reverse" /\ ~c.known /\ c.settles = {} THEN PayoutAmount
    ELSE 0
Rest == [w \in Workers |-> RestOf(req[w])]

Accounted ==
    sent + Total(Gone, Requests) + Total(Spent, Lines) + Total(Rest, Workers) <= out

LEMMA SumTypes ==
    ASSUME TypeOK, Fits
    PROVE  /\ Gone \in [Requests -> Int] /\ Total(Gone, Requests) \in Int
           /\ Spent \in [Lines -> Int] /\ Total(Spent, Lines) \in Int
           /\ Rest \in [Workers -> Int] /\ Total(Rest, Workers) \in Nat
           /\ \A w \in Workers : Rest[w] = RestOf(req[w]) /\ RestOf(req[w]) \in Nat
<1>1. Gone \in [Requests -> Int]  BY DEF Gone, TypeOK
<1>2. Spent \in [Lines -> Int]
  <2>1. \A l \in Lines : lineRows[l] \in Nat /\ Debt[l] \in Nat
    BY WithdrawalAssumption DEF TypeOK
  <2>2. \A a, b \in Nat : a * b \in Int  OBVIOUS
  <2> QED  BY <2>1, <2>2 DEF Spent
<1>3. ASSUME NEW w \in Workers  PROVE RestOf(req[w]) \in Nat
  <2>1. PICK c : c = req[w]  OBVIOUS
  <2>2. c.settles \in SUBSET Lines /\ FitsOK(c)  BY <2>1 DEF TypeOK, Fits
  <2>3. Owed(c.settles) \in Nat /\ PayoutAmount \in Nat
    BY <2>2, OwedNat, WithdrawalAssumption
  <2>4. RestOf(c) \in Nat  BY <2>2, <2>3 DEF RestOf, FitsOK, OnPayout
  <2> QED  BY <2>1, <2>4
<1>4. Rest \in [Workers -> Nat] /\ \A w \in Workers : Rest[w] = RestOf(req[w])
  BY <1>3 DEF Rest
<1>5. IsFiniteSet(Requests) /\ IsFiniteSet(Lines) /\ IsFiniteSet(Workers)
  BY WithdrawalAssumption
<1>6. Total(Gone, Requests) \in Int  BY <1>1, <1>5, TotalInt
<1>7. Total(Spent, Lines) \in Int  BY <1>2, <1>5, TotalInt
<1>8. Total(Rest, Workers) \in Nat  BY <1>4, <1>5, TotalNat
<1>9. Rest \in [Workers -> Int]  BY <1>4
<1> QED  BY <1>1, <1>2, <1>3, <1>4, <1>6, <1>7, <1>8, <1>9

LEMMA SumTypesLater ==
    TypeOK' /\ Fits' =>
           /\ Gone' \in [Requests -> Int] /\ Total(Gone, Requests)' \in Int
           /\ Spent' \in [Lines -> Int] /\ Total(Spent, Lines)' \in Int
           /\ Rest' \in [Workers -> Int] /\ Total(Rest, Workers)' \in Nat
           /\ \A w \in Workers : Rest'[w] = RestOf(req'[w]) /\ RestOf(req'[w]) \in Nat
<1> DEFINE Sums0 == /\ Gone \in [Requests -> Int] /\ Total(Gone, Requests) \in Int
                    /\ Spent \in [Lines -> Int] /\ Total(Spent, Lines) \in Int
                    /\ Rest \in [Workers -> Int] /\ Total(Rest, Workers) \in Nat
                    /\ \A w \in Workers : Rest[w] = RestOf(req[w]) /\ RestOf(req[w]) \in Nat
<1>1. TypeOK /\ Fits => Sums0  BY SumTypes
<1>2. (TypeOK /\ Fits => Sums0)'  BY <1>1, PTL
<1> QED  BY <1>2

\* A worker at no payout keeps nothing back.
LEMMA NoRest == \A c : c.at \notin {"sendPayout", "reverse"} => RestOf(c) = 0
BY DEF RestOf

\* The step of one worker changes what payouts keep back by its own part.
LEMMA RestStep ==
    ASSUME TypeOK, Fits, TypeOK', Fits', NEW w \in Workers,
           \A v \in Workers \ {w} : req'[v] = req[v]
    PROVE  Total(Rest, Workers)' = Total(Rest, Workers) - RestOf(req[w]) + RestOf(req'[w])
<1>1. /\ Rest \in [Workers -> Int] /\ Rest' \in [Workers -> Int]
      /\ Rest[w] = RestOf(req[w]) /\ Rest'[w] = RestOf(req'[w])
      /\ IsFiniteSet(Workers)
  BY SumTypes, SumTypesLater, WithdrawalAssumption
<1>2. \A v \in Workers \ {w} : Rest'[v] = Rest[v]
  BY DEF Rest
<1>3. Total(Rest', Workers) = Total(Rest, Workers) - Rest[w] + Rest'[w]
  BY <1>1, <1>2, TotalChanges
<1> QED  BY <1>1, <1>3

\* Settling the debts of a plan pays what they are worth.
LEMMA SpentStep ==
    ASSUME TypeOK, Fits, TypeOK', Fits', NEW S \in SUBSET Lines, SettleLines(S)
    PROVE  Total(Spent, Lines)' = Total(Spent, Lines) + Owed(S)
<1>1. /\ Spent \in [Lines -> Int] /\ Spent' \in [Lines -> Int]
      /\ Debt \in [Lines -> Int] /\ IsFiniteSet(Lines)
  BY SumTypes, SumTypesLater, WithdrawalAssumption
<1>2. \A l \in Lines : lineRows[l] \in Nat /\ Debt[l] \in Nat
  BY WithdrawalAssumption DEF TypeOK
<1>3. \A a, b \in Nat : (a + 1) * b = a * b + b  OBVIOUS
<1>4. \A l \in Lines : Spent'[l] = Spent[l] + (IF l \in S THEN Debt[l] ELSE 0)
  <2>1. SUFFICES ASSUME NEW l \in Lines
                 PROVE  Spent'[l] = Spent[l] + (IF l \in S THEN Debt[l] ELSE 0)
    OBVIOUS
  <2>2. Spent[l] = lineRows[l] * Debt[l] /\ Spent'[l] = lineRows'[l] * Debt[l]  BY DEF Spent
  <2>3. CASE l \in S
    <3>1. lineRows'[l] = lineRows[l] + 1  BY <2>3 DEF SettleLines
    <3> QED  BY <1>2, <1>3, <2>2, <2>3, <3>1
  <2>4. CASE l \notin S
    <3>1. lineRows'[l] = lineRows[l]  BY <2>4 DEF SettleLines
    <3>2. Spent[l] \in Int  BY <1>1
    <3> QED  BY <2>2, <2>4, <3>1, <3>2
  <2> QED  BY <2>3, <2>4
<1>5. Adds(Lines, Spent, Spent', Debt, S)  BY <1>4 DEF Adds
<1>6. \A T \in SUBSET Lines : Total(Spent', T) = Total(Spent, T) + Total(Debt, T \cap S)
  BY <1>1, <1>5, TotalAdds
<1>7. Lines \in SUBSET Lines /\ Lines \cap S = S  OBVIOUS
<1>8. Total(Spent', Lines) = Total(Spent, Lines) + Total(Debt, S)  BY <1>6, <1>7
<1> QED  BY <1>8 DEF Owed

LEMMA Still ==
    ASSUME TypeOK, Fits, TypeOK', Fits', Accounted,
           UNCHANGED <<sent, out, lineRows>>, Gone' = Gone,
           Total(Rest, Workers)' <= Total(Rest, Workers)
    PROVE  Accounted'
<1>1. Spent' = Spent  BY DEF Spent
<1>2. PICK g, s, x, y : /\ g = Total(Gone, Requests) /\ s = Total(Spent, Lines)
                        /\ x = Total(Rest, Workers) /\ y = Total(Rest, Workers)'
  OBVIOUS
<1>3. g \in Int /\ s \in Int /\ x \in Int /\ y \in Int /\ sent \in Int /\ out \in Int
  BY <1>2, SumTypes, SumTypesLater DEF TypeOK
<1>4. Total(Gone, Requests)' = g /\ Total(Spent, Lines)' = s  BY <1>1, <1>2
<1>5. sent + g + s + x <= out  BY <1>2 DEF Accounted
<1>6. sent + g + s + y <= out  BY <1>2, <1>3, <1>5
<1> QED  BY <1>2, <1>4, <1>6 DEF Accounted

\* A worker that is at no payout before and after its step keeps nothing back.
LEMMA StillWorker ==
    ASSUME TypeOK, Fits, TypeOK', Fits', Accounted, NEW w \in Workers,
           UNCHANGED <<sent, out, lineRows>>, Gone' = Gone,
           \A v \in Workers \ {w} : req'[v] = req[v],
           req'[w].at \notin {"sendPayout", "reverse"}
    PROVE  Accounted'
<1>1. RestOf(req'[w]) = 0  BY NoRest
<1>2. RestOf(req[w]) \in Nat /\ Total(Rest, Workers) \in Nat  BY SumTypes
<1>3. Total(Rest, Workers)' = Total(Rest, Workers) - RestOf(req[w]) + RestOf(req'[w])
  BY RestStep
<1>4. Total(Rest, Workers)' <= Total(Rest, Workers)  BY <1>1, <1>2, <1>3
<1> QED  BY <1>4, Still

LEMMA SameGone ==
    ASSUME UNCHANGED transfer,
           \A r \in Requests : status'[r] = "COMPLETED" <=> status[r] = "COMPLETED"
    PROVE  Gone' = Gone
BY DEF Gone

\* The completion takes from the store what it sent and what it settled.
LEMMA RecordAccounted ==
    ASSUME TypeOK, ActsFor, StripeSide, Fits, SentFits, TypeOK', Fits', Accounted,
           NEW w \in Workers, Record(w), "plan" \notin overtaken'
    PROVE  Accounted'
<1> USE DEF stripe
<1>1. PICK c, r, S, n : c = req[w] /\ r = c.for /\ S = c.settles /\ n = Owed(S)  OBVIOUS
<1>2. /\ c \in Calls /\ c.at = "ledger" /\ r \in Requests /\ S \in SUBSET Lines
      /\ req \in [Workers -> Calls] /\ FitsOK(c)
      /\ status \in [Requests -> Statuses]
      /\ transfer \in [Requests -> Int]
  BY <1>1 DEF Record, Fits, ActsFor, OnRequest, TypeOK, Calls
<1>3. n \in Nat /\ Amount[r] \in Nat /\ n <= Amount[r]
  BY <1>1, <1>2, OwedNat, WithdrawalAssumption DEF FitsOK, OnRequest
<1>4. transfer[r] + n <= Amount[r]
  <2>1. CASE Method[r] = "STRIPE"
    <3>1. ~SentOtherwise(w, r)  BY <1>1 DEF Record, Note
    <3>2. transfer[r] = Net(w)  BY <2>1, <3>1 DEF SentOtherwise
    <3>3. Net(w) = Amount[r] - n  BY <1>1 DEF Net
    <3> QED  BY <1>3, <3>2, <3>3
  <2>2. CASE Method[r] # "STRIPE"
    <3>1. transfer[r] = 0  BY <1>2, <2>2 DEF SentFits
    <3> QED  BY <1>3, <3>1
  <2> QED  BY <2>1, <2>2
<1>5. Total(Gone, Requests)' = Total(Gone, Requests) + transfer[r]
  <2>1. /\ Gone \in [Requests -> Int] /\ Gone' \in [Requests -> Int]
        /\ IsFiniteSet(Requests)
    BY SumTypes, SumTypesLater, WithdrawalAssumption
  <2>2. /\ status[r] = "PROCESSING"
        /\ status' = [status EXCEPT ![r] = "COMPLETED"]
        /\ UNCHANGED transfer
    BY <1>1 DEF Record, Completable, MarkCompleted
  <2>3. \A q \in Requests \ {r} : Gone'[q] = Gone[q]  BY <1>2, <2>2 DEF Gone
  <2>4. Gone[r] = 0 /\ Gone'[r] = transfer[r]  BY <1>2, <2>2 DEF Gone
  <2>5. Total(Gone', Requests) = Total(Gone, Requests) - Gone[r] + Gone'[r]
    BY <1>2, <2>1, <2>3, TotalChanges
  <2>6. Total(Gone, Requests) \in Int /\ transfer[r] \in Int  BY <1>2, SumTypes
  <2> QED  BY <2>4, <2>5, <2>6
<1>6. Total(Spent, Lines)' = Total(Spent, Lines) + n
  <2>1. SettleLines(S)  BY <1>1 DEF Record, Settle
  <2> QED  BY <1>1, <1>2, <2>1, SpentStep
<1>7. Total(Rest, Workers)' = Total(Rest, Workers)
  <2>1. req'[w] = Idle /\ \A v \in Workers \ {w} : req'[v] = req[v]
    BY <1>2 DEF Record, Leave
  <2>2. RestOf(req[w]) = 0 /\ RestOf(req'[w]) = 0
    BY <1>1, <1>2, <2>1, NoRest DEF Idle
  <2>3. Total(Rest, Workers) \in Nat  BY SumTypes
  <2> QED  BY <2>1, <2>2, <2>3, RestStep
<1>8. sent' = sent /\ out' = out + Amount[r]
  BY <1>1 DEF Record, Burn
<1>9. PICK g, s, x, t : /\ g = Total(Gone, Requests) /\ s = Total(Spent, Lines)
                        /\ x = Total(Rest, Workers) /\ t = transfer[r]
  OBVIOUS
<1>10. g \in Int /\ s \in Int /\ x \in Int /\ t \in Int /\ sent \in Int /\ out \in Int
  BY <1>2, <1>9, SumTypes DEF TypeOK
<1>11. sent + g + s + x <= out  BY <1>9 DEF Accounted
<1>12. sent + (g + t) + (s + n) + x <= out + Amount[r]  BY <1>3, <1>4, <1>9, <1>10, <1>11
<1> QED  BY <1>5, <1>6, <1>7, <1>8, <1>9, <1>12 DEF Accounted

\* A payout takes its amount first and sends, or gets back, no more than is left.
LEMMA PayoutAccounted ==
    ASSUME TypeOK, Fits, TypeOK', Fits', Accounted, NEW w \in Workers,
           Payout(w) \/ SendPayout(w) \/ Reverse(w),
           "plan" \notin overtaken', "reverse" \notin overtaken'
    PROVE  Accounted'
<1> USE DEF stripe, request
<1>1. PICK c, d, S, n : c = req[w] /\ d = req'[w] /\ S = c.settles /\ n = Owed(S)  OBVIOUS
<1>2. /\ c \in Calls /\ S \in SUBSET Lines /\ req \in [Workers -> Calls] /\ FitsOK(c)
      /\ PayoutAmount \in Nat
  BY <1>1, WithdrawalAssumption DEF Fits, TypeOK, Calls
<1>3. n \in Nat /\ n <= PayoutAmount
  <2>1. c.at \in OnPayout  BY <1>1 DEF Payout, SendPayout, Reverse, OnPayout
  <2> QED  BY <1>1, <1>2, <2>1, OwedNat DEF FitsOK
<1>4. PayoutNet(w) = PayoutAmount - n  BY <1>1 DEF PayoutNet
<1>5. \A v \in Workers \ {w} : req'[v] = req[v]
  BY <1>2 DEF Payout, SendPayout, Reverse, Goto, Leave
<1>6. Total(Rest, Workers)' = Total(Rest, Workers) - RestOf(c) + RestOf(d)
  BY <1>1, <1>5, RestStep
<1>7. Gone' = Gone
  <2>1. UNCHANGED <<transfer, status>>  BY DEF Payout, SendPayout, Reverse
  <2> QED  BY <2>1, SameGone
<1>8. PICK g, s, x, a, b : /\ g = Total(Gone, Requests) /\ s = Total(Spent, Lines)
                           /\ x = Total(Rest, Workers) /\ a = RestOf(c) /\ b = RestOf(d)
  OBVIOUS
<1>9. /\ g \in Int /\ s \in Int /\ x \in Int /\ sent \in Int /\ out \in Int
      /\ a \in Nat /\ b \in Nat
  BY <1>1, <1>8, SumTypes, SumTypesLater DEF TypeOK
<1>10. sent + g + s + x <= out  BY <1>8 DEF Accounted
<1>11. ASSUME sent' + g + Total(Spent, Lines)' + (x - a + b) <= out'
       PROVE  Accounted'
  BY <1>6, <1>7, <1>8, <1>11 DEF Accounted
<1>12. Idle.at = "idle"  BY DEF Idle
<1>13. CASE Payout(w)
  <2>1. a = 0  BY <1>1, <1>8, <1>13, NoRest DEF Payout
  <2>2. UNCHANGED sent  BY <1>13 DEF Payout
  <2>3. CASE /\ out' = out + PayoutAmount /\ Settle(w)
             /\ \/ PayoutNet(w) > 0 /\ Goto(w, "sendPayout")
                \/ Leave(w)
    <3>1. SettleLines(S)  BY <1>1, <2>3 DEF Settle
    <3>2. Total(Spent, Lines)' = s + n  BY <1>1, <1>2, <1>8, <3>1, SpentStep
    <3>3. b <= PayoutAmount - n
      <4>1. CASE Goto(w, "sendPayout")
        <5>1. d = [c EXCEPT !.at = "sendPayout"]  BY <1>1, <1>2, <4>1 DEF Goto
        <5>2. d.at = "sendPayout" /\ d.settles = S  BY <1>1, <1>2, <5>1 DEF Calls
        <5>3. b = PayoutAmount - n  BY <1>1, <1>8, <5>2 DEF RestOf
        <5> QED  BY <1>2, <1>3, <5>3
      <4>2. CASE Leave(w)
        <5>1. d = Idle  BY <1>1, <1>2, <4>2 DEF Leave
        <5>2. b = 0  BY <1>8, <1>12, <5>1, NoRest
        <5> QED  BY <1>2, <1>3, <5>2
      <4> QED  BY <2>3, <4>1, <4>2
    <3>4. out' = out + PayoutAmount  BY <2>3
    <3>5. sent' + g + (s + n) + (x - a + b) <= out'
      BY <1>2, <1>3, <1>9, <1>10, <2>1, <2>2, <3>3, <3>4
    <3> QED  BY <1>11, <3>2, <3>5
  <2>4. CASE Leave(w) /\ UNCHANGED <<out, lineRows>>
    <3>1. d = Idle  BY <1>1, <1>2, <2>4 DEF Leave
    <3>2. d.at \notin {"sendPayout", "reverse"}  BY <1>12, <3>1
    <3> QED  BY <1>1, <1>5, <1>7, <2>2, <2>4, <3>2, StillWorker
  <2> QED  BY <1>13, <2>3, <2>4 DEF Payout
<1>14. CASE SendPayout(w)
  <2>1. a = PayoutAmount - n  BY <1>1, <1>8, <1>14 DEF SendPayout, RestOf
  <2>2. UNCHANGED <<out, lineRows>>  BY <1>14 DEF SendPayout, balances, ledger
  <2>3. Spent' = Spent  BY <2>2 DEF Spent
  <2>4. Total(Spent, Lines)' = s  BY <1>8, <2>3
  <2>5. CASE sent' = sent + PayoutNet(w) /\ Leave(w)
    <3>1. d = Idle  BY <1>1, <1>2, <2>5 DEF Leave
    <3>2. b = 0  BY <1>8, <1>12, <3>1, NoRest
    <3>3. sent' = sent + (PayoutAmount - n)  BY <1>4, <2>5
    <3>4. sent' + g + s + (x - a + b) <= out'
      BY <1>2, <1>3, <1>9, <1>10, <2>1, <2>2, <3>2, <3>3
    <3> QED  BY <1>11, <2>4, <3>4
  <2>6. CASE UNCHANGED sent /\ Goto(w, "reverse")
    <3>1. d = [c EXCEPT !.at = "reverse"]  BY <1>1, <1>2, <2>6 DEF Goto
    <3>2. d.at = "reverse" /\ d.settles = S  BY <1>1, <1>2, <3>1 DEF Calls
    <3>3. b <= a
      <4>1. CASE S = {}
        <5>1. n = 0  BY <1>1, <4>1, TotalNone DEF Owed
        <5>2. b \in {0, PayoutAmount}  BY <1>8, <3>2 DEF RestOf
        <5> QED  BY <1>2, <2>1, <5>1, <5>2
      <4>2. CASE S # {}
        <5>1. b = 0  BY <1>8, <3>2, <4>2 DEF RestOf
        <5> QED  BY <1>9, <5>1
      <4> QED  BY <4>1, <4>2
    <3>4. sent' = sent  BY <2>6
    <3>5. sent' + g + s + (x - a + b) <= out'
      BY <1>9, <1>10, <2>2, <3>3, <3>4
    <3> QED  BY <1>11, <2>4, <3>5
  <2>7. CASE /\ sent' = sent + PayoutNet(w)
             /\ req' = [req EXCEPT ![w].at = "reverse", ![w].known = TRUE]
    <3>1. d = [[c EXCEPT !.at = "reverse"] EXCEPT !.known = TRUE]  BY <1>1, <1>2, <2>7
    <3>2. d.at = "reverse" /\ d.known  BY <1>2, <3>1 DEF Calls
    <3>3. b = 0  BY <1>8, <3>2 DEF RestOf
    <3>4. sent' = sent + (PayoutAmount - n)  BY <1>4, <2>7
    <3>5. sent' + g + s + (x - a + b) <= out'
      BY <1>2, <1>3, <1>9, <1>10, <2>1, <2>2, <3>3, <3>4
    <3> QED  BY <1>11, <2>4, <3>5
  <2> QED  BY <1>14, <2>5, <2>6, <2>7 DEF SendPayout
<1>15. CASE Reverse(w)
  <2>1. c.at = "reverse" /\ ~c.known /\ S = {}  BY <1>1, <1>15 DEF Reverse, Note
  <2>2. a = PayoutAmount  BY <1>1, <1>8, <2>1 DEF RestOf
  <2>3. UNCHANGED <<sent, lineRows>> /\ out' = out - PayoutAmount
    BY <1>15 DEF Reverse, ledger
  <2>4. Spent' = Spent  BY <2>3 DEF Spent
  <2>5. Total(Spent, Lines)' = s  BY <1>8, <2>4
  <2>6. d = Idle  BY <1>1, <1>2, <1>15 DEF Reverse, Leave
  <2>7. b = 0  BY <1>8, <1>12, <2>6, NoRest
  <2>8. sent' + g + s + (x - a + b) <= out'
    BY <1>2, <1>9, <1>10, <2>2, <2>3, <2>7
  <2> QED  BY <1>11, <2>5, <2>8
<1> QED  BY <1>13, <1>14, <1>15

Covered == Never(Kinds \ {"hold"}) => Accounted

LEMMA CoveredNext ==
    ASSUME TypeOK, ActsFor, StripeSide, Fits, SentFits, BurntOnce, Burnt, Covered,
           TypeOK', Fits', [Next]_vars
    PROVE  Covered'
<1> USE DEF balances, ledger, request, stripe
<1>0. SUFFICES ASSUME Never(Kinds \ {"hold"})'  PROVE Accounted'  BY DEF Covered
<1>1. Accounted /\ Never({"decision"})
  <2>1. Never(Kinds \ {"hold"})  BY <1>0, NeverBefore
  <2> QED  BY <2>1 DEF Covered, Never, Kinds
<1>2. overtaken' \cap {"decision", "plan", "reset", "reverse"} = {}
  BY <1>0 DEF Never, Kinds
<1>3. /\ status \in [Requests -> Statuses]
      /\ transfer \in [Requests -> Int]
      /\ req \in [Workers -> Calls]
  BY DEF TypeOK, Calls
<1>4. \A r \in Requests : status[r] = "PROCESSING" => ~(row[r] > 0)
  BY <1>1 DEF BurntOnce, Burnt, TypeOK
<1>5. \A r \in Requests : status[r] = "COMPLETED" => debits[r] > 0  BY DEF Burnt
<1>6. Idle.at \notin {"sendPayout", "reverse"}  BY DEF Idle
<1>7. ASSUME UNCHANGED <<sent, out, lineRows, req>>, Gone' = Gone  PROVE Accounted'
  <2>1. Rest' = Rest  BY <1>7 DEF Rest
  <2>2. Total(Rest, Workers)' = Total(Rest, Workers) /\ Total(Rest, Workers) \in Nat
    BY <2>1, SumTypes
  <2>3. Total(Rest, Workers)' <= Total(Rest, Workers)  BY <2>2
  <2> QED  BY <1>1, <1>7, <2>3, Still
<1>8. CASE \/ \E r \in Requests : Request(r) \/ Release(r) \/ TransferEvent(r)
           \/ \E l \in Lines : Charge(l) \/ PayElsewhere(l)
           \/ FreezeCase \/ ThawCase
  <2>1. UNCHANGED <<sent, out, lineRows, req, transfer>>
    BY <1>8 DEF Request, Release, TransferEvent, Charge, PayElsewhere, FreezeCase, ThawCase,
       Unhold
  <2>2. \A r \in Requests : status'[r] = "COMPLETED" <=> status[r] = "COMPLETED"
    BY <1>3, <1>4, <1>8 DEF Request, Release, TransferEvent, Debited, Charge, PayElsewhere,
       FreezeCase, ThawCase
  <2> QED  BY <1>7, <2>1, <2>2, SameGone
<1>9. ASSUME NEW w \in Workers, Moves(w), UNCHANGED <<sent, out, lineRows>>, Gone' = Gone,
             req'[w].at \notin {"sendPayout", "reverse"}
      PROVE  Accounted'
  <2>1. \A v \in Workers \ {w} : req'[v] = req[v]
    BY <1>3, <1>9 DEF Moves, Goto, Leave
  <2> QED  BY <1>1, <1>9, <2>1, StillWorker
<1>10. CASE \E w \in Workers, r \in Requests : Starts(w, r)
  <2>1. PICK w \in Workers, r \in Requests : Starts(w, r)  BY <1>10
  <2>2. Moves(w) /\ UNCHANGED <<sent, out, lineRows, transfer, status>>
    BY <1>3, <2>1, StartMoves
  <2>3. req'[w].at \in {"claim", "ledger", "approve", "reject", "cancel"}
    <3>1. CASE StartComplete(w, r)
      <4>1. req'[w].at \in {"claim", "ledger"}  BY <1>3, <3>1, Zenon DEF StartComplete
      <4> QED  BY <4>1
    <3>2. CASE \E step \in {"approve", "reject", "cancel"} : StartDecision(w, r, step)
      BY <1>3, <3>2 DEF StartDecision, Idle
    <3> QED  BY <2>1, <3>1, <3>2 DEF Starts
  <2>4. Gone' = Gone  BY <2>2, SameGone
  <2>5. req'[w].at \notin {"sendPayout", "reverse"}  BY <2>3
  <2> QED  BY <1>9, <2>2, <2>4, <2>5
<1>11. CASE \E w \in Workers : Decide(w)
  <2>1. PICK w \in Workers : Decide(w)  BY <1>11
  <2>2. PICK r \in Requests : r = req[w].for
    BY <2>1 DEF Decide, Approve, Reject, Cancel, ActsFor, OnRequest
  <2>3. status[r] = "PENDING"
    BY <1>2, <2>1, <2>2 DEF Decide, Approve, Reject, Cancel, Note, Moved
  <2>4. /\ UNCHANGED <<sent, out, lineRows, transfer>>
        /\ Leave(w)
        /\ \E s \in {"PROCESSING", "REJECTED", "CANCELLED"} : status' = [status EXCEPT ![r] = s]
    BY <2>1, <2>2 DEF Decide, Approve, Reject, Cancel, Unhold
  <2>5. Gone' = Gone
    <3>1. \A q \in Requests : status'[q] = "COMPLETED" <=> status[q] = "COMPLETED"
      BY <1>3, <2>3, <2>4
    <3> QED  BY <2>4, <3>1, SameGone
  <2>6. Moves(w)  BY <2>4 DEF Moves
  <2>7. req'[w].at \notin {"sendPayout", "reverse"}  BY <1>3, <1>6, <2>4 DEF Leave
  <2> QED  BY <1>9, <2>4, <2>5, <2>6, <2>7
<1>12. CASE \E w \in Workers : Claim(w) \/ Hold(w) \/ Send(w) \/ Store(w)
  <2>1. PICK w \in Workers : Claim(w) \/ Hold(w) \/ Send(w) \/ Store(w)  BY <1>12
  <2>2. Moves(w)  BY <1>3, <2>1, WorkerMoves
  <2>3. UNCHANGED <<sent, out, lineRows, status>>
    BY <2>1 DEF Claim, Hold, Send, Store, Raise
  <2>4. req'[w].at \in {"hold", "send", "store", "ledger", "idle"}
    BY <1>3, <2>1 DEF Claim, Hold, Send, Store, Goto, Leave, Idle, Calls
  <2>5. Gone' = Gone
    <3>1. CASE Claim(w) \/ Hold(w) \/ Store(w)
      <4>1. UNCHANGED transfer  BY <3>1 DEF Claim, Hold, Store
      <4> QED  BY <2>3, <4>1, SameGone
    <3>2. CASE Send(w)
      <4>1. PICK r \in Requests, n \in Int :
             /\ r = req[w].for /\ n = Net(w) /\ n > 0
             /\ Method[r] = "STRIPE"
             /\ UNCHANGED transfer
                \/ (transfer[r] \in {0, n} /\ transfer' = [transfer EXCEPT ![r] = n])
        BY <3>2, SendStep
      <4>2. CASE UNCHANGED transfer  BY <2>3, <4>2, SameGone
      <4>3. CASE transfer[r] = n /\ transfer' = [transfer EXCEPT ![r] = n]
        <5>1. UNCHANGED transfer  BY <1>3, <4>3
        <5> QED  BY <2>3, <5>1, SameGone
      <4>4. CASE transfer[r] = 0 /\ transfer' = [transfer EXCEPT ![r] = n]
        <5>1. transfer'[r] = n /\ transfer'[r] > 0 /\ transfer' # transfer
          BY <1>3, <4>1, <4>4
        <5>2. ~(debits[r] > 0)
          BY <1>2, <3>2, <4>1, <4>4, <5>1 DEF Send, Note, ClaimBack
        <5>3. status[r] # "COMPLETED"  BY <1>5, <5>2
        <5> QED  BY <1>3, <2>3, <4>4, <5>3 DEF Gone
      <4> QED  BY <4>1, <4>2, <4>3, <4>4
    <3> QED  BY <2>1, <3>1, <3>2
  <2>6. req'[w].at \notin {"sendPayout", "reverse"}  BY <2>4
  <2> QED  BY <1>9, <2>2, <2>3, <2>5, <2>6
<1>13. CASE \E w \in Workers : Finish(w)
  <2>1. PICK w \in Workers : Finish(w)  BY <1>13
  <2>2. PICK r \in Requests : r = req[w].for
    BY <2>1 DEF Finish, Record, Close, GiveUp, ActsFor, OnRequest
  <2>3. CASE Record(w)  BY <1>1, <1>2, <2>3, RecordAccounted
  <2>4. ~Close(w)  BY <1>4, <2>2 DEF Close, Completable, Debited
  <2>5. CASE GiveUp(w)
    <3>1. UNCHANGED <<sent, out, lineRows, transfer, status>> /\ Leave(w)
      BY <2>5 DEF GiveUp
    <3>2. req'[w].at \notin {"sendPayout", "reverse"}  BY <1>3, <1>6, <3>1 DEF Leave
    <3>3. Moves(w)  BY <3>1 DEF Moves
    <3>4. Gone' = Gone  BY <3>1, SameGone
    <3> QED  BY <1>9, <3>1, <3>2, <3>3, <3>4
  <2> QED  BY <2>1, <2>3, <2>4, <2>5 DEF Finish
<1>14. CASE \E w \in Workers :
             StartPayout(w) \/ Payout(w) \/ SendPayout(w) \/ Reverse(w) \/ Crash(w)
  <2>1. PICK w \in Workers :
             StartPayout(w) \/ Payout(w) \/ SendPayout(w) \/ Reverse(w) \/ Crash(w)
    BY <1>14
  <2>2. CASE Payout(w) \/ SendPayout(w) \/ Reverse(w)
    BY <1>1, <1>2, <2>2, PayoutAccounted
  <2>3. CASE StartPayout(w) \/ Crash(w)
    <3>1. UNCHANGED <<sent, out, lineRows, transfer, status>>
      BY <2>3 DEF StartPayout, Crash
    <3>2. Moves(w)  BY <1>3, <2>3, WorkerMoves
    <3>3. req'[w].at \in {"payout", "idle"}
      <4>1. CASE StartPayout(w)  BY <1>3, <4>1 DEF StartPayout
      <4>2. CASE Crash(w)  BY <1>3, <4>2 DEF Crash, Leave, Idle
      <4> QED  BY <2>3, <4>1, <4>2
    <3>4. req'[w].at \notin {"sendPayout", "reverse"}  BY <3>3
    <3>5. Gone' = Gone  BY <3>1, SameGone
    <3> QED  BY <1>9, <3>1, <3>2, <3>4, <3>5
  <2> QED  BY <2>1, <2>2, <2>3
<1>15. CASE UNCHANGED vars
  <2>1. UNCHANGED <<sent, out, lineRows, req, transfer, status>>  BY <1>15 DEF vars
  <2> QED  BY <1>7, <2>1, SameGone
<1> QED  BY <1>8, <1>10, <1>11, <1>12, <1>13, <1>14, <1>15, Kind, Zenon

LEMMA InitCovered == Init => Fits /\ SentFits /\ BurntOnce /\ Burnt /\ Covered
<1> SUFFICES ASSUME Init PROVE Fits /\ SentFits /\ BurntOnce /\ Burnt /\ Covered
    OBVIOUS
<1>1. /\ FitsOK(Idle)
      /\ RestOf(Idle) = 0
  BY DEF FitsOK, RestOf, Idle, OnRequest, OnPayout
<1>2. req = [w \in Workers |-> Idle]  BY DEF Init
<1>3. Fits  BY <1>1, <1>2 DEF Fits
<1>4. SentFits  BY WithdrawalAssumption DEF Init, SentFits
<1>5. BurntOnce /\ Burnt  BY DEF Init, BurntOnce, Burnt
<1>6. TypeOK  BY InitType
<1>7. /\ \A r \in Requests : Gone[r] = 0
      /\ \A w \in Workers : Rest[w] = 0
  BY <1>1, <1>2 DEF Init, Gone, Rest
<1>8. \A l \in Lines : Spent[l] = 0
  <2>1. \A l \in Lines : lineRows[l] = 0 /\ Debt[l] \in Nat
    BY WithdrawalAssumption DEF Init
  <2>2. \A b \in Nat : 0 * b = 0  OBVIOUS
  <2> QED  BY <2>1, <2>2 DEF Spent
<1>9. IsFiniteSet(Requests) /\ IsFiniteSet(Lines) /\ IsFiniteSet(Workers)
  BY WithdrawalAssumption
<1>10. Gone \in [Requests -> Int] /\ Spent \in [Lines -> Int] /\ Rest \in [Workers -> Int]
  BY <1>3, <1>6, SumTypes
<1>11. Total(Gone, Requests) = 0 /\ Total(Spent, Lines) = 0 /\ Total(Rest, Workers) = 0
  BY <1>7, <1>8, <1>9, <1>10, TotalZero
<1>12. Accounted  BY <1>11 DEF Accounted, Init
<1> QED  BY <1>3, <1>4, <1>5, <1>12 DEF Covered

\* What Stripe made for requests was sent for completed ones, or is held for one
\* that is being completed.
LEMMA CoveredIsTaken ==
    ASSUME TypeOK, Fits, SentFits, Committed, Covered
    PROVE  SentIsTaken
<1>0. SUFFICES ASSUME Never(Kinds \ {"hold"})
               PROVE  sent + Total(transfer, Requests) + Total(Spent, Lines)
                          <= out + Total(Amount, Active)
  BY DEF SentIsTaken, Spent
<1>1. Accounted /\ AllPast
  <2>1. Never({"decision", "reset"})  BY <1>0 DEF Never, Kinds
  <2> QED  BY <1>0, <2>1 DEF Covered, Committed
<1> DEFINE bound == [r \in Requests |-> Gone[r] + (IF r \in Active THEN Amount[r] ELSE 0)]
<1>2. /\ Gone \in [Requests -> Int] /\ transfer \in [Requests -> Int]
      /\ Amount \in [Requests -> Int] /\ bound \in [Requests -> Int]
      /\ IsFiniteSet(Requests) /\ Active \in SUBSET Requests
      /\ Requests \in SUBSET Requests /\ Requests \cap Active = Active
  BY SumTypes, WithdrawalAssumption DEF TypeOK, Active
<1>3. Adds(Requests, Gone, bound, Amount, Active)  BY DEF Adds
<1>4. \A r \in Requests : transfer[r] <= bound[r]
  <2>1. SUFFICES ASSUME NEW r \in Requests  PROVE transfer[r] <= bound[r]  OBVIOUS
  <2>2. transfer[r] \in Int /\ Amount[r] \in Nat  BY <1>2, WithdrawalAssumption
  <2>3. CASE status[r] = "COMPLETED"
    <3>1. Gone[r] = transfer[r] /\ r \notin Active  BY <2>3 DEF Gone, Active
    <3> QED  BY <2>2, <3>1
  <2>4. CASE status[r] = "PROCESSING"
    <3>1. Gone[r] = 0 /\ r \in Active  BY <2>4 DEF Gone, Active
    <3>2. bound[r] = Amount[r]  BY <2>2, <3>1
    <3> QED  BY <2>2, <3>2 DEF SentFits
  <2>5. CASE status[r] \notin {"COMPLETED", "PROCESSING"}
    <3>1. transfer[r] = 0  BY <1>1, <2>5 DEF AllPast, Past
    <3>2. Gone[r] = 0  BY <2>5 DEF Gone
    <3> QED  BY <2>2, <3>1, <3>2
  <2> QED  BY <2>3, <2>4, <2>5
<1> HIDE DEF bound
<1>5. \A T \in SUBSET Requests : Total(transfer, T) <= Total(bound, T)
  BY <1>2, <1>4, TotalGrows
<1>6. \A T \in SUBSET Requests : Total(bound, T) = Total(Gone, T) + Total(Amount, T \cap Active)
  BY <1>2, <1>3, TotalAdds
<1>7. PICK t, g, a, s, x : /\ t = Total(transfer, Requests) /\ g = Total(Gone, Requests)
                           /\ a = Total(Amount, Active) /\ s = Total(Spent, Lines)
                           /\ x = Total(Rest, Workers)
  OBVIOUS
<1>8. /\ g \in Int /\ s \in Int /\ x \in Nat /\ sent \in Int /\ out \in Int
  BY <1>7, SumTypes DEF TypeOK
<1>9. t \in Int /\ a \in Int  BY <1>2, <1>7, TotalInt
<1>10. t <= g + a  BY <1>2, <1>5, <1>6, <1>7
<1>11. sent + g + s + x <= out  BY <1>1, <1>7 DEF Accounted
<1>12. sent + t + s <= out + a  BY <1>8, <1>9, <1>10, <1>11
<1> QED  BY <1>7, <1>12

\* All that Stripe sent for requests and payouts, and all debts that were paid,
\* was taken from the account or is still held for it, for any number of requests,
\* debts and workers, unless one of the named kinds of step overtook another.
THEOREM WithdrawalSentIsTaken == Spec => []SentIsTaken
<1> DEFINE Before == TypeOK /\ ActsFor /\ StripeSide /\ RowsFollow
           Books == Fits /\ SentFits /\ BurntOnce /\ Burnt /\ Committed /\ Covered
<1>1. Init => Books
  <2>1. Init => Committed  BY DEF Init, Committed, AllPast, Relies, Idle
  <2> QED  BY <2>1, InitCovered
<1>2. Before /\ Before' /\ Books /\ [Next]_vars => Books'
  BY FitsNext, SentFitsNext, BurntOnceNext, BurntNext, CommittedNext, CoveredNext
<1>3. Before /\ Books => SentIsTaken  BY CoveredIsTaken
<1>4. Spec => []Before  BY StripeKnown
<1> QED  BY <1>1, <1>2, <1>3, <1>4, PTL DEF Spec

=============================================================================
