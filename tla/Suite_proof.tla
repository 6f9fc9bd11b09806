------------------------------ MODULE Suite_proof ------------------------------
(***************************************************************************)
(* Proofs about a client process (Suite.tla) and the rows it prints        *)
(* (Report.tla).                                                           *)
(*                                                                         *)
(* The sizes of a sweep, the sizes a mode can run and the sums over        *)
(* samples come from recursive functions.  That these exist and what their *)
(* values are is proved by looking at the least number that is an          *)
(* exception.                                                              *)
(***************************************************************************)
EXTENDS SuiteInv, SequenceTheorems, FiniteSetTheorems, WellFoundedInduction, TLAPS

(***************************************************************************)
(* Percentiles.                                                            *)
(***************************************************************************)

\* k is the nearest rank of the share p among n samples: the first k of them
\* make up that share, the first k - 1 do not.
IsNearestRank(k, n, p) ==
  /\ k \in 1 .. n
  /\ k * p.den >= n * p.num
  /\ (k - 1) * p.den < n * p.num

(* The percentiles of report.rs:62 are nearest-rank percentiles for every  *)
(* number of samples: rounding up needs no correction at either end, so    *)
(* the clamp never changes a rank and never hides a wrong one.             *)
THEOREM PercentilesAreNearestRank ==
  ASSUME NEW n \in Nat \ {0}, NEW p \in {Median, P99, P999}
  PROVE  /\ IsNearestRank(Rank(n, p), n, p)
         /\ Rank(n, p) = (n * p.num + p.den - 1) \div p.den
<1> DEFINE k == (n * p.num + p.den - 1) \div p.den
<1>1. k \in 1 .. n /\ k * p.den >= n * p.num /\ (k - 1) * p.den < n * p.num
  <2>1. CASE p = Median
    BY <2>1 DEF Median, Fraction
  <2>2. CASE p = P99
    BY <2>2 DEF P99, Fraction
  <2>3. CASE p = P999
    BY <2>3 DEF P999, Fraction
  <2> QED
    BY <2>1, <2>2, <2>3
<1>2. Rank(n, p) = k
  BY <1>1 DEF Rank
<1> QED
  BY <1>1, <1>2 DEF IsNearestRank

(***************************************************************************)
(* Recursion on the natural numbers.                                       *)
(***************************************************************************)

(* Among natural numbers there is a least one.                             *)
LEMMA Least ==
  ASSUME NEW S \in SUBSET Nat, S # {}
  PROVE  \E n \in S : \A m \in S : n <= m
<1> DEFINE Less == {p \in Nat \X Nat : p[1] < p[2]}
<1>1. Less = OpToRel(<, Nat)
  BY DEF OpToRel
<1>2. IsWellFoundedOn(Less, Nat)
  BY <1>1, NatLessThanWellFounded
<1> HIDE DEF Less
<1>3. PICK n \in S : \A m \in S : <<m, n>> \notin Less
  BY <1>2, WFMin
<1>4. ASSUME NEW m \in S PROVE n <= m
  <2>1. n \in Nat /\ m \in Nat /\ <<m, n>> \notin Less
    BY <1>3
  <2> QED
    BY <2>1 DEF Less
<1> QED
  BY <1>4

\* f(k) is what k steps make of e, g saying what each does.
Iteration(f, e, g) == f[0] = e /\ \A k \in Nat : f[k + 1] = g[<<k, f[k]>>]

(* Steps can be made any number of times.                                  *)
LEMMA Iterates ==
  ASSUME NEW X, NEW e \in X, NEW g \in [Nat \X X -> X]
  PROVE  \E f \in [Nat -> X] : Iteration(f, e, g)
<1> DEFINE Good(n, h) == /\ h \in [0 .. n -> X] /\ h[0] = e
                         /\ \A k \in 0 .. n - 1 : h[k + 1] = g[<<k, h[k]>>]
<1>1. \A n \in Nat : \E h : Good(n, h)
  <2> DEFINE Exceptions == {n \in Nat : ~ \E h : Good(n, h)}
  <2> SUFFICES ASSUME Exceptions # {} PROVE FALSE
    OBVIOUS
  <2>1. PICK n \in Exceptions : \A m \in Exceptions : n <= m
    <3> HIDE DEF Exceptions
    <3>1. Exceptions \in SUBSET Nat
      BY DEF Exceptions
    <3> QED
      BY <3>1, Least
  <2>2. CASE n = 0
    <3>1. Good(n, [k \in 0 .. n |-> e])
      BY <2>2
    <3> QED
      BY <2>1, <3>1
  <2>3. CASE n # 0
    <3>1. n \in Nat /\ n - 1 \in Nat /\ n - 1 \notin Exceptions
      <4>1. n \in Nat
        BY <2>1
      <4>2. n - 1 \in Nat /\ ~ n <= n - 1
        BY <2>3, <4>1
      <4> HIDE DEF Exceptions
      <4> QED
        BY <2>1, <4>1, <4>2
    <3>2. PICK h : Good(n - 1, h)
      BY <3>1
    <3> DEFINE j == [k \in 0 .. n |-> IF k = n THEN g[<<n - 1, h[n - 1]>>] ELSE h[k]]
    <3>3. h[n - 1] \in X /\ g[<<n - 1, h[n - 1]>>] \in X
      BY <3>1, <3>2
    <3>4. j \in [0 .. n -> X] /\ j[0] = e
      BY <2>3, <3>1, <3>2, <3>3
    <3>5. ASSUME NEW k \in 0 .. n - 1 PROVE j[k + 1] = g[<<k, j[k]>>]
      <4>1. CASE k = n - 1
        <5>1. k + 1 = n /\ k # n /\ n \in 0 .. n /\ k \in 0 .. n
          BY <3>1, <4>1
        <5>2. j[n] = g[<<n - 1, h[n - 1]>>] /\ j[k] = h[k]
          BY <5>1
        <5> QED
          BY <4>1, <5>1, <5>2
      <4>2. CASE k # n - 1
        BY <3>1, <3>2, <4>2, k \in 0 .. n - 2
      <4> QED
        BY <4>1, <4>2
    <3>6. Good(n, j)
      BY <3>4, <3>5
    <3> QED
      BY <2>1, <3>6
  <2> QED
    BY <2>2, <2>3
<1>2. ASSUME NEW n \in Nat, NEW m \in Nat, n <= m, NEW h, NEW j, Good(n, h), Good(m, j)
      PROVE  \A k \in 0 .. n : h[k] = j[k]
  <2> DEFINE Exceptions == {k \in 0 .. n : h[k] # j[k]}
  <2> SUFFICES ASSUME Exceptions # {} PROVE FALSE
    OBVIOUS
  <2>1. PICK k \in Exceptions : \A i \in Exceptions : k <= i
    <3>1. Exceptions \in SUBSET Nat
      OBVIOUS
    <3> HIDE DEF Exceptions
    <3> QED
      BY <3>1, Least
  <2>2. k # 0 /\ k \in 0 .. n
    BY <1>2, <2>1
  <2>3. k - 1 \in 0 .. n - 1 /\ k - 1 \in 0 .. m - 1 /\ h[k - 1] = j[k - 1] /\ (k - 1) + 1 = k
    BY <1>2, <2>1, <2>2
  <2> QED
    BY <1>2, <2>1, <2>3
<1> DEFINE Start(n) == CHOOSE h : Good(n, h)
           f == [n \in Nat |-> Start(n)[n]]
<1>3. \A n \in Nat : Good(n, Start(n))
  BY <1>1
<1> HIDE DEF Start
<1>4. f \in [Nat -> X] /\ f[0] = e
  BY <1>3
<1>5. ASSUME NEW k \in Nat PROVE f[k + 1] = g[<<k, f[k]>>]
  <2>1. Good(k, Start(k)) /\ Good(k + 1, Start(k + 1)) /\ k + 1 \in Nat /\ k <= k + 1
    BY <1>3
  <2>2. Start(k)[k] = Start(k + 1)[k]
    BY <2>1, <1>2, SMTT(60)
  <2>3. Start(k + 1)[k + 1] = g[<<k, Start(k + 1)[k]>>]
    BY <2>1, k \in 0 .. (k + 1) - 1
  <2> QED
    BY <2>1, <2>2, <2>3
<1> QED
  BY <1>4, <1>5 DEF Iteration

(* The powers of two are what doubling makes of 1, and grow.               *)
LEMMA PowerIs ==
  /\ PowerOfTwo[0] = 1
  /\ \A k \in Nat : PowerOfTwo[k] \in Nat \ {0} /\ PowerOfTwo[k + 1] = 2 * PowerOfTwo[k]
<1> DEFINE double == [p \in Nat \X Nat |-> 2 * p[2]]
           Def(f) == f = [k \in Nat |-> IF k = 0 THEN 1 ELSE 2 * f[k - 1]]
<1>1. double \in [Nat \X Nat -> Nat] /\ \A k, v \in Nat : double[<<k, v>>] = 2 * v
  OBVIOUS
<1> HIDE DEF double
<1>2. PICK f \in [Nat -> Nat] : Iteration(f, 1, double)
  BY <1>1, Iterates, 1 \in Nat
<1>3. Def(f)
  <2>1. ASSUME NEW k \in Nat PROVE f[k] = IF k = 0 THEN 1 ELSE 2 * f[k - 1]
    <3>1. CASE k = 0
      BY <1>2, <3>1 DEF Iteration
    <3>2. CASE k # 0
      <4>1. k - 1 \in Nat /\ (k - 1) + 1 = k /\ f[k - 1] \in Nat
        BY <1>2, <3>2
      <4> QED
        BY <1>1, <1>2, <3>2, <4>1 DEF Iteration
    <3> QED
      BY <3>1, <3>2
  <2> QED
    BY <1>2, <2>1
<1>4. Def(PowerOfTwo)
  BY <1>3 DEF PowerOfTwo
<1> HIDE DEF Def
<1>5. /\ PowerOfTwo[0] = 1
      /\ \A k \in Nat : PowerOfTwo[k + 1] = 2 * PowerOfTwo[k]
  BY <1>4 DEF Def
<1>6. \A k \in Nat : PowerOfTwo[k] \in Nat \ {0}
  <2> DEFINE Exceptions == {k \in Nat : PowerOfTwo[k] \notin Nat \ {0}}
  <2> SUFFICES ASSUME Exceptions # {} PROVE FALSE
    OBVIOUS
  <2>1. PICK k \in Exceptions : \A i \in Exceptions : k <= i
    <3>1. Exceptions \in SUBSET Nat
      OBVIOUS
    <3> HIDE DEF Exceptions
    <3> QED
      BY <3>1, Least
  <2>2. k # 0
    BY <1>5, <2>1
  <2>3. k - 1 \in Nat /\ (k - 1) + 1 = k /\ PowerOfTwo[k - 1] \in Nat \ {0}
    BY <2>1, <2>2
  <2> QED
    BY <1>5, <2>1, <2>3
<1> QED
  BY <1>5, <1>6

(* A greater exponent makes a greater power.                               *)
LEMMA PowersGrow == \A i, j \in Nat : i < j => PowerOfTwo[i] < PowerOfTwo[j]
<1> SUFFICES ASSUME NEW i \in Nat PROVE \A j \in Nat : i < j => PowerOfTwo[i] < PowerOfTwo[j]
  OBVIOUS
<1> DEFINE Exceptions == {j \in Nat : i < j /\ PowerOfTwo[i] >= PowerOfTwo[j]}
<1>1. Exceptions \in SUBSET Nat
  OBVIOUS
<1>2. CASE Exceptions # {}
  <2>1. PICK j \in Exceptions : \A k \in Exceptions : j <= k
    <3> HIDE DEF Exceptions
    <3> QED
      BY <1>1, <1>2, Least
  <2>2. j \in Nat /\ i < j /\ PowerOfTwo[i] >= PowerOfTwo[j]
    BY <2>1
  <2> DEFINE k == j - 1
  <2>3. k \in Nat /\ k + 1 = j /\ ~ j <= k
    BY <2>2
  <2>4. k \notin Exceptions
    <3> HIDE DEF Exceptions, k
    <3> QED
      BY <2>1, <2>3
  <2>5. i <= k /\ (i < k => PowerOfTwo[i] < PowerOfTwo[k])
    <3>1. i <= k
      BY <2>2, <2>3
    <3>2. PowerOfTwo[i] \in Nat /\ PowerOfTwo[k] \in Nat
      BY <2>3, PowerIs
    <3> QED
      BY <2>3, <2>4, <3>1, <3>2
  <2>6. PowerOfTwo[j] = 2 * PowerOfTwo[k] /\ PowerOfTwo[k] \in Nat \ {0} /\ PowerOfTwo[i] \in Nat
    BY <2>3, PowerIs
  <2>7. PowerOfTwo[i] < PowerOfTwo[j]
    BY <2>3, <2>5, <2>6
  <2> QED
    BY <2>2, <2>6, <2>7
<1>3. CASE Exceptions = {}
  <2>1. ASSUME NEW j \in Nat, i < j PROVE PowerOfTwo[i] < PowerOfTwo[j]
    <3>1. PowerOfTwo[i] \in Nat /\ PowerOfTwo[j] \in Nat
      BY PowerIs
    <3>2. j \notin Exceptions
      BY <1>3
    <3> QED
      BY <2>1, <3>1, <3>2
  <2> QED
    BY <2>1
<1> QED
  BY <1>2, <1>3

(* Words are below the power of their width.                               *)
LEMMA WordIs ==
  /\ WordBits \in Nat \ {0} /\ PowerOfTwo[WordBits] \in Nat \ {0}
  /\ \A n : n \in Word <=> n \in Nat /\ n < PowerOfTwo[WordBits]
  /\ \A k \in Nat : PowerOfTwo[k] \in Word <=> k < WordBits
<1>1. WordBits \in Nat \ {0} /\ PowerOfTwo[WordBits] \in Nat \ {0}
  BY SuiteAssumption, PowerIs
<1>2. \A n : n \in Word <=> n \in Nat /\ n < PowerOfTwo[WordBits]
  BY <1>1 DEF Word
<1>3. ASSUME NEW k \in Nat PROVE PowerOfTwo[k] \in Word <=> k < WordBits
  <2>1. PowerOfTwo[k] \in Nat
    BY PowerIs
  <2>2. CASE k < WordBits
    BY <1>1, <1>2, <2>1, <2>2, PowersGrow
  <2>3. CASE k = WordBits
    BY <1>1, <1>2, <2>1, <2>3
  <2>4. CASE k > WordBits
    <3>1. PowerOfTwo[WordBits] < PowerOfTwo[k]
      BY <1>1, <2>4, PowersGrow
    <3> QED
      BY <1>1, <1>2, <2>1, <2>4, <3>1
  <2> QED
    BY <1>1, <2>2, <2>3, <2>4
<1> QED
  BY <1>1, <1>2, <1>3

(* The next power of two is the least that is not below n.                 *)
LEMMA NextPowerIs ==
  ASSUME NEW n \in Word
  PROVE  \E k \in 0 .. WordBits :
           /\ NextPowerOfTwo(n) = PowerOfTwo[k] /\ n <= PowerOfTwo[k]
           /\ \A j \in Nat : j < k => PowerOfTwo[j] < n
<1> DEFINE S == {k \in 0 .. WordBits : n <= PowerOfTwo[k]}
<1>1. n \in Nat /\ WordBits \in Nat /\ n <= PowerOfTwo[WordBits] /\ PowerOfTwo[WordBits] \in Nat
  BY WordIs
<1>2. PICK k \in S : \A j \in S : k <= j
  <2>1. S \in SUBSET Nat /\ WordBits \in S
    BY <1>1
  <2> HIDE DEF S
  <2> QED
    BY <2>1, Least
<1>3. k \in 0 .. WordBits /\ k \in Nat /\ n <= PowerOfTwo[k]
  BY <1>1, <1>2
<1>4. ASSUME NEW j \in Nat, j < k PROVE PowerOfTwo[j] < n
  <2>1. j \in 0 .. WordBits /\ PowerOfTwo[j] \in Nat
    BY <1>1, <1>3, <1>4, PowerIs
  <2>2. j \notin S
    <3>1. ~ k <= j
      BY <1>3, <1>4
    <3> HIDE DEF S
    <3> QED
      BY <1>2, <3>1
  <2> QED
    BY <1>1, <2>1, <2>2
<1> DEFINE T == {PowerOfTwo[i] : i \in 0 .. WordBits} \ 0 .. n - 1
<1>5. PowerOfTwo[k] \in T /\ PowerOfTwo[k] \in Nat
  BY <1>1, <1>3, PowerIs
<1>6. ASSUME NEW x \in T PROVE PowerOfTwo[k] <= x /\ x \in Nat
  <2>1. PICK i \in 0 .. WordBits : x = PowerOfTwo[i]
    OBVIOUS
  <2>2. i \in Nat /\ PowerOfTwo[i] \in Nat /\ PowerOfTwo[i] \notin 0 .. n - 1
    BY <1>1, <2>1, PowerIs
  <2>3. n <= PowerOfTwo[i]
    BY <1>1, <2>2
  <2>4. k <= i
    BY <1>2, <2>3
  <2> QED
    BY <1>3, <1>5, <2>1, <2>2, <2>4, PowersGrow
<1>7. Min(T) = PowerOfTwo[k]
  <2> HIDE DEF T
  <2>1. Min(T) \in T /\ \A x \in T : Min(T) <= x
    BY <1>5, <1>6 DEF Min
  <2> QED
    BY <1>5, <1>6, <2>1
<1> QED
  BY <1>3, <1>4, <1>7 DEF NextPowerOfTwo

(***************************************************************************)
(* Types.                                                                  *)
(***************************************************************************)

\* k[i] are the sizes a mode can run among the first i of the plan.
Keeps(k, mode) ==
  /\ k[0] = <<>>
  /\ \A i \in 1 .. Len(sizes) :
       k[i] = IF sizes[i] >= MinMsgSize(mode) THEN Append(k[i - 1], sizes[i]) ELSE k[i - 1]

\* The sizes of the plan that a mode can run.
Fitting(mode) == {s \in Range(sizes) : s >= MinMsgSize(mode)}

(* The recursive function of SizesFor exists, and is what it says.         *)
LEMMA KeptIs ==
  ASSUME NEW mode, sizes \in Seq(Word)
  PROVE  \E k \in [0 .. Len(sizes) -> Seq(Fitting(mode))] :
           Keeps(k, mode) /\ SizesFor(mode) = k[Len(sizes)]
<1> DEFINE n == Len(sizes)
           S == Fitting(mode)
           Def(h) == h = [i \in 0 .. n |->
                            IF i = 0 THEN <<>>
                            ELSE IF sizes[i] >= MinMsgSize(mode) THEN Append(h[i - 1], sizes[i])
                            ELSE h[i - 1]]
           step == [p \in Nat \X Seq(S) |->
                      IF p[1] + 1 \in 1 .. n /\ sizes[p[1] + 1] >= MinMsgSize(mode)
                        THEN Append(p[2], sizes[p[1] + 1]) ELSE p[2]]
           Holds(i) == i + 1 \in 1 .. n /\ sizes[i + 1] >= MinMsgSize(mode)
<1>1. n \in Nat /\ DOMAIN sizes = 1 .. n /\ \A i \in 1 .. n : sizes[i] \in Range(sizes)
  BY LenProperties DEF Range
<1>2. /\ step \in [Nat \X Seq(S) -> Seq(S)]
      /\ \A i \in Nat, t \in Seq(S) :
           step[<<i, t>>] = IF Holds(i) THEN Append(t, sizes[i + 1]) ELSE t
  <2>1. ASSUME NEW i \in Nat, NEW t \in Seq(S), Holds(i) PROVE Append(t, sizes[i + 1]) \in Seq(S)
    <3>1. sizes[i + 1] \in S
      BY <1>1, <2>1 DEF Fitting
    <3> HIDE DEF S
    <3> QED
      BY <3>1, AppendProperties
  <2>2. \A p \in Nat \X Seq(S) : p[1] \in Nat /\ p[2] \in Seq(S)
    OBVIOUS
  <2> HIDE DEF S
  <2> QED
    BY <2>1, <2>2
<1>3. <<>> \in Seq(S)
  BY EmptySeq
<1> HIDE DEF step, S
<1>4. PICK f \in [Nat -> Seq(S)] : Iteration(f, <<>>, step)
  BY <1>2, <1>3, Iterates
<1>5. Def([i \in 0 .. n |-> f[i]])
  <2> DEFINE h == [i \in 0 .. n |-> f[i]]
  <2>1. ASSUME NEW i \in 0 .. n, i # 0
        PROVE  h[i] = IF sizes[i] >= MinMsgSize(mode) THEN Append(h[i - 1], sizes[i]) ELSE h[i - 1]
    <3>1. i - 1 \in Nat /\ i - 1 \in 0 .. n /\ (i - 1) + 1 = i /\ i \in 1 .. n /\ i \in Nat
      BY <1>1, <2>1
    <3>2. h[i] = f[i] /\ h[i - 1] = f[i - 1] /\ f[i - 1] \in Seq(S)
      BY <3>1
    <3>3. f[i] = step[<<i - 1, f[i - 1]>>]
      BY <1>4, <3>1 DEF Iteration
    <3>4. f[i] = IF Holds(i - 1) THEN Append(f[i - 1], sizes[(i - 1) + 1]) ELSE f[i - 1]
      BY <1>2, <3>1, <3>2, <3>3
    <3> QED
      BY <3>1, <3>2, <3>4
  <2>2. h[0] = <<>>
    BY <1>1, <1>4 DEF Iteration
  <2> QED
    BY <2>1, <2>2
<1> DEFINE kept == CHOOSE h : Def(h)
<1>6. Def(kept)
  BY <1>5
<1>7. SizesFor(mode) = kept[n]
  BY DEF SizesFor
<1> HIDE DEF kept
<1>8. \A i \in 0 .. n : kept[i] \in Seq(S)
  <2> DEFINE Exceptions == {i \in 0 .. n : kept[i] \notin Seq(S)}
  <2> SUFFICES ASSUME Exceptions # {} PROVE FALSE
    OBVIOUS
  <2>1. PICK i \in Exceptions : \A j \in Exceptions : i <= j
    <3>1. Exceptions \in SUBSET Nat
      BY <1>1
    <3> HIDE DEF Exceptions
    <3> QED
      BY <3>1, Least
  <2>2. i # 0 /\ i \in 0 .. n
    BY <1>3, <1>6, <2>1
  <2>3. i - 1 \in 0 .. n /\ kept[i - 1] \in Seq(S) /\ i \in 1 .. n
    <3>1. i - 1 \in 0 .. n /\ i \in 1 .. n /\ ~ i <= i - 1
      BY <1>1, <2>2
    <3>2. i - 1 \notin Exceptions
      <4> HIDE DEF Exceptions
      <4> QED
        BY <2>1, <3>1
    <3> QED
      BY <3>1, <3>2
  <2>4. sizes[i] >= MinMsgSize(mode) => Append(kept[i - 1], sizes[i]) \in Seq(S)
    <3> SUFFICES ASSUME sizes[i] >= MinMsgSize(mode) PROVE Append(kept[i - 1], sizes[i]) \in Seq(S)
      OBVIOUS
    <3>1. sizes[i] \in S
      BY <1>1, <2>3 DEF S, Fitting
    <3> QED
      BY <2>3, <3>1, AppendProperties
  <2>5. kept[i] \in Seq(S)
    BY <1>6, <2>2, <2>3, <2>4
  <2> QED
    BY <2>1, <2>5
<1>9. kept \in [0 .. n -> Seq(S)]
  BY <1>6, <1>8
<1>10. Keeps(kept, mode)
  <2>1. ASSUME NEW i \in 1 .. n
        PROVE  kept[i] = IF sizes[i] >= MinMsgSize(mode) THEN Append(kept[i - 1], sizes[i])
                                                         ELSE kept[i - 1]
    <3>1. i \in 0 .. n /\ i # 0
      BY <1>1
    <3> QED
      BY <1>6, <3>1
  <2>2. kept[0] = <<>>
    BY <1>1, <1>6
  <2> QED
    BY <2>1, <2>2 DEF Keeps
<1> QED
  BY <1>7, <1>9, <1>10 DEF S

(* The sizes of a mode are sizes of the plan that the mode can run.        *)
LEMMA SizesForIs ==
  ASSUME NEW mode, sizes \in Seq(Word)
  PROVE  SizesFor(mode) \in Seq({s \in Range(sizes) : s >= MinMsgSize(mode)})
<1>1. PICK k \in [0 .. Len(sizes) -> Seq(Fitting(mode))] :
        Keeps(k, mode) /\ SizesFor(mode) = k[Len(sizes)]
  BY KeptIs
<1>2. Len(sizes) \in 0 .. Len(sizes)
  BY LenProperties
<1> QED
  BY <1>1, <1>2 DEF Fitting

Kinds == {"header", "row", "no result", "failed", "notes", "summary"}

\* What is on the terminal, or is about to be.
IsText(s) == s \in Seq(Range(s)) /\ \A i \in DOMAIN s : s[i].line \in Kinds

(* Text after text is text.                                                *)
LEMMA Joined ==
  ASSUME NEW s, NEW t, IsText(s), IsText(t)
  PROVE  IsText(s \o t)
<1> DEFINE S == Range(s) \cup Range(t)
<1>1. s \in Seq(S) /\ t \in Seq(S)
  <2>1. s \in Seq(Range(s)) /\ Range(s) \subseteq S /\ t \in Seq(Range(t)) /\ Range(t) \subseteq S
    BY DEF IsText
  <2> HIDE DEF S
  <2> QED
    BY <2>1
<1> HIDE DEF S
<1>2. /\ Len(s) \in Nat /\ Len(t) \in Nat /\ DOMAIN s = 1 .. Len(s) /\ DOMAIN t = 1 .. Len(t)
      /\ s \o t \in Seq(S) /\ Len(s \o t) = Len(s) + Len(t)
      /\ \A i \in 1 .. Len(s) + Len(t) : (s \o t)[i] = IF i <= Len(s) THEN s[i] ELSE t[i - Len(s)]
  BY <1>1, ConcatProperties, LenProperties
<1> DEFINE u == s \o t
<1>3. DOMAIN u = 1 .. Len(s) + Len(t) /\ u = [i \in 1 .. Len(s) + Len(t) |-> u[i]]
  BY <1>2, LenProperties
<1>4. ASSUME NEW i \in DOMAIN u PROVE u[i].line \in Kinds
  <2>1. CASE i <= Len(s)
    <3>1. i \in DOMAIN s /\ u[i] = s[i]
      BY <1>2, <1>3, <2>1
    <3> QED
      BY <3>1 DEF IsText
  <2>2. CASE ~ i <= Len(s)
    <3>1. i - Len(s) \in DOMAIN t /\ u[i] = t[i - Len(s)]
      BY <1>2, <1>3, <2>2
    <3> QED
      BY <3>1 DEF IsText
  <2> QED
    BY <2>1, <2>2
<1>5. u \in Seq(Range(u))
  <2>1. \A i \in 1 .. Len(s) + Len(t) : u[i] \in Range(u)
    BY <1>3 DEF Range
  <2> HIDE DEF u
  <2>2. Len(s) + Len(t) \in Nat
    BY <1>2
  <2> QED
    BY <1>3, <2>1, <2>2
<1> QED
  BY <1>4, <1>5 DEF IsText

(* Nothing, a line and what is printed about a run are text.               *)
LEMMA Printed ==
  /\ IsText(<<>>)
  /\ \A what \in Kinds : \A about : IsText(Line(what, about))
  /\ \A m : IsText(RowOf(m)) /\ IsText(NotesOf(m))
  /\ \A m, msgSize : IsText(LinesOf(m, msgSize))
<1>1. IsText(<<>>)
  BY EmptySeq DEF IsText, Range
<1>2. ASSUME NEW what \in Kinds, NEW about PROVE IsText(Line(what, about))
  <2> DEFINE l == [line |-> what, about |-> about]
  <2>1. <<l>> \in Seq({l}) /\ DOMAIN <<l>> = {1} /\ <<l>>[1] = l /\ l.line = what
    OBVIOUS
  <2>2. Range(<<l>>) = {l}
    <3> HIDE DEF l
    <3> QED
      BY <2>1 DEF Range
  <2>3. Line(what, about) = <<l>>
    BY DEF Line
  <2> HIDE DEF l
  <2> QED
    BY <2>1, <2>2, <2>3 DEF IsText
<1>3. ASSUME NEW m PROVE IsText(RowOf(m)) /\ IsText(NotesOf(m))
  <2>1. "row" \in Kinds /\ "notes" \in Kinds
    BY DEF Kinds
  <2>2. IsText(Line("row", Row(ReportOf(m))[1].num)) /\ IsText(Line("notes", Notes(ReportOf(m))))
    BY <1>2, <2>1
  <2>3. RowOf(m) \in {<<>>, Line("row", Row(ReportOf(m))[1].num)}
    BY DEF RowOf
  <2>4. NotesOf(m) \in {<<>>, Line("notes", Notes(ReportOf(m)))}
    BY DEF NotesOf
  <2> QED
    BY <1>1, <2>2, <2>3, <2>4
<1>4. ASSUME NEW m, NEW msgSize PROVE IsText(LinesOf(m, msgSize))
  <2>1. "no result" \in Kinds
    BY DEF Kinds
  <2>2. IsText(Line("no result", msgSize))
    BY <1>2, <2>1
  <2>3. IsText(Line("no result", msgSize) \o NotesOf(m)) /\ IsText(RowOf(m) \o NotesOf(m))
    BY <1>3, <2>2, Joined
  <2> QED
    BY <1>3, <2>3 DEF LinesOf
<1> QED
  BY <1>1, <1>2, <1>3, <1>4

\* The parts of TypeOK and Shape, without the lines.
Typed ==
  /\ cmd \in Commands
  /\ phase \in {"plan", "sizing", "open", "single", "print", "table", "runs"}
  /\ sizes \in Seq(Word) /\ size \in Word
  /\ modes \in Seq(Modes) /\ left \in Seq(Range(sizes))
  /\ rep \in 0 .. cmd.runs - 1
  /\ failures \in Seq(Modes \X Word)
  /\ exit \in {"none", "ok", "error", "panic"}
  /\ exit = "ok" => left = <<>>
  /\ phase \in {"plan", "sizing", "open", "print", "table"} => left = <<>>
  /\ phase = "single" /\ exit = "none" => Len(left) = 1
  /\ phase \in {"open", "single", "print", "runs"} => modes # <<>>

(* Types are those of the variables and those of the lines.                *)
LEMMA TypedText == TypeOK /\ Shape <=> Typed /\ IsText(lines)
<1>1. Len(lines) \in Nat /\ lines = [i \in 1 .. Len(lines) |-> lines[i]]
      <=> lines \in Seq(Range(lines))
  <2>1. ASSUME Len(lines) \in Nat, lines = [i \in 1 .. Len(lines) |-> lines[i]]
        PROVE  lines \in Seq(Range(lines))
    <3>1. DOMAIN lines = 1 .. Len(lines)
      BY <2>1
    <3>2. \A i \in 1 .. Len(lines) : lines[i] \in Range(lines)
      BY <3>1 DEF Range
    <3> QED
      BY <2>1, <3>2
  <2>2. ASSUME lines \in Seq(Range(lines))
        PROVE  Len(lines) \in Nat /\ lines = [i \in 1 .. Len(lines) |-> lines[i]]
    BY <2>2, LenProperties
  <2> QED
    BY <2>1, <2>2
<1> QED
  BY <1>1 DEF TypeOK, Shape, Typed, IsText, Kinds

(* A command line and the words in it.                                     *)
LEMMA CommandIs ==
  ASSUME cmd \in Commands
  PROVE  /\ cmd.size \in Word /\ cmd.min_size \in Word /\ cmd.max_size \in Word
         /\ cmd.runs \in Nat \ {0} /\ cmd.all \in BOOLEAN /\ cmd.build \in {"debug", "release"}
         /\ PlannedModes \in Seq(Modes) /\ PlannedModes # <<>>
<1>1. cmd \in CommandLine
  BY SuiteAssumption
<1>2. AllModes \in Seq(Modes) /\ AllModes # <<>>
  BY DEF AllModes, Modes
<1> QED
  BY <1>1, <1>2 DEF CommandLine, PlannedModes

(* The process starts well typed.                                          *)
LEMMA TypedInitial == Init => Typed /\ IsText(lines)
<1> SUFFICES ASSUME Init PROVE Typed /\ IsText(lines)
  OBVIOUS
<1>1. /\ sizes = <<>> /\ modes = <<>> /\ left = <<>> /\ failures = <<>> /\ lines = <<>>
      /\ size = 0 /\ rep = 0 /\ phase = "plan" /\ exit = "none" /\ cmd \in Commands
  BY DEF Init
<1>2. 0 \in Word
  BY WordIs
<1>3. rep \in 0 .. cmd.runs - 1
  BY <1>1, CommandIs
<1> QED
  BY <1>1, <1>2, <1>3, Printed, EmptySeq DEF Typed

(* Refusing a plan changes nothing, neither does a device that is missing. *)
LEMMA TypedEnd ==
  ASSUME Typed, NEW how \in {"error", "panic"}, End(how), UNCHANGED cmd
  PROVE  Typed'
  BY DEF Typed, End, planVars, loopVars, termVars

(* The plan is made.                                                       *)
LEMMA TypedPlanned ==
  ASSUME Typed, phase \in {"plan", "sizing"}, NEW s \in Seq(Word), Planned(s), UNCHANGED cmd
  PROVE  Typed'
<1>1. left = <<>> /\ left' = <<>>
  BY DEF Typed, Planned
<1>2. <<>> \in Seq(Range(s))
  BY EmptySeq
<1> QED
  BY <1>1, <1>2, CommandIs DEF Typed, Planned

(* A size is pushed.                                                       *)
LEMMA TypedPush ==
  ASSUME Typed, PushSize, UNCHANGED cmd
  PROVE  Typed' /\ UNCHANGED lines
<1>1. Append(sizes, size) \in Seq(Word) /\ phase = "sizing" /\ left = <<>>
  BY AppendProperties DEF Typed, PushSize, In
<1>2. CASE 2 * size \in Word
  <2>1. /\ sizes' = Append(sizes, size) /\ size' = 2 * size
        /\ UNCHANGED <<phase, loopVars, termVars, exit>>
    BY <1>2 DEF PushSize
  <2>2. left' \in Seq(Range(sizes'))
    BY <1>1, <2>1, EmptySeq DEF loopVars
  <2> QED
    BY <1>1, <1>2, <2>1, <2>2 DEF Typed, loopVars, termVars
<1>3. CASE 2 * size \notin Word
  <2>1. Planned(Append(sizes, size))
    BY <1>3 DEF PushSize
  <2> QED
    BY <1>1, <2>1, TypedPlanned DEF Planned, termVars
<1> QED
  BY <1>2, <1>3

(* The sweep begins.                                                       *)
LEMMA TypedStartSizing ==
  ASSUME Typed, StartSizing, UNCHANGED cmd
  PROVE  Typed' /\ UNCHANGED lines
<1> DEFINE first == NextPowerOfTwo(cmd.min_size)
<1>1. first % PowerOfTwo[WordBits] \in Word
  <2>1. PICK k \in 0 .. WordBits : first = PowerOfTwo[k]
    BY CommandIs, NextPowerIs DEF Typed
  <2>2. k \in Nat /\ first \in Nat /\ PowerOfTwo[WordBits] \in Nat \ {0}
    BY <2>1, WordIs, PowerIs
  <2> HIDE DEF first
  <2> QED
    BY <2>2, WordIs
<1>2. CASE End("panic")
  BY <1>2, TypedEnd DEF End, termVars
<1>3. CASE /\ phase' = "sizing" /\ size' = first % PowerOfTwo[WordBits]
           /\ UNCHANGED <<sizes, loopVars, termVars, exit>>
  <2>1. left = <<>>
    BY DEF Typed, StartSizing, In
  <2> HIDE DEF first
  <2> QED
    BY <1>1, <1>3, <2>1 DEF Typed, loopVars, termVars
<1> QED
  BY <1>2, <1>3 DEF StartSizing

(* A plan and a device become a lone run or tables.                        *)
LEMMA TypedOpen ==
  ASSUME Typed, OpenDevice, UNCHANGED cmd
  PROVE  Typed' /\ UNCHANGED lines
<1>1. CASE End("error")
  BY <1>1, TypedEnd DEF End, termVars
<1>2. CASE /\ phase' = IF SingleRun THEN "single" ELSE "table"
           /\ left' = IF SingleRun THEN sizes ELSE <<>>
           /\ UNCHANGED <<planVars, modes, rep, failures, termVars, exit>>
  <2>1. sizes \in Seq(Range(sizes)) /\ <<>> \in Seq(Range(sizes))
    BY EmptySeq, LenProperties DEF Typed, Range
  <2>2. SingleRun => Len(sizes) = 1
    BY DEF SingleRun
  <2>3. exit = "none" /\ modes # <<>>
    BY DEF Typed, OpenDevice, In
  <2> HIDE DEF SingleRun
  <2> QED
    BY <1>2, <2>1, <2>2, <2>3 DEF Typed, planVars, termVars
<1> QED
  BY <1>1, <1>2 DEF OpenDevice

(* The lone run is made.                                                   *)
LEMMA TypedMakeSingle ==
  ASSUME Typed, MakeSingle, UNCHANGED cmd
  PROVE  Typed' /\ UNCHANGED lines
<1>1. left \in Seq(Range(sizes)) /\ Len(left) = 1 /\ phase = "single" /\ exit = "none"
  BY DEF Typed, MakeSingle, In
<1>2. left # <<>> /\ Tail(left) = <<>> /\ left' = Tail(left)
  <2>1. left # <<>>
    BY <1>1, EmptySeq
  <2>2. Tail(left) \in Seq(Range(sizes)) /\ Len(Tail(left)) = 0
    BY <1>1, <2>1, HeadTailProperties
  <2> QED
    BY <2>1, <2>2, EmptySeq DEF MakeSingle
<1>3. /\ (exit' = "error" /\ phase' = phase) \/ (exit' = exit /\ phase' = "print")
      /\ UNCHANGED <<planVars, modes, rep, failures, lines, heading>>
  BY DEF MakeSingle
<1>4. <<>> \in Seq(Range(sizes))
  BY EmptySeq
<1> QED
  BY <1>1, <1>2, <1>3, <1>4 DEF Typed, planVars

(* Its table is printed.                                                   *)
LEMMA TypedPrintSingle ==
  ASSUME Typed, IsText(lines), PrintSingle, UNCHANGED cmd
  PROVE  Typed' /\ IsText(lines')
<1>1. phase = "print" /\ exit' = "ok" /\ UNCHANGED <<phase, planVars, loopVars>>
  BY DEF PrintSingle, In
<1>2. Typed'
  BY <1>1 DEF Typed, planVars, loopVars
<1>3. IsText(Line("header", Head(modes)))
  BY Printed DEF Kinds
<1>4. IsText(Line("header", Head(modes)) \o RowOf(shown.of) \o NotesOf(shown.of))
  BY <1>3, Printed, Joined
<1>5. lines' \in {NotesOf(shown.of),
                  Line("header", Head(modes)) \o RowOf(shown.of) \o NotesOf(shown.of)}
  BY DEF PrintSingle
<1> QED
  BY <1>2, <1>4, <1>5, Printed

(* A table is begun, of sizes of the plan.                                 *)
LEMMA TypedStartTable ==
  ASSUME Typed, IsText(lines), StartTable, UNCHANGED cmd
  PROVE  Typed' /\ IsText(lines')
<1>1. /\ phase' = "runs" /\ left' = SizesFor(Head(modes)) /\ modes # <<>> /\ exit = "none"
      /\ lines' = lines \o Line("header", Head(modes))
      /\ UNCHANGED <<planVars, modes, rep, failures, exit>>
  BY DEF StartTable, In
<1>2. left' \in Seq(Range(sizes))
  <2> DEFINE S == {s \in Range(sizes) : s >= MinMsgSize(Head(modes))}
  <2>1. SizesFor(Head(modes)) \in Seq(S) /\ S \subseteq Range(sizes)
    BY SizesForIs DEF Typed
  <2> HIDE DEF S
  <2> QED
    BY <1>1, <2>1
<1>3. Typed'
  BY <1>1, <1>2 DEF Typed, planVars
<1>4. IsText(Line("header", Head(modes)))
  BY Printed DEF Kinds
<1> QED
  BY <1>1, <1>3, <1>4, Joined

(* A run of a table is made.                                               *)
LEMMA TypedMakeRun ==
  ASSUME Typed, IsText(lines), MakeRun, UNCHANGED cmd
  PROVE  Typed' /\ IsText(lines')
<1> DEFINE run == <<Head(modes), Head(left)>>
<1>1. /\ phase = "runs" /\ exit = "none" /\ left # <<>> /\ modes # <<>>
      /\ UNCHANGED <<phase, planVars, modes, exit>>
  BY DEF Typed, MakeRun, In
<1>2. /\ Head(left) \in Range(sizes) /\ Tail(left) \in Seq(Range(sizes))
      /\ Head(modes) \in Modes
  BY <1>1, HeadTailProperties DEF Typed
<1>3. run \in Modes \X Word
  <2>1. Head(left) \in Word
    BY <1>2, LenProperties DEF Typed, Range
  <2> QED
    BY <1>2, <2>1
<1>4. failures' \in {failures, Append(failures, run)}
  BY DEF MakeRun, Noted
<1>5. failures' \in Seq(Modes \X Word)
  <2> DEFINE T == Modes \X Word
  <2>1. failures \in Seq(T) /\ run \in T
    BY <1>3 DEF Typed
  <2> HIDE DEF run, T
  <2>2. Append(failures, run) \in Seq(T)
    BY <2>1, AppendProperties
  <2>3. failures' \in Seq(T)
    BY <1>4, <2>1, <2>2
  <2> QED
    BY <2>3 DEF T
<1>6. left' \in Seq(Range(sizes)) /\ rep' \in 0 .. cmd.runs - 1
  <2>1. rep \in 0 .. cmd.runs - 1 /\ cmd.runs \in Nat \ {0} /\ left \in Seq(Range(sizes))
    BY CommandIs DEF Typed
  <2>2. CASE rep + 1 < cmd.runs
    BY <2>1, <2>2 DEF MakeRun, RunDone
  <2>3. CASE ~ rep + 1 < cmd.runs
    <3>1. rep' = 0 /\ left' = Tail(left)
      BY <2>3 DEF MakeRun, RunDone
    <3> QED
      BY <1>2, <2>1, <3>1
  <2> QED
    BY <2>2, <2>3
<1>7. Typed'
  BY <1>1, <1>5, <1>6 DEF Typed, planVars
<1>8. \E m : lines' \in {lines \o Line("failed", Head(left)), lines \o LinesOf(m, Head(left))}
  BY DEF MakeRun
<1>9. IsText(Line("failed", Head(left)))
  BY Printed DEF Kinds
<1> QED
  BY <1>7, <1>8, <1>9, Printed, Joined

(* A table is finished.                                                    *)
LEMMA TypedTableDone ==
  ASSUME Typed, TableDone, UNCHANGED cmd
  PROVE  Typed' /\ UNCHANGED lines
<1>1. /\ phase = "runs" /\ exit = "none" /\ left = <<>> /\ modes # <<>> /\ phase' = "table"
      /\ modes' = Tail(modes) /\ UNCHANGED <<planVars, left, rep, failures, lines, exit>>
  BY DEF Typed, TableDone, In
<1>2. modes' \in Seq(Modes)
  BY <1>1, HeadTailProperties DEF Typed
<1> QED
  BY <1>1, <1>2 DEF Typed, planVars

(* The process ends with its summary.                                      *)
LEMMA TypedSummary ==
  ASSUME Typed, IsText(lines), Summary, UNCHANGED cmd
  PROVE  Typed' /\ IsText(lines')
<1>1. /\ phase = "table" /\ exit' = "ok" /\ UNCHANGED <<phase, planVars, loopVars>>
      /\ lines' = lines \o Line("summary", failures)
  BY DEF Summary, In
<1>2. IsText(Line("summary", failures))
  BY Printed DEF Kinds
<1>3. Typed'
  BY <1>1 DEF Typed, planVars, loopVars
<1> QED
  BY <1>1, <1>2, <1>3, Joined

(* Every step keeps the types.                                             *)
LEMMA TypedStep == Typed /\ IsText(lines) /\ [Next]_vars => Typed' /\ IsText(lines')
<1> SUFFICES ASSUME Typed, IsText(lines), [Next]_vars PROVE Typed' /\ IsText(lines')
  OBVIOUS
<1>1. CASE UNCHANGED vars
  <2>1. UNCHANGED <<cmd, phase, planVars, loopVars, lines, exit>>
    BY <1>1 DEF vars, termVars
  <2> QED
    BY <2>1 DEF Typed, planVars, loopVars
<1>2. CASE Step /\ UNCHANGED cmd
  <2>1. CASE PlanRefused
    BY <1>2, <2>1, TypedEnd DEF PlanRefused, End, termVars
  <2>2. CASE PlanOneSize
    <3>1. <<cmd.size>> \in Seq(Word) /\ phase \in {"plan", "sizing"}
      BY <2>2, CommandIs DEF Typed, PlanOneSize, In
    <3>2. Planned(<<cmd.size>>) /\ UNCHANGED lines
      BY <2>2 DEF PlanOneSize, Planned, termVars
    <3> QED
      BY <1>2, <3>1, <3>2, TypedPlanned
  <2>3. CASE SizesDone
    <3>1. CASE End("error")
      BY <1>2, <3>1, TypedEnd DEF End, termVars
    <3>2. CASE Planned(sizes)
      <4>1. sizes \in Seq(Word) /\ phase \in {"plan", "sizing"} /\ UNCHANGED lines
        BY <2>3, <3>2 DEF Typed, SizesDone, In, Planned, termVars
      <4> QED
        BY <1>2, <3>2, <4>1, TypedPlanned
    <3> QED
      BY <2>3, <3>1, <3>2 DEF SizesDone
  <2>4. CASE StartSizing
    BY <1>2, <2>4, TypedStartSizing
  <2>5. CASE PushSize
    BY <1>2, <2>5, TypedPush
  <2>6. CASE OpenDevice
    BY <1>2, <2>6, TypedOpen
  <2>7. CASE MakeSingle
    BY <1>2, <2>7, TypedMakeSingle
  <2>8. CASE PrintSingle
    BY <1>2, <2>8, TypedPrintSingle
  <2>9. CASE StartTable
    BY <1>2, <2>9, TypedStartTable
  <2>10. CASE MakeRun
    BY <1>2, <2>10, TypedMakeRun
  <2>11. CASE TableDone
    BY <1>2, <2>11, TypedTableDone
  <2>12. CASE Summary
    BY <1>2, <2>12, TypedSummary
  <2> QED
    BY <1>2, <2>1, <2>2, <2>3, <2>4, <2>5, <2>6, <2>7, <2>8, <2>9, <2>10, <2>11, <2>12 DEF Step
<1> QED
  BY <1>1, <1>2 DEF Next, Ended

(***************************************************************************)
(* The sizes of a sweep.                                                   *)
(***************************************************************************)

(* The powers asked for are consecutive ones: from the k-th on, m of them. *)
LEMMA AskedIs ==
  ASSUME cmd \in Commands, NEW k \in 0 .. WordBits - 1,
         NextPowerOfTwo(cmd.min_size) = PowerOfTwo[k]
  PROVE  \E m \in Nat :
           /\ k + m <= WordBits
           /\ PowersAsked = [i \in 1 .. m |-> PowerOfTwo[k + i - 1]]
           /\ \A j \in Nat : k + j < WordBits => (Within(PowerOfTwo[k + j]) <=> j < m)
<1> DEFINE lo == cmd.min_size
           hi == cmd.max_size
           E == {j \in 0 .. WordBits - 1 : PowerOfTwo[j] \in lo .. hi}
<1>1. lo \in Word /\ lo \in Nat /\ hi \in Nat /\ WordBits \in Nat \ {0} /\ k \in Nat
  BY CommandIs, WordIs
<1>2. lo <= PowerOfTwo[k] /\ \A j \in Nat : j < k => PowerOfTwo[j] < lo
  <2>1. PICK i \in 0 .. WordBits :
          /\ NextPowerOfTwo(lo) = PowerOfTwo[i] /\ lo <= PowerOfTwo[i]
          /\ \A j \in Nat : j < i => PowerOfTwo[j] < lo
    BY <1>1, NextPowerIs
  <2>2. PowerOfTwo[i] = PowerOfTwo[k] /\ i \in Nat /\ PowerOfTwo[k] \in Nat
    BY <1>1, <2>1, PowerIs
  <2>3. i = k
    <3>1. ~ i < k /\ ~ k < i
      BY <1>1, <2>2, PowersGrow
    <3> QED
      BY <1>1, <2>2, <3>1
  <2> QED
    BY <2>1, <2>3
<1> DEFINE Beyond == {i \in Nat : k + i = WordBits \/ hi < PowerOfTwo[k + i]}
<1>3. PICK m \in Beyond : \A i \in Beyond : m <= i
  <2>1. WordBits - k \in Beyond /\ Beyond \in SUBSET Nat
    BY <1>1
  <2> HIDE DEF Beyond
  <2> QED
    BY <2>1, Least
<1>4. m \in Nat /\ k + m <= WordBits
  <2>1. WordBits - k \in Beyond
    BY <1>1
  <2>2. m \in Nat /\ m <= WordBits - k
    BY <1>3, <2>1
  <2> QED
    BY <1>1, <2>2
<1>5. ASSUME NEW j \in Nat, k + j < WordBits PROVE PowerOfTwo[k + j] <= hi <=> j < m
  <2>1. PowerOfTwo[k + j] \in Nat /\ PowerOfTwo[k + m] \in Nat
    BY <1>1, <1>4, PowerIs
  <2>2. CASE j < m
    <3>1. ~ m <= j
      BY <1>4, <2>2
    <3>2. j \notin Beyond
      <4> HIDE DEF Beyond
      <4> QED
        BY <1>3, <3>1
    <3> QED
      BY <1>1, <2>1, <2>2, <3>2
  <2>3. CASE ~ j < m
    <3>1. k + m # WordBits
      BY <1>1, <1>4, <1>5, <2>3
    <3>2. hi < PowerOfTwo[k + m]
      BY <1>3, <3>1
    <3>3. j = m \/ PowerOfTwo[k + m] < PowerOfTwo[k + j]
      <4>1. CASE j # m
        <5>1. k + m \in Nat /\ k + j \in Nat /\ k + m < k + j
          BY <1>1, <1>4, <2>3, <4>1
        <5> QED
          BY <5>1, PowersGrow
      <4> QED
        BY <4>1
    <3> QED
      BY <1>1, <2>1, <2>3, <3>2, <3>3
  <2> QED
    BY <2>2, <2>3
<1>6. E = k .. k + m - 1
  <2>1. ASSUME NEW j \in E PROVE j \in k .. k + m - 1
    <3>1. j \in Nat /\ j < WordBits /\ PowerOfTwo[j] \in lo .. hi /\ PowerOfTwo[j] \in Nat
      BY <1>1, PowerIs
    <3>2. k <= j
      BY <1>1, <1>2, <3>1
    <3>3. j - k \in Nat /\ k + (j - k) = j
      BY <1>1, <3>1, <3>2
    <3>4. j - k < m
      BY <1>1, <1>5, <3>1, <3>3
    <3> QED
      BY <1>1, <1>4, <3>1, <3>2, <3>4
  <2>2. ASSUME NEW j \in k .. k + m - 1 PROVE j \in E
    <3>1. j \in Nat /\ j - k \in Nat /\ k + (j - k) = j /\ j - k < m /\ j < WordBits
      BY <1>1, <1>4
    <3>2. PowerOfTwo[j] <= hi /\ PowerOfTwo[j] \in Nat
      BY <1>5, <3>1, PowerIs
    <3>3. lo <= PowerOfTwo[j]
      <4>1. PowerOfTwo[k] \in Nat /\ (j = k \/ PowerOfTwo[k] < PowerOfTwo[j])
        BY <1>1, <3>1, PowerIs, PowersGrow
      <4> QED
        BY <1>1, <1>2, <3>2, <4>1
    <3> QED
      BY <1>1, <3>1, <3>2, <3>3
  <2> QED
    BY <2>1, <2>2
<1>7. Cardinality(E) = m
  <2>1. k \in Int /\ k + m - 1 \in Int
    BY <1>1, <1>4
  <2>2. Cardinality(k .. k + m - 1) = IF k > k + m - 1 THEN 0 ELSE (k + m - 1) - k + 1
    BY <2>1, FS_Interval
  <2>3. m = IF k > k + m - 1 THEN 0 ELSE (k + m - 1) - k + 1
    BY <1>1, <1>4
  <2> HIDE DEF E
  <2> QED
    BY <1>6, <2>2, <2>3
<1>8. m > 0 => Min(E) = k
  <2> SUFFICES ASSUME m > 0 PROVE Min(k .. k + m - 1) = k
    BY <1>6
  <2> DEFINE S == k .. k + m - 1
  <2>1. k \in S /\ \A x \in S : x \in Nat /\ k <= x
    BY <1>1, <1>4
  <2> HIDE DEF S
  <2>2. Min(S) \in S /\ \A x \in S : Min(S) <= x
    BY <2>1 DEF Min
  <2>3. Min(S) = k
    <3>1. Min(S) \in Nat /\ k <= Min(S)
      BY <2>1, <2>2
    <3>2. Min(S) <= k
      BY <2>1, <2>2
    <3> QED
      BY <1>1, <3>1, <3>2
  <2> QED
    BY <2>3 DEF S
<1>9. PowersAsked = [i \in 1 .. m |-> PowerOfTwo[k + i - 1]]
  <2>1. PowersAsked = [i \in 1 .. Cardinality(E) |-> PowerOfTwo[Min(E) + i - 1]]
    BY DEF PowersAsked
  <2> HIDE DEF E
  <2>2. PowersAsked = [i \in 1 .. m |-> PowerOfTwo[Min(E) + i - 1]]
    BY <1>7, <2>1
  <2>3. \A i \in 1 .. m : PowerOfTwo[Min(E) + i - 1] = PowerOfTwo[k + i - 1]
    BY <1>4, <1>8
  <2> QED
    BY <2>2, <2>3
<1> QED
  BY <1>4, <1>5, <1>9 DEF Within

(* What the command line says stays as it is.                              *)
LEMMA CommandStays ==
  ASSUME UNCHANGED cmd
  PROVE  /\ Wrapped' <=> Wrapped
         /\ PowersAsked' = PowersAsked
         /\ NextPowerOfTwo(cmd.min_size)' = NextPowerOfTwo(cmd.min_size)
  BY DEF Wrapped, PowersAsked, NextPowerOfTwo, Word

(* A process that has its plan, or ends where it is, keeps what is said of *)
(* the sweep.                                                              *)
LEMMA SweepKept ==
  ASSUME Sweep, UNCHANGED <<cmd, sizes>>,
         \/ phase \notin {"plan", "sizing"} /\ phase' \notin {"plan", "sizing"}
         \/ phase = "plan" /\ phase' = "plan"
  PROVE  Sweep'
  BY CommandStays DEF Sweep

(* The sweep begins with the first power of two, which fits into a word.   *)
LEMMA SweepStarts ==
  ASSUME Typed, Sweep, StartSizing, UNCHANGED cmd
  PROVE  Sweep'
<1> DEFINE first == NextPowerOfTwo(cmd.min_size)
<1>1. phase = "plan" /\ exit = "none"
  BY DEF StartSizing, In
<1>2. CASE End("panic")
  BY <1>1, <1>2, SweepKept DEF End, planVars
<1>3. CASE /\ first \in Word \/ cmd.build = "release"
           /\ phase' = "sizing" /\ size' = first % PowerOfTwo[WordBits]
           /\ UNCHANGED <<sizes, loopVars, termVars, exit>>
  <2> SUFFICES ASSUME cmd.all, ~Wrapped
               PROVE  \E k \in 0 .. WordBits - 1 : SweptFrom(k)'
    BY <1>1, <1>3, CommandStays DEF Sweep
  <2>1. sizes = <<>> /\ sizes' = <<>>
    BY <1>1, <1>3 DEF Sweep
  <2>2. first \in Word
    BY <1>3, CommandIs DEF Wrapped, Typed
  <2>3. PICK k \in 0 .. WordBits : first = PowerOfTwo[k]
    BY CommandIs, NextPowerIs DEF Typed
  <2>4. k \in Nat /\ k < WordBits /\ WordBits \in Nat
    BY <2>2, <2>3, WordIs
  <2>5. size' = PowerOfTwo[k + Len(sizes')] /\ k + Len(sizes') < WordBits
    <3>1. first \in Nat /\ first < PowerOfTwo[WordBits] /\ PowerOfTwo[WordBits] \in Nat \ {0}
      BY <2>2, WordIs
    <3> HIDE DEF first
    <3>2. first % PowerOfTwo[WordBits] = first
      BY <3>1
    <3>3. Len(sizes') = 0 /\ k + 0 = k
      BY <2>1, <2>4
    <3> QED
      BY <1>3, <2>3, <2>4, <3>2, <3>3
  <2>6. /\ sizes' = [i \in 1 .. Len(sizes') |-> PowerOfTwo[k + i - 1]]
        /\ \A i \in DOMAIN sizes' : sizes'[i] <= cmd'.max_size
    BY <2>1
  <2>7. NextPowerOfTwo(cmd.min_size)' = PowerOfTwo[k]
    BY <2>3, CommandStays
  <2>8. k \in 0 .. WordBits - 1
    BY <2>4
  <2>9. SweptFrom(k)'
    BY <2>5, <2>6, <2>7 DEF SweptFrom, Within
  <2> QED
    BY <2>8, <2>9
<1> QED
  BY <1>2, <1>3 DEF StartSizing

(* Each size is pushed in its place, the last one completes the sweep.     *)
LEMMA SweepPushes ==
  ASSUME Typed, Sweep, PushSize, UNCHANGED cmd
  PROVE  Sweep'
<1>1. phase = "sizing" /\ exit = "none" /\ Within(size) /\ sizes \in Seq(Word) /\ size \in Word
  BY DEF PushSize, In, Typed
<1> SUFFICES ASSUME cmd.all, ~Wrapped
             PROVE  Sweep'
  BY CommandStays DEF Sweep
<1>2. PICK k \in 0 .. WordBits - 1 : SweptFrom(k)
  BY <1>1 DEF Sweep
<1> DEFINE n == Len(sizes)
           more == Append(sizes, size)
<1>3. /\ n \in Nat /\ k \in Nat /\ WordBits \in Nat /\ k + n < WordBits /\ size = PowerOfTwo[k + n]
      /\ \A i \in 1 .. n : sizes[i] = PowerOfTwo[k + i - 1] /\ Within(sizes[i])
      /\ DOMAIN sizes = 1 .. n
  BY <1>1, <1>2, WordIs, LenProperties DEF SweptFrom
<1>4. /\ more \in Seq(Word) /\ Len(more) = n + 1 /\ DOMAIN more = 1 .. n + 1
      /\ \A i \in 1 .. n : more[i] = sizes[i]
      /\ more[n + 1] = size
  BY <1>1, AppendProperties, LenProperties
<1> HIDE DEF more
<1>5. \A i \in 1 .. n + 1 : more[i] = PowerOfTwo[k + i - 1] /\ Within(more[i])
  <2>1. ASSUME NEW i \in 1 .. n + 1 PROVE more[i] = PowerOfTwo[k + i - 1] /\ Within(more[i])
    <3>1. CASE i = n + 1
      <4>1. k + i - 1 = k + n
        BY <1>3, <3>1
      <4> QED
        BY <1>1, <1>3, <1>4, <3>1, <4>1
    <3>2. CASE i # n + 1
      <4>1. i \in 1 .. n
        BY <1>3, <3>2
      <4> QED
        BY <1>3, <1>4, <4>1
    <3> QED
      BY <3>1, <3>2
  <2> QED
    BY <2>1
<1>6. more = [i \in 1 .. n + 1 |-> PowerOfTwo[k + i - 1]]
  <2>1. more = [i \in 1 .. n + 1 |-> more[i]]
    BY <1>4, LenProperties
  <2> QED
    BY <1>5, <2>1
<1>7. 2 * size = PowerOfTwo[k + (n + 1)] /\ (2 * size \in Word <=> k + (n + 1) < WordBits)
  <2>1. k + n \in Nat /\ (k + n) + 1 = k + (n + 1) /\ k + (n + 1) \in Nat
    BY <1>3
  <2>2. 2 * size = PowerOfTwo[k + (n + 1)]
    BY <1>3, <2>1, PowerIs
  <2> QED
    BY <2>1, <2>2, WordIs
<1>8. CASE 2 * size \in Word
  <2>1. sizes' = more /\ size' = 2 * size /\ UNCHANGED <<phase, exit>>
    BY <1>8 DEF PushSize, more
  <2>2. /\ k + Len(sizes') < WordBits /\ size' = PowerOfTwo[k + Len(sizes')]
        /\ sizes' = [i \in 1 .. Len(sizes') |-> PowerOfTwo[k + i - 1]]
    BY <1>4, <1>6, <1>7, <1>8, <2>1
  <2>3. \A i \in DOMAIN sizes' : sizes'[i] <= cmd'.max_size
    BY <1>4, <1>5, <2>1 DEF Within
  <2>4. NextPowerOfTwo(cmd.min_size)' = PowerOfTwo[k]
    BY <1>2, CommandStays DEF SweptFrom
  <2>5. SweptFrom(k)'
    BY <2>2, <2>3, <2>4 DEF SweptFrom, Within
  <2> QED
    BY <1>1, <2>1, <2>5 DEF Sweep
<1>9. CASE 2 * size \notin Word
  <2>1. sizes' = more /\ phase' = "open"
    BY <1>9 DEF PushSize, Planned, more
  <2>2. PICK m \in Nat :
          /\ k + m <= WordBits
          /\ PowersAsked = [i \in 1 .. m |-> PowerOfTwo[k + i - 1]]
          /\ \A j \in Nat : k + j < WordBits => (Within(PowerOfTwo[k + j]) <=> j < m)
    BY <1>2, AskedIs DEF SweptFrom, Typed
  <2>3. n < m
    BY <1>1, <1>3, <2>2
  <2>4. m = n + 1
    BY <1>3, <1>7, <1>9, <2>2, <2>3
  <2>5. more = PowersAsked
    BY <1>6, <2>2, <2>4
  <2> QED
    BY <2>1, <2>5, CommandStays DEF Sweep
<1> QED
  BY <1>8, <1>9

(* The sweep is complete when the next size is beyond the upper bound.     *)
LEMMA SweepEnds ==
  ASSUME Typed, Sweep, SizesDone, UNCHANGED cmd
  PROVE  Sweep'
<1>1. phase = "sizing" /\ exit = "none" /\ ~Within(size) /\ sizes \in Seq(Word)
  BY DEF SizesDone, In, Typed
<1>2. CASE sizes = <<>>
  <2>1. UNCHANGED <<cmd, phase, sizes, size>> /\ exit' = "error"
    BY <1>2 DEF SizesDone, End, planVars
  <2> QED
    BY <1>1, <1>2, <2>1, CommandStays DEF Sweep, SweptFrom, Within
<1>3. CASE sizes # <<>>
  <2>1. sizes' = sizes /\ phase' = "open"
    BY <1>3 DEF SizesDone, Planned
  <2> SUFFICES ASSUME cmd.all, ~Wrapped PROVE sizes = PowersAsked
    BY <2>1, CommandStays DEF Sweep
  <2>2. PICK k \in 0 .. WordBits - 1 : SweptFrom(k)
    BY <1>1 DEF Sweep
  <2> DEFINE n == Len(sizes)
  <2>3. /\ n \in Nat /\ k \in Nat /\ WordBits \in Nat /\ k + n < WordBits
        /\ size = PowerOfTwo[k + n]
        /\ \A i \in 1 .. n : sizes[i] = PowerOfTwo[k + i - 1] /\ Within(sizes[i])
        /\ sizes = [i \in 1 .. n |-> PowerOfTwo[k + i - 1]]
    <3>1. n \in Nat /\ DOMAIN sizes = 1 .. n /\ k \in Nat /\ WordBits \in Nat
      BY <1>1, WordIs, LenProperties
    <3>2. /\ k + n < WordBits /\ size = PowerOfTwo[k + n]
          /\ sizes = [i \in 1 .. n |-> PowerOfTwo[k + i - 1]]
          /\ \A i \in 1 .. n : Within(sizes[i])
      BY <2>2, <3>1 DEF SweptFrom
    <3> QED
      BY <3>1, <3>2
  <2>4. PICK m \in Nat :
          /\ k + m <= WordBits
          /\ PowersAsked = [i \in 1 .. m |-> PowerOfTwo[k + i - 1]]
          /\ \A j \in Nat : k + j < WordBits => (Within(PowerOfTwo[k + j]) <=> j < m)
    BY <2>2, AskedIs DEF SweptFrom, Typed
  <2>5. m <= n
    BY <1>1, <2>3, <2>4
  <2>6. n <= m
    <3>1. CASE n > 0
      <4>1. n - 1 \in Nat /\ k + (n - 1) = k + n - 1 /\ k + (n - 1) < WordBits /\ n \in 1 .. n
        BY <2>3, <3>1
      <4>2. Within(PowerOfTwo[k + (n - 1)])
        BY <2>3, <4>1
      <4>3. n - 1 < m
        BY <2>4, <4>1, <4>2
      <4> QED
        BY <2>3, <2>4, <4>3
    <3> QED
      BY <2>3, <2>4, <3>1
  <2>7. m = n
    <3>1. n \in Nat
      BY <2>3
    <3> HIDE DEF n
    <3> QED
      BY <2>5, <2>6, <3>1
  <2> QED
    BY <2>3, <2>4, <2>7
<1> QED
  BY <1>2, <1>3

(* Every step keeps what is said of the sweep.                             *)
LEMMA SweepStep == Typed /\ Sweep /\ [Next]_vars => Sweep'
<1> SUFFICES ASSUME Typed, Sweep, [Next]_vars PROVE Sweep'
  OBVIOUS
<1>1. CASE UNCHANGED vars
  <2>1. UNCHANGED <<cmd, phase, sizes, size, exit>>
    BY <1>1 DEF vars, planVars
  <2> QED
    BY <2>1, CommandStays DEF Sweep, SweptFrom, Within
<1>2. CASE Step /\ UNCHANGED cmd
  <2>1. CASE PlanRefused \/ PlanOneSize
    <3>1. CASE PlanRefused
      <4>1. UNCHANGED <<cmd, sizes>> /\ phase = "plan" /\ phase' = "plan"
        BY <1>2, <3>1 DEF PlanRefused, End, In, planVars
      <4> QED
        BY <4>1, SweepKept
    <3>2. CASE PlanOneSize
      BY <1>2, <3>2 DEF PlanOneSize, Planned, Sweep
    <3> QED
      BY <2>1, <3>1, <3>2
  <2>2. CASE StartSizing
    BY <1>2, <2>2, SweepStarts
  <2>3. CASE PushSize
    BY <1>2, <2>3, SweepPushes
  <2>4. CASE SizesDone
    BY <1>2, <2>4, SweepEnds
  <2>5. CASE OpenDevice
    <3>1. UNCHANGED sizes /\ phase = "open" /\ phase' \notin {"plan", "sizing"}
      BY <2>5 DEF OpenDevice, End, In, planVars
    <3> QED
      BY <1>2, <3>1, SweepKept
  <2>6. CASE MakeSingle \/ PrintSingle
    <3>1. UNCHANGED sizes /\ phase \in {"single", "print"} /\ phase' \in {"single", "print"}
      BY <2>6 DEF MakeSingle, PrintSingle, In, planVars
    <3> QED
      BY <1>2, <3>1, SweepKept
  <2>7. CASE StartTable \/ MakeRun \/ TableDone \/ Summary
    <3>1. UNCHANGED sizes /\ phase \in {"table", "runs"} /\ phase' \in {"table", "runs"}
      BY <2>7 DEF StartTable, MakeRun, TableDone, Summary, In, planVars
    <3> QED
      BY <1>2, <3>1, SweepKept
  <2> QED
    BY <1>2, <2>1, <2>2, <2>3, <2>4, <2>5, <2>6, <2>7 DEF Step
<1> QED
  BY <1>1, <1>2 DEF Next, Ended

(* A list that agrees with a longer one is a prefix of it.                 *)
LEMMA PrefixIs ==
  ASSUME NEW S, NEW s \in Seq(S), NEW t \in Seq(S), Len(s) <= Len(t),
         \A i \in 1 .. Len(s) : s[i] = t[i]
  PROVE  IsPrefix(s, t)
<1>1. Len(s) \in Nat /\ Len(t) \in Nat /\ DOMAIN s = 1 .. Len(s) /\ DOMAIN t = 1 .. Len(t)
  BY LenProperties
<1>2. SubSeq(s, 1, Len(s)) = [i \in 1 .. Len(s) |-> s[i]]
  BY <1>1
<1>3. SubSeq(t, 1, Len(s)) = [i \in 1 .. Len(s) |-> t[i]]
  BY <1>1
<1>4. SubSeq(s, 1, Len(s)) = SubSeq(t, 1, Len(s))
  BY <1>2, <1>3
<1> QED
  BY <1>4 DEF IsPrefix

(* What is asked for is a list.                                            *)
LEMMA AskedIsList == PowersAsked \in Seq(Range(PowersAsked))
<1> DEFINE E == {j \in 0 .. WordBits - 1 : PowerOfTwo[j] \in cmd.min_size .. cmd.max_size}
<1>1. Cardinality(E) \in Nat
  <2>1. WordBits - 1 \in Int
    BY WordIs
  <2>2. IsFiniteSet(0 .. WordBits - 1)
    BY <2>1, FS_Interval
  <2>3. IsFiniteSet(E)
    BY <2>2, FS_Subset
  <2> QED
    BY <2>3, FS_CardinalityType
<1>2. PowersAsked = [i \in 1 .. Cardinality(E) |-> PowerOfTwo[Min(E) + i - 1]]
  BY DEF PowersAsked
<1> HIDE DEF E
<1>3. /\ DOMAIN PowersAsked = 1 .. Cardinality(E)
      /\ PowersAsked = [i \in 1 .. Cardinality(E) |-> PowersAsked[i]]
  BY <1>2
<1>4. \A i \in 1 .. Cardinality(E) : PowersAsked[i] \in Range(PowersAsked)
  BY <1>3 DEF Range
<1> QED
  BY <1>1, <1>3, <1>4

(* A sweep begun from the next power of two is exact: what has been pushed *)
(* is a prefix of what is asked for.                                       *)
LEMMA SweepIsExact == Typed /\ Sweep /\ ~Wrapped => SizesAreExact
<1> SUFFICES ASSUME Typed, Sweep, ~Wrapped, cmd.all
             PROVE  /\ IsPrefix(sizes, PowersAsked)
                    /\ phase \notin {"plan", "sizing"} => sizes = PowersAsked
                    /\ phase = "sizing" /\ exit = "error" => PowersAsked = <<>>
  BY DEF SizesAreExact
<1> DEFINE S == Range(PowersAsked)
<1>1. PowersAsked \in Seq(S)
  BY AskedIsList
<1> HIDE DEF S
<1>2. CASE phase = "plan"
  <2>1. sizes = <<>> /\ sizes \in Seq(S) /\ Len(sizes) = 0 /\ Len(PowersAsked) \in Nat
    BY <1>1, <1>2, EmptySeq, LenProperties DEF Sweep
  <2>2. Len(sizes) <= Len(PowersAsked) /\ \A i \in 1 .. Len(sizes) : sizes[i] = PowersAsked[i]
    BY <2>1
  <2>3. IsPrefix(sizes, PowersAsked)
    BY <1>1, <2>1, <2>2, PrefixIs
  <2> QED
    BY <1>2, <2>3
<1>3. CASE phase = "sizing"
  <2>1. PICK k \in 0 .. WordBits - 1 : SweptFrom(k)
    BY <1>3 DEF Sweep
  <2> DEFINE n == Len(sizes)
  <2>2. PICK m \in Nat :
          /\ k + m <= WordBits
          /\ PowersAsked = [i \in 1 .. m |-> PowerOfTwo[k + i - 1]]
          /\ \A j \in Nat : k + j < WordBits => (Within(PowerOfTwo[k + j]) <=> j < m)
    BY <2>1, AskedIs DEF SweptFrom, Typed
  <2>3. n \in Nat /\ DOMAIN sizes = 1 .. n /\ k \in Nat /\ WordBits \in Nat /\ sizes \in Seq(Word)
    BY WordIs, LenProperties DEF Typed
  <2>4. /\ k + n < WordBits /\ size = PowerOfTwo[k + n]
        /\ \A i \in 1 .. n : sizes[i] = PowerOfTwo[k + i - 1] /\ Within(sizes[i])
    BY <2>1, <2>3 DEF SweptFrom
  <2>5. n <= m
    <3>1. CASE n > 0
      <4>1. n - 1 \in Nat /\ k + (n - 1) = k + n - 1 /\ k + (n - 1) < WordBits /\ n \in 1 .. n
        BY <2>3, <2>4, <3>1
      <4>2. Within(PowerOfTwo[k + (n - 1)])
        BY <2>4, <4>1
      <4>3. n - 1 < m
        BY <2>2, <4>1, <4>2
      <4> QED
        BY <2>2, <2>3, <4>3
    <3> QED
      BY <2>2, <2>3, <3>1
  <2>6. Len(PowersAsked) = m /\ \A i \in 1 .. n : sizes[i] = PowersAsked[i]
    BY <2>2, <2>3, <2>4, <2>5
  <2>7. IsPrefix(sizes, PowersAsked)
    <3> DEFINE T == S \cup Word
    <3>1. PowersAsked \in Seq(T) /\ sizes \in Seq(T)
      BY <1>1, <2>3
    <3> HIDE DEF T
    <3> QED
      BY <2>5, <2>6, <3>1, PrefixIs
  <2>8. exit = "error" => PowersAsked = <<>>
    <3> SUFFICES ASSUME exit = "error" PROVE PowersAsked = <<>>
      OBVIOUS
    <3>1. sizes = <<>> /\ ~Within(size)
      BY <1>3 DEF Sweep
    <3>2. n = 0 /\ k + 0 = k /\ k + n = k
      BY <2>3, <3>1
    <3>3. ~ 0 < m
      BY <2>2, <2>3, <2>4, <3>1, <3>2
    <3> QED
      BY <2>2, <3>3
  <2> QED
    BY <1>3, <2>7, <2>8
<1>4. CASE phase \notin {"plan", "sizing"}
  <2>1. sizes = PowersAsked
    BY <1>4 DEF Sweep
  <2>2. IsPrefix(sizes, PowersAsked)
    <3>1. Len(sizes) <= Len(PowersAsked)
      BY <1>1, <2>1, LenProperties
    <3> QED
      BY <1>1, <2>1, <3>1, PrefixIs
  <2> QED
    BY <1>4, <2>1, <2>2
<1> QED
  BY <1>2, <1>3, <1>4

(***************************************************************************)
(* Sequences of sequences, one after the other.                            *)
(***************************************************************************)

\* f(i) is the first i sequences of s, one after the other.
Flattens(f, s) == f[0] = <<>> /\ \A i \in 1 .. Len(s) : f[i] = f[i - 1] \o s[i]

(* There are such beginnings.                                              *)
LEMMA FlattenedIs ==
  ASSUME NEW T, NEW s \in Seq(Seq(T))
  PROVE  \E f \in [0 .. Len(s) -> Seq(T)] : Flattens(f, s)
<1> DEFINE n == Len(s)
           S == Seq(T)
           step == [p \in Nat \X S |-> IF p[1] + 1 \in 1 .. n THEN p[2] \o s[p[1] + 1] ELSE p[2]]
<1>1. n \in Nat /\ DOMAIN s = 1 .. n /\ \A i \in 1 .. n : s[i] \in S
  BY LenProperties, ElementOfSeq
<1>2. \A t, u \in S : t \o u \in S
  BY ConcatProperties
<1>3. <<>> \in S
  BY EmptySeq
<1> HIDE DEF S
<1>4. /\ step \in [Nat \X S -> S]
      /\ \A i \in Nat, t \in S : step[<<i, t>>] = IF i + 1 \in 1 .. n THEN t \o s[i + 1] ELSE t
  <2>1. \A p \in Nat \X S : p[1] \in Nat /\ p[2] \in S
    OBVIOUS
  <2> QED
    BY <1>1, <1>2, <2>1
<1> HIDE DEF step
<1>5. PICK f \in [Nat -> S] : Iteration(f, <<>>, step)
  BY <1>3, <1>4, Iterates
<1> DEFINE h == [i \in 0 .. n |-> f[i]]
<1>6. h \in [0 .. n -> S] /\ h[0] = <<>>
  BY <1>1, <1>5 DEF Iteration
<1>7. ASSUME NEW i \in 1 .. n PROVE h[i] = h[i - 1] \o s[i]
  <2>1. i - 1 \in Nat /\ (i - 1) + 1 = i /\ i - 1 \in 0 .. n /\ i \in 0 .. n
    BY <1>1
  <2>2. f[i] = step[<<i - 1, f[i - 1]>>] /\ f[i - 1] \in S
    BY <1>5, <2>1 DEF Iteration
  <2> QED
    BY <1>4, <2>1, <2>2
<1>8. Flattens(h, s)
  BY <1>6, <1>7 DEF Flattens
<1> HIDE DEF h
<1> QED
  BY <1>6, <1>8 DEF S

(* The last of them is the whole.                                          *)
LEMMA FlattenOnly ==
  ASSUME NEW T, NEW s \in Seq(Seq(T)), NEW f \in [0 .. Len(s) -> Seq(T)], Flattens(f, s)
  PROVE  FlattenSeq(s) = f[Len(s)] /\ FlattenSeq(s) \in Seq(T)
<1> DEFINE n == Len(s)
           Def(h) == h = [i \in 1 .. n |-> IF i = 1 THEN s[i] ELSE h[i - 1] \o s[i]]
<1>1. n \in Nat /\ DOMAIN s = 1 .. n /\ \A i \in 1 .. n : s[i] \in Seq(T)
  BY LenProperties, ElementOfSeq
<1>2. n > 0 => f[1] = s[1]
  <2> SUFFICES ASSUME n > 0 PROVE f[1] = s[1]
    OBVIOUS
  <2>1. 1 \in 1 .. n /\ f[1] = f[0] \o s[1] /\ f[0] = <<>>
    <3>1. 1 \in 1 .. n /\ 1 - 1 = 0
      BY <1>1
    <3>2. f[1] = f[1 - 1] \o s[1] /\ f[0] = <<>>
      BY <3>1 DEF Flattens
    <3> QED
      BY <3>1, <3>2
  <2>2. s[1] \in Seq(T)
    BY <1>1, <2>1
  <2> QED
    BY <2>1, <2>2, ConcatEmptySeq
<1>3. Def([i \in 1 .. n |-> f[i]])
  <2> DEFINE h == [i \in 1 .. n |-> f[i]]
  <2>1. ASSUME NEW i \in 1 .. n PROVE h[i] = IF i = 1 THEN s[i] ELSE h[i - 1] \o s[i]
    <3>1. CASE i = 1
      BY <1>1, <1>2, <3>1
    <3>2. CASE i # 1
      <4>1. i - 1 \in 1 .. n /\ f[i] = f[i - 1] \o s[i]
        BY <1>1, <3>2 DEF Flattens
      <4> QED
        BY <3>2, <4>1
    <3> QED
      BY <3>1, <3>2
  <2> QED
    BY <2>1
<1> DEFINE flat == CHOOSE h : Def(h)
<1>4. Def(flat)
  BY <1>3
<1>5. FlattenSeq(s) = IF n = 0 THEN s ELSE flat[n]
  BY DEF FlattenSeq
<1> HIDE DEF flat
<1>6. \A i \in 1 .. n : flat[i] = f[i]
  <2> DEFINE Exceptions == {i \in 1 .. n : flat[i] # f[i]}
  <2> SUFFICES ASSUME Exceptions # {} PROVE FALSE
    OBVIOUS
  <2>1. PICK i \in Exceptions : \A j \in Exceptions : i <= j
    <3>1. Exceptions \in SUBSET Nat
      BY <1>1
    <3> HIDE DEF Exceptions
    <3> QED
      BY <3>1, Least
  <2>2. i \in 1 .. n /\ flat[i] # f[i]
    BY <2>1
  <2>3. i # 1
    BY <1>2, <1>4, <2>2
  <2>4. i - 1 \in 1 .. n /\ ~ i <= i - 1
    BY <1>1, <2>2, <2>3
  <2>5. i - 1 \notin Exceptions
    <3> HIDE DEF Exceptions
    <3> QED
      BY <2>1, <2>4
  <2>6. flat[i - 1] = f[i - 1]
    BY <2>4, <2>5
  <2>7. flat[i] = flat[i - 1] \o s[i]
    BY <1>4, <2>2, <2>3
  <2>8. f[i] = f[i - 1] \o s[i]
    BY <2>2 DEF Flattens
  <2> QED
    BY <2>2, <2>6, <2>7, <2>8
<1>7. CASE n = 0
  <2>1. s = <<>> /\ f[0] = <<>>
    BY <1>7, EmptySeq DEF Flattens
  <2> QED
    BY <1>5, <1>7, <2>1, EmptySeq
<1>8. CASE n # 0
  <2>1. n \in 1 .. n /\ n \in 0 .. n
    BY <1>1, <1>8
  <2> QED
    BY <1>5, <1>6, <1>8, <2>1
<1> QED
  BY <1>7, <1>8

(* Three sequences in a row.                                               *)
LEMMA Associates ==
  ASSUME NEW T
  PROVE  \A x, y, z \in Seq(T) : x \o (y \o z) = (x \o y) \o z
<1> TAKE x, y, z \in Seq(T)
<1> QED
  BY ConcatAssociative

(* Two sequences of sequences make what each of them makes.                *)
LEMMA FlattenConcat ==
  ASSUME NEW T, NEW s \in Seq(Seq(T)), NEW t \in Seq(Seq(T))
  PROVE  /\ FlattenSeq(s) \in Seq(T) /\ FlattenSeq(t) \in Seq(T)
         /\ FlattenSeq(s \o t) = FlattenSeq(s) \o FlattenSeq(t)
<1>0. ASSUME NEW x \in Seq(T), NEW y \in Seq(T), NEW z \in Seq(T)
      PROVE  x \o (y \o z) = (x \o y) \o z
  BY Associates
<1> DEFINE n == Len(s)
           m == Len(t)
           u == s \o t
<1>1. PICK f \in [0 .. n -> Seq(T)] : Flattens(f, s)
  BY FlattenedIs
<1>2. PICK g \in [0 .. m -> Seq(T)] : Flattens(g, t)
  BY FlattenedIs
<1>3. /\ FlattenSeq(s) = f[n] /\ FlattenSeq(s) \in Seq(T)
      /\ FlattenSeq(t) = g[m] /\ FlattenSeq(t) \in Seq(T)
  BY <1>1, <1>2, FlattenOnly
<1>4. /\ n \in Nat /\ m \in Nat /\ u \in Seq(Seq(T)) /\ Len(u) = n + m
      /\ \A i \in 1 .. n : u[i] = s[i]
      /\ \A i \in 1 .. m : u[n + i] = t[i]
      /\ \A i \in 1 .. m : t[i] \in Seq(T)
  BY LenProperties, ConcatProperties, ElementOfSeq
<1> HIDE DEF u
<1> DEFINE h == [i \in 0 .. n + m |-> IF i <= n THEN f[i] ELSE f[n] \o g[i - n]]
<1>5. /\ f[n] \in Seq(T) /\ f[0] = <<>> /\ g[0] = <<>>
      /\ \A i \in 0 .. n : f[i] \in Seq(T)
      /\ \A i \in 0 .. m : g[i] \in Seq(T)
  <2>1. n \in 0 .. n
    BY <1>4
  <2>2. f[0] = <<>> /\ g[0] = <<>>
    BY <1>1, <1>2 DEF Flattens
  <2> QED
    BY <2>1, <2>2
<1>6. h \in [0 .. n + m -> Seq(T)]
  <2>1. ASSUME NEW i \in 0 .. n + m PROVE (IF i <= n THEN f[i] ELSE f[n] \o g[i - n]) \in Seq(T)
    <3>1. CASE i <= n
      <4>1. i \in 0 .. n
        BY <1>4, <3>1
      <4> QED
        BY <1>5, <3>1, <4>1
    <3>2. CASE ~ i <= n
      <4>1. g[i - n] \in Seq(T)
        BY <1>4, <1>5, <3>2
      <4> QED
        BY <1>5, <3>2, <4>1, ConcatProperties
    <3> QED
      BY <3>1, <3>2
  <2> QED
    BY <2>1
<1>7. h[0] = <<>>
  BY <1>4, <1>5
<1>8. h[n + m] = f[n] \o g[m]
  <2>1. CASE m = 0
    <3>1. h[n + m] = f[n]
      BY <1>4, <2>1
    <3>2. f[n] \o <<>> = f[n]
      BY <1>5, ConcatEmptySeq
    <3> QED
      BY <1>5, <2>1, <3>1, <3>2
  <2>2. CASE m # 0
    <3>1. ~ n + m <= n /\ n + m \in 0 .. n + m /\ (n + m) - n = m
      BY <1>4, <2>2
    <3> QED
      BY <3>1
  <2> QED
    BY <2>1, <2>2
<1>9. ASSUME NEW i \in 1 .. n + m PROVE h[i] = h[i - 1] \o u[i]
  <2>1. CASE i <= n
    <3>1. i \in 1 .. n /\ i - 1 <= n /\ i - 1 \in 0 .. n + m /\ i \in 0 .. n + m
      BY <1>4, <2>1
    <3>2. f[i] = f[i - 1] \o s[i]
      BY <1>1, <3>1 DEF Flattens
    <3> QED
      BY <1>4, <2>1, <3>1, <3>2
  <2>2. CASE ~ i <= n
    <3> DEFINE j == i - n
    <3>1. j \in 1 .. m /\ n + j = i /\ i - 1 \in 0 .. n + m /\ i \in 0 .. n + m /\ j - 1 \in 0 .. m
      BY <1>4, <2>2
    <3>2. u[i] = t[j] /\ t[j] \in Seq(T) /\ g[j] = g[j - 1] \o t[j] /\ g[j - 1] \in Seq(T)
      BY <1>2, <1>4, <1>5, <3>1 DEF Flattens
    <3>3. h[i] = f[n] \o g[j]
      BY <2>2, <3>1
    <3>4. h[i - 1] = f[n] \o g[j - 1]
      <4>1. CASE j = 1
        <5>1. i - 1 = n /\ j - 1 = 0
          BY <1>4, <3>1, <4>1
        <5>2. h[i - 1] = f[n] /\ g[j - 1] = <<>>
          BY <1>4, <1>5, <3>1, <5>1
        <5> QED
          BY <1>5, <5>2, ConcatEmptySeq
      <4>2. CASE j # 1
        <5>1. i \in Nat /\ n \in Nat
          BY <1>4
        <5>2. ~ i - 1 <= n /\ (i - 1) - n = j - 1
          BY <2>2, <4>2, <5>1
        <5> QED
          BY <3>1, <5>2
      <4> QED
        BY <4>1, <4>2
    <3>5. f[n] \o (g[j - 1] \o t[j]) = (f[n] \o g[j - 1]) \o t[j]
      <4>1. f[n] \in Seq(T) /\ g[j - 1] \in Seq(T) /\ t[j] \in Seq(T)
        BY <1>5, <3>2
      <4> QED
        BY <1>0, <4>1
    <3> HIDE DEF h, j
    <3> QED
      BY <3>2, <3>3, <3>4, <3>5
  <2> QED
    BY <2>1, <2>2
<1>10. Flattens(h, u)
  BY <1>4, <1>7, <1>9 DEF Flattens
<1> HIDE DEF h
<1>11. FlattenSeq(u) = h[n + m]
  <2>1. h \in [0 .. Len(u) -> Seq(T)]
    BY <1>4, <1>6
  <2> QED
    BY <1>4, <1>10, <2>1, FlattenOnly
<1> QED
  BY <1>3, <1>8, <1>11 DEF u

(* No sequence makes none, one itself, and the first comes first.          *)
LEMMA FlattenFirst ==
  ASSUME NEW T
  PROVE  /\ FlattenSeq(<<>>) = <<>>
         /\ \A x \in Seq(T) : FlattenSeq(<<x>>) = x
         /\ \A s \in Seq(Seq(T)) : s # <<>> => FlattenSeq(s) = Head(s) \o FlattenSeq(Tail(s))
<1>1. FlattenSeq(<<>>) = <<>>
  <2> DEFINE f == [i \in 0 .. 0 |-> <<>>]
  <2>1. <<>> \in Seq(Seq(T)) /\ Len(<<>>) = 0 /\ <<>> \in Seq(T) /\ f[0] = <<>>
    BY EmptySeq
  <2>2. f \in [0 .. 0 -> Seq(T)] /\ Flattens(f, <<>>)
    BY <2>1 DEF Flattens
  <2> HIDE DEF f
  <2> QED
    BY <2>1, <2>2, FlattenOnly
<1>2. ASSUME NEW x \in Seq(T) PROVE FlattenSeq(<<x>>) = x
  <2> DEFINE f == [i \in 0 .. 1 |-> IF i = 0 THEN <<>> ELSE x]
  <2>1. /\ <<x>> \in Seq(Seq(T)) /\ Len(<<x>>) = 1 /\ <<x>>[1] = x
        /\ <<>> \in Seq(T) /\ f[0] = <<>> /\ f[1] = x /\ <<>> \o x = x
    BY EmptySeq, ConcatEmptySeq
  <2>2. f \in [0 .. 1 -> Seq(T)]
    BY <2>1
  <2>3. Flattens(f, <<x>>)
    <3> HIDE DEF f
    <3>1. \A i \in 1 .. 1 : i = 1 /\ i - 1 = 0
      OBVIOUS
    <3> QED
      BY <2>1, <3>1 DEF Flattens
  <2> HIDE DEF f
  <2> QED
    BY <2>1, <2>2, <2>3, FlattenOnly
<1>3. ASSUME NEW s \in Seq(Seq(T)), s # <<>>
      PROVE  FlattenSeq(s) = Head(s) \o FlattenSeq(Tail(s))
  <2>1. /\ Head(s) \in Seq(T) /\ Tail(s) \in Seq(Seq(T)) /\ <<Head(s)>> \in Seq(Seq(T))
        /\ s = <<Head(s)>> \o Tail(s)
    BY <1>3, HeadTailProperties, ConcatSimplifications
  <2>2. FlattenSeq(<<Head(s)>> \o Tail(s)) = FlattenSeq(<<Head(s)>>) \o FlattenSeq(Tail(s))
    BY <2>1, FlattenConcat
  <2> QED
    BY <1>2, <2>1, <2>2
<1> QED
  BY <1>1, <1>2, <1>3

(***************************************************************************)
(* The loops over the plan.                                                *)
(***************************************************************************)

(* Nothing in Loops is about more than the plan and what is left of it.    *)
LEMMA LoopsKept ==
  ASSUME Loops, UNCHANGED <<cmd, phase, sizes, modes, left, rep, failures>>,
         exit' = "none" => exit = "none"
  PROVE  Loops'
  BY DEF Loops, Refused, PlannedModes, SingleRun

(* Every step keeps the loops' account.                                    *)
LEMMA LoopsStep == Typed /\ Loops /\ [Next]_vars => Loops'
<1> SUFFICES ASSUME Typed, Loops, [Next]_vars PROVE Loops'
  OBVIOUS
<1>1. CASE UNCHANGED vars
  <2>1. UNCHANGED <<cmd, phase, sizes, modes, left, rep, failures, exit>>
    BY <1>1 DEF vars, planVars, loopVars
  <2> QED
    BY <2>1, LoopsKept
<1>2. CASE Step /\ UNCHANGED cmd
  <2>0. UNCHANGED cmd /\ (Refused' <=> Refused) /\ PlannedModes' = PlannedModes
    BY <1>2 DEF Refused, PlannedModes
  <2>1. ASSUME NEW how \in {"error", "panic"}, End(how) PROVE Loops'
    BY <2>0, <2>1, LoopsKept DEF End, planVars, loopVars
  <2>2. CASE PlanRefused
    BY <2>1, <2>2 DEF PlanRefused
  <2>3. CASE PlanOneSize
    <3>1. left' = <<>> /\ failures' = <<>> /\ rep' = 0 /\ phase' = "open"
      BY <2>3 DEF PlanOneSize, Planned, Typed, Loops, In
    <3> QED
      BY <2>0, <2>3, <3>1 DEF PlanOneSize, Planned, Loops
  <2>4. CASE StartSizing
    <3>1. CASE End("panic")
      BY <2>1, <3>1
    <3>2. CASE phase' = "sizing" /\ UNCHANGED <<sizes, loopVars, termVars, exit>>
      <4>1. ~Refused /\ cmd.all /\ phase = "plan"
        BY <2>4 DEF StartSizing, In
      <4> QED
        BY <2>0, <3>2, <4>1 DEF Loops, loopVars
    <3> QED
      BY <2>4, <3>1, <3>2 DEF StartSizing
  <2>5. CASE PushSize \/ SizesDone
    <3>1. phase = "sizing" /\ ~Refused /\ cmd.all /\ rep = 0 /\ failures = <<>>
      BY <2>5 DEF PushSize, SizesDone, In, Loops
    <3>2. CASE End("error")
      BY <2>1, <3>2
    <3>3. CASE \E s : Planned(s)
      BY <2>0, <3>1, <3>3 DEF Planned, Loops
    <3>4. CASE PushSize /\ UNCHANGED <<phase, loopVars, termVars, exit>>
      BY <2>0, <3>1, <3>4 DEF Loops, loopVars
    <3> QED
      BY <2>5, <3>2, <3>3, <3>4 DEF PushSize, SizesDone
  <2>6. CASE OpenDevice
    <3>1. CASE End("error")
      BY <2>1, <3>1
    <3>2. CASE /\ phase' = IF SingleRun THEN "single" ELSE "table"
               /\ left' = IF SingleRun THEN sizes ELSE <<>>
               /\ UNCHANGED <<planVars, modes, rep, failures, termVars, exit>>
      <4>1. phase = "open"
        BY <2>6 DEF OpenDevice, In
      <4>2. SingleRun' <=> SingleRun
        BY <2>0, <3>2 DEF SingleRun, planVars
      <4>3. CASE SingleRun
        BY <2>0, <3>2, <4>1, <4>2, <4>3 DEF Loops, planVars
      <4>4. CASE ~SingleRun
        BY <2>0, <3>2, <4>1, <4>2, <4>4 DEF Loops, planVars
      <4> QED
        BY <4>3, <4>4
    <3> QED
      BY <2>6, <3>1, <3>2 DEF OpenDevice
  <2>7. CASE MakeSingle \/ PrintSingle
    <3>1. /\ phase \in {"single", "print"} /\ phase' \in {"single", "print"}
          /\ phase' = "single" => exit' # "none"
          /\ UNCHANGED <<planVars, modes, rep, failures>>
          /\ phase' = "single" => phase = "single"
      BY <2>7 DEF MakeSingle, PrintSingle, In, loopVars
    <3>2. SingleRun' <=> SingleRun
      BY <2>0, <3>1 DEF SingleRun, planVars
    <3> QED
      BY <2>0, <3>1, <3>2 DEF Loops, planVars
  <2>8. CASE StartTable \/ MakeRun \/ TableDone \/ Summary
    <3>1. /\ phase \in {"table", "runs"} /\ phase' \in {"table", "runs"} /\ UNCHANGED sizes
          /\ ~SingleRun
      BY <2>8 DEF StartTable, MakeRun, TableDone, Summary, In, planVars, Loops
    <3>2. ~SingleRun'
      BY <2>0, <3>1 DEF SingleRun
    <3> SUFFICES /\ phase' = "runs" =>
                      \A i \in DOMAIN left' : left'[i] >= MinMsgSize(Head(modes'))
                 /\ phase' # "runs" \/ left' = <<>> => rep' = 0
      BY <2>0, <3>1, <3>2 DEF Loops
    <3>3. CASE StartTable
      <4> DEFINE S == {s \in Range(sizes) : s >= MinMsgSize(Head(modes))}
      <4>1. left' \in Seq(S) /\ UNCHANGED <<modes, rep>> /\ phase = "table"
        BY <3>3, SizesForIs DEF StartTable, Typed, In
      <4>2. \A i \in DOMAIN left' : left'[i] \in S
        <5> HIDE DEF S
        <5>1. \A t \in Seq(S) : \A i \in DOMAIN t : t[i] \in S
          BY ElementOfSeq, LenProperties
        <5> QED
          BY <4>1, <5>1
      <4> QED
        BY <4>1, <4>2 DEF Loops
    <3>4. CASE MakeRun
      <4>1. /\ phase = "runs" /\ left # <<>> /\ left \in Seq(Range(sizes))
            /\ UNCHANGED <<phase, modes>> /\ RunDone
        BY <3>4 DEF MakeRun, In, Typed
      <4>2. CASE rep + 1 < cmd.runs
        BY <4>1, <4>2 DEF RunDone, Loops
      <4>3. CASE ~ rep + 1 < cmd.runs
        <5>1. rep' = 0 /\ left' = Tail(left)
          BY <4>1, <4>3 DEF RunDone
        <5>2. ASSUME NEW i \in DOMAIN left' PROVE left'[i] = left[i + 1] /\ i + 1 \in DOMAIN left
          <6>1. /\ Len(left) \in Nat /\ DOMAIN left = 1 .. Len(left) /\ Len(left') = Len(left) - 1
                /\ DOMAIN left' = 1 .. Len(left') /\ \A k \in 1 .. Len(left') : left'[k] = left[k + 1]
            BY <4>1, <5>1, HeadTailProperties, LenProperties
          <6> QED
            BY <6>1
        <5> QED
          BY <4>1, <5>1, <5>2 DEF Loops
      <4> QED
        BY <4>2, <4>3
    <3>5. CASE TableDone \/ Summary
      BY <3>5 DEF TableDone, Summary, In, Loops, loopVars
    <3> QED
      BY <2>8, <3>3, <3>4, <3>5
  <2> QED
    BY <1>2, <2>2, <2>3, <2>4, <2>5, <2>6, <2>7, <2>8 DEF Step
<1> QED
  BY <1>1, <1>2 DEF Next, Ended

(***************************************************************************)
(* The matrix of runs.                                                     *)
(***************************************************************************)

(* Two sequences in a row.                                                 *)
LEMMA JoinIs ==
  ASSUME NEW Q, NEW a \in Seq(Q), NEW b \in Seq(Q)
  PROVE  a \o b = [i \in 1 .. Len(a) + Len(b) |-> IF i <= Len(a) THEN a[i] ELSE b[i - Len(a)]]
<1> DEFINE c == a \o b
<1>1. /\ c \in Seq(Q) /\ Len(c) = Len(a) + Len(b)
      /\ \A i \in 1 .. Len(a) + Len(b) : c[i] = IF i <= Len(a) THEN a[i] ELSE b[i - Len(a)]
  BY ConcatProperties
<1> HIDE DEF c
<1>2. c = [i \in 1 .. Len(a) + Len(b) |-> c[i]]
  BY <1>1, LenProperties
<1>3. c = [i \in 1 .. Len(a) + Len(b) |-> IF i <= Len(a) THEN a[i] ELSE b[i - Len(a)]]
  BY <1>1, <1>2
<1> QED
  BY <1>3 DEF c

\* What f makes of the entries of s, one after the other.
Each(f, s) == FlattenSeq([i \in DOMAIN s |-> f[s[i]]])

\* The list of what f makes of each of them.
Mapped(f, s) == [i \in DOMAIN s |-> f[s[i]]]

(* It is a list of lists, as long as s.                                    *)
LEMMA MappedIs ==
  ASSUME NEW S, NEW T, NEW f \in [S -> Seq(T)], NEW s \in Seq(S)
  PROVE  Mapped(f, s) \in Seq(Seq(T))
<1>1. Len(s) \in Nat /\ DOMAIN s = 1 .. Len(s) /\ \A i \in 1 .. Len(s) : s[i] \in S
  BY LenProperties, ElementOfSeq
<1> QED
  BY <1>1 DEF Mapped

LEMMA MappedLength ==
  ASSUME NEW S, NEW s \in Seq(S), NEW f
  PROVE  Len(Mapped(f, s)) = Len(s) /\ DOMAIN s = 1 .. Len(s) /\ Len(s) \in Nat
<1>1. Len(s) \in Nat /\ DOMAIN s = 1 .. Len(s)
  BY LenProperties
<1> QED
  BY <1>1 DEF Mapped

(* What is made of s is a list.                                            *)
LEMMA EachType ==
  ASSUME NEW S, NEW T, NEW f \in [S -> Seq(T)], NEW s \in Seq(S)
  PROVE  Each(f, s) \in Seq(T)
<1>1. Mapped(f, s) \in Seq(Seq(T))
  BY MappedIs
<1>2. FlattenSeq(Mapped(f, s)) \in Seq(T)
  BY <1>1, FlattenConcat
<1> QED
  BY <1>2 DEF Each, Mapped

(* Nothing makes nothing, one entry what f makes of it.                    *)
LEMMA EachNone == ASSUME NEW f PROVE Each(f, <<>>) = <<>>
<1>1. Mapped(f, <<>>) = <<>>
  BY DEF Mapped
<1> QED
  BY <1>1, FlattenFirst DEF Each, Mapped

LEMMA EachOne ==
  ASSUME NEW S, NEW T, NEW f \in [S -> Seq(T)], NEW x \in S
  PROVE  Each(f, <<x>>) = f[x]
<1>1. Mapped(f, <<x>>) = <<f[x]>>
  BY DEF Mapped
<1>2. FlattenSeq(<<f[x]>>) = f[x]
  BY FlattenFirst
<1> QED
  BY <1>1, <1>2 DEF Each, Mapped

\* f makes sequences over T of what is in S.
Makes(f, S, T) == f \in [S -> Seq(T)]

(* Two sequences make what each of them makes.                             *)
LEMMA EachJoin ==
  ASSUME NEW S, NEW T, NEW f, Makes(f, S, T), NEW s \in Seq(S), NEW t \in Seq(S)
  PROVE  Each(f, s \o t) = Each(f, s) \o Each(f, t)
<1> USE DEF Makes
<1>1. /\ Mapped(f, s) \in Seq(Seq(T)) /\ Len(Mapped(f, s)) = Len(s)
      /\ DOMAIN s = 1 .. Len(s) /\ Len(s) \in Nat
      /\ Mapped(f, t) \in Seq(Seq(T)) /\ Len(Mapped(f, t)) = Len(t)
      /\ DOMAIN t = 1 .. Len(t) /\ Len(t) \in Nat
  <2>1. Mapped(f, s) \in Seq(Seq(T))
    BY MappedIs
  <2>2. Mapped(f, t) \in Seq(Seq(T))
    BY MappedIs
  <2>3. Len(Mapped(f, s)) = Len(s) /\ DOMAIN s = 1 .. Len(s) /\ Len(s) \in Nat
    BY MappedLength
  <2>4. Len(Mapped(f, t)) = Len(t) /\ DOMAIN t = 1 .. Len(t) /\ Len(t) \in Nat
    BY MappedLength
  <2> QED
    BY <2>1, <2>2, <2>3, <2>4
<1>2. Mapped(f, s \o t) = Mapped(f, s) \o Mapped(f, t)
  <2> DEFINE a == Mapped(f, s)  b == Mapped(f, t)  Q == Seq(T)
  <2>1. s \o t = [i \in 1 .. Len(s) + Len(t) |-> IF i <= Len(s) THEN s[i] ELSE t[i - Len(s)]]
    BY JoinIs
  <2>2. a \in Seq(Q) /\ b \in Seq(Q) /\ Len(a) = Len(s) /\ Len(b) = Len(t)
    BY <1>1
  <2>3. a \o b = [i \in 1 .. Len(a) + Len(b) |-> IF i <= Len(a) THEN a[i] ELSE b[i - Len(a)]]
    <3> HIDE DEF a, b, Q
    <3> QED
      BY <2>2, JoinIs
  <2>4. ASSUME NEW i \in 1 .. Len(s) + Len(t)
        PROVE  (IF i <= Len(s) THEN a[i] ELSE b[i - Len(s)])
                 = f[IF i <= Len(s) THEN s[i] ELSE t[i - Len(s)]]
    <3>1. i <= Len(s) => i \in DOMAIN s
      BY <1>1
    <3>2. ~ i <= Len(s) => i - Len(s) \in DOMAIN t
      BY <1>1
    <3> QED
      BY <3>1, <3>2 DEF Mapped
  <2>5. Mapped(f, s \o t) = [i \in 1 .. Len(s) + Len(t) |->
                         f[IF i <= Len(s) THEN s[i] ELSE t[i - Len(s)]]]
    BY <2>1 DEF Mapped
  <2>6. a \o b = [i \in 1 .. Len(s) + Len(t) |-> IF i <= Len(s) THEN a[i] ELSE b[i - Len(s)]]
    <3> HIDE DEF a, b
    <3> QED
      BY <2>2, <2>3
  <2> HIDE DEF a, b
  <2>7. [i \in 1 .. Len(s) + Len(t) |-> IF i <= Len(s) THEN a[i] ELSE b[i - Len(s)]]
        = [i \in 1 .. Len(s) + Len(t) |-> f[IF i <= Len(s) THEN s[i] ELSE t[i - Len(s)]]]
    BY <2>4
  <2>8. Mapped(f, s \o t) = a \o b
    BY <2>5, <2>6, <2>7
  <2> QED
    BY <2>8 DEF a, b
<1>3. FlattenSeq(Mapped(f, s) \o Mapped(f, t)) = FlattenSeq(Mapped(f, s)) \o FlattenSeq(Mapped(f, t))
  BY <1>1, FlattenConcat
<1> QED
  BY <1>2, <1>3 DEF Each, Mapped

(* One more entry comes last.                                              *)
LEMMA EachAppend ==
  ASSUME NEW S, NEW T, NEW f \in [S -> Seq(T)], NEW s \in Seq(S), NEW x \in S
  PROVE  Each(f, Append(s, x)) = Each(f, s) \o f[x]
<1>0. ASSUME NEW u \in Seq(S), NEW w \in Seq(S) PROVE Each(f, u \o w) = Each(f, u) \o Each(f, w)
  <2>1. Makes(f, S, T)
    BY DEF Makes
  <2> QED
    BY <2>1, EachJoin
<1> DEFINE b == <<x>>
<1>1. Append(s, x) = s \o b /\ b \in Seq(S)
  BY AppendIsConcat
<1>2. Each(f, b) = f[x]
  BY EachOne
<1> HIDE DEF b
<1>3. Each(f, s \o b) = Each(f, s) \o Each(f, b)
  BY <1>0, <1>1
<1> QED
  BY <1>1, <1>2, <1>3

(* The first entry comes first.                                            *)
LEMMA EachFirst ==
  ASSUME NEW S, NEW T, NEW f \in [S -> Seq(T)], NEW s \in Seq(S), s # <<>>
  PROVE  Each(f, s) = f[Head(s)] \o Each(f, Tail(s))
<1>0. ASSUME NEW u \in Seq(S), NEW w \in Seq(S) PROVE Each(f, u \o w) = Each(f, u) \o Each(f, w)
  <2>1. Makes(f, S, T)
    BY DEF Makes
  <2> QED
    BY <2>1, EachJoin
<1> DEFINE b == <<Head(s)>>
<1>1. Head(s) \in S /\ Tail(s) \in Seq(S) /\ b \in Seq(S) /\ s = b \o Tail(s)
  BY HeadTailProperties, ConcatSimplifications
<1>2. Each(f, b) = f[Head(s)]
  BY <1>1, EachOne
<1> HIDE DEF b
<1>3. Each(f, b \o Tail(s)) = Each(f, b) \o Each(f, Tail(s))
  BY <1>0, <1>1
<1> QED
  BY <1>1, <1>2, <1>3

Runs == Modes \X Word

\* The runs of a mode at one size.
RunsAt(n, mode, s) == IF s >= MinMsgSize(mode) THEN Times(n, <<mode, s>>) ELSE <<>>

(* As often as asked for, the first time and then the others.              *)
LEMMA TimesIs ==
  ASSUME NEW T, NEW x \in T, NEW n \in Nat
  PROVE  /\ Times(n, x) \in Seq(T)
         /\ n = 0 => Times(n, x) = <<>>
         /\ n > 0 => Times(n, x) # <<>> /\ Times(n, x) = <<x>> \o Times(n - 1, x)
<1>1. Times(n, x) \in Seq(T)
  BY DEF Times
<1>2. n = 0 => Times(n, x) = <<>>
  BY DEF Times
<1>3. ASSUME n > 0 PROVE Times(n, x) # <<>> /\ Times(n, x) = <<x>> \o Times(n - 1, x)
  <2>1. n - 1 \in Nat /\ Len(Times(n, x)) = n /\ Times(n - 1, x) \in Seq(T) /\ <<x>> \in Seq(T)
        /\ Len(Times(n - 1, x)) = n - 1 /\ Len(<<x>>) = 1
    BY <1>3 DEF Times
  <2> DEFINE r == <<x>> \o Times(n - 1, x)
  <2>2. r \in Seq(T) /\ Len(r) = n
        /\ \A i \in 1 .. n : r[i] = IF i <= 1 THEN <<x>>[i] ELSE Times(n - 1, x)[i - 1]
    BY <1>3, <2>1, ConcatProperties
  <2> HIDE DEF r
  <2>3. ASSUME NEW i \in 1 .. n PROVE r[i] = x
    <3>1. CASE i = 1
      BY <2>2, <3>1
    <3>2. CASE i # 1
      <4>1. i - 1 \in 1 .. n - 1 /\ ~ i <= 1
        BY <3>2
      <4> QED
        BY <2>2, <4>1 DEF Times
    <3> QED
      BY <3>1, <3>2
  <2>4. r = Times(n, x)
    <3>1. DOMAIN r = 1 .. n /\ r = [i \in 1 .. n |-> r[i]]
      BY <2>2, LenProperties
    <3> QED
      BY <2>3, <3>1 DEF Times
  <2>5. Times(n, x) # <<>>
    BY <1>3, <2>1
  <2> QED
    BY <2>4, <2>5 DEF r
<1> QED
  BY <1>1, <1>2, <1>3

\* RunsAt as a function of the sizes.
AtSize(n, mode) == [s \in Word |-> RunsAt(n, mode, s)]

(* The runs of a mode are its runs at each of the sizes, one by one.       *)
LEMMA RunsAtIs ==
  ASSUME NEW n \in Nat, NEW mode \in Modes
  PROVE  AtSize(n, mode) \in [Word -> Seq(Runs)]
<1>1. ASSUME NEW s \in Word PROVE RunsAt(n, mode, s) \in Seq(Runs)
  <2>1. <<mode, s>> \in Runs
    BY DEF Runs
  <2>2. Times(n, <<mode, s>>) \in Seq(Runs)
    BY <2>1, TimesIs
  <2>3. <<>> \in Seq(Runs)
    BY EmptySeq
  <2> QED
    BY <2>2, <2>3 DEF RunsAt
<1> QED
  BY <1>1 DEF AtSize

LEMMA RunsOfIs ==
  ASSUME NEW n, NEW mode, NEW ss \in Seq(Word)
  PROVE  RunsOf(n, mode, ss) = Each(AtSize(n, mode), ss)
<1>1. \A i \in DOMAIN ss : ss[i] \in Word
  BY LenProperties, ElementOfSeq
<1>2. [i \in DOMAIN ss |-> AtSize(n, mode)[ss[i]]]
        = [i \in DOMAIN ss |->
             IF ss[i] >= MinMsgSize(mode) THEN Times(n, <<mode, ss[i]>>) ELSE <<>>]
  BY <1>1 DEF RunsAt, AtSize
<1> QED
  BY <1>2 DEF Each, RunsOf

LEMMA RunsOfType ==
  ASSUME NEW n \in Nat, NEW mode \in Modes, NEW ss \in Seq(Word)
  PROVE  RunsOf(n, mode, ss) \in Seq(Runs)
<1>1. AtSize(n, mode) \in [Word -> Seq(Runs)]
  BY RunsAtIs
<1> QED
  BY <1>1, RunsOfIs, EachType

(* The runs of the first size come first, those of the last one last.      *)
LEMMA RunsFirst ==
  ASSUME NEW n \in Nat, NEW mode \in Modes, NEW ss \in Seq(Word), ss # <<>>
  PROVE  RunsOf(n, mode, ss) = RunsAt(n, mode, Head(ss)) \o RunsOf(n, mode, Tail(ss))
<1>1. AtSize(n, mode) \in [Word -> Seq(Runs)]
  BY RunsAtIs
<1>2. Head(ss) \in Word /\ Tail(ss) \in Seq(Word)
  BY HeadTailProperties
<1>3. AtSize(n, mode)[Head(ss)] = RunsAt(n, mode, Head(ss))
  BY <1>2 DEF AtSize
<1>4. RunsOf(n, mode, ss) = Each(AtSize(n, mode), ss)
      /\ RunsOf(n, mode, Tail(ss)) = Each(AtSize(n, mode), Tail(ss))
  BY <1>2, RunsOfIs
<1>5. Each(AtSize(n, mode), ss) = AtSize(n, mode)[Head(ss)] \o Each(AtSize(n, mode), Tail(ss))
  BY <1>1, EachFirst
<1> QED
  BY <1>3, <1>4, <1>5

LEMMA RunsAppend ==
  ASSUME NEW n \in Nat, NEW mode \in Modes, NEW ss \in Seq(Word), NEW s \in Word
  PROVE  RunsOf(n, mode, Append(ss, s)) = RunsOf(n, mode, ss) \o RunsAt(n, mode, s)
<1>1. AtSize(n, mode) \in [Word -> Seq(Runs)]
  BY RunsAtIs
<1>2. Append(ss, s) \in Seq(Word)
  BY AppendProperties
<1>3. AtSize(n, mode)[s] = RunsAt(n, mode, s)
  BY DEF AtSize
<1>4. RunsOf(n, mode, ss) = Each(AtSize(n, mode), ss)
      /\ RunsOf(n, mode, Append(ss, s)) = Each(AtSize(n, mode), Append(ss, s))
  BY <1>2, RunsOfIs
<1>5. Each(AtSize(n, mode), Append(ss, s)) = Each(AtSize(n, mode), ss) \o AtSize(n, mode)[s]
  BY <1>1, EachAppend
<1> QED
  BY <1>3, <1>4, <1>5

LEMMA RunsNone == ASSUME NEW n, NEW mode PROVE RunsOf(n, mode, <<>>) = <<>>
<1>1. <<>> \in Seq(Word)
  BY EmptySeq
<1> QED
  BY <1>1, RunsOfIs, EachNone

(* Leaving the sizes out that a mode cannot run, as run_suite does before  *)
(* it makes the table, leaves no run out of the matrix.                    *)
LEMMA NoRunIsLeftOut ==
  ASSUME sizes \in Seq(Word), NEW n \in Nat, NEW mode \in Modes
  PROVE  RunsOf(n, mode, SizesFor(mode)) = RunsOf(n, mode, sizes)
<1> DEFINE m == Len(sizes)
           Pre(i) == SubSeq(sizes, 1, i)
<1>1. PICK k \in [0 .. m -> Seq(Fitting(mode))] : Keeps(k, mode) /\ SizesFor(mode) = k[m]
  BY KeptIs
<1>2. m \in Nat /\ DOMAIN sizes = 1 .. m /\ \A i \in 1 .. m : sizes[i] \in Word
  BY LenProperties, ElementOfSeq
<1>3. \A i \in 0 .. m : k[i] \in Seq(Word)
  <2>1. Fitting(mode) \subseteq Word
    BY <1>2 DEF Fitting, Range
  <2>2. Seq(Fitting(mode)) \subseteq Seq(Word)
    BY <2>1, SeqMonotonic
  <2> QED
    BY <2>2
<1>4. Pre(0) = <<>> /\ Pre(m) = sizes
  BY <1>2, SubSeqEmpty, SubSeqFull
<1>5. ASSUME NEW i \in 1 .. m
      PROVE  Pre(i - 1) \in Seq(Word) /\ Pre(i) = Append(Pre(i - 1), sizes[i])
  <2>1. Pre(i - 1) \in Seq(Word)
    <3>1. i - 1 \in Int /\ \A j \in 1 .. i - 1 : sizes[j] \in Word
      BY <1>2
    <3> QED
      BY <3>1, SubSeqProperties
  <2>2. Pre(i) = Pre(i - 1) \o <<sizes[i]>>
    <3>1. 1 \in 1 .. Len(sizes) /\ i \in 1 .. Len(sizes)
      BY <1>2
    <3> QED
      BY <3>1, SubSeqRecursiveSecond
  <2>3. sizes[i] \in Word
    BY <1>2
  <2> HIDE DEF Pre
  <2> QED
    BY <2>1, <2>2, <2>3, AppendIsConcat
<1> HIDE DEF Pre
<1>6. \A i \in 0 .. m : RunsOf(n, mode, k[i]) = RunsOf(n, mode, Pre(i))
  <2> DEFINE Exceptions == {i \in 0 .. m : RunsOf(n, mode, k[i]) # RunsOf(n, mode, Pre(i))}
  <2> SUFFICES ASSUME Exceptions # {} PROVE FALSE
    OBVIOUS
  <2>1. PICK i \in Exceptions : \A j \in Exceptions : i <= j
    <3>1. Exceptions \in SUBSET Nat
      BY <1>2
    <3> HIDE DEF Exceptions
    <3> QED
      BY <3>1, Least
  <2>2. i # 0
    BY <1>1, <1>4, <2>1 DEF Keeps
  <2>3. i \in 1 .. m /\ i - 1 \in 0 .. m
    BY <1>2, <2>1, <2>2
  <2>4. RunsOf(n, mode, k[i - 1]) = RunsOf(n, mode, Pre(i - 1))
    <3>1. i - 1 \notin Exceptions
      <4>1. ~ i <= i - 1
        BY <2>3
      <4> HIDE DEF Exceptions
      <4> QED
        BY <2>1, <4>1
    <3> QED
      BY <2>3, <3>1
  <2>5. RunsOf(n, mode, Pre(i)) = RunsOf(n, mode, Pre(i - 1)) \o RunsAt(n, mode, sizes[i])
    BY <1>2, <1>5, <2>3, RunsAppend
  <2>6. RunsOf(n, mode, k[i]) = RunsOf(n, mode, k[i - 1]) \o RunsAt(n, mode, sizes[i])
    <3>1. k[i - 1] \in Seq(Word) /\ sizes[i] \in Word
      BY <1>2, <1>3, <2>3
    <3>2. CASE sizes[i] >= MinMsgSize(mode)
      <4>1. k[i] = Append(k[i - 1], sizes[i])
        BY <1>1, <2>3, <3>2 DEF Keeps
      <4> QED
        BY <3>1, <4>1, RunsAppend
    <3>3. CASE ~ sizes[i] >= MinMsgSize(mode)
      <4>1. k[i] = k[i - 1] /\ RunsAt(n, mode, sizes[i]) = <<>>
        BY <1>1, <2>3, <3>3 DEF Keeps, RunsAt
      <4>2. RunsOf(n, mode, k[i - 1]) \in Seq(Runs)
        BY <3>1, RunsOfType
      <4> QED
        BY <4>1, <4>2, ConcatEmptySeq
    <3> QED
      BY <3>2, <3>3
  <2> QED
    BY <2>1, <2>4, <2>5, <2>6
<1> QED
  BY <1>1, <1>2, <1>4, <1>6

(* A size that the mode can run has all its runs.                          *)
LEMMA NextRuns ==
  ASSUME NEW n \in Nat, NEW mode \in Modes, NEW ss \in Seq(Word), ss # <<>>,
         Head(ss) >= MinMsgSize(mode)
  PROVE  RunsOf(n, mode, ss) = Times(n, <<mode, Head(ss)>>) \o RunsOf(n, mode, Tail(ss))
  BY RunsFirst DEF RunsAt

\* RunsOf as a function of the modes.
OfMode(n, ss) == [mode \in Modes |-> RunsOf(n, mode, ss)]

(* The runs of the tables are those of the first and those of the others.  *)
LEMMA TablesOfIs ==
  ASSUME NEW n, NEW ss, NEW ms \in Seq(Modes)
  PROVE  TablesOf(n, ms, ss) = Each(OfMode(n, ss), ms)
<1>1. \A i \in DOMAIN ms : ms[i] \in Modes
  BY LenProperties, ElementOfSeq
<1>2. [i \in DOMAIN ms |-> OfMode(n, ss)[ms[i]]] = [i \in DOMAIN ms |-> RunsOf(n, ms[i], ss)]
  BY <1>1 DEF OfMode
<1> QED
  BY <1>2 DEF Each, TablesOf

LEMMA OfModeIs ==
  ASSUME NEW n \in Nat, NEW ss \in Seq(Word)
  PROVE  OfMode(n, ss) \in [Modes -> Seq(Runs)]
  BY RunsOfType DEF OfMode

LEMMA TablesType ==
  ASSUME NEW n \in Nat, NEW ss \in Seq(Word), NEW ms \in Seq(Modes)
  PROVE  TablesOf(n, ms, ss) \in Seq(Runs)
<1>1. OfMode(n, ss) \in [Modes -> Seq(Runs)]
  BY OfModeIs
<1>2. Each(OfMode(n, ss), ms) \in Seq(Runs)
  BY <1>1, EachType
<1>3. TablesOf(n, ms, ss) = Each(OfMode(n, ss), ms)
  BY TablesOfIs
<1> QED
  BY <1>2, <1>3

LEMMA TablesNone == ASSUME NEW n, NEW ss PROVE TablesOf(n, <<>>, ss) = <<>>
<1>1. <<>> \in Seq(Modes)
  BY EmptySeq
<1>2. TablesOf(n, <<>>, ss) = Each(OfMode(n, ss), <<>>)
  BY <1>1, TablesOfIs
<1> QED
  BY <1>2, EachNone

LEMMA TablesFirst ==
  ASSUME NEW n \in Nat, NEW ss \in Seq(Word), NEW ms \in Seq(Modes), ms # <<>>
  PROVE  TablesOf(n, ms, ss) = RunsOf(n, Head(ms), ss) \o TablesOf(n, Tail(ms), ss)
<1>1. OfMode(n, ss) \in [Modes -> Seq(Runs)]
  BY OfModeIs
<1>2. Head(ms) \in Modes /\ Tail(ms) \in Seq(Modes)
  BY HeadTailProperties
<1>3. OfMode(n, ss)[Head(ms)] = RunsOf(n, Head(ms), ss)
  BY <1>2 DEF OfMode
<1>4. TablesOf(n, ms, ss) = Each(OfMode(n, ss), ms)
      /\ TablesOf(n, Tail(ms), ss) = Each(OfMode(n, ss), Tail(ms))
  BY <1>2, TablesOfIs
<1>5. Each(OfMode(n, ss), ms) = OfMode(n, ss)[Head(ms)] \o Each(OfMode(n, ss), Tail(ms))
  BY <1>1, EachFirst
<1> QED
  BY <1>3, <1>4, <1>5

(* Once there is a plan, it has the sizes asked for, and the process knows *)
(* whether a lone run is.                                                  *)
LEMMA PlanIs ==
  ASSUME Typed, Sweep, Loops, ~Wrapped, phase \notin {"plan", "sizing"}
  PROVE  sizes = SizesAsked /\ (SingleRun <=> LoneAsked)
<1>1. ~Refused /\ cmd.all \in BOOLEAN
  BY CommandIs DEF Loops, Typed
<1>2. sizes = SizesAsked
  BY <1>1 DEF Sweep, Loops, SizesAsked
<1> QED
  BY <1>2 DEF SingleRun, LoneAsked

(* What is asked for never changes.                                        *)
LEMMA AskedStays ==
  ASSUME UNCHANGED cmd
  PROVE  /\ RunsAsked' = RunsAsked
         /\ LoneAsked' = LoneAsked
         /\ ~Wrapped => ~Wrapped'
<1>1. PowersAsked' = PowersAsked /\ (Wrapped' <=> Wrapped)
  BY CommandStays
<1>2. PlannedModes' = PlannedModes /\ (Refused' <=> Refused)
  BY DEF Refused, PlannedModes
<1>3. SizesAsked' = SizesAsked
  BY <1>1, <1>2 DEF SizesAsked
<1>4. LoneAsked' <=> LoneAsked
  BY <1>2, <1>3 DEF LoneAsked
<1>5. RunsAsked' = RunsAsked
  BY <1>2, <1>3, <1>4 DEF RunsAsked
<1>6. LoneAsked' = LoneAsked
  BY <1>4 DEF LoneAsked
<1> QED
  BY <1>1, <1>5, <1>6

(* A lone run is the only one asked for.                                   *)
LEMMA LoneIs ==
  ASSUME LoneAsked
  PROVE  \E r : RunsAsked = <<r>>
  BY DEF RunsAsked

(***************************************************************************)
(* A client process implements the matrix of runs.                         *)
(***************************************************************************)

\* What a step starts from that is to be a step of the matrix.
Ready == Typed /\ Sweep /\ Loops /\ ~Wrapped

(* A step that changes none of what Matrix.tla sees.                       *)
LEMMA MatrixStutters ==
  ASSUME UNCHANGED <<cmd, exit, failures>>, Due' = Due,
         phase = "single" \/ phase' = "single" => exit # "error"
  PROVE  UNCHANGED Abstract!vars
<1>1. RunsAsked' = RunsAsked /\ LoneAsked' = LoneAsked
  BY AskedStays
<1> QED
  BY <1>1 DEF Abstract!vars

(* The process ends before anything was run.                               *)
LEMMA MatrixRefuses ==
  ASSUME NEW how \in {"error", "panic"}, UNCHANGED <<cmd, phase, failures>>, exit = "none",
         exit' = how, phase \in {"plan", "sizing", "open"}
  PROVE  Abstract!Next
<1>1. RunsAsked' = RunsAsked /\ LoneAsked' = LoneAsked
  BY AskedStays
<1>2. Due = RunsAsked /\ Due' = RunsAsked'
  BY DEF Due
<1> QED
  BY <1>1, <1>2 DEF Abstract!Next, Abstract!Refuse

(* The steps of the plan.                                                  *)
LEMMA MatrixPlan ==
  ASSUME Ready, UNCHANGED cmd,
         PlanRefused \/ PlanOneSize \/ StartSizing \/ PushSize \/ SizesDone
  PROVE  [Abstract!Next]_Abstract!vars
<1>1. exit = "none" /\ phase \in {"plan", "sizing"}
  BY DEF PlanRefused, PlanOneSize, StartSizing, PushSize, SizesDone, In
<1>2. CASE \E how \in {"error", "panic"} : End(how)
  BY <1>1, <1>2, MatrixRefuses DEF End, loopVars
<1>3. CASE UNCHANGED <<exit, failures>> /\ phase' \in {"sizing", "open"}
  <2>1. RunsAsked' = RunsAsked
    BY AskedStays
  <2>2. Due' = Due
    BY <1>1, <1>3, <2>1 DEF Due
  <2> QED
    BY <1>1, <1>3, <2>2, MatrixStutters
<1>4. \A s : Planned(s) => UNCHANGED <<exit, failures>> /\ phase' = "open"
  BY DEF Planned
<1>5. CASE PlanRefused
  BY <1>2, <1>5 DEF PlanRefused
<1>6. CASE PlanOneSize
  BY <1>3, <1>4, <1>6 DEF PlanOneSize
<1>7. CASE StartSizing
  BY <1>2, <1>3, <1>7 DEF StartSizing, loopVars
<1>8. CASE PushSize
  BY <1>1, <1>3, <1>4, <1>8 DEF PushSize, In, loopVars
<1>9. CASE SizesDone
  BY <1>2, <1>3, <1>4, <1>9 DEF SizesDone
<1> QED
  BY <1>5, <1>6, <1>7, <1>8, <1>9

(* The device is opened, and the loops begin with all the runs before them.*)
LEMMA AllIsDue ==
  ASSUME Ready, UNCHANGED cmd, OpenDevice, exit' = "none"
  PROVE  /\ Due = RunsAsked /\ Due' = RunsAsked
         /\ phase' = "table" => RunsAsked \in Seq(Runs)
<1>1. phase = "open"
  BY DEF OpenDevice, In
<1>2. /\ phase' = IF SingleRun THEN "single" ELSE "table"
      /\ left' = IF SingleRun THEN sizes ELSE <<>>
      /\ UNCHANGED <<sizes, modes, rep>>
  BY DEF OpenDevice, End, planVars
<1>3. RunsAsked' = RunsAsked
  BY AskedStays
<1>4. Due = RunsAsked
  BY <1>1 DEF Due
<1>5. sizes = SizesAsked /\ (SingleRun <=> LoneAsked) /\ modes = PlannedModes
  BY <1>1, PlanIs DEF Ready, Loops
<1>6. CASE SingleRun
  <2>1. sizes # <<>>
    BY <1>6 DEF SingleRun
  <2>2. Due' = RunsAsked'
    BY <1>2, <1>6, <2>1 DEF Due
  <2> QED
    BY <1>2, <1>3, <1>4, <1>6, <2>2
<1>7. CASE ~SingleRun
  <2>1. RunsAsked = TablesOf(cmd.runs, modes, sizes)
    BY <1>5, <1>7 DEF RunsAsked
  <2>2. Due' = TablesOf(cmd.runs, modes, sizes)
    BY <1>2, <1>7 DEF Due
  <2>3. TablesOf(cmd.runs, modes, sizes) \in Seq(Runs)
    BY CommandIs, TablesType DEF Ready, Typed
  <2> QED
    BY <1>4, <2>1, <2>2, <2>3
<1> QED
  BY <1>6, <1>7

LEMMA MatrixOpen ==
  ASSUME Ready, UNCHANGED cmd, OpenDevice
  PROVE  [Abstract!Next]_Abstract!vars
<1>1. exit = "none" /\ phase = "open" /\ UNCHANGED failures
  BY DEF OpenDevice, In, End, loopVars
<1>2. CASE End("error")
  BY <1>1, <1>2, MatrixRefuses DEF End
<1>3. CASE UNCHANGED exit
  BY <1>1, <1>3, AllIsDue, MatrixStutters
<1> QED
  BY <1>2, <1>3 DEF OpenDevice

(* A list of one entry has none behind the first.                          *)
LEMMA OneEntry ==
  ASSUME NEW S, NEW s \in Seq(S), Len(s) = 1
  PROVE  s # <<>> /\ Tail(s) = <<>>
<1>1. s # <<>>
  OBVIOUS
<1>2. Tail(s) \in Seq(S) /\ Len(Tail(s)) = 0
  BY <1>1, HeadTailProperties
<1>3. Tail(s) = <<>>
  BY <1>2, EmptySeq
<1> QED
  BY <1>1, <1>3

(* A lone run: whether it fails is how the client ends.                    *)
LEMMA MatrixSingle ==
  ASSUME Ready, UNCHANGED cmd, MakeSingle \/ PrintSingle
  PROVE  [Abstract!Next]_Abstract!vars
<1>1. RunsAsked' = RunsAsked /\ LoneAsked' = LoneAsked
  BY AskedStays
<1>2. exit = "none" /\ phase \in {"single", "print"} /\ LoneAsked
  <2>1. exit = "none" /\ phase \in {"single", "print"}
    BY DEF MakeSingle, PrintSingle, In
  <2> QED
    BY <2>1, PlanIs DEF Ready, Loops
<1>3. PICK r : RunsAsked = <<r>>
  BY <1>2, LoneIs
<1>4. CASE MakeSingle
  <2>1. phase = "single" /\ Len(left) = 1 /\ left \in Seq(Range(sizes)) /\ failures = <<>>
    BY <1>2, <1>4 DEF MakeSingle, In, Ready, Typed, Loops
  <2>2. left # <<>> /\ Tail(left) = <<>>
    BY <2>1, OneEntry
  <2>3. Due = RunsAsked
    BY <2>1, <2>2 DEF Due
  <2>4. left' = <<>> /\ UNCHANGED failures
    BY <1>4, <2>2 DEF MakeSingle
  <2>5. phase' \in {"single", "print"}
    BY <1>4, <2>1 DEF MakeSingle
  <2>6. Due' = <<>>
    BY <2>4, <2>5 DEF Due
  <2>7. \/ exit' = "error" /\ phase' = "single"
        \/ exit' = "none" /\ phase' = "print"
    BY <1>2, <1>4, <2>1 DEF MakeSingle
  <2>8. Tail(<<r>>) = <<>> /\ Head(<<r>>) = r /\ Append(<<>>, r) = <<r>> /\ <<r>> # <<>>
    OBVIOUS
  <2>9. CASE exit' = "error" /\ phase' = "single"
    BY <1>1, <1>2, <1>3, <2>1, <2>3, <2>4, <2>6, <2>8, <2>9 DEF Abstract!Next, Abstract!Make
  <2>10. CASE exit' = "none" /\ phase' = "print"
    BY <1>1, <1>2, <1>3, <2>1, <2>3, <2>4, <2>6, <2>8, <2>10 DEF Abstract!Next, Abstract!Make
  <2> QED
    BY <2>7, <2>9, <2>10
<1>5. CASE PrintSingle
  <2>1. /\ phase = "print" /\ left = <<>> /\ exit' = "ok"
        /\ UNCHANGED <<phase, left, failures>>
    BY <1>5 DEF PrintSingle, In, Ready, Typed, planVars, loopVars
  <2>2. Due = <<>> /\ Due' = <<>>
    BY <2>1 DEF Due
  <2> QED
    BY <1>1, <1>2, <2>1, <2>2 DEF Abstract!Next, Abstract!Finish
<1> QED
  BY <1>4, <1>5

(* The table of a mode is begun with all of the mode's runs before it.     *)
LEMMA TableBegins ==
  ASSUME NEW n \in Nat, NEW mode \in Modes, NEW ss \in Seq(Word),
         \A i \in DOMAIN ss : ss[i] >= MinMsgSize(mode)
  PROVE  (IF ss = <<>> THEN <<>>
          ELSE Times(n, <<mode, Head(ss)>>) \o RunsOf(n, mode, Tail(ss))) = RunsOf(n, mode, ss)
<1>1. CASE ss = <<>>
  BY <1>1, RunsNone
<1>2. CASE ss # <<>>
  <2>1. 1 \in DOMAIN ss /\ Head(ss) = ss[1]
    BY <1>2, LenProperties
  <2>2. Head(ss) >= MinMsgSize(mode)
    BY <2>1
  <2> QED
    BY <1>2, <2>2, NextRuns
<1> QED
  BY <1>1, <1>2

(* The heading of a table: the sizes it leaves out have no runs.           *)
LEMMA TableIsDue ==
  ASSUME Ready, UNCHANGED cmd, StartTable
  PROVE  Due' = Due
<1> DEFINE mode == Head(modes)
           n == cmd.runs
           rest == TablesOf(n, Tail(modes), sizes)
<1>1. /\ exit = "none" /\ phase = "table" /\ modes # <<>> /\ left' = SizesFor(mode)
      /\ phase' = "runs" /\ UNCHANGED <<sizes, modes, rep, failures, exit>> /\ rep = 0
  BY DEF StartTable, In, Ready, Loops, planVars
<1>2. n \in Nat /\ sizes \in Seq(Word) /\ modes \in Seq(Modes)
  BY CommandIs DEF Ready, Typed
<1>3. mode \in Modes
  BY <1>1, <1>2, HeadTailProperties
<1>4. left' \in Seq(Word) /\ \A i \in DOMAIN left' : left'[i] >= MinMsgSize(mode)
  <2> DEFINE S == {s \in Range(sizes) : s >= MinMsgSize(mode)}
  <2>1. left' \in Seq(S)
    BY <1>1, <1>2, SizesForIs
  <2>2. S \subseteq Word
    BY <1>2, LenProperties, ElementOfSeq DEF Range
  <2>3. \A i \in DOMAIN left' : left'[i] \in S
    <3> HIDE DEF S
    <3>1. \A t \in Seq(S) : \A i \in DOMAIN t : t[i] \in S
      BY ElementOfSeq, LenProperties
    <3> QED
      BY <2>1, <3>1
  <2>4. Seq(S) \subseteq Seq(Word)
    <3> HIDE DEF S
    <3> QED
      BY <2>2, SeqMonotonic
  <2> QED
    BY <2>1, <2>3, <2>4
<1>5. Due = RunsOf(n, mode, sizes) \o rest
  <2>1. Due = TablesOf(n, modes, sizes)
    BY <1>1 DEF Due
  <2> QED
    BY <1>1, <1>2, <2>1, TablesFirst
<1>6. Due' = RunsOf(n, mode, left') \o rest
  <2> DEFINE now == IF left' = <<>> THEN <<>>
                    ELSE Times(n, <<mode, Head(left')>>) \o RunsOf(n, mode, Tail(left'))
  <2>1. Due' = now \o rest
    <3>1. n - rep = n
      BY <1>1, <1>2
    <3> QED
      BY <1>1, <3>1 DEF Due
  <2>2. now = RunsOf(n, mode, left')
    BY <1>2, <1>3, <1>4, TableBegins
  <2> QED
    BY <2>1, <2>2
<1>7. RunsOf(n, mode, left') = RunsOf(n, mode, sizes)
  BY <1>1, <1>2, <1>3, NoRunIsLeftOut
<1> QED
  BY <1>5, <1>6, <1>7

LEMMA MatrixTable ==
  ASSUME Ready, UNCHANGED cmd, StartTable
  PROVE  [Abstract!Next]_Abstract!vars
<1>1. exit = "none" /\ phase = "table" /\ phase' = "runs" /\ UNCHANGED <<exit, failures>>
  BY DEF StartTable, In
<1> QED
  BY <1>1, TableIsDue, MatrixStutters

(* What stands behind an entry is the rest.                                *)
LEMMA FirstIs ==
  ASSUME NEW S, NEW r \in S, NEW q \in Seq(S)
  PROVE  /\ <<r>> \o q # <<>> /\ Head(<<r>> \o q) = r /\ Tail(<<r>> \o q) = q
<1>1. \A u, v \in Seq(S) :
        /\ u \o v \in Seq(S) /\ Len(u \o v) = Len(u) + Len(v)
        /\ \A i \in 1 .. Len(u) + Len(v) : (u \o v)[i] = IF i <= Len(u) THEN u[i] ELSE v[i - Len(u)]
  BY ConcatProperties
<1> DEFINE x == <<r>>  y == x \o q
<1>2. x \in Seq(S) /\ Len(x) = 1 /\ x[1] = r /\ Len(q) \in Nat
  BY LenProperties
<1> HIDE DEF x
<1>3. /\ y \in Seq(S) /\ Len(y) = Len(q) + 1 /\ y[1] = r
      /\ \A i \in 1 .. Len(q) + 1 : ~ i <= 1 => y[i] = q[i - 1]
  <2>1. /\ x \o q \in Seq(S) /\ Len(x \o q) = Len(x) + Len(q)
        /\ \A i \in 1 .. Len(x) + Len(q) : (x \o q)[i] = IF i <= Len(x) THEN x[i] ELSE q[i - Len(x)]
    BY <1>1, <1>2
  <2>2. /\ y \in Seq(S) /\ Len(y) = Len(x) + Len(q)
        /\ \A i \in 1 .. Len(x) + Len(q) : y[i] = IF i <= Len(x) THEN x[i] ELSE q[i - Len(x)]
    BY <2>1
  <2> HIDE DEF y
  <2> QED
    BY <1>2, <2>2
<1> HIDE DEF y
<1>4. y # <<>> /\ Head(y) = r
  BY <1>2, <1>3, LenProperties
<1>5. /\ Tail(y) \in Seq(S) /\ Len(Tail(y)) = Len(q)
      /\ \A i \in 1 .. Len(q) : Tail(y)[i] = y[i + 1]
  BY <1>2, <1>3, <1>4, HeadTailProperties
<1>6. \A i \in 1 .. Len(q) : Tail(y)[i] = q[i]
  <2>1. \A i \in 1 .. Len(q) : i + 1 \in 1 .. Len(q) + 1 /\ ~ i + 1 <= 1 /\ (i + 1) - 1 = i
    BY <1>2
  <2> QED
    BY <1>3, <1>5, <2>1
<1>7. Tail(y) = q
  BY <1>5, <1>6, SeqEqual
<1> QED
  BY <1>4, <1>7 DEF x, y

\* d is r and the lists a, b and c in a row.
InARow(d, r, a, b, c) == d = ((<<r>> \o a) \o b) \o c

(* The first of several lists in a row begins with r.                      *)
LEMMA FirstOfAll ==
  ASSUME NEW S, NEW r \in S, NEW a \in Seq(S), NEW b \in Seq(S), NEW c \in Seq(S),
         NEW d, InARow(d, r, a, b, c)
  PROVE  d # <<>> /\ Head(d) = r /\ Tail(d) = (a \o b) \o c
<1>1. \A u, v, w \in Seq(S) : u \o (v \o w) = (u \o v) \o w
  BY Associates, SMTT(60)
<1>2. \A u, v \in Seq(S) : u \o v \in Seq(S)
  BY ConcatProperties
<1> DEFINE x == <<r>>  q == (a \o b) \o c
<1>3. x \in Seq(S)
  OBVIOUS
<1>4. d = ((x \o a) \o b) \o c
  BY DEF InARow
<1> HIDE DEF x
<1>5. a \o b \in Seq(S) /\ q \in Seq(S)
  BY <1>2
<1>6. d = x \o q
  <2>1. (x \o a) \o b = x \o (a \o b)
    BY <1>1, <1>3, SMTT(60)
  <2>2. x \o ((a \o b) \o c) = (x \o (a \o b)) \o c
    BY <1>1, <1>3, <1>5, SMTT(60)
  <2> QED
    BY <1>4, <2>1, <2>2
<1> HIDE DEF q
<1>7. d # <<>> /\ Head(d) = r /\ Tail(d) = q
  BY <1>3, <1>5, <1>6, FirstIs DEF x
<1> QED
  BY <1>7 DEF q

(* A run is the next of the matrix.                                        *)
LEMMA RunIsDue ==
  ASSUME Ready, UNCHANGED cmd, MakeRun
  PROVE  /\ Due # <<>> /\ Head(Due) = <<Head(modes), Head(left)>> /\ Tail(Due) = Due'
         /\ Due \in Seq(Runs)
<1> DEFINE mode == Head(modes)
           n == cmd.runs
           run == <<mode, Head(left)>>
           again == Times(n - rep - 1, run)
           table == RunsOf(n, mode, Tail(left))
           rest == TablesOf(n, Tail(modes), sizes)
<1>1. /\ exit = "none" /\ phase = "runs" /\ left # <<>> /\ modes # <<>>
      /\ UNCHANGED <<phase, sizes, modes, exit>> /\ RunDone
      /\ \A i \in DOMAIN left : left[i] >= MinMsgSize(mode)
  BY DEF MakeRun, In, Ready, Loops, Typed, planVars
<1>2. /\ n \in Nat \ {0} /\ rep \in 0 .. n - 1 /\ sizes \in Seq(Word) /\ modes \in Seq(Modes)
      /\ left \in Seq(Word)
  <2>1. left \in Seq(Range(sizes)) /\ Range(sizes) \subseteq Word
    BY LenProperties, ElementOfSeq DEF Range, Ready, Typed
  <2>2. Seq(Range(sizes)) \subseteq Seq(Word)
    BY <2>1, SeqMonotonic
  <2> QED
    BY <2>1, <2>2, CommandIs DEF Ready, Typed
<1>3. mode \in Modes /\ Tail(modes) \in Seq(Modes) /\ Head(left) \in Word /\ Tail(left) \in Seq(Word)
  BY <1>1, <1>2, HeadTailProperties
<1>4. run \in Runs /\ again \in Seq(Runs) /\ table \in Seq(Runs) /\ rest \in Seq(Runs)
  <2>1. run \in Runs
    BY <1>3 DEF Runs
  <2>2. n - rep - 1 \in Nat
    BY <1>2
  <2>3. again \in Seq(Runs)
    BY <2>1, <2>2, TimesIs
  <2>4. table \in Seq(Runs)
    BY <1>2, <1>3, RunsOfType
  <2>5. rest \in Seq(Runs)
    BY <1>2, <1>3, TablesType
  <2> QED
    BY <2>1, <2>3, <2>4, <2>5
<1>5. Due = ((<<run>> \o again) \o table) \o rest
  <2>1. n - rep \in Nat /\ n - rep > 0 /\ (n - rep) - 1 = n - rep - 1
    BY <1>2
  <2>2. Times(n - rep, run) = <<run>> \o again
    BY <1>4, <2>1, TimesIs
  <2> QED
    BY <1>1, <2>2 DEF Due
<1>6. Due' = (again \o table) \o rest
  <2>1. CASE rep + 1 < n
    <3>1. rep' = rep + 1 /\ left' = left /\ n - (rep + 1) = n - rep - 1
      BY <1>1, <1>2, <2>1 DEF RunDone
    <3> QED
      BY <1>1, <3>1 DEF Due
  <2>2. CASE ~ rep + 1 < n
    <3>1. rep' = 0 /\ left' = Tail(left)
      BY <1>1, <2>2 DEF RunDone
    <3>2. again = <<>>
      <4>1. n - rep - 1 = 0
        BY <1>2, <2>2
      <4>2. again = Times(0, run)
        BY <4>1
      <4> QED
        BY <4>2 DEF Times
    <3>3. <<>> \o table = table
      BY <1>4, ConcatEmptySeq
    <3>4. \A i \in DOMAIN Tail(left) : Tail(left)[i] >= MinMsgSize(mode)
      <4>1. /\ Len(left) \in Nat /\ DOMAIN left = 1 .. Len(left)
            /\ Len(Tail(left)) = Len(left) - 1 /\ DOMAIN Tail(left) = 1 .. Len(Tail(left))
            /\ \A i \in 1 .. Len(Tail(left)) : Tail(left)[i] = left[i + 1]
        BY <1>1, <1>2, <1>3, HeadTailProperties, LenProperties
      <4>2. \A i \in 1 .. Len(left) - 1 : i + 1 \in 1 .. Len(left)
        BY <4>1
      <4> QED
        BY <1>1, <4>1, <4>2
    <3> DEFINE now == IF Tail(left) = <<>> THEN <<>>
                      ELSE Times(n, <<mode, Head(Tail(left))>>) \o RunsOf(n, mode, Tail(Tail(left)))
    <3>5. Due' = now \o rest
      <4>1. n - 0 = n
        BY <1>2
      <4> QED
        BY <1>1, <3>1, <4>1 DEF Due
    <3>6. now = table
      BY <1>2, <1>3, <3>4, TableBegins
    <3> QED
      BY <3>2, <3>3, <3>5, <3>6
  <2> QED
    BY <2>1, <2>2
<1>7. Due # <<>> /\ Head(Due) = run /\ Tail(Due) = (again \o table) \o rest
  <2> DEFINE due == Due
  <2>1. due = ((<<run>> \o again) \o table) \o rest
    BY <1>5
  <2> HIDE DEF run, again, table, rest, due
  <2>2. due # <<>> /\ Head(due) = run /\ Tail(due) = (again \o table) \o rest
    BY <1>4, <2>1, FirstOfAll DEF InARow
  <2> QED
    BY <2>2 DEF due
<1>8. Due \in Seq(Runs)
  <2>1. <<run>> \in Seq(Runs)
    BY <1>4
  <2> DEFINE r == <<run>>
  <2> HIDE DEF r, again, table, rest
  <2>2. ((r \o again) \o table) \o rest \in Seq(Runs)
    BY <1>4, <2>1, ConcatProperties DEF r
  <2> QED
    BY <1>5, <2>2 DEF r
<1> QED
  BY <1>6, <1>7, <1>8

(* It is made, whatever becomes of it.                                     *)
LEMMA MatrixRun ==
  ASSUME Ready, UNCHANGED cmd, MakeRun
  PROVE  [Abstract!Next]_Abstract!vars
<1>1. exit = "none" /\ phase = "runs" /\ UNCHANGED <<phase, exit>>
  BY DEF MakeRun, In
<1>2. \/ UNCHANGED failures
      \/ failures' = Append(failures, <<Head(modes), Head(left)>>)
  BY DEF MakeRun, Noted
<1>3. ~LoneAsked
  BY <1>1, PlanIs DEF Ready, Loops
<1>4. RunsAsked' = RunsAsked /\ LoneAsked' = LoneAsked
  BY AskedStays
<1> QED
  BY <1>1, <1>2, <1>3, <1>4, RunIsDue DEF Abstract!Next, Abstract!Make

(* The end of a table, and of the last one.                                *)
LEMMA NoneIsDue ==
  ASSUME Ready, UNCHANGED cmd
  PROVE  /\ TableDone => Due' = Due
         /\ Summary => Due = <<>> /\ Due' = <<>>
<1>1. cmd.runs \in Nat /\ sizes \in Seq(Word) /\ modes \in Seq(Modes)
  BY CommandIs DEF Ready, Typed
<1>2. ASSUME TableDone PROVE Due' = Due
  <2>1. /\ exit = "none" /\ phase = "runs" /\ left = <<>> /\ modes # <<>>
        /\ modes' = Tail(modes) /\ phase' = "table" /\ UNCHANGED sizes
    BY <1>2 DEF TableDone, In, Ready, Typed, planVars
  <2>2. TablesOf(cmd.runs, Tail(modes), sizes) \in Seq(Runs)
    BY <1>1, <2>1, HeadTailProperties, TablesType
  <2>3. Due = TablesOf(cmd.runs, Tail(modes), sizes)
    BY <2>1, <2>2, ConcatEmptySeq DEF Due
  <2>4. Due' = TablesOf(cmd.runs, Tail(modes), sizes)
    BY <2>1 DEF Due
  <2> QED
    BY <2>3, <2>4
<1>3. ASSUME Summary PROVE Due = <<>> /\ Due' = <<>>
  <2>1. phase = "table" /\ modes = <<>> /\ UNCHANGED <<phase, sizes, modes>>
    BY <1>3 DEF Summary, In, planVars, loopVars
  <2> QED
    BY <2>1, TablesNone DEF Due
<1> QED
  BY <1>2, <1>3

LEMMA MatrixEnds ==
  ASSUME Ready, UNCHANGED cmd, TableDone \/ Summary
  PROVE  [Abstract!Next]_Abstract!vars
<1>1. RunsAsked' = RunsAsked /\ LoneAsked' = LoneAsked
  BY AskedStays
<1>2. CASE TableDone
  <2>1. /\ exit = "none" /\ phase = "runs" /\ phase' = "table" /\ UNCHANGED <<failures, exit>>
    BY <1>2 DEF TableDone, In
  <2> QED
    BY <1>2, <2>1, NoneIsDue, MatrixStutters
<1>3. CASE Summary
  <2>1. /\ exit = "none" /\ phase = "table" /\ exit' = "ok" /\ UNCHANGED <<phase, failures>>
    BY <1>3 DEF Summary, In, loopVars
  <2> QED
    BY <1>1, <1>3, <2>1, NoneIsDue DEF Abstract!Next, Abstract!Finish
<1> QED
  BY <1>2, <1>3

(* Each step of a client process is one of the matrix of runs, or none.    *)
LEMMA MatrixStep == Ready /\ [Next]_vars => [Abstract!Next]_Abstract!vars
<1> SUFFICES ASSUME Ready, [Next]_vars PROVE [Abstract!Next]_Abstract!vars
  OBVIOUS
<1>1. CASE UNCHANGED vars
  <2>1. UNCHANGED <<cmd, phase, sizes, modes, left, rep, failures, exit>>
    BY <1>1 DEF vars, planVars, loopVars
  <2>2. RunsAsked' = RunsAsked /\ LoneAsked' = LoneAsked
    BY <2>1, AskedStays
  <2>3. Due' = Due
    BY <2>1, <2>2 DEF Due
  <2> QED
    BY <2>1, <2>2, <2>3 DEF Abstract!vars
<1>2. CASE Step /\ UNCHANGED cmd
  BY <1>2, MatrixPlan, MatrixOpen, MatrixSingle, MatrixTable, MatrixRun, MatrixEnds DEF Step
<1> QED
  BY <1>1, <1>2 DEF Next, Ended

(***************************************************************************)
(* What the lines tell.                                                    *)
(***************************************************************************)

(* A set of numbers up to i has a greatest one.                            *)
LEMMA MaxIs ==
  ASSUME NEW i \in Nat, NEW S \in SUBSET (1 .. i), S # {}
  PROVE  Max(S) \in S /\ \A j \in S : j <= Max(S)
<1> DEFINE Bounds == {k \in Nat : \A j \in S : j <= k}
<1>1. Bounds \in SUBSET Nat /\ i \in Bounds
  OBVIOUS
<1>2. PICK k \in Bounds : \A b \in Bounds : k <= b
  <2> HIDE DEF Bounds
  <2> QED
    BY <1>1, Least
<1>3. k \in S
  <2> SUFFICES ASSUME k \notin S PROVE FALSE
    OBVIOUS
  <2>1. PICK j \in S : TRUE
    OBVIOUS
  <2>2. j \in Nat /\ j >= 1 /\ j <= k /\ k \in Nat
    BY <1>2
  <2>3. k - 1 \in Nat
    BY <2>2
  <2>4. \A h \in S : h <= k - 1
    <3>1. \A h \in S : h \in Nat /\ h <= k /\ h # k
      BY <1>2
    <3> QED
      BY <2>2, <3>1
  <2>5. k - 1 \in Bounds
    BY <2>3, <2>4
  <2>6. k <= k - 1
    <3> HIDE DEF Bounds
    <3> QED
      BY <1>2, <2>5
  <2> QED
    BY <2>2, <2>6
<1>4. \E x \in S : \A y \in S : x >= y
  BY <1>2, <1>3
<1>5. Max(S) \in S /\ \A y \in S : Max(S) >= y
  BY <1>4 DEF Max
<1> QED
  BY <1>5

(* The heading above a line is one of the lines up to it.                  *)
LEMMA HeadingIs ==
  ASSUME NEW X, NEW ls \in Seq(X), Headed(ls), NEW i \in 1 .. Len(ls)
  PROVE  Max({j \in 1 .. i : ls[j].line = "header"}) \in 1 .. i
<1> DEFINE S == {j \in 1 .. i : ls[j].line = "header"}
<1>1. Len(ls) \in Nat
  BY LenProperties
<1>2. i \in Nat /\ 1 \in 1 .. i
  BY <1>1
<1>3. S \in SUBSET (1 .. i) /\ S # {}
  BY <1>2 DEF Headed
<1> HIDE DEF S
<1>4. Max(S) \in S
  BY <1>2, <1>3, MaxIs
<1> QED
  BY <1>3, <1>4 DEF S

(* Another line changes nothing for the lines above it.                    *)
LEMMA TitleStays ==
  ASSUME NEW X, NEW ls \in Seq(X), NEW x \in X, Headed(ls), NEW i \in 1 .. Len(ls)
  PROVE  Title(Append(ls, x), i) = Title(ls, i)
<1>1. Len(ls) \in Nat /\ \A j \in 1 .. Len(ls) : Append(ls, x)[j] = ls[j]
  BY AppendProperties, LenProperties
<1>2. {j \in 1 .. i : Append(ls, x)[j].line = "header"} = {j \in 1 .. i : ls[j].line = "header"}
  BY <1>1
<1>3. Max({j \in 1 .. i : ls[j].line = "header"}) \in 1 .. Len(ls)
  <2>1. Max({j \in 1 .. i : ls[j].line = "header"}) \in 1 .. i
    BY HeadingIs
  <2> DEFINE m == Max({j \in 1 .. i : ls[j].line = "header"})
  <2> HIDE DEF m
  <2>2. m \in 1 .. i
    BY <2>1 DEF m
  <2>3. m \in 1 .. Len(ls)
    BY <1>1, <2>2
  <2> QED
    BY <2>3 DEF m
<1> DEFINE m == Max({j \in 1 .. i : ls[j].line = "header"})
<1>4. Title(Append(ls, x), i) = Append(ls, x)[m].about /\ Title(ls, i) = ls[m].about
  BY <1>2 DEF Title
<1>5. m \in 1 .. Len(ls)
  BY <1>3
<1> HIDE DEF m
<1> QED
  BY <1>1, <1>4, <1>5

(* It stands below the same heading as the one before it, or is a heading. *)
LEMMA TitleBelow ==
  ASSUME NEW X, NEW ls \in Seq(X), NEW x \in X, Headed(ls), x.line # "header"
  PROVE  Title(Append(ls, x), Len(ls) + 1) = Title(ls, Len(ls))
<1> DEFINE n == Len(ls)
<1>1. /\ n \in Nat \ {0} /\ Append(ls, x)[n + 1] = x
      /\ \A j \in 1 .. n : Append(ls, x)[j] = ls[j]
  BY AppendProperties, EmptySeq, LenProperties DEF Headed
<1> HIDE DEF n
<1>2. {j \in 1 .. n + 1 : Append(ls, x)[j].line = "header"} = {j \in 1 .. n : ls[j].line = "header"}
  <2>1. \A j \in 1 .. n + 1 : j \in 1 .. n \/ j = n + 1
    BY <1>1
  <2>2. 1 .. n \subseteq 1 .. n + 1
    BY <1>1
  <2> QED
    BY <1>1, <2>1, <2>2
<1>3. Max({j \in 1 .. n : ls[j].line = "header"}) \in 1 .. n
  <2>1. n \in 1 .. Len(ls)
    BY <1>1 DEF n
  <2> QED
    BY <2>1, HeadingIs
<1> DEFINE m == Max({j \in 1 .. n : ls[j].line = "header"})
<1>4. Title(Append(ls, x), n + 1) = Append(ls, x)[m].about /\ Title(ls, n) = ls[m].about
  BY <1>2 DEF Title
<1>5. m \in 1 .. n
  BY <1>3
<1> HIDE DEF m
<1>6. Title(Append(ls, x), n + 1) = Title(ls, n)
  BY <1>1, <1>4, <1>5
<1> QED
  BY <1>6 DEF n

LEMMA TitleOwn ==
  ASSUME NEW X, NEW ls \in Seq(X), NEW x \in X, x.line = "header"
  PROVE  Title(Append(ls, x), Len(ls) + 1) = x.about
<1> DEFINE n == Len(ls)
           S == {j \in 1 .. n + 1 : Append(ls, x)[j].line = "header"}
<1>1. n \in Nat /\ Append(ls, x)[n + 1] = x
  BY AppendProperties, LenProperties
<1> HIDE DEF n
<1>2. n + 1 \in S /\ S \in SUBSET (1 .. n + 1) /\ n + 1 \in Nat
  <2>1. Append(ls, x)[n + 1].line = "header"
    BY <1>1
  <2>2. n + 1 \in 1 .. n + 1 /\ n + 1 \in Nat
    BY <1>1
  <2> QED
    BY <2>1, <2>2
<1>3. Max(S) \in S /\ \A j \in S : j <= Max(S)
  <2> HIDE DEF S
  <2> QED
    BY <1>2, MaxIs
<1>4. Max(S) = n + 1
  <2> DEFINE m == Max(S)
  <2> HIDE DEF m
  <2>1. m \in 1 .. n + 1 /\ n + 1 <= m
    BY <1>2, <1>3 DEF m
  <2>2. m = n + 1
    BY <1>1, <2>1
  <2> QED
    BY <2>2 DEF m
<1> QED
  BY <1>1, <1>4 DEF Title, n

\* The run that line i of ls tells of, if it is of the kinds ks.
Tale(ls, ks, i) == IF ls[i].line \in ks THEN << <<Title(ls, i), ls[i].about>> >> ELSE <<>>

\* What lines can tell.
Tales(ls) == {<<Title(ls, i), ls[i].about>> : i \in DOMAIN ls}

(* What is told is a list of runs, line by line.                           *)
LEMMA TalesAre ==
  ASSUME NEW X, NEW ls \in Seq(X), NEW ks
  PROVE  [i \in DOMAIN ls |-> Tale(ls, ks, i)] \in Seq(Seq(Tales(ls)))
<1>1. Len(ls) \in Nat /\ DOMAIN ls = 1 .. Len(ls)
  BY LenProperties
<1>2. ASSUME NEW i \in 1 .. Len(ls) PROVE Tale(ls, ks, i) \in Seq(Tales(ls))
  <2> DEFINE r == <<Title(ls, i), ls[i].about>>
  <2>1. r \in Tales(ls)
    BY <1>1 DEF Tales
  <2>2. <<>> \in Seq(Tales(ls)) /\ <<r>> \in Seq(Tales(ls))
    <3> HIDE DEF r
    <3> QED
      BY <2>1
  <2> QED
    BY <2>2 DEF Tale
<1> QED
  BY <1>1, <1>2

LEMMA ToldIs ==
  ASSUME NEW X, NEW ls \in Seq(X), NEW ks
  PROVE  Told(ls, ks) \in Seq(Tales(ls))
<1> DEFINE t == [i \in DOMAIN ls |-> Tale(ls, ks, i)]
<1>1. t \in Seq(Seq(Tales(ls)))
  BY TalesAre
<1>2. Told(ls, ks) = FlattenSeq(t)
  BY DEF Told, Tale
<1> HIDE DEF t
<1> QED
  BY <1>1, <1>2, FlattenConcat

LEMMA ToldNothing == ASSUME NEW ks PROVE Told(<<>>, ks) = <<>>
<1>1. [i \in DOMAIN <<>> |-> Tale(<<>>, ks, i)] = <<>>
  OBVIOUS
<1> QED
  BY <1>1, FlattenFirst DEF Told, Tale

(* What one more line tells comes last.                                    *)
LEMMA ToldAppend ==
  ASSUME NEW X, NEW ls \in Seq(X), NEW x \in X, NEW ks, "header" \notin ks,
         Headed(ls) \/ (ls = <<>> /\ x.line = "header")
  PROVE  Told(Append(ls, x), ks) =
           Told(ls, ks) \o IF x.line \in ks THEN << <<Title(ls, Len(ls)), x.about>> >> ELSE <<>>
<1> DEFINE n == Len(ls)
           more == Append(ls, x)
           T == Tales(more)
           old == [i \in DOMAIN ls |-> Tale(ls, ks, i)]
           new == IF x.line \in ks THEN << <<Title(ls, Len(ls)), x.about>> >> ELSE <<>>
           all == [i \in DOMAIN more |-> Tale(more, ks, i)]
<1>1. /\ n \in Nat /\ DOMAIN ls = 1 .. n /\ more \in Seq(X) /\ DOMAIN more = 1 .. n + 1
      /\ more[n + 1] = x /\ \A i \in 1 .. n : more[i] = ls[i]
  BY AppendProperties, LenProperties
<1>2. all \in Seq(Seq(T))
  BY <1>1, TalesAre
<1>3. all[n + 1] = new
  <2>1. all[n + 1] = Tale(more, ks, n + 1)
    BY <1>1
  <2>2. CASE x.line \in ks
    <3>1. Headed(ls) /\ x.line # "header"
      BY <2>2
    <3>2. Title(more, n + 1) = Title(ls, n)
      BY <3>1, TitleBelow
    <3> QED
      BY <1>1, <2>1, <2>2, <3>2 DEF Tale
  <2>3. CASE x.line \notin ks
    BY <1>1, <2>1, <2>3 DEF Tale
  <2> QED
    BY <2>2, <2>3
<1>4. ASSUME NEW i \in 1 .. n PROVE all[i] = old[i]
  <2>1. i \in 1 .. n + 1
    BY <1>1
  <2>2. Headed(ls)
    BY <1>1
  <2>3. Title(more, i) = Title(ls, i)
    BY <2>2, TitleStays
  <2> QED
    BY <1>1, <2>1, <2>3 DEF Tale
<1>5. old \in Seq(Seq(T)) /\ Len(old) = n /\ new \in Seq(T)
  <2>1. \A i \in 1 .. n + 1 : all[i] \in Seq(T)
    <3> HIDE DEF all, T
    <3>1. Len(all) = n + 1
      BY <1>1 DEF all
    <3> QED
      BY <1>2, <3>1, ElementOfSeq
  <2>2. n + 1 \in 1 .. n + 1 /\ \A i \in 1 .. n : i \in 1 .. n + 1
    BY <1>1
  <2>3. new \in Seq(T) /\ \A i \in 1 .. n : old[i] \in Seq(T)
    <3> HIDE DEF all, old, new, T, n
    <3> QED
      BY <1>3, <1>4, <2>1, <2>2
  <2> HIDE DEF new, T
  <2>4. old \in Seq(Seq(T)) /\ Len(old) = n
    BY <1>1, <2>3
  <2> QED
    BY <2>3, <2>4
<1>6. all = Append(old, new)
  <2>1. all = [i \in 1 .. n + 1 |-> all[i]]
    BY <1>1
  <2>2. Append(old, new) = [i \in 1 .. n + 1 |-> Append(old, new)[i]]
    <3> DEFINE Q == Seq(T)
    <3>1. old \in Seq(Q) /\ new \in Q
      BY <1>5
    <3> HIDE DEF Q, old, new
    <3>2. Append(old, new) \in Seq(Q) /\ Len(Append(old, new)) = n + 1
      BY <1>5, <3>1, AppendProperties
    <3> QED
      BY <3>2, LenProperties
  <2>3. Append(old, new)[n + 1] = new /\ \A i \in 1 .. n : Append(old, new)[i] = old[i]
    <3> DEFINE Q == Seq(T)
    <3>1. old \in Seq(Q) /\ new \in Q
      BY <1>5
    <3> HIDE DEF Q, old, new
    <3> QED
      BY <1>5, <3>1, AppendProperties
  <2>4. \A i \in 1 .. n + 1 : i \in 1 .. n \/ i = n + 1
    BY <1>1
  <2> HIDE DEF all, old, new, n
  <2>5. \A i \in 1 .. n + 1 : all[i] = Append(old, new)[i]
    BY <1>3, <1>4, <2>3, <2>4
  <2> QED
    BY <2>1, <2>2, <2>5
<1>7. Told(more, ks) = FlattenSeq(all) /\ Told(ls, ks) = FlattenSeq(old)
  BY DEF Told, Tale
<1> HIDE DEF all, old, new, T
<1>8. FlattenSeq(old \o <<new>>) = FlattenSeq(old) \o FlattenSeq(<<new>>)
  <2>1. <<new>> \in Seq(Seq(T))
    BY <1>5
  <2> QED
    BY <1>5, <2>1, FlattenConcat
<1>9. FlattenSeq(<<new>>) = new /\ Append(old, new) = old \o <<new>>
  BY <1>5, FlattenFirst, AppendIsConcat
<1> HIDE DEF more
<1>10. Told(more, ks) = Told(ls, ks) \o new
  BY <1>6, <1>7, <1>8, <1>9
<1> QED
  BY <1>10 DEF new, more

\* One line.
OneLine(what, about) == [line |-> what, about |-> about]

(* A line is appended.                                                     *)
LEMMA LineIsAppended ==
  ASSUME NEW ls, IsText(ls), NEW what, NEW about
  PROVE  \E X : /\ ls \in Seq(X) /\ OneLine(what, about) \in X
                /\ ls \o Line(what, about) = Append(ls, OneLine(what, about))
<1> DEFINE x == OneLine(what, about)
           X == Range(ls) \cup {x}
<1>1. ls \in Seq(Range(ls)) /\ Range(ls) \subseteq X /\ x \in X
  BY DEF IsText
<1>2. Line(what, about) = <<x>>
  BY DEF Line, OneLine
<1> HIDE DEF x, X
<1>3. ls \in Seq(X)
  BY <1>1, SeqMonotonic
<1>4. ls \o <<x>> = Append(ls, x)
  BY <1>1, <1>3, AppendIsConcat
<1>5. ls \in Seq(X) /\ x \in X /\ ls \o Line(what, about) = Append(ls, x)
  BY <1>1, <1>2, <1>3, <1>4
<1> QED
  BY <1>5 DEF x

\* More text below the same heading, that tells of the runs rs besides.
Grown(ls, more, ks, rs) ==
  /\ IsText(more) /\ Headed(more)
  /\ Title(more, Len(more)) = Title(ls, Len(ls))
  /\ Told(more, ks) = Told(ls, ks) \o rs

(* A line tells of its run, if it is of the kinds looked at.               *)
LEMMA LineTells ==
  ASSUME NEW ls, IsText(ls), Headed(ls), NEW what \in Kinds \ {"header"}, NEW about,
         NEW ks, "header" \notin ks
  PROVE  Grown(ls, ls \o Line(what, about), ks,
               IF what \in ks THEN << <<Title(ls, Len(ls)), about>> >> ELSE <<>>)
<1> DEFINE x == OneLine(what, about)
           more == ls \o Line(what, about)
<1>1. PICK X : ls \in Seq(X) /\ x \in X /\ more = Append(ls, x)
  BY LineIsAppended
<1>2. x.line = what /\ x.about = about
  BY DEF OneLine
<1>3. IsText(more)
  <2>1. IsText(Line(what, about))
    BY Printed
  <2> QED
    BY <2>1, Joined
<1> HIDE DEF x, more
<1>4. Len(more) = Len(ls) + 1 /\ more # <<>> /\ \A i \in 1 .. Len(ls) : more[i] = ls[i]
  BY <1>1, AppendProperties
<1>5. Headed(more)
  <2>1. 1 \in 1 .. Len(ls)
    BY <1>1, EmptySeq, LenProperties DEF Headed
  <2> QED
    BY <1>4, <2>1 DEF Headed
<1>6. Title(more, Len(more)) = Title(ls, Len(ls))
  BY <1>1, <1>2, <1>4, TitleBelow
<1>7. Told(more, ks) = Told(ls, ks) \o IF x.line \in ks THEN << <<Title(ls, Len(ls)), x.about>> >> ELSE <<>>
  BY <1>1, ToldAppend
<1> QED
  BY <1>2, <1>3, <1>5, <1>6, <1>7 DEF Grown, more

(* No line tells nothing.                                                  *)
LEMMA NothingTells ==
  ASSUME NEW ls, IsText(ls), Headed(ls), NEW ks
  PROVE  ls \o <<>> = ls /\ Grown(ls, ls, ks, <<>>)
<1>1. ls \in Seq(Range(ls))
  BY DEF IsText
<1>2. Told(ls, ks) \in Seq(Tales(ls))
  BY <1>1, ToldIs
<1>3. Told(ls, ks) \o <<>> = Told(ls, ks)
  BY <1>2, ConcatEmptySeq
<1>4. ls \o <<>> = ls
  BY <1>1, ConcatEmptySeq
<1> QED
  BY <1>3, <1>4 DEF Grown

(* A heading tells of no run, and the lines below it are about its mode.   *)
LEMMA HeadingTells ==
  ASSUME NEW ls, IsText(ls), ls = <<>> \/ Headed(ls), NEW about, NEW more,
         more = ls \o Line("header", about)
  PROVE  /\ Headed(more) /\ Title(more, Len(more)) = about
         /\ \A ks : "header" \notin ks => Told(more, ks) = Told(ls, ks)
<1> DEFINE x == OneLine("header", about)
<1>1. PICK X : ls \in Seq(X) /\ x \in X /\ more = Append(ls, x)
  BY LineIsAppended
<1>2. x.line = "header" /\ x.about = about
  BY DEF OneLine
<1> HIDE DEF x
<1>3. /\ Len(ls) \in Nat /\ Len(more) = Len(ls) + 1 /\ more # <<>> /\ more[Len(ls) + 1] = x
      /\ \A i \in 1 .. Len(ls) : more[i] = ls[i]
  BY <1>1, AppendProperties, LenProperties
<1>4. Headed(more)
  <2>1. CASE ls = <<>>
    BY <1>2, <1>3, <2>1 DEF Headed
  <2>2. CASE Headed(ls)
    <3>1. 1 \in 1 .. Len(ls)
      BY <1>1, <2>2, EmptySeq, LenProperties DEF Headed
    <3> QED
      BY <1>3, <2>2, <3>1 DEF Headed
  <2> QED
    BY <2>1, <2>2
<1>5. Title(more, Len(more)) = about
  <2>1. Title(Append(ls, x), Len(ls) + 1) = x.about
    BY <1>1, <1>2, TitleOwn
  <2> QED
    BY <1>1, <1>2, <1>3, <2>1
<1>6. ASSUME NEW ks, "header" \notin ks PROVE Told(more, ks) = Told(ls, ks)
  <2> DEFINE new == IF x.line \in ks THEN << <<Title(ls, Len(ls)), x.about>> >> ELSE <<>>
  <2>1. Told(more, ks) = Told(ls, ks) \o new
    <3>1. Headed(ls) \/ (ls = <<>> /\ x.line = "header")
      BY <1>2
    <3>2. Told(Append(ls, x), ks) = Told(ls, ks) \o new
      BY <1>1, <1>6, <3>1, ToldAppend
    <3> QED
      BY <1>1, <3>2
  <2>2. Told(ls, ks) \in Seq(Tales(ls))
    BY <1>1, ToldIs
  <2>3. Told(ls, ks) \o <<>> = Told(ls, ks)
    BY <2>2, ConcatEmptySeq
  <2> QED
    BY <1>2, <1>6, <2>1, <2>3
<1> QED
  BY <1>4, <1>5, <1>6

(* Text in a row, whichever way it is put together.                        *)
LEMMA TextInARow ==
  ASSUME NEW a, NEW b, NEW c, IsText(a), IsText(b), IsText(c)
  PROVE  a \o (b \o c) = (a \o b) \o c
<1> DEFINE S == Range(a) \cup Range(b) \cup Range(c)
<1>1. Range(a) \subseteq S /\ Range(b) \subseteq S /\ Range(c) \subseteq S
  OBVIOUS
<1> HIDE DEF S
<1>2. a \in Seq(S) /\ b \in Seq(S) /\ c \in Seq(S)
  BY <1>1, SeqMonotonic DEF IsText
<1> QED
  BY <1>2, Associates

(* Lines that tell nothing leave what was told.                            *)
LEMMA GrownOn ==
  ASSUME NEW ls, NEW mid, NEW more, NEW ks, NEW rs,
         Grown(ls, mid, ks, rs), Grown(mid, more, ks, <<>>)
  PROVE  Grown(ls, more, ks, rs)
<1>1. IsText(mid) /\ Headed(mid)
  BY DEF Grown
<1>2. Grown(mid, mid, ks, <<>>)
  BY <1>1, NothingTells
<1> QED
  BY <1>2 DEF Grown

(* Notes tell of no run.                                                   *)
LEMMA NotesTell ==
  ASSUME NEW ls, IsText(ls), Headed(ls), NEW m, NEW ks \in {{"failed"}, Tells}
  PROVE  Grown(ls, ls \o NotesOf(m), ks, <<>>)
<1>1. CASE NotesOf(m) = <<>>
  BY <1>1, NothingTells
<1>2. CASE NotesOf(m) = Line("notes", Notes(ReportOf(m)))
  <2>1. "notes" \in Kinds \ {"header"} /\ "notes" \notin ks /\ "header" \notin ks
    BY DEF Kinds, Tells
  <2>2. Grown(ls, ls \o Line("notes", Notes(ReportOf(m))), ks,
              IF "notes" \in ks THEN << <<Title(ls, Len(ls)), Notes(ReportOf(m))>> >> ELSE <<>>)
    BY <2>1, LineTells
  <2> QED
    BY <1>2, <2>1, <2>2
<1> QED
  BY <1>1, <1>2 DEF NotesOf

(* A row prints the size of its run first.                                 *)
LEMMA RowTellsSize ==
  ASSUME NEW mode \in Modes, NEW msgSize \in Word, CanRun(mode, msgSize),
         NEW m \in Measurements(mode, msgSize), Row(ReportOf(m)) # None
  PROVE  Row(ReportOf(m))[1].num = msgSize
<1>1. /\ mode \in {"Bandwidth", "Latency", "Accuracy"} /\ m.mode = mode /\ m.msg_size = msgSize
  BY MeasurementAssumption DEF CanRun, Modes
<1> DEFINE report == ReportOf(m)
<1>2. report.of = mode
  BY <1>1 DEF ReportOf
<1>3. report.stats # None
  BY DEF Row
<1>4. report.stats.msg_size = msgSize
  <2>1. CASE mode = "Latency"
    <3>1. report.stats = FromSamples(msgSize, m.samples)
      BY <1>1, <2>1 DEF ReportOf
    <3>2. m.samples # <<>>
      BY <1>3, <3>1 DEF FromSamples
    <3>3. FromSamples(msgSize, m.samples).msg_size = msgSize
      BY <3>2 DEF FromSamples
    <3> QED
      BY <3>1, <3>3
  <2>2. CASE mode # "Latency"
    BY <1>1, <2>2 DEF ReportOf
  <2> QED
    BY <2>1, <2>2
<1> HIDE DEF report
<1>5. Row(report) = IF mode = "Bandwidth" THEN BandwidthCells(report.stats)
                    ELSE IF mode = "Latency" THEN LatencyCells(report.stats)
                    ELSE AccuracyCells(report.stats)
  BY <1>1, <1>2, <1>3 DEF Row
<1>6. Row(report)[1] = Whole(msgSize)
  BY <1>1, <1>4, <1>5 DEF BandwidthCells, LatencyCells, AccuracyCells
<1> QED
  BY <1>6 DEF Whole, Fraction, report

(* What is printed about a run that did not fail tells of that run, and of *)
(* no failed one.                                                          *)
LEMMA RunTells ==
  ASSUME NEW mode \in Modes, NEW msgSize \in Word, CanRun(mode, msgSize),
         NEW m \in Measurements(mode, msgSize), NEW ls, IsText(ls), Headed(ls)
  PROVE  /\ Grown(ls, ls \o LinesOf(m, msgSize), {"failed"}, <<>>)
         /\ ~cmd.csv => Grown(ls, ls \o LinesOf(m, msgSize), Tells, << <<Title(ls, Len(ls)), msgSize>> >>)
<1>0. ASSUME NEW b, NEW c, IsText(b), IsText(c) PROVE ls \o (b \o c) = (ls \o b) \o c
  BY TextInARow
<1> DEFINE kinds == {"row", "no result"}
<1>1. kinds \subseteq Kinds \ {"header"} /\ kinds \subseteq Tells /\ "header" \notin Tells
  BY DEF Kinds, Tells
<1>2. \A what \in kinds :
        /\ Grown(ls, ls \o Line(what, msgSize), {"failed"}, <<>>)
        /\ Grown(ls, ls \o Line(what, msgSize), Tells, << <<Title(ls, Len(ls)), msgSize>> >>)
  <2> TAKE what \in kinds
  <2>1. what \in Kinds \ {"header"} /\ what \in Tells /\ what \notin {"failed"}
    BY <1>1
  <2>2. Grown(ls, ls \o Line(what, msgSize), {"failed"},
              IF what \in {"failed"} THEN << <<Title(ls, Len(ls)), msgSize>> >> ELSE <<>>)
    BY <2>1, LineTells
  <2>3. Grown(ls, ls \o Line(what, msgSize), Tells,
              IF what \in Tells THEN << <<Title(ls, Len(ls)), msgSize>> >> ELSE <<>>)
    BY <1>1, <2>1, LineTells
  <2> QED
    BY <2>1, <2>2, <2>3
<1>3. RowOf(m) = <<>> \/ RowOf(m) = Line("row", msgSize)
  BY RowTellsSize DEF RowOf
<1>4. Row(ReportOf(m)) # None => RowOf(m) = Line("row", msgSize)
  BY RowTellsSize DEF RowOf
<1>5. CASE cmd.csv
  <2>1. LinesOf(m, msgSize) = RowOf(m)
    BY <1>5 DEF LinesOf
  <2> QED
    BY <1>2, <1>3, <1>5, <2>1, NothingTells
<1>6. CASE ~cmd.csv
  <2>1. PICK what \in kinds : LinesOf(m, msgSize) = Line(what, msgSize) \o NotesOf(m)
    BY <1>4, <1>6 DEF LinesOf
  <2>2. IsText(Line(what, msgSize)) /\ IsText(NotesOf(m))
    BY <1>1, Printed
  <2> DEFINE mid == ls \o Line(what, msgSize)
  <2>3. ls \o LinesOf(m, msgSize) = mid \o NotesOf(m)
    BY <1>0, <2>1, <2>2
  <2>4. /\ Grown(ls, mid, {"failed"}, <<>>)
        /\ Grown(ls, mid, Tells, << <<Title(ls, Len(ls)), msgSize>> >>)
    BY <1>2
  <2> HIDE DEF mid
  <2>5. IsText(mid) /\ Headed(mid)
    BY <2>4 DEF Grown
  <2>6. Grown(mid, mid \o NotesOf(m), {"failed"}, <<>>) /\ Grown(mid, mid \o NotesOf(m), Tells, <<>>)
    BY <2>5, NotesTell
  <2>7. ASSUME NEW ks, NEW rs, Grown(ls, mid, ks, rs), Grown(mid, mid \o NotesOf(m), ks, <<>>)
        PROVE  Grown(ls, mid \o NotesOf(m), ks, rs)
    BY <2>7, GrownOn
  <2> QED
    BY <2>3, <2>4, <2>6, <2>7
<1> QED
  BY <1>5, <1>6

(* A list is its first entry and what is behind it.                        *)
LEMMA FirstAndRest ==
  ASSUME NEW S, NEW s \in Seq(S), s # <<>>
  PROVE  s = <<Head(s)>> \o Tail(s)
<1>0. \A a, b \in Seq(S) :
        /\ a \o b \in Seq(S) /\ Len(a \o b) = Len(a) + Len(b)
        /\ \A i \in 1 .. Len(a) + Len(b) : (a \o b)[i] = IF i <= Len(a) THEN a[i] ELSE b[i - Len(a)]
  BY ConcatProperties
<1> DEFINE h == Head(s)  t == Tail(s)  x == <<h>>
<1>1. /\ h \in S /\ t \in Seq(S) /\ Len(t) = Len(s) - 1
      /\ \A i \in 1 .. Len(t) : t[i] = s[i + 1]
  BY HeadTailProperties
<1>2. h = s[1] /\ Len(s) \in Nat \ {0} /\ Len(t) \in Nat
  BY <1>1, EmptySeq, LenProperties
<1>3. x \in Seq(S) /\ Len(x) = 1 /\ x[1] = h
  BY <1>1
<1> HIDE DEF h, t, x
<1>4. /\ x \o t \in Seq(S) /\ Len(x \o t) = Len(x) + Len(t)
      /\ \A i \in 1 .. Len(x) + Len(t) : (x \o t)[i] = IF i <= Len(x) THEN x[i] ELSE t[i - Len(x)]
  BY <1>0, <1>1, <1>3
<1>5. Len(x \o t) = Len(s)
  BY <1>1, <1>2, <1>3, <1>4
<1>6. ASSUME NEW i \in 1 .. Len(s) PROVE (x \o t)[i] = s[i]
  <2>1. CASE i = 1
    BY <1>2, <1>3, <1>4, <1>5, <2>1
  <2>2. CASE i # 1
    <3>1. i - 1 \in 1 .. Len(t) /\ ~ i <= 1 /\ (i - 1) + 1 = i
      BY <1>1, <1>2, <2>2
    <3>2. (x \o t)[i] = t[i - 1]
      BY <1>3, <1>4, <1>5, <3>1
    <3> QED
      BY <1>1, <3>1, <3>2
  <2> QED
    BY <2>1, <2>2
<1>7. x \o t = s
  BY <1>4, <1>5, <1>6, SeqEqual
<1> QED
  BY <1>7 DEF x, h, t

(* The run that a line about it tells of is no longer due.                 *)
LEMMA ToldOrDue ==
  ASSUME Ready, UNCHANGED cmd, MakeRun, NEW ls, IsText(ls), NEW ks
  PROVE  (Told(ls, ks) \o << <<Head(modes), Head(left)>> >>) \o Due' = Told(ls, ks) \o Due
<1>0. ASSUME NEW S PROVE \A x, y, z \in Seq(S) : x \o (y \o z) = (x \o y) \o z
  BY Associates
<1> DEFINE told == Told(ls, ks)
           T == Tales(ls)
           S == T \cup Runs
           run == <<Head(modes), Head(left)>>
           due == Due
           rest == Due'
<1>1. told \in Seq(T)
  BY ToldIs DEF IsText
<1>2. due # <<>> /\ Head(due) = run /\ Tail(due) = rest /\ due \in Seq(Runs)
  BY RunIsDue
<1>3. T \subseteq S /\ Runs \subseteq S
  OBVIOUS
<1> HIDE DEF told, T, S, run, due, rest
<1>4. told \in Seq(S) /\ due \in Seq(S)
  BY <1>1, <1>2, <1>3, SeqMonotonic
<1>5. run \in S /\ rest \in Seq(S)
  BY <1>2, <1>4, HeadTailProperties
<1>6. due = <<run>> \o rest
  BY <1>2, <1>4, FirstAndRest
<1> DEFINE x == <<run>>
<1>7. x \in Seq(S)
  BY <1>5
<1> HIDE DEF x
<1>8. told \o (x \o rest) = (told \o x) \o rest
  BY <1>0, <1>4, <1>5, <1>7
<1>9. (told \o x) \o rest = told \o due
  BY <1>6, <1>8 DEF x
<1> QED
  BY <1>9 DEF x, told, run, due, rest

(* Before the tables, and after a lone run, there is nothing to account    *)
(* for.                                                                    *)
LEMMA AccountOutside ==
  ASSUME phase' \notin {"table", "runs"}, phase' # "print" => lines' = <<>>,
         exit' = "ok" => phase' = "print"
  PROVE  Account'
  BY DEF Account

LEMMA AccountPlan ==
  ASSUME Ready, Account, UNCHANGED cmd,
         PlanRefused \/ PlanOneSize \/ StartSizing \/ PushSize \/ SizesDone
  PROVE  Account'
<1>1. /\ phase \in {"plan", "sizing"} /\ exit = "none" /\ UNCHANGED lines
      /\ phase' \in {"plan", "sizing", "open"} /\ exit' \in {"none", "error", "panic"}
  BY DEF PlanRefused, PlanOneSize, StartSizing, PushSize, SizesDone, In, End, Planned, termVars
<1>2. lines' = <<>>
  BY <1>1 DEF Account
<1> QED
  BY <1>1, <1>2, AccountOutside

LEMMA AccountSingle ==
  ASSUME Ready, Account, UNCHANGED cmd, MakeSingle \/ PrintSingle
  PROVE  Account'
<1>1. CASE MakeSingle
  <2>1. /\ phase = "single" /\ exit = "none" /\ UNCHANGED lines
        /\ phase' \in {"single", "print"} /\ exit' \in {"none", "error"}
    BY <1>1 DEF MakeSingle, In
  <2>2. lines' = <<>>
    BY <2>1 DEF Account
  <2> QED
    BY <2>1, <2>2, AccountOutside
<1>2. CASE PrintSingle
  <2>1. phase' = "print"
    BY <1>2 DEF PrintSingle, In
  <2> QED
    BY <2>1, AccountOutside
<1> QED
  BY <1>1, <1>2

(* The tables begin with all that is asked for due.                        *)
LEMMA AccountOpen ==
  ASSUME Ready, Account, UNCHANGED cmd, OpenDevice
  PROVE  Account'
<1>1. phase = "open" /\ exit = "none" /\ UNCHANGED <<lines, failures, modes>> /\ lines = <<>>
  BY DEF OpenDevice, In, End, loopVars, termVars, Account
<1>2. CASE End("error")
  <2>1. phase' = "open" /\ exit' = "error" /\ lines' = <<>>
    BY <1>1, <1>2 DEF End
  <2> QED
    BY <2>1, AccountOutside
<1>3. CASE ~End("error")
  <2>1. exit' = "none" /\ phase' \in {"single", "table"}
    BY <1>1, <1>3 DEF OpenDevice
  <2>2. CASE phase' = "single"
    BY <1>1, <2>1, <2>2, AccountOutside
  <2>3. CASE phase' = "table"
    <3>1. RunsAsked' = RunsAsked
      BY AskedStays
    <3>2. RunsAsked \in Seq(Runs) /\ Due' = RunsAsked
      BY <2>1, <2>3, AllIsDue
    <3> DEFINE asked == RunsAsked
    <3>3. <<>> \o asked = asked
      <4> HIDE DEF asked
      <4>1. \A q \in Seq(Runs) : <<>> \o q = q
        BY ConcatEmptySeq
      <4> QED
        BY <3>2, <4>1 DEF asked
    <3>4. Told(lines', Tells) \o Due' = RunsAsked'
      BY <1>1, <3>1, <3>2, <3>3, ToldNothing
    <3>5. failures' = <<>> /\ modes' # <<>> /\ lines' = <<>>
      BY <1>1 DEF Ready, Typed, Loops
    <3>6. Told(lines', {"failed"}) = failures'
      BY <3>5, ToldNothing
    <3> QED
      BY <2>1, <2>3, <3>4, <3>5, <3>6 DEF Account
  <2> QED
    BY <2>1, <2>2, <2>3
<1> QED
  BY <1>2, <1>3

(* A heading begins the account of a table.                                *)
LEMMA AccountTable ==
  ASSUME Ready, IsText(lines), Account, UNCHANGED cmd, StartTable
  PROVE  Account'
<1>0. ASSUME NEW more, lines = <<>> \/ Headed(lines), more = lines \o Line("header", Head(modes))
      PROVE  /\ Headed(more) /\ Title(more, Len(more)) = Head(modes)
             /\ Told(more, {"failed"}) = Told(lines, {"failed"})
             /\ Told(more, Tells) = Told(lines, Tells)
  <2>1. "header" \notin {"failed"} /\ "header" \notin Tells
    BY DEF Tells
  <2>2. Headed(more) /\ Title(more, Len(more)) = Head(modes)
    BY <1>0, HeadingTells
  <2>3. \A ks : "header" \notin ks => Told(more, ks) = Told(lines, ks)
    BY <1>0, HeadingTells
  <2> QED
    BY <2>1, <2>2, <2>3
<1>1. /\ phase = "table" /\ exit = "none" /\ lines' = lines \o Line("header", Head(modes))
      /\ phase' = "runs" /\ UNCHANGED <<modes, failures, exit>>
  BY DEF StartTable, In
<1>2. /\ lines = <<>> \/ Headed(lines)
      /\ Told(lines, {"failed"}) = failures
      /\ ~cmd.csv => Told(lines, Tells) \o Due = RunsAsked
  BY <1>1 DEF Account
<1>3. /\ Headed(lines') /\ Title(lines', Len(lines')) = Head(modes)
      /\ Told(lines', {"failed"}) = Told(lines, {"failed"})
      /\ Told(lines', Tells) = Told(lines, Tells)
  BY <1>0, <1>1, <1>2
<1>4. Due' = Due /\ RunsAsked' = RunsAsked
  BY TableIsDue, AskedStays
<1> QED
  BY <1>1, <1>2, <1>3, <1>4 DEF Account

(* A run adds the line that tells of it, and to the failures if it failed. *)
LEMMA AccountRun ==
  ASSUME Ready, IsText(lines), Account, UNCHANGED cmd, MakeRun
  PROVE  Account'
<1> DEFINE run == <<Head(modes), Head(left)>>
           more == lines'
           rest == Due'
<1>1. /\ phase = "runs" /\ exit = "none" /\ left # <<>>
      /\ phase' = "runs" /\ UNCHANGED <<modes, exit>>
  BY DEF MakeRun, In
<1>2. /\ Headed(lines) /\ Title(lines, Len(lines)) = Head(modes)
      /\ Told(lines, {"failed"}) = failures
      /\ ~cmd.csv => Told(lines, Tells) \o Due = RunsAsked
  BY <1>1 DEF Account
<1>3. Head(modes) \in Modes /\ Head(left) \in Word
  <2>1. modes \in Seq(Modes) /\ modes # <<>> /\ left \in Seq(Range(sizes)) /\ sizes \in Seq(Word)
    BY <1>1 DEF Ready, Typed
  <2>2. Range(sizes) \subseteq Word
    BY <2>1, LenProperties, ElementOfSeq DEF Range
  <2>3. Head(left) \in Range(sizes) /\ Head(modes) \in Modes
    BY <1>1, <2>1, HeadTailProperties
  <2> QED
    BY <2>2, <2>3
<1>4. RunsAsked' = RunsAsked
  BY AskedStays
<1>5. (Told(lines, Tells) \o <<run>>) \o rest = Told(lines, Tells) \o Due
  BY ToldOrDue
<1>6. /\ Headed(more) /\ Title(more, Len(more)) = Head(modes)
      /\ Told(more, {"failed"}) = failures'
      /\ ~cmd.csv => Told(more, Tells) = Told(lines, Tells) \o <<run>>
  <2>1. PICK m \in Outcome(Head(modes), Head(left)) :
          IF m = Failure
            THEN more = lines \o Line("failed", Head(left)) /\ failures' = Noted(run)
            ELSE more = lines \o LinesOf(m, Head(left)) /\ UNCHANGED failures
    BY DEF MakeRun
  <2> HIDE DEF more
  <2>2. CASE m = Failure
    <3>1. more = lines \o Line("failed", Head(left)) /\ failures' = Append(failures, run)
      BY <2>1, <2>2 DEF Noted
    <3>2. "failed" \in Kinds \ {"header"} /\ "failed" \in Tells /\ "header" \notin Tells
      BY DEF Kinds, Tells
    <3>3. Grown(lines, more, {"failed"}, <<run>>) /\ Grown(lines, more, Tells, <<run>>)
      BY <1>2, <3>1, <3>2, LineTells
    <3>4. failures' = failures \o <<run>>
      <4>1. failures \in Seq(Modes \X Word) /\ run \in Modes \X Word
        BY <1>3 DEF Ready, Typed
      <4> QED
        BY <3>1, <4>1, AppendIsConcat
    <3> QED
      BY <1>2, <3>3, <3>4 DEF Grown
  <2>3. CASE m # Failure
    <3>1. more = lines \o LinesOf(m, Head(left)) /\ UNCHANGED failures
      BY <2>1, <2>3
    <3>2. CanRun(Head(modes), Head(left)) /\ m \in Measurements(Head(modes), Head(left))
      BY <2>1, <2>3 DEF Outcome
    <3>3. /\ Grown(lines, more, {"failed"}, <<>>)
          /\ ~cmd.csv => Grown(lines, more, Tells, <<run>>)
      BY <1>2, <1>3, <3>1, <3>2, RunTells
    <3>4. failures \o <<>> = failures
      BY ConcatEmptySeq DEF Ready, Typed
    <3> QED
      BY <1>2, <3>1, <3>3, <3>4 DEF Grown
  <2> QED
    BY <2>2, <2>3
<1>7. ~cmd.csv => Told(more, Tells) \o rest = RunsAsked
  BY <1>2, <1>5, <1>6
<1> QED
  BY <1>1, <1>4, <1>6, <1>7 DEF Account

(* The end of a table leaves the account as it is; the summary closes it.  *)
LEMMA AccountEnds ==
  ASSUME Ready, IsText(lines), Account, UNCHANGED cmd, TableDone \/ Summary
  PROVE  Account'
<1>1. RunsAsked' = RunsAsked
  BY AskedStays
<1>2. CASE TableDone
  <2>1. /\ phase = "runs" /\ exit = "none" /\ phase' = "table"
        /\ UNCHANGED <<failures, lines, exit>>
    BY <1>2 DEF TableDone, In
  <2>2. Due' = Due
    BY <1>2, NoneIsDue
  <2> QED
    BY <1>1, <2>1, <2>2 DEF Account
<1>3. CASE Summary
  <2>1. /\ phase = "table" /\ exit = "none" /\ modes = <<>> /\ exit' = "ok"
        /\ lines' = lines \o Line("summary", failures) /\ phase' = "table"
        /\ UNCHANGED <<modes, failures>>
    BY <1>3 DEF Summary, In, loopVars
  <2>2. Due = <<>> /\ Due' = <<>>
    BY <1>3, NoneIsDue
  <2>3. /\ Headed(lines) /\ Told(lines, {"failed"}) = failures
        /\ ~cmd.csv => Told(lines, Tells) \o Due = RunsAsked
    BY <2>1 DEF Account
  <2> DEFINE more == lines'
  <2>4. more = lines \o Line("summary", failures)
    BY <2>1
  <2> HIDE DEF more
  <2>5. "summary" \in Kinds \ {"header"} /\ "summary" \notin Tells /\ "header" \notin Tells
    BY DEF Kinds, Tells
  <2>6. Grown(lines, more, {"failed"}, <<>>) /\ Grown(lines, more, Tells, <<>>)
    BY <2>3, <2>4, <2>5, LineTells
  <2>7. Headed(more) /\ Told(more, {"failed"}) = failures /\ Told(more, Tells) = Told(lines, Tells)
    <3>1. lines \in Seq(Range(lines))
      BY DEF IsText
    <3>2. /\ Told(lines, {"failed"}) \o <<>> = Told(lines, {"failed"})
          /\ Told(lines, Tells) \o <<>> = Told(lines, Tells)
      BY <3>1, ToldIs, ConcatEmptySeq
    <3> QED
      BY <2>3, <2>6, <3>2 DEF Grown
  <2>8. Last(more).about = failures
    <3> DEFINE x == OneLine("summary", failures)
    <3>1. PICK X : lines \in Seq(X) /\ x \in X /\ more = Append(lines, x)
      BY <2>4, LineIsAppended
    <3>2. x.about = failures
      BY DEF OneLine
    <3> HIDE DEF x
    <3>3. Len(more) = Len(lines) + 1 /\ more[Len(lines) + 1] = x
      BY <3>1, AppendProperties
    <3> QED
      BY <3>2, <3>3 DEF Last
  <2> QED
    BY <1>1, <2>1, <2>2, <2>3, <2>7, <2>8 DEF Account, more
<1> QED
  BY <1>2, <1>3

(* The account is kept by every step.                                      *)
LEMMA AccountStep ==
  ASSUME Ready, IsText(lines), Account, [Next]_vars
  PROVE  Account'
<1>1. CASE UNCHANGED vars
  <2>1. UNCHANGED <<cmd, phase, sizes, modes, left, rep, failures, lines, exit>>
    BY <1>1 DEF vars, planVars, loopVars, termVars
  <2>2. RunsAsked' = RunsAsked
    BY <2>1, AskedStays
  <2>3. Due' = Due
    BY <2>1, <2>2 DEF Due
  <2> QED
    BY <2>1, <2>2, <2>3 DEF Account
<1>2. CASE Step /\ UNCHANGED cmd
  BY <1>2, AccountPlan, AccountOpen, AccountSingle, AccountTable, AccountRun, AccountEnds DEF Step
<1> QED
  BY <1>1, <1>2 DEF Next, Ended

(***************************************************************************)
(* Sums.                                                                   *)
(***************************************************************************)

\* p[k] is the sum of the first k of the n numbers u.
PrefixSums(p, u, n) ==
  /\ u \in [1 .. n -> Int]
  /\ p \in [Nat -> Int] /\ p[0] = 0
  /\ \A k \in Nat : k < n => p[k + 1] = p[k] + u[k + 1]

(* Every list of numbers can be summed up.                                 *)
LEMMA PrefixSumsExist ==
  ASSUME NEW n \in Nat, NEW u \in [1 .. n -> Int]
  PROVE  \E p : PrefixSums(p, u, n)
<1> DEFINE step == [q \in Nat \X Int |-> IF q[1] < n THEN q[2] + u[q[1] + 1] ELSE q[2]]
<1>1. /\ step \in [Nat \X Int -> Int]
      /\ \A k \in Nat, t \in Int : step[<<k, t>>] = IF k < n THEN t + u[k + 1] ELSE t
  <2>1. \A k \in Nat : k < n => k + 1 \in 1 .. n
    OBVIOUS
  <2>2. \A k \in Nat : k < n => u[k + 1] \in Int
    BY <2>1
  <2>3. \A q \in Nat \X Int : q[1] \in Nat /\ q[2] \in Int
    OBVIOUS
  <2> QED
    BY <2>2, <2>3
<1> HIDE DEF step
<1>2. PICK p \in [Nat -> Int] : Iteration(p, 0, step)
  BY <1>1, Iterates, 0 \in Int
<1>3. PrefixSums(p, u, n)
  BY <1>1, <1>2 DEF PrefixSums, Iteration
<1> QED
  BY <1>3

(* What holds of nothing and of one number more, holds of all of them.     *)
LEMMA UpTo ==
  ASSUME NEW n \in Nat, NEW S, 0 \in S, \A k \in Nat : k < n /\ k \in S => k + 1 \in S
  PROVE  \A k \in 0 .. n : k \in S
<1> DEFINE Exceptions == {k \in 0 .. n : k \notin S}
<1> SUFFICES ASSUME Exceptions # {} PROVE FALSE
  OBVIOUS
<1>1. Exceptions \in SUBSET Nat
  OBVIOUS
<1>2. PICK k \in Exceptions : \A j \in Exceptions : k <= j
  <2> HIDE DEF Exceptions
  <2> QED
    BY <1>1, Least
<1>3. k \in 0 .. n /\ k # 0 /\ k \notin S
  BY <1>2
<1>4. k - 1 \in 0 .. n /\ k - 1 \in Nat /\ k - 1 < n /\ (k - 1) + 1 = k /\ ~ k <= k - 1
  BY <1>3
<1>5. k - 1 \in S
  BY <1>2, <1>4
<1> QED
  BY <1>3, <1>4, <1>5

\* w is u and v, number by number.
Adds(w, u, v, n) == \A k \in 1 .. n : w[k] = u[k] + v[k]

(* So are their sums.                                                      *)
LEMMA SumsAdd ==
  ASSUME NEW n \in Nat, NEW u, NEW v, NEW w, Adds(w, u, v, n),
         NEW p, PrefixSums(p, u, n), NEW q, PrefixSums(q, v, n), NEW r, PrefixSums(r, w, n)
  PROVE  r[n] = p[n] + q[n]
<1> DEFINE S == {k \in 0 .. n : r[k] = p[k] + q[k]}
<1>1. 0 \in S
  BY DEF PrefixSums
<1>2. ASSUME NEW k \in Nat, k < n, k \in S PROVE k + 1 \in S
  <2>1. k + 1 \in 1 .. n /\ k + 1 \in 0 .. n
    BY <1>2
  <2>2. /\ r[k + 1] = r[k] + w[k + 1] /\ p[k + 1] = p[k] + u[k + 1]
        /\ q[k + 1] = q[k] + v[k + 1] /\ r[k] = p[k] + q[k]
    BY <1>2 DEF PrefixSums
  <2>3. /\ p[k] \in Int /\ q[k] \in Int /\ u[k + 1] \in Int /\ v[k + 1] \in Int
        /\ w[k + 1] = u[k + 1] + v[k + 1]
    BY <2>1 DEF PrefixSums, Adds
  <2> QED
    BY <2>1, <2>2, <2>3
<1>3. n \in S
  <2> HIDE DEF S
  <2>1. \A k \in Nat : k < n /\ k \in S => k + 1 \in S
    BY <1>2
  <2>2. \A k \in 0 .. n : k \in S
    BY <1>1, <2>1, UpTo
  <2> QED
    BY <2>2
<1> QED
  BY <1>3

(* A list of numbers has one sum.                                          *)
LEMMA SumsAgree ==
  ASSUME NEW n \in Nat, NEW u, NEW p, PrefixSums(p, u, n), NEW q, PrefixSums(q, u, n)
  PROVE  p[n] = q[n]
<1> DEFINE S == {k \in 0 .. n : p[k] = q[k]}
<1>1. 0 \in S
  BY DEF PrefixSums
<1>2. ASSUME NEW k \in Nat, k < n, k \in S PROVE k + 1 \in S
  BY <1>2 DEF PrefixSums
<1>3. n \in S
  <2> HIDE DEF S
  <2>1. \A k \in Nat : k < n /\ k \in S => k + 1 \in S
    BY <1>2
  <2>2. \A k \in 0 .. n : k \in S
    BY <1>1, <2>1, UpTo
  <2> QED
    BY <2>2
<1> QED
  BY <1>3

\* u has c for each x among s, and nothing for the others.
Marks(u, s, x, c, n) == \A k \in 1 .. n : u[k] = IF s[k] = x THEN c ELSE 0

(* Then its sum is c times the number of x.                                *)
LEMMA SumsCount ==
  ASSUME NEW n \in Nat, NEW s, NEW x, NEW c \in Int, NEW u, Marks(u, s, x, c, n),
         NEW p, PrefixSums(p, u, n)
  PROVE  p[n] = c * Cardinality({k \in 1 .. n : s[k] = x})
<1> DEFINE Among(k) == {i \in 1 .. k : s[i] = x}
           S == {k \in 0 .. n : p[k] = c * Cardinality(Among(k))}
<1>1. 0 \in S
  <2>1. Among(0) = {}
    OBVIOUS
  <2>2. Cardinality(Among(0)) = 0
    BY <2>1, FS_EmptySet
  <2> HIDE DEF Among
  <2> QED
    BY <2>2 DEF PrefixSums
<1>2. ASSUME NEW k \in Nat, k < n, k \in S PROVE k + 1 \in S
  <2>1. k + 1 \in 1 .. n /\ k + 1 \in 0 .. n
    BY <1>2
  <2>2. p[k + 1] = p[k] + (IF s[k + 1] = x THEN c ELSE 0)
    BY <1>2, <2>1 DEF PrefixSums, Marks
  <2>3. IsFiniteSet(Among(k)) /\ k + 1 \notin Among(k)
    <3>1. IsFiniteSet(1 .. k)
      BY FS_Interval
    <3>2. Among(k) \subseteq 1 .. k
      OBVIOUS
    <3>3. k + 1 \notin Among(k)
      OBVIOUS
    <3> HIDE DEF Among
    <3> QED
      BY <3>1, <3>2, <3>3, FS_Subset
  <2>4. CASE s[k + 1] = x
    <3>1. Among(k + 1) = Among(k) \cup {k + 1}
      BY <2>4
    <3>2. Cardinality(Among(k + 1)) = Cardinality(Among(k)) + 1 /\ Cardinality(Among(k)) \in Nat
      <4> HIDE DEF Among
      <4> QED
        BY <2>3, <3>1, FS_AddElement, FS_CardinalityType
    <3>3. p[k] = c * Cardinality(Among(k))
      BY <1>2
    <3> HIDE DEF Among
    <3>4. \A m \in Nat : c * m + c = c * (m + 1)
      OBVIOUS
    <3>5. p[k + 1] = c * Cardinality(Among(k + 1))
      BY <2>2, <2>4, <3>2, <3>3, <3>4
    <3> QED
      BY <2>1, <3>5
  <2>5. CASE s[k + 1] # x
    <3>1. Among(k + 1) = Among(k)
      BY <2>5
    <3>2. p[k] = c * Cardinality(Among(k)) /\ p[k] \in Int
      BY <1>2 DEF PrefixSums
    <3>3. p[k + 1] = p[k]
      BY <2>2, <2>5, <3>2
    <3> HIDE DEF Among
    <3> QED
      BY <2>1, <3>1, <3>2, <3>3
  <2> QED
    BY <2>4, <2>5
<1>3. n \in S
  <2> HIDE DEF S
  <2>1. \A k \in Nat : k < n /\ k \in S => k + 1 \in S
    BY <1>2
  <2>2. \A k \in 0 .. n : k \in S
    BY <1>1, <2>1, UpTo
  <2> QED
    BY <2>2
<1> QED
  BY <1>3

\* h(T) is the sum of f over those of the samples that are in T, equal ones at a
\* time.
AtATime(h, s, f) ==
  h = [T \in SUBSET Range(s) |->
         IF T = {} THEN 0
         ELSE f[CHOOSE x \in T : TRUE]
                * Cardinality({i \in DOMAIN s : s[i] = CHOOSE x \in T : TRUE})
              + h[T \ {CHOOSE x \in T : TRUE}]]

\* f of the samples in T, and nothing for the others.
Masked(s, f, T) == [k \in 1 .. Len(s) |-> IF s[k] \in T THEN f[s[k]] ELSE 0]

\* The sum of n numbers u.
SumUp(u, n) == (CHOOSE p : PrefixSums(p, u, n))[n]

(* A sum is a number.                                                      *)
LEMMA SumsType ==
  ASSUME NEW n \in Nat, NEW u, NEW p, PrefixSums(p, u, n)
  PROVE  p[n] \in Int
  BY DEF PrefixSums

(* Whichever way a list is summed up, it comes to this.                    *)
LEMMA SumUpIs ==
  ASSUME NEW n \in Nat, NEW u, NEW p, PrefixSums(p, u, n)
  PROVE  SumUp(u, n) = p[n] /\ SumUp(u, n) \in Int
<1> DEFINE q == CHOOSE q : PrefixSums(q, u, n)
<1>1. PrefixSums(q, u, n)
  OBVIOUS
<1>2. SumUp(u, n) = q[n]
  BY DEF SumUp
<1> HIDE DEF q
<1> QED
  BY <1>1, <1>2, SumsAgree, SumsType

(* What is summed is a list of numbers.                                    *)
LEMMA MaskedIs ==
  ASSUME NEW s, Len(s) \in Nat, DOMAIN s = 1 .. Len(s), NEW f \in [Range(s) -> Int], NEW T
  PROVE  Masked(s, f, T) \in [1 .. Len(s) -> Int]
<1>1. \A k \in 1 .. Len(s) : s[k] \in Range(s)
  BY DEF Range
<1> QED
  BY <1>1 DEF Masked

(* The samples of one value come to that many times the number.            *)
LEMMA MaskedApart ==
  ASSUME NEW s, Len(s) \in Nat, DOMAIN s = 1 .. Len(s), NEW f \in [Range(s) -> Int],
         NEW T \in SUBSET Range(s), NEW x \in T
  PROVE  SumUp(Masked(s, f, T), Len(s))
           = f[x] * Cardinality({i \in DOMAIN s : s[i] = x})
             + SumUp(Masked(s, f, T \ {x}), Len(s))
<1> DEFINE n == Len(s)
           one == [k \in 1 .. n |-> IF s[k] = x THEN f[x] ELSE 0]
           rest == Masked(s, f, T \ {x})
           all == Masked(s, f, T)
<1>1. rest \in [1 .. n -> Int] /\ all \in [1 .. n -> Int]
  BY MaskedIs
<1>2. f[x] \in Int /\ one \in [1 .. n -> Int]
  OBVIOUS
<1>3. Adds(all, one, rest, n)
  <2> SUFFICES ASSUME NEW k \in 1 .. n PROVE all[k] = one[k] + rest[k]
    BY DEF Adds
  <2>1. /\ all[k] = IF s[k] \in T THEN f[s[k]] ELSE 0
        /\ rest[k] = IF s[k] \in T \ {x} THEN f[s[k]] ELSE 0
        /\ one[k] = IF s[k] = x THEN f[x] ELSE 0
    BY DEF Masked
  <2>2. all[k] \in Int /\ rest[k] \in Int
    BY <1>1
  <2> HIDE DEF all, rest, one
  <2>3. CASE s[k] = x
    BY <1>2, <2>1, <2>2, <2>3
  <2>4. CASE s[k] # x
    BY <2>1, <2>2, <2>4
  <2> QED
    BY <2>3, <2>4
<1>n. n \in Nat
  OBVIOUS
<1>4. PICK p : PrefixSums(p, one, n)
  BY <1>2, PrefixSumsExist
<1>5. p[n] = f[x] * Cardinality({i \in 1 .. n : s[i] = x})
  <2>1. Marks(one, s, x, f[x], n)
    BY DEF Marks
  <2> HIDE DEF one, n
  <2> QED
    BY <1>2, <1>4, <1>n, <2>1, SumsCount
<1> HIDE DEF one, rest, all, n
<1>6. PICK q : PrefixSums(q, rest, n)
  BY <1>1, <1>n, PrefixSumsExist
<1>7. PICK r : PrefixSums(r, all, n)
  BY <1>1, <1>n, PrefixSumsExist
<1>8. r[n] = p[n] + q[n]
  BY <1>3, <1>4, <1>6, <1>7, <1>n, SumsAdd
<1>9. SumUp(all, n) = r[n] /\ SumUp(rest, n) = q[n]
  BY <1>6, <1>7, <1>n, SumUpIs
<1> QED
  BY <1>5, <1>8, <1>9 DEF all, rest, n

(* Nothing comes to nothing.                                               *)
LEMMA MaskedNone ==
  ASSUME NEW s, Len(s) \in Nat, DOMAIN s = 1 .. Len(s), NEW f \in [Range(s) -> Int]
  PROVE  SumUp(Masked(s, f, {}), Len(s)) = 0
<1> DEFINE u == Masked(s, f, {})
<1>1. u \in [1 .. Len(s) -> Int] /\ Adds(u, u, u, Len(s))
  <2>1. \A k \in 1 .. Len(s) : u[k] = 0
    BY DEF Masked
  <2>2. u \in [1 .. Len(s) -> Int]
    BY MaskedIs
  <2> QED
    BY <2>1, <2>2 DEF Adds
<1> HIDE DEF u
<1>2. PICK p : PrefixSums(p, u, Len(s))
  BY <1>1, PrefixSumsExist
<1>3. p[Len(s)] = p[Len(s)] + p[Len(s)]
  <2> DEFINE n == Len(s)
  <2>1. n \in Nat
    OBVIOUS
  <2> HIDE DEF n
  <2>2. p[n] = p[n] + p[n]
    BY <1>1, <1>2, <2>1, SumsAdd DEF n
  <2> QED
    BY <2>2 DEF n
<1>4. p[Len(s)] \in Int /\ SumUp(u, Len(s)) = p[Len(s)]
  BY <1>1, <1>2, SumsType, SumUpIs
<1> QED
  BY <1>3, <1>4 DEF u

(* A sum over samples, equal ones at a time, is their sum one by one.      *)
LEMMA SumOverIsSum ==
  ASSUME NEW s, Len(s) \in Nat, DOMAIN s = 1 .. Len(s), NEW f \in [Range(s) -> Int]
  PROVE  SumOver(s, f) = SumUp([k \in 1 .. Len(s) |-> f[s[k]]], Len(s))
<1> DEFINE n == Len(s)
           R == Range(s)
           H == [T \in SUBSET R |-> SumUp(Masked(s, f, T), n)]
           g == CHOOSE h : AtATime(h, s, f)
<1>1. AtATime(H, s, f)
  <2>1. H[{}] = 0
    BY MaskedNone
  <2>2. ASSUME NEW T \in SUBSET R, NEW x \in T
        PROVE  H[T] = f[x] * Cardinality({i \in DOMAIN s : s[i] = x}) + H[T \ {x}]
    BY MaskedApart
  <2>3. ASSUME NEW T \in SUBSET R, T # {}
        PROVE  H[T] = f[CHOOSE x \in T : TRUE]
                        * Cardinality({i \in DOMAIN s : s[i] = CHOOSE x \in T : TRUE})
                      + H[T \ {CHOOSE x \in T : TRUE}]
    <3> DEFINE x == CHOOSE x \in T : TRUE
    <3>1. x \in T
      BY <2>3
    <3> HIDE DEF x, H
    <3>2. H[T] = f[x] * Cardinality({i \in DOMAIN s : s[i] = x}) + H[T \ {x}]
      BY <2>2, <3>1
    <3> QED
      BY <3>2 DEF x
  <2>4. H = [T \in SUBSET R |-> H[T]]
    OBVIOUS
  <2> HIDE DEF H
  <2>5. [T \in SUBSET R |-> H[T]]
          = [T \in SUBSET R |->
               IF T = {} THEN 0
               ELSE f[CHOOSE x \in T : TRUE]
                      * Cardinality({i \in DOMAIN s : s[i] = CHOOSE x \in T : TRUE})
                    + H[T \ {CHOOSE x \in T : TRUE}]]
    BY <2>1, <2>3
  <2> QED
    BY <2>4, <2>5 DEF AtATime
<1>2. AtATime(g, s, f)
  BY <1>1
<1>3. SumOver(s, f) = g[R]
  BY DEF SumOver, MapThenSumSet, MapThenFoldSet, AtATime
<1> HIDE DEF g
<1>4. ASSUME NEW T \in SUBSET R, T # {}
      PROVE  \E x \in T : /\ g[T] = f[x] * Cardinality({i \in DOMAIN s : s[i] = x}) + g[T \ {x}]
                          /\ H[T] = f[x] * Cardinality({i \in DOMAIN s : s[i] = x}) + H[T \ {x}]
  <2> DEFINE x == CHOOSE x \in T : TRUE
  <2>1. x \in T
    BY <1>4
  <2>2. g[T] = f[x] * Cardinality({i \in DOMAIN s : s[i] = x}) + g[T \ {x}]
    BY <1>2, <1>4 DEF AtATime
  <2>3. H[T] = f[x] * Cardinality({i \in DOMAIN s : s[i] = x}) + H[T \ {x}]
    BY <1>1, <1>4 DEF AtATime
  <2> HIDE DEF x, H
  <2> QED
    BY <2>1, <2>2, <2>3
<1>5. g[{}] = 0 /\ H[{}] = 0
  BY <1>1, <1>2 DEF AtATime
<1>6. IsFiniteSet(R)
  <2>1. IsFiniteSet(DOMAIN s)
    BY FS_Interval
  <2>2. [i \in DOMAIN s |-> s[i]] \in Surjection(DOMAIN s, R)
    BY DEF Surjection, Range
  <2> QED
    BY <2>1, <2>2, FS_Surjection
<1>7. g[R] = H[R]
  <2> DEFINE Wrong == {T \in SUBSET R : g[T] # H[T]}
             Sizes == {Cardinality(T) : T \in Wrong}
  <2> SUFFICES ASSUME R \in Wrong PROVE FALSE
    OBVIOUS
  <2>1. \A T \in Wrong : IsFiniteSet(T) /\ Cardinality(T) \in Nat
    BY <1>6, FS_Subset, FS_CardinalityType
  <2>2. PICK T \in Wrong : \A U \in Wrong : Cardinality(T) <= Cardinality(U)
    <3>1. Sizes \in SUBSET Nat /\ Sizes # {}
      BY <2>1
    <3>2. PICK m \in Sizes : \A k \in Sizes : m <= k
      <4> HIDE DEF Sizes
      <4> QED
        BY <3>1, Least
    <3> HIDE DEF Wrong
    <3> QED
      BY <3>2
  <2>3. T \in SUBSET R /\ T # {} /\ g[T] # H[T]
    BY <1>5, <2>2
  <2>4. PICK x \in T : /\ g[T] = f[x] * Cardinality({i \in DOMAIN s : s[i] = x}) + g[T \ {x}]
                       /\ H[T] = f[x] * Cardinality({i \in DOMAIN s : s[i] = x}) + H[T \ {x}]
    <3> HIDE DEF H
    <3> QED
      BY <1>4, <2>3
  <2>5. Cardinality(T \ {x}) = Cardinality(T) - 1
    BY <2>1, <2>2, FS_RemoveElement
  <2>6. T \ {x} \notin Wrong
    <3>1. Cardinality(T) \in Nat
      BY <2>1, <2>2
    <3>2. ~ Cardinality(T) <= Cardinality(T \ {x})
      BY <2>5, <3>1
    <3> HIDE DEF Wrong
    <3> QED
      BY <2>2, <3>2
  <2> HIDE DEF H
  <2> QED
    BY <2>3, <2>4, <2>6
<1>8. Masked(s, f, R) = [k \in 1 .. n |-> f[s[k]]]
  BY DEF Masked, Range
<1>9. H[R] = SumUp([k \in 1 .. n |-> f[s[k]]], n)
  BY <1>8
<1> HIDE DEF H
<1> QED
  BY <1>3, <1>7, <1>9

\* What the squares of the distances of k numbers, times n, from a come to: t is
\* the sum of the numbers and q of their squares.
Spread(n, a, q, t, k) == n * n * q - 2 * n * a * t + k * a * a

Away(n, a, v) == (n * v - a) * (n * v - a)

\* What the number v adds.
Grows(n, a, q, t, k, v) ==
  Spread(n, a, q, t, k) + Away(n, a, v) = Spread(n, a, q + v * v, t + v, k + 1)

(* One number more.                                                        *)
LEMMA SpreadMore ==
  ASSUME NEW n \in Int, NEW a \in Int, NEW q \in Int, NEW t \in Int, NEW k \in Int, NEW v \in Int
  PROVE  Grows(n, a, q, t, k, v)
  BY DEF Spread, Away, Grows

(* All of them, if a is their sum.                                         *)
LEMMA SpreadAll ==
  ASSUME NEW n \in Int, NEW a \in Int, NEW q \in Int
  PROVE  Spread(n, a, q, a, n) = n * (n * q - a * a)
  BY DEF Spread

(* The squared deviations of n numbers from their mean, times n, come to   *)
(* n times the sum of the squares less the square of the sum.              *)
LEMMA DeviationsAre ==
  ASSUME NEW s \in Seq(Int)
  PROVE  SumOver(s, [v \in Range(s) |-> (Len(s) * v - Total(s)) * (Len(s) * v - Total(s))])
           = Len(s) * (Len(s) * SumOver(s, [v \in Range(s) |-> v * v]) - Total(s) * Total(s))
<1> DEFINE n == Len(s)
           a == Total(s)
           id == [v \in Range(s) |-> v]
           square == [v \in Range(s) |-> v * v]
           away == [v \in Range(s) |-> (n * v - a) * (n * v - a)]
<1>1. n \in Nat /\ DOMAIN s = 1 .. n /\ \A k \in 1 .. n : s[k] \in Range(s) /\ s[k] \in Int
  BY LenProperties, ElementOfSeq DEF Range
<1>2. \A v \in Range(s) : v \in Int
  BY <1>1 DEF Range
<1>3. id \in [Range(s) -> Int] /\ square \in [Range(s) -> Int]
  BY <1>2
<1>4. PICK t : PrefixSums(t, [k \in 1 .. n |-> id[s[k]]], n)
  <2>1. [k \in 1 .. n |-> id[s[k]]] \in [1 .. n -> Int]
    BY <1>1
  <2> QED
    BY <1>1, <2>1, PrefixSumsExist
<1>5. PICK q : PrefixSums(q, [k \in 1 .. n |-> square[s[k]]], n)
  <2>1. [k \in 1 .. n |-> square[s[k]]] \in [1 .. n -> Int]
    BY <1>1
  <2> QED
    BY <1>1, <2>1, PrefixSumsExist
<1>6. a = t[n] /\ a \in Int
  <2>1. a = SumUp([k \in 1 .. n |-> id[s[k]]], n)
    BY <1>1, <1>3, SumOverIsSum DEF Total
  <2> HIDE DEF a, n, id
  <2> QED
    BY <1>1, <1>4, <2>1, SumUpIs
<1>7. SumOver(s, square) = q[n] /\ q[n] \in Int
  <2>1. SumOver(s, square) = SumUp([k \in 1 .. n |-> square[s[k]]], n)
    BY <1>1, <1>3, SumOverIsSum
  <2> HIDE DEF n, square
  <2> QED
    BY <1>1, <1>5, <2>1, SumUpIs
<1> HIDE DEF a
<1>8. away \in [Range(s) -> Int]
  BY <1>1, <1>2, <1>6
<1>9. PICK d : PrefixSums(d, [k \in 1 .. n |-> away[s[k]]], n)
  <2>1. [k \in 1 .. n |-> away[s[k]]] \in [1 .. n -> Int]
    BY <1>1, <1>8
  <2> HIDE DEF away
  <2> QED
    BY <1>1, <2>1, PrefixSumsExist
<1>10. SumOver(s, away) = d[n]
  <2>1. SumOver(s, away) = SumUp([k \in 1 .. n |-> away[s[k]]], n)
    BY <1>1, <1>8, SumOverIsSum
  <2> HIDE DEF n, away
  <2> QED
    BY <1>1, <1>9, <2>1, SumUpIs
<1> DEFINE S == {k \in 0 .. n : d[k] = Spread(n, a, q[k], t[k], k)}
<1>11. 0 \in S
  BY <1>1, <1>4, <1>5, <1>6, <1>9 DEF PrefixSums, Spread
<1>12. ASSUME NEW k \in Nat, k < n, k \in S PROVE k + 1 \in S
  <2>1. k + 1 \in 0 .. n /\ k + 1 \in 1 .. n
    BY <1>1, <1>12
  <2>2. PICK v \in Int : v = s[k + 1] /\ v \in Range(s)
    BY <1>1, <2>1
  <2>3. t[k + 1] = t[k] + v /\ t[k] \in Int
    BY <1>4, <1>12, <2>1, <2>2 DEF PrefixSums
  <2>4. q[k + 1] = q[k] + v * v /\ q[k] \in Int
    BY <1>5, <1>12, <2>1, <2>2 DEF PrefixSums
  <2>5. d[k + 1] = d[k] + Away(n, a, v)
    BY <1>9, <1>12, <2>1, <2>2 DEF PrefixSums, Away
  <2>6. d[k] = Spread(n, a, q[k], t[k], k)
    BY <1>12
  <2>7. d[k + 1] = Spread(n, a, q[k + 1], t[k + 1], k + 1)
    <3>1. n \in Int /\ k \in Int
      BY <1>1
    <3> HIDE DEF n
    <3>2. Grows(n, a, q[k], t[k], k, v)
      BY <1>6, <2>3, <2>4, <3>1, SpreadMore
    <3> QED
      BY <2>3, <2>4, <2>5, <2>6, <3>2 DEF Grows
  <2> QED
    BY <2>1, <2>7
<1>13. d[n] = Spread(n, a, q[n], t[n], n)
  <2>1. \A k \in 0 .. n : k \in S
    <3> HIDE DEF S, n
    <3>1. \A k \in Nat : k < n /\ k \in S => k + 1 \in S
      BY <1>12
    <3> QED
      BY <1>1, <1>11, <3>1, UpTo
  <2> QED
    BY <1>1, <2>1
<1>14. d[n] = n * (n * q[n] - a * a)
  <2>1. n \in Int
    BY <1>1
  <2> HIDE DEF n
  <2> QED
    BY <1>6, <1>7, <1>13, <2>1, SpreadAll
<1> QED
  BY <1>7, <1>10, <1>14 DEF a

(***************************************************************************)
(* Sorted samples.                                                         *)
(***************************************************************************)

(* There are n places among n samples.                                     *)
LEMMA PlacesAre ==
  ASSUME NEW n \in Nat
  PROVE  IsFiniteSet(1 .. n) /\ Cardinality(1 .. n) = n
<1>1. IsFiniteSet(1 .. n) /\ Cardinality(1 .. n) = IF 1 > n THEN 0 ELSE n - 1 + 1
  BY FS_Interval
<1> QED
  BY <1>1

(* How many samples are at most v.                                         *)
LEMMA AtMostIs ==
  ASSUME NEW s \in Seq(Int), NEW v \in Int
  PROVE  AtMost(v, s) \in 0 .. Len(s)
<1>1. Len(s) \in Nat /\ DOMAIN s = 1 .. Len(s)
  BY LenProperties
<1>2. IsFiniteSet(1 .. Len(s)) /\ Cardinality(1 .. Len(s)) = Len(s)
  BY <1>1, PlacesAre
<1> DEFINE T == {i \in DOMAIN s : s[i] <= v}
<1>3. T \subseteq 1 .. Len(s)
  BY <1>1
<1> HIDE DEF T
<1>4. IsFiniteSet(T) /\ Cardinality(T) <= Len(s) /\ Cardinality(T) \in Nat
  BY <1>2, <1>3, FS_Subset, FS_CardinalityType
<1> QED
  BY <1>1, <1>4 DEF AtMost, T

(* They are more for a sample above v.                                     *)
LEMMA AtMostGrows ==
  ASSUME NEW s \in Seq(Int), NEW v \in Int, NEW w \in Range(s), v < w
  PROVE  AtMost(v, s) < AtMost(w, s)
<1>1. Len(s) \in Nat /\ DOMAIN s = 1 .. Len(s) /\ \A i \in 1 .. Len(s) : s[i] \in Int
  BY LenProperties, ElementOfSeq
<1>2. PICK k \in 1 .. Len(s) : s[k] = w
  BY <1>1 DEF Range
<1> DEFINE T == {i \in DOMAIN s : s[i] <= v}
           U == {i \in DOMAIN s : s[i] <= w}
<1>3. T \subseteq U /\ U \subseteq 1 .. Len(s) /\ k \in U /\ k \notin T
  BY <1>1, <1>2
<1>4. IsFiniteSet(1 .. Len(s))
  BY <1>1, FS_Interval
<1> HIDE DEF T, U
<1>5. IsFiniteSet(U)
  BY <1>3, <1>4, FS_Subset
<1>6. IsFiniteSet(T) /\ Cardinality(T) <= Cardinality(U) /\ Cardinality(T) # Cardinality(U)
  BY <1>3, <1>5, FS_Subset
<1>7. Cardinality(T) \in Nat /\ Cardinality(U) \in Nat
  BY <1>5, <1>6, FS_CardinalityType
<1> QED
  BY <1>6, <1>7 DEF AtMost, T, U

(* Of some samples one is the highest.                                     *)
LEMMA Highest ==
  ASSUME NEW s \in Seq(Int), NEW T \in SUBSET Range(s), T # {}
  PROVE  \E w \in T : \A x \in T : x <= w
<1>1. Len(s) \in Nat /\ DOMAIN s = 1 .. Len(s) /\ \A i \in 1 .. Len(s) : s[i] \in Int
  BY LenProperties, ElementOfSeq
<1>2. \A x \in T : x \in Int /\ x \in Range(s)
  BY <1>1 DEF Range
<1>3. \A x \in T : AtMost(x, s) \in 0 .. Len(s)
  BY <1>2, AtMostIs
<1> DEFINE Others == {Len(s) - AtMost(x, s) : x \in T}
<1>4. Others \in SUBSET Nat /\ Others # {}
  BY <1>1, <1>3
<1>5. PICK m \in Others : \A j \in Others : m <= j
  <2> HIDE DEF Others
  <2> QED
    BY <1>4, Least
<1>6. PICK w \in T : m = Len(s) - AtMost(w, s)
  OBVIOUS
<1>7. ASSUME NEW x \in T PROVE x <= w
  <2>1. Len(s) - AtMost(w, s) <= Len(s) - AtMost(x, s)
    BY <1>5, <1>6
  <2>2. AtMost(x, s) <= AtMost(w, s)
    BY <1>1, <1>3, <2>1
  <2>3. ~ w < x
    <3> SUFFICES ASSUME w < x PROVE FALSE
      OBVIOUS
    <3>1. AtMost(w, s) < AtMost(x, s)
      BY <1>2, AtMostGrows
    <3> QED
      BY <1>3, <2>2, <3>1
  <2> QED
    BY <1>2, <2>3
<1> QED
  BY <1>7

(* There is a sample that fewer than k are below and k are not above.      *)
LEMMA PlaceTaken ==
  ASSUME NEW s \in Seq(Int), NEW k \in 1 .. Len(s)
  PROVE  \E v \in Range(s) : AtMost(v - 1, s) < k /\ AtMost(v, s) >= k
<1>1. Len(s) \in Nat /\ DOMAIN s = 1 .. Len(s) /\ \A i \in 1 .. Len(s) : s[i] \in Int
  BY LenProperties, ElementOfSeq
<1>2. \A x \in Range(s) : x \in Int /\ AtMost(x, s) \in 0 .. Len(s)
  <2>1. \A x \in Range(s) : x \in Int
    BY <1>1 DEF Range
  <2> QED
    BY <2>1, AtMostIs
<1> DEFINE Enough == {x \in Range(s) : AtMost(x, s) >= k}
           Counts == {AtMost(x, s) : x \in Enough}
<1>3. Enough # {}
  <2>1. Range(s) # {}
    <3>1. 1 \in DOMAIN s
      BY <1>1
    <3> QED
      BY <3>1 DEF Range
  <2>2. PICK w \in Range(s) : \A x \in Range(s) : x <= w
    BY <2>1, Highest
  <2>3. {i \in DOMAIN s : s[i] <= w} = 1 .. Len(s)
    <3>1. \A i \in DOMAIN s : s[i] <= w
      BY <2>2 DEF Range
    <3> QED
      BY <1>1, <3>1
  <2>4. AtMost(w, s) = Len(s)
    <3>1. Cardinality(1 .. Len(s)) = Len(s)
      BY <1>1, PlacesAre
    <3> QED
      BY <2>3, <3>1 DEF AtMost
  <2> QED
    BY <2>2, <2>4
<1>4. PICK v \in Enough : \A x \in Enough : AtMost(v, s) <= AtMost(x, s)
  <2>1. Counts \in SUBSET Nat /\ Counts # {}
    BY <1>2, <1>3
  <2>2. PICK m \in Counts : \A j \in Counts : m <= j
    <3> HIDE DEF Counts
    <3> QED
      BY <2>1, Least
  <2>3. PICK v \in Enough : m = AtMost(v, s)
    OBVIOUS
  <2> HIDE DEF Enough
  <2> QED
    BY <2>2, <2>3
<1>5. v \in Range(s) /\ v \in Int /\ v - 1 \in Int /\ AtMost(v, s) >= k
  BY <1>2
<1>6. AtMost(v - 1, s) < k
  <2> SUFFICES ASSUME AtMost(v - 1, s) >= k PROVE FALSE
    BY <1>5, AtMostIs
  <2> DEFINE Lower == {x \in Range(s) : x < v}
  <2>1. Lower # {}
    <3>1. {i \in DOMAIN s : s[i] <= v - 1} # {}
      <4>1. Cardinality({}) = 0
        BY FS_EmptySet
      <4>2. AtMost(v - 1, s) # 0
        OBVIOUS
      <4> QED
        BY <4>1, <4>2 DEF AtMost
    <3>2. PICK i \in DOMAIN s : s[i] <= v - 1
      BY <3>1
    <3>3. s[i] \in Range(s) /\ s[i] < v
      BY <1>1, <1>5, <3>2 DEF Range
    <3> QED
      BY <3>3
  <2>2. PICK w \in Lower : \A x \in Lower : x <= w
    <3>1. Lower \in SUBSET Range(s)
      OBVIOUS
    <3> HIDE DEF Lower
    <3> QED
      BY <2>1, <3>1, Highest
  <2>3. w \in Range(s) /\ w < v /\ w \in Int
    BY <1>2
  <2>4. AtMost(v - 1, s) = AtMost(w, s)
    <3>1. \A i \in DOMAIN s : s[i] <= v - 1 <=> s[i] <= w
      <4> SUFFICES ASSUME NEW i \in DOMAIN s PROVE s[i] <= v - 1 <=> s[i] <= w
        OBVIOUS
      <4>1. s[i] \in Range(s) /\ s[i] \in Int
        BY <1>1 DEF Range
      <4>2. s[i] < v => s[i] <= w
        BY <2>2, <4>1
      <4> QED
        BY <1>5, <2>3, <4>1, <4>2
    <3>2. {i \in DOMAIN s : s[i] <= v - 1} = {i \in DOMAIN s : s[i] <= w}
      BY <3>1
    <3> QED
      BY <3>2 DEF AtMost
  <2>5. w \in Enough
    BY <2>3, <2>4
  <2>6. AtMost(w, s) < AtMost(v, s)
    BY <1>5, <2>3, AtMostGrows
  <2>7. AtMost(v, s) <= AtMost(w, s)
    BY <1>4, <2>5
  <2> QED
    BY <1>2, <1>5, <2>3, <2>6, <2>7
<1> QED
  BY <1>5, <1>6

(* So that is the sample in place k when they are sorted.                  *)
LEMMA SortedIs ==
  ASSUME NEW s \in Seq(Int), NEW k \in 1 .. Len(s)
  PROVE  LET v == Sorted(s)[k]
         IN  v \in Range(s) /\ v \in Int /\ AtMost(v - 1, s) < k /\ AtMost(v, s) >= k
<1>1. Len(s) \in Nat /\ DOMAIN s = 1 .. Len(s) /\ \A i \in 1 .. Len(s) : s[i] \in Int
  BY LenProperties, ElementOfSeq
<1> DEFINE P(x) == /\ Cardinality({i \in DOMAIN s : s[i] < x}) < k
                   /\ Cardinality({i \in DOMAIN s : s[i] <= x}) >= k
           v == CHOOSE x \in Range(s) : P(x)
<1>2. \A x \in Range(s) : x \in Int
  BY <1>1 DEF Range
<1>3. \A x \in Range(s) : P(x) <=> AtMost(x - 1, s) < k /\ AtMost(x, s) >= k
  <2> SUFFICES ASSUME NEW x \in Range(s)
               PROVE  P(x) <=> AtMost(x - 1, s) < k /\ AtMost(x, s) >= k
    OBVIOUS
  <2>1. \A i \in DOMAIN s : s[i] < x <=> s[i] <= x - 1
    BY <1>1, <1>2
  <2>2. {i \in DOMAIN s : s[i] < x} = {i \in DOMAIN s : s[i] <= x - 1}
    BY <2>1
  <2> QED
    BY <2>2 DEF AtMost
<1>4. Sorted(s)[k] = v
  BY <1>1 DEF Sorted
<1>5. \E x \in Range(s) : P(x)
  <2>1. PICK x \in Range(s) : AtMost(x - 1, s) < k /\ AtMost(x, s) >= k
    BY PlaceTaken
  <2> HIDE DEF P
  <2> QED
    BY <1>3, <2>1
<1>6. v \in Range(s) /\ P(v)
  <2> HIDE DEF P
  <2> QED
    BY <1>5
<1> HIDE DEF P, v
<1> QED
  BY <1>2, <1>3, <1>4, <1>6

(* More samples are at most a higher number.                               *)
LEMMA AtMostRises ==
  ASSUME NEW s \in Seq(Int), NEW v \in Int, NEW w \in Int, v <= w
  PROVE  AtMost(v, s) <= AtMost(w, s)
<1>1. Len(s) \in Nat /\ DOMAIN s = 1 .. Len(s) /\ \A i \in 1 .. Len(s) : s[i] \in Int
  BY LenProperties, ElementOfSeq
<1> DEFINE T == {i \in DOMAIN s : s[i] <= v}
           U == {i \in DOMAIN s : s[i] <= w}
<1>2. T \subseteq U /\ U \subseteq 1 .. Len(s)
  BY <1>1
<1>3. IsFiniteSet(1 .. Len(s))
  BY <1>1, PlacesAre
<1> HIDE DEF T, U
<1>4. IsFiniteSet(U)
  BY <1>2, <1>3, FS_Subset
<1>5. Cardinality(T) <= Cardinality(U)
  BY <1>2, <1>4, FS_Subset
<1> QED
  BY <1>5 DEF AtMost, T, U

(* Picking each place's sample by counting sorts: the places ascend, and   *)
(* as many of the sorted samples as of the samples are at most v, for any  *)
(* v, so none is lost, invented or told twice (report.rs:53).              *)
THEOREM SamplesAreSorted ==
  ASSUME NEW s \in Seq(Int)
  PROVE  /\ \A j, k \in 1 .. Len(s) : j <= k => Sorted(s)[j] <= Sorted(s)[k]
         /\ \A v \in Int : AtMost(v, Sorted(s)) = AtMost(v, s)
<1> DEFINE n == Len(s)
           t == Sorted(s)
<1>1. n \in Nat /\ DOMAIN s = 1 .. n
  BY LenProperties
<1>2. DOMAIN t = 1 .. n
  BY <1>1 DEF Sorted
<1>3. \A k \in 1 .. n : /\ t[k] \in Int /\ t[k] - 1 \in Int
                        /\ AtMost(t[k] - 1, s) < k /\ AtMost(t[k], s) >= k
  BY SortedIs
<1> HIDE DEF t
<1>4. ASSUME NEW k \in 1 .. n, NEW v \in Int PROVE t[k] <= v <=> k <= AtMost(v, s)
  <2>1. /\ k \in Int /\ AtMost(v, s) \in Int
        /\ t[k] \in Int /\ AtMost(t[k], s) \in Int /\ AtMost(t[k] - 1, s) \in Int
    <3>1. t[k] \in Int /\ t[k] - 1 \in Int /\ k \in Int
      BY <1>1, <1>3
    <3>2. AtMost(v, s) \in 0 .. n /\ AtMost(t[k], s) \in 0 .. n /\ AtMost(t[k] - 1, s) \in 0 .. n
      BY <3>1, AtMostIs
    <3> QED
      BY <1>1, <3>1, <3>2
  <2>2. ASSUME t[k] <= v PROVE k <= AtMost(v, s)
    <3>1. AtMost(t[k], s) <= AtMost(v, s)
      BY <1>3, <2>2, AtMostRises
    <3> QED
      BY <1>3, <2>1, <3>1
  <2>3. ASSUME ~ t[k] <= v PROVE ~ k <= AtMost(v, s)
    <3>1. v <= t[k] - 1
      BY <2>1, <2>3
    <3>2. AtMost(v, s) <= AtMost(t[k] - 1, s)
      BY <1>3, <3>1, AtMostRises
    <3> QED
      BY <1>3, <2>1, <3>2
  <2> QED
    BY <2>2, <2>3
<1>5. ASSUME NEW j \in 1 .. n, NEW k \in 1 .. n, j <= k PROVE t[j] <= t[k]
  <2>1. t[k] \in Int /\ AtMost(t[k], s) >= k /\ AtMost(t[k], s) \in Int
    <3>1. t[k] \in Int /\ AtMost(t[k], s) >= k
      BY <1>3
    <3>2. AtMost(t[k], s) \in 0 .. n
      BY <3>1, AtMostIs
    <3> QED
      BY <1>1, <3>1, <3>2
  <2>2. j <= AtMost(t[k], s)
    <3>1. j \in Int /\ k \in Int
      BY <1>1
    <3> QED
      BY <1>5, <2>1, <3>1
  <2> QED
    BY <1>4, <2>1, <2>2
<1>6. ASSUME NEW v \in Int PROVE AtMost(v, t) = AtMost(v, s)
  <2> DEFINE a == AtMost(v, s)
  <2>1. a \in 0 .. n
    BY AtMostIs
  <2>2. \A k \in 1 .. n : t[k] <= v <=> k <= a
    BY <1>4
  <2> HIDE DEF a
  <2>3. {k \in DOMAIN t : t[k] <= v} = 1 .. a
    BY <1>1, <1>2, <2>1, <2>2
  <2>4. a \in Nat
    BY <1>1, <2>1
  <2>5. Cardinality(1 .. a) = a
    BY <2>4, PlacesAre
  <2> QED
    BY <2>3, <2>5 DEF AtMost, a
<1> QED
  BY <1>5, <1>6 DEF t

(***************************************************************************)
(* Cells.                                                                  *)
(***************************************************************************)

(* What each heading names.                                                *)
LEMMA SaysSize ==
  ASSUME NEW c, NEW m, NEW head \in {"#bytes", "bytes"}
  PROVE  Says(head, c, m) <=> Equal(c, Whole(m.msg_size))
  BY ZenonT(30) DEF Says

LEMMA SaysRounds ==
  ASSUME NEW c, NEW m, NEW head \in {"#iterations", "iterations"}
  PROVE  Says(head, c, m) <=> Equal(c, Whole(CASE m.mode = "Bandwidth" -> m.iterations
                             [] m.mode = "Latency" -> Len(m.samples)
                             [] m.mode = "Accuracy" -> m.sent))
  BY ZenonT(30) DEF Says

LEMMA SaysDepth ==
  ASSUME NEW c, NEW m, NEW head \in {"tx_depth"}
  PROVE  Says(head, c, m) <=> Equal(c, Whole(m.tx_depth))
  BY ZenonT(30) DEF Says

LEMMA SaysBandwidth ==
  ASSUME NEW c, NEW m, NEW head \in {"BW avg[Gb/sec]", "bw_avg"}
  PROVE  Says(head, c, m) <=> c.num * m.elapsed_us * 1000 = c.den * m.iterations * m.msg_size * 8
  BY ZenonT(100) DEF Says

LEMMA SaysRate ==
  ASSUME NEW c, NEW m, NEW head \in {"MsgRate[Mpps]", "msgrate"}
  PROVE  Says(head, c, m) <=> c.num * m.elapsed_us = c.den * m.iterations
  BY ZenonT(30) DEF Says

LEMMA SaysMin ==
  ASSUME NEW c, NEW m, NEW head \in {"t_min[usec]", "t_min"}
  PROVE  Says(head, c, m) <=> c.num \in Range(m.samples) /\ AtMost(c.num - 1, m.samples) = 0
  BY ZenonT(30) DEF Says

LEMMA SaysMax ==
  ASSUME NEW c, NEW m, NEW head \in {"t_max[usec]", "t_max"}
  PROVE  Says(head, c, m) <=> c.num \in Range(m.samples) /\ AtMost(c.num, m.samples) = Len(m.samples)
  BY ZenonT(30) DEF Says

LEMMA SaysTypical ==
  ASSUME NEW c, NEW m, NEW head \in {"t_typical[usec]", "t_typical"}
  PROVE  Says(head, c, m) <=> NearestRank(c.num, m.samples, Median)
  BY ZenonT(30) DEF Says

LEMMA SaysP99 ==
  ASSUME NEW c, NEW m, NEW head \in {"99%[usec]", "99%"}
  PROVE  Says(head, c, m) <=> NearestRank(c.num, m.samples, P99)
  BY ZenonT(30) DEF Says

LEMMA SaysP999 ==
  ASSUME NEW c, NEW m, NEW head \in {"99.9%[usec]", "99.9%"}
  PROVE  Says(head, c, m) <=> NearestRank(c.num, m.samples, P999)
  BY ZenonT(30) DEF Says

LEMMA SaysAvg ==
  ASSUME NEW c, NEW m, NEW head \in {"t_avg[usec]", "t_avg"}
  PROVE  Says(head, c, m) <=> c.num * Len(m.samples) = c.den * Total(m.samples)
  BY ZenonT(30) DEF Says

LEMMA SaysReceived ==
  ASSUME NEW c, NEW m, NEW head \in {"#received", "received"}
  PROVE  Says(head, c, m) <=> Equal(c, Whole(m.received))
  BY ZenonT(30) DEF Says

LEMMA SaysLost ==
  ASSUME NEW c, NEW m, NEW head \in {"#lost", "lost"}
  PROVE  Says(head, c, m) <=> Equal(c, Whole(m.lost))
  BY ZenonT(30) DEF Says

LEMMA SaysDuplicated ==
  ASSUME NEW c, NEW m, NEW head \in {"#dup", "dup"}
  PROVE  Says(head, c, m) <=> Equal(c, Whole(m.duplicated))
  BY ZenonT(30) DEF Says

LEMMA SaysCorrupted ==
  ASSUME NEW c, NEW m, NEW head \in {"#corrupt", "corrupt"}
  PROVE  Says(head, c, m) <=> Equal(c, Whole(m.corrupted))
  BY ZenonT(30) DEF Says

LEMMA SaysBytes ==
  ASSUME NEW c, NEW m, NEW head \in {"ByteAcc[%]", "byte_acc"}
  PROVE  Says(head, c, m) <=> c.num * m.sent * m.msg_size = c.den * m.correct_bytes * 100
  BY ZenonT(30) DEF Says

LEMMA SaysBits ==
  ASSUME NEW c, NEW m, NEW head \in {"BitAcc[%]", "bit_acc"}
  PROVE  Says(head, c, m) <=> c.num * m.sent * m.msg_size * 8 = c.den * m.correct_bits * 100
  BY ZenonT(30) DEF Says

\* A row has a cell for each heading and in each what the heading names.
Fits(row, head, m) ==
  /\ Len(row) = Len(head)
  /\ \A i \in DOMAIN head : Says(head[i], row[i], m)

(* A bandwidth row: the rates are those of bytes and messages over time.   *)
LEMMA BandwidthFits ==
  ASSUME NEW m \in BandwidthStats, NEW head \in {Header("Bandwidth"), CsvHeader("Bandwidth")}
  PROVE  Fits(BandwidthCells(m), head, m)
<1> DEFINE row == BandwidthCells(m)
<1>1. /\ m.mode = "Bandwidth" /\ m.msg_size \in Word /\ m.iterations \in Nat
      /\ m.tx_depth \in Nat /\ m.elapsed_us \in Nat
  BY DEF BandwidthStats
<1>2. m.msg_size \in Nat
  BY <1>1, WordIs
<1>3. Len(head) = 5 /\ DOMAIN head = 1 .. 5
  <2>1. \E a, b, c, d, e : head = <<a, b, c, d, e>>
    <3>1. CASE head = Header("Bandwidth")
      BY <3>1, Zenon DEF Header
    <3>2. CASE head = CsvHeader("Bandwidth")
      BY <3>2, Zenon DEF CsvHeader
    <3> QED
      BY <3>1, <3>2
  <2> QED
    BY <2>1
<1>4. /\ head[1] \in {"#bytes", "bytes"} /\ head[2] \in {"#iterations", "iterations"}
      /\ head[3] \in {"tx_depth"} /\ head[5] \in {"MsgRate[Mpps]", "msgrate"}
  <2>1. CASE head = Header("Bandwidth")
    BY <2>1, Zenon DEF Header
  <2>2. CASE head = CsvHeader("Bandwidth")
    BY <2>2, Zenon DEF CsvHeader
  <2> QED
    BY <2>1, <2>2
<1>5. head[4] \in {"BW avg[Gb/sec]", "bw_avg"}
  <2>1. CASE head = Header("Bandwidth")
    BY <2>1, Zenon DEF Header
  <2>2. CASE head = CsvHeader("Bandwidth")
    BY <2>2, Zenon DEF CsvHeader
  <2> QED
    BY <2>1, <2>2, Zenon
<1>6. /\ Len(row) = 5 /\ row[1] = Whole(m.msg_size) /\ row[2] = Whole(m.iterations)
      /\ row[3] = Whole(m.tx_depth)
      /\ row[4] = Fraction(m.iterations * m.msg_size * 8, m.elapsed_us * 1000)
      /\ row[5] = Fraction(m.iterations, m.elapsed_us)
  BY DEF BandwidthCells
<1> HIDE DEF row
<1>7. Says(head[1], row[1], m)
  BY <1>4, <1>6, SaysSize DEF Equal
<1>8. Says(head[2], row[2], m)
  BY <1>1, <1>4, <1>6, SaysRounds DEF Equal
<1>9. Says(head[3], row[3], m)
  BY <1>4, <1>6, SaysDepth DEF Equal
<1>10. Says(head[4], row[4], m)
  <2>1. /\ row[4].num = m.iterations * m.msg_size * 8
        /\ row[4].den = m.elapsed_us * 1000
    BY <1>6 DEF Fraction
  <2>2. \A i, b, t \in Nat : i * b * 8 * t * 1000 = t * 1000 * i * b * 8
    OBVIOUS
  <2>3. row[4].num * m.elapsed_us * 1000 = row[4].den * m.iterations * m.msg_size * 8
    BY <1>1, <1>2, <2>1, <2>2
  <2> QED
    BY <1>5, <2>3, SaysBandwidth, ZenonT(60)
<1>11. Says(head[5], row[5], m)
  <2>1. row[5].num = m.iterations /\ row[5].den = m.elapsed_us
    BY <1>6 DEF Fraction
  <2>2. row[5].num * m.elapsed_us = row[5].den * m.iterations
    BY <1>1, <2>1
  <2> QED
    BY <1>4, <2>2, SaysRate
<1>12. \A i \in DOMAIN head : i \in {1, 2, 3, 4, 5}
  BY <1>3
<1>13. \A i \in DOMAIN head : Says(head[i], row[i], m)
  BY <1>7, <1>8, <1>9, <1>10, <1>11, <1>12
<1> QED
  BY <1>3, <1>6, <1>13 DEF Fits, row

(* An accuracy row: shares of bytes and of bits that were sent.            *)
LEMMA AccuracyFits ==
  ASSUME NEW m \in AccuracyReport, NEW head \in {Header("Accuracy"), CsvHeader("Accuracy")}
  PROVE  Fits(AccuracyCells(m), head, m)
<1> DEFINE row == AccuracyCells(m)
<1>1. /\ m.mode = "Accuracy" /\ m.msg_size \in Word /\ m.sent \in Nat
      /\ m.correct_bytes \in Nat /\ m.correct_bits \in Nat
  BY DEF AccuracyReport
<1>2. m.msg_size \in Nat
  BY <1>1, WordIs
<1>3. /\ Len(head) = 8 /\ DOMAIN head = 1 .. 8
      /\ head[1] \in {"#bytes", "bytes"} /\ head[2] \in {"#iterations", "iterations"}
      /\ head[3] \in {"#received", "received"} /\ head[4] \in {"#lost", "lost"}
      /\ head[5] \in {"#dup", "dup"} /\ head[6] \in {"#corrupt", "corrupt"}
      /\ head[7] \in {"ByteAcc[%]", "byte_acc"} /\ head[8] \in {"BitAcc[%]", "bit_acc"}
  <2>1. CASE head = Header("Accuracy")
    BY <2>1 DEF Header
  <2>2. CASE head = CsvHeader("Accuracy")
    BY <2>2 DEF CsvHeader
  <2> QED
    BY <2>1, <2>2
<1>4. /\ Len(row) = 8 /\ row[1] = Whole(m.msg_size) /\ row[2] = Whole(m.sent)
      /\ row[3] = Whole(m.received) /\ row[4] = Whole(m.lost)
      /\ row[5] = Whole(m.duplicated) /\ row[6] = Whole(m.corrupted)
      /\ row[7] = Fraction(m.correct_bytes * 100, m.sent * m.msg_size)
      /\ row[8] = Fraction(m.correct_bits * 100, m.sent * m.msg_size * 8)
  BY DEF AccuracyCells
<1> HIDE DEF row
<1>5. Says(head[1], row[1], m)
  BY <1>3, <1>4, SaysSize DEF Equal
<1>6. Says(head[2], row[2], m)
  BY <1>1, <1>3, <1>4, SaysRounds DEF Equal
<1>7. Says(head[3], row[3], m)
  BY <1>3, <1>4, SaysReceived DEF Equal
<1>8. Says(head[4], row[4], m)
  BY <1>3, <1>4, SaysLost DEF Equal
<1>9. Says(head[5], row[5], m)
  BY <1>3, <1>4, SaysDuplicated DEF Equal
<1>10. Says(head[6], row[6], m)
  BY <1>3, <1>4, SaysCorrupted DEF Equal
<1>11. Says(head[7], row[7], m)
  <2>1. row[7].num = m.correct_bytes * 100 /\ row[7].den = m.sent * m.msg_size
    BY <1>4 DEF Fraction
  <2>2. \A c, n, b \in Nat : c * 100 * n * b = n * b * c * 100
    OBVIOUS
  <2>3. row[7].num * m.sent * m.msg_size = row[7].den * m.correct_bytes * 100
    BY <1>1, <1>2, <2>1, <2>2
  <2> QED
    BY <1>3, <2>3, SaysBytes
<1>12. Says(head[8], row[8], m)
  <2>1. row[8].num = m.correct_bits * 100 /\ row[8].den = m.sent * m.msg_size * 8
    BY <1>4 DEF Fraction
  <2>2. \A c, n, b \in Nat : c * 100 * n * b * 8 = n * b * 8 * c * 100
    OBVIOUS
  <2>3. row[8].num * m.sent * m.msg_size * 8 = row[8].den * m.correct_bits * 100
    BY <1>1, <1>2, <2>1, <2>2
  <2> QED
    BY <1>3, <2>3, SaysBits
<1>13. \A i \in DOMAIN head : i \in {1, 2, 3, 4, 5, 6, 7, 8}
  BY <1>3
<1>14. \A i \in DOMAIN head : Says(head[i], row[i], m)
  BY <1>5, <1>6, <1>7, <1>8, <1>9, <1>10, <1>11, <1>12, <1>13
<1> QED
  BY <1>3, <1>4, <1>14 DEF Fits, row

LEMMA SaysStdev ==
  ASSUME NEW c, NEW m, NEW head \in {"t_stdev[usec]", "t_stdev"}
  PROVE  Says(head, c, m) <=>
           LET n == Len(m.samples)
               total == Total(m.samples)
               squares == SumOver(m.samples, [v \in Range(m.samples) |-> v * v])
           IN IF n = 1 THEN c.num = 0
              ELSE c.num = n * (n * squares - total * total) /\ c.den = n * n * (n - 1)
  BY ZenonT(30) DEF Says

(* The percentiles of sorted samples are those by nearest rank.            *)
LEMMA PercentileIs ==
  ASSUME NEW s \in Seq(Int), s # <<>>, NEW p \in {Median, P99, P999}
  PROVE  NearestRank(Sorted(s)[Rank(Len(s), p)], s, p)
<1> DEFINE n == Len(s)
           k == Rank(n, p)
           v == Sorted(s)[k]
<1>1. n \in Nat \ {0}
  BY EmptySeq, LenProperties
<1>2. k \in 1 .. n /\ k * p.den >= n * p.num /\ (k - 1) * p.den < n * p.num
  BY <1>1, PercentilesAreNearestRank DEF IsNearestRank
<1> HIDE DEF k
<1>3. v \in Range(s) /\ v \in Int /\ AtMost(v - 1, s) < k /\ AtMost(v, s) >= k
  BY <1>2, SortedIs
<1> HIDE DEF v
<1>4. AtMost(v, s) \in 0 .. n /\ AtMost(v - 1, s) \in 0 .. n
  BY <1>3, AtMostIs
<1> HIDE DEF n
<1>5. /\ AtMost(v, s) * p.den >= n * p.num
      /\ AtMost(v - 1, s) * p.den < n * p.num
  <2>1. AtMost(v - 1, s) <= k - 1
    BY <1>1, <1>2, <1>3, <1>4
  <2>2. CASE p = Median
    BY <1>1, <1>2, <1>3, <1>4, <2>1, <2>2 DEF Median, Fraction
  <2>3. CASE p = P99
    BY <1>1, <1>2, <1>3, <1>4, <2>1, <2>3 DEF P99, Fraction
  <2>4. CASE p = P999
    BY <1>1, <1>2, <1>3, <1>4, <2>1, <2>4 DEF P999, Fraction
  <2> QED
    BY <2>2, <2>3, <2>4
<1> QED
  BY <1>3, <1>5 DEF NearestRank, n, v, k

(* A sum over samples is a number.                                         *)
LEMMA TotalIs ==
  ASSUME NEW s \in Seq(Int)
  PROVE  Total(s) \in Int
<1> DEFINE id == [v \in Range(s) |-> v]
<1>1. Len(s) \in Nat /\ DOMAIN s = 1 .. Len(s) /\ \A k \in 1 .. Len(s) : s[k] \in Range(s) /\ s[k] \in Int
  BY LenProperties, ElementOfSeq DEF Range
<1>2. id \in [Range(s) -> Int]
  BY <1>1 DEF Range
<1>3. [k \in 1 .. Len(s) |-> id[s[k]]] \in [1 .. Len(s) -> Int]
  BY <1>1
<1> HIDE DEF id
<1>4. PICK p : PrefixSums(p, [k \in 1 .. Len(s) |-> id[s[k]]], Len(s))
  BY <1>1, <1>3, PrefixSumsExist
<1>5. SumOver(s, id) \in Int
  BY <1>1, <1>2, <1>4, SumOverIsSum, SumUpIs
<1> QED
  BY <1>5 DEF Total, id

(* A latency row: the extremes, ranks, mean and variance of the samples.   *)
LEMMA LatencyFits ==
  ASSUME NEW m \in LatencySamples, m.samples # <<>>,
         NEW head \in {Header("Latency"), CsvHeader("Latency")}
  PROVE  Fits(LatencyCells(FromSamples(m.msg_size, m.samples)), head, m)
<1> DEFINE s == m.samples
           n == Len(s)
           row == LatencyCells(FromSamples(m.msg_size, s))
<1>1. m.mode = "Latency" /\ s \in Seq(Int) /\ s # <<>>
  BY DEF LatencySamples
<1>2. n \in Nat \ {0}
  BY <1>1, EmptySeq, LenProperties
<1>3. /\ Len(head) = 9 /\ DOMAIN head = 1 .. 9
      /\ head[1] \in {"#bytes", "bytes"} /\ head[2] \in {"#iterations", "iterations"}
      /\ head[3] \in {"t_min[usec]", "t_min"} /\ head[4] \in {"t_max[usec]", "t_max"}
      /\ head[5] \in {"t_typical[usec]", "t_typical"} /\ head[6] \in {"t_avg[usec]", "t_avg"}
      /\ head[7] \in {"t_stdev[usec]", "t_stdev"} /\ head[8] \in {"99%[usec]", "99%"}
      /\ head[9] \in {"99.9%[usec]", "99.9%"}
  <2>1. CASE head = Header("Latency")
    BY <2>1 DEF Header
  <2>2. CASE head = CsvHeader("Latency")
    BY <2>2 DEF CsvHeader
  <2> QED
    BY <2>1, <2>2
<1>4. /\ Len(row) = 9 /\ row[1] = Whole(m.msg_size) /\ row[2] = Whole(n)
      /\ row[3].num = Sorted(s)[1] /\ row[4].num = Sorted(s)[n]
      /\ row[5].num = Sorted(s)[Rank(n, Median)] /\ row[6] = Fraction(Total(s), n)
      /\ row[7] = Variance(s) /\ row[8].num = Sorted(s)[Rank(n, P99)]
      /\ row[9].num = Sorted(s)[Rank(n, P999)]
  <2> HIDE DEF s
  <2>1. FromSamples(m.msg_size, s) =
          [msg_size |-> m.msg_size, samples |-> n, min |-> Sorted(s)[1], max |-> Sorted(s)[n],
           typical |-> Sorted(s)[Rank(n, Median)], p99 |-> Sorted(s)[Rank(n, P99)],
           p999 |-> Sorted(s)[Rank(n, P999)], avg |-> Fraction(Total(s), n),
           variance |-> Variance(s)]
    BY <1>1 DEF FromSamples
  <2> QED
    BY <2>1 DEF LatencyCells, Whole, Fraction
<1> HIDE DEF row, s
<1>5. Says(head[1], row[1], m)
  BY <1>3, <1>4, SaysSize DEF Equal
<1>6. Says(head[2], row[2], m)
  BY <1>1, <1>3, <1>4, SaysRounds DEF Equal, s
<1>7. Says(head[3], row[3], m)
  <2> DEFINE v == Sorted(s)[1]
  <2>1. v \in Range(s) /\ v \in Int /\ v - 1 \in Int /\ AtMost(v - 1, s) < 1
    BY <1>1, <1>2, SortedIs
  <2>2. row[3].num = v
    BY <1>4
  <2> HIDE DEF v
  <2>3. AtMost(v - 1, s) \in 0 .. n
    BY <1>1, <2>1, AtMostIs
  <2>4. AtMost(v - 1, s) = 0
    BY <1>2, <2>1, <2>3
  <2> QED
    BY <1>3, <2>1, <2>2, <2>4, SaysMin DEF s
<1>8. Says(head[4], row[4], m)
  <2> DEFINE v == Sorted(s)[n]
  <2>1. v \in Range(s) /\ v \in Int /\ AtMost(v, s) >= n
    BY <1>1, <1>2, SortedIs
  <2>2. row[4].num = v
    BY <1>4
  <2> HIDE DEF v
  <2>3. AtMost(v, s) \in 0 .. n
    BY <1>1, <2>1, AtMostIs
  <2>4. AtMost(v, s) = n
    BY <1>2, <2>1, <2>3
  <2> QED
    BY <1>3, <2>1, <2>2, <2>4, SaysMax DEF s
<1>9. Says(head[5], row[5], m)
  BY <1>1, <1>3, <1>4, PercentileIs, SaysTypical DEF s
<1>10. Says(head[6], row[6], m)
  <2>1. row[6].num = Total(s) /\ row[6].den = n
    BY <1>4 DEF Fraction
  <2>2. row[6].num * n = row[6].den * Total(s)
    BY <1>1, <1>2, <2>1, TotalIs
  <2> QED
    BY <1>3, <2>2, SaysAvg DEF s
<1>11. Says(head[7], row[7], m)
  <2> DEFINE squares == SumOver(s, [v \in Range(s) |-> v * v])
             total == Total(s)
  <2>1. CASE n = 1
    <3>1. row[7].num = 0
      BY <1>4, <2>1 DEF Variance, Whole, Fraction
    <3> QED
      BY <1>3, <2>1, <3>1, SaysStdev DEF s
  <2>2. CASE n # 1
    <3>1. /\ row[7].num = SumOver(s, [v \in Range(s) |-> (n * v - total) * (n * v - total)])
          /\ row[7].den = n * n * (n - 1)
      BY <1>2, <1>4, <2>2 DEF Variance, Fraction
    <3>2. row[7].num = n * (n * squares - total * total)
      BY <1>1, <3>1, DeviationsAre
    <3> QED
      BY <1>3, <2>2, <3>1, <3>2, SaysStdev DEF s
  <2> QED
    BY <2>1, <2>2
<1>12. Says(head[8], row[8], m)
  BY <1>1, <1>3, <1>4, PercentileIs, SaysP99 DEF s
<1>13. Says(head[9], row[9], m)
  BY <1>1, <1>3, <1>4, PercentileIs, SaysP999 DEF s
<1>14. \A i \in DOMAIN head : i \in {1, 2, 3, 4, 5, 6, 7, 8, 9}
  BY <1>3
<1>15. \A i \in DOMAIN head : Says(head[i], row[i], m)
  BY <1>5, <1>6, <1>7, <1>8, <1>9, <1>10, <1>11, <1>12, <1>13, <1>14
<1> QED
  BY <1>3, <1>4, <1>15 DEF Fits, row, s

(* The row shown says of its measurement what its headings name.           *)
LEMMA RowFits ==
  ASSUME NEW mode \in Modes, NEW msgSize \in Word, CanRun(mode, msgSize),
         NEW m \in Measurements(mode, msgSize), Row(ReportOf(m)) # None,
         NEW head \in {Header(mode), CsvHeader(mode)}
  PROVE  Fits(Row(ReportOf(m)), head, m)
<1>1. /\ mode \in {"Bandwidth", "Latency", "Accuracy"} /\ m.mode = mode
      /\ m \in BandwidthStats \cup LatencySamples \cup AccuracyReport
  BY MeasurementAssumption DEF CanRun, Modes
<1>2. ReportOf(m).of = mode /\ ReportOf(m).stats # None
  BY <1>1 DEF ReportOf, Row
<1>3. CASE mode = "Bandwidth"
  <2>1. m \in BandwidthStats
    BY <1>1, <1>3 DEF BandwidthStats, LatencySamples, AccuracyReport
  <2>2. Row(ReportOf(m)) = BandwidthCells(m)
    BY <1>1, <1>2, <1>3 DEF Row, ReportOf
  <2>3. head \in {Header("Bandwidth"), CsvHeader("Bandwidth")}
    BY <1>3
  <2> QED
    BY <2>1, <2>2, <2>3, BandwidthFits
<1>4. CASE mode = "Latency"
  <2>1. m \in LatencySamples
    BY <1>1, <1>4 DEF BandwidthStats, LatencySamples, AccuracyReport
  <2>2. ReportOf(m).stats = FromSamples(m.msg_size, m.samples)
    BY <1>1, <1>4 DEF ReportOf
  <2>3. m.samples # <<>>
    BY <1>2, <2>2 DEF FromSamples
  <2>4. Row(ReportOf(m)) = LatencyCells(FromSamples(m.msg_size, m.samples))
    BY <1>2, <1>4, <2>2 DEF Row
  <2>5. head \in {Header("Latency"), CsvHeader("Latency")}
    BY <1>4
  <2> QED
    BY <2>1, <2>3, <2>4, <2>5, LatencyFits
<1>5. CASE mode = "Accuracy"
  <2>1. m \in AccuracyReport
    BY <1>1, <1>5 DEF BandwidthStats, LatencySamples, AccuracyReport
  <2>2. Row(ReportOf(m)) = AccuracyCells(m)
    BY <1>1, <1>2, <1>5 DEF Row, ReportOf
  <2>3. head \in {Header("Accuracy"), CsvHeader("Accuracy")}
    BY <1>5
  <2> QED
    BY <2>1, <2>2, <2>3, AccuracyFits
<1> QED
  BY <1>1, <1>3, <1>4, <1>5

(***************************************************************************)
(* What is shown.                                                          *)
(***************************************************************************)

(* A step that shows nothing new, and makes no run.                        *)
LEMMA DisplayedStays ==
  ASSUME Typed, Displayed, UNCHANGED cmd,
         PlanRefused \/ PlanOneSize \/ StartSizing \/ PushSize \/ SizesDone \/ OpenDevice
           \/ TableDone \/ Summary
  PROVE  Displayed'
<1>1. shown' = NothingShown /\ phase' \notin {"print", "runs"}
  BY DEF PlanRefused, PlanOneSize, StartSizing, PushSize, SizesDone, OpenDevice, TableDone,
         Summary, In, End, Planned, planVars, loopVars, termVars, Displayed
<1> QED
  BY <1>1 DEF Displayed

(* A lone run is shown below the heading of its mode.                      *)
LEMMA DisplayedSingle ==
  ASSUME Typed, Displayed, UNCHANGED cmd, MakeSingle \/ PrintSingle
  PROVE  Displayed'
<1>1. \A mode, msgSize : CanRun(mode, msgSize)' <=> CanRun(mode, msgSize)
  BY DEF CanRun
<1>2. CASE MakeSingle
  <2>1. /\ phase = "single" /\ exit = "none" /\ UNCHANGED <<sizes, modes>>
        /\ shown = NothingShown /\ Head(left) \in Range(sizes)
    <3>1. phase = "single" /\ exit = "none" /\ UNCHANGED <<sizes, modes>>
      BY <1>2 DEF MakeSingle, In, planVars
    <3>2. left \in Seq(Range(sizes)) /\ Len(left) = 1
      BY <3>1 DEF Typed
    <3>3. Head(left) \in Range(sizes)
      BY <3>2, EmptySeq, HeadTailProperties
    <3> QED
      BY <3>1, <3>3 DEF Displayed
  <2>2. PICK m \in Outcome(Head(modes), Head(left)) :
          IF m = Failure THEN exit' = "error" /\ UNCHANGED <<phase, shown>>
                         ELSE phase' = "print" /\ Show(m) /\ UNCHANGED exit
    BY <1>2 DEF MakeSingle
  <2>3. CASE m = Failure
    BY <2>1, <2>2, <2>3 DEF Displayed
  <2>4. CASE m # Failure
    <3>1. CanRun(Head(modes), Head(left)) /\ m \in Measurements(Head(modes), Head(left))
      BY <2>4 DEF Outcome
    <3>2. /\ shown' = [of |-> m, row |-> Row(ReportOf(m))] /\ phase' = "print" /\ exit' = "none"
      BY <2>1, <2>2, <2>4 DEF Show
    <3> QED
      BY <1>1, <2>1, <3>1, <3>2 DEF Displayed
  <2> QED
    BY <2>3, <2>4
<1>3. CASE PrintSingle
  <2>1. /\ phase = "print" /\ phase' = "print" /\ UNCHANGED <<sizes, modes, shown>>
        /\ shown.row # None => heading' = Header(Head(modes))
    BY <1>3 DEF PrintSingle, In, planVars, loopVars
  <2> QED
    BY <1>1, <2>1 DEF Displayed
<1> QED
  BY <1>2, <1>3

(* So is every run of a table.                                             *)
LEMMA DisplayedTable ==
  ASSUME Typed, Displayed, UNCHANGED cmd, StartTable \/ MakeRun
  PROVE  Displayed'
<1>1. \A mode, msgSize : CanRun(mode, msgSize)' <=> CanRun(mode, msgSize)
  BY DEF CanRun
<1>2. CASE StartTable
  <2>1. /\ phase' = "runs" /\ shown' = NothingShown /\ UNCHANGED modes
        /\ heading' \in {Header(Head(modes)), CsvHeader(Head(modes))}
    BY <1>2 DEF StartTable, In, Displayed
  <2> QED
    BY <2>1 DEF Displayed
<1>3. CASE MakeRun
  <2>1. /\ phase = "runs" /\ phase' = "runs" /\ UNCHANGED <<sizes, modes, heading>>
        /\ Head(left) \in Range(sizes)
    <3>1. left \in Seq(Range(sizes)) /\ left # <<>>
      BY <1>3 DEF MakeRun, Typed
    <3> QED
      BY <1>3, <3>1, HeadTailProperties DEF MakeRun, In, planVars
  <2>2. PICK m \in Outcome(Head(modes), Head(left)) :
          IF m = Failure THEN shown' = NothingShown ELSE Show(m)
    BY <1>3 DEF MakeRun
  <2>3. CASE m = Failure
    BY <2>1, <2>2, <2>3 DEF Displayed
  <2>4. CASE m # Failure
    <3>1. CanRun(Head(modes), Head(left)) /\ m \in Measurements(Head(modes), Head(left))
      BY <2>4 DEF Outcome
    <3>2. shown' = [of |-> m, row |-> Row(ReportOf(m))]
      BY <2>2, <2>4 DEF Show
    <3> QED
      BY <1>1, <2>1, <3>1, <3>2 DEF Displayed
  <2> QED
    BY <2>3, <2>4
<1> QED
  BY <1>2, <1>3

(* Every step leaves the row that is shown below its heading.              *)
LEMMA DisplayedStep ==
  ASSUME Typed, Displayed, [Next]_vars
  PROVE  Displayed'
<1>1. CASE UNCHANGED vars
  BY <1>1 DEF vars, planVars, loopVars, termVars, Displayed, CanRun
<1>2. CASE Step /\ UNCHANGED cmd
  BY <1>2, DisplayedStays, DisplayedSingle, DisplayedTable DEF Step
<1> QED
  BY <1>1, <1>2 DEF Next, Ended

(***************************************************************************)
(* The theorems.                                                           *)
(***************************************************************************)

(* In every state of a client process the variables have their types, the  *)
(* phases leave to run what they should, the sizes pushed so far are the   *)
(* right ones, what is on the terminal and what is still due are together  *)
(* the runs asked for, and the row shown is that of a run of its table:    *)
(* for every width of a word, every set of command lines and whatever the  *)
(* benchmarks measure.                                                     *)
THEOREM Invariant == Spec => []IInv
<1> DEFINE Inductive ==
             Typed /\ IsText(lines) /\ Sweep /\ Loops /\ (~Wrapped => Account) /\ Displayed
<1>1. Init => Inductive
  <2>1. Init => Sweep
    BY DEF Init, Sweep
  <2>2. Init => Loops
    BY DEF Init, Loops
  <2>3. Init => Account
    BY DEF Init, Account
  <2>4. Init => Displayed
    BY DEF Init, Displayed
  <2> QED
    BY <2>1, <2>2, <2>3, <2>4, TypedInitial
<1>2. Inductive /\ [Next]_vars => Inductive'
  <2> SUFFICES ASSUME Inductive, [Next]_vars PROVE Inductive'
    OBVIOUS
  <2>1. Typed' /\ IsText(lines') /\ Sweep' /\ Loops'
    BY TypedStep, SweepStep, LoopsStep
  <2>2. Wrapped' <=> Wrapped
    BY CommandStays DEF Next, Ended, vars
  <2>3. ASSUME ~Wrapped PROVE Account'
    BY <2>3, AccountStep DEF Ready
  <2>4. Displayed'
    BY DisplayedStep
  <2> QED
    BY <2>1, <2>2, <2>3, <2>4
<1>3. Inductive => IInv
  BY TypedText DEF IInv
<1> QED
  BY <1>1, <1>2, <1>3, PTL DEF Spec

(* Types; a process that ended regularly has nothing left to run, and no   *)
(* repetition is begun that was not asked for.                             *)
THEOREM TypeInvariant == Spec => []TypeOK
  BY Invariant, PTL DEF IInv

(* power_of_two_sizes visits the powers of two from the one bound to the   *)
(* other, each once and in ascending order, for every width of usize, in   *)
(* both builds and with any bounds, unless the first of them does not fit  *)
(* into a word and the build lets it wrap (suite_v_sizes shows what that   *)
(* does).                                                                  *)
THEOREM SweepsAreExact == Spec => [](~Wrapped => SizesAreExact)
<1>1. IInv => (~Wrapped => SizesAreExact)
  BY TypedText, SweepIsExact DEF IInv
<1> QED
  BY <1>1, Invariant, PTL

(* A row has a cell for each heading above it and in each the number that  *)
(* heading names: the rates of a bandwidth test, the shares an accuracy    *)
(* test received, and of a ping-pong the extremes, the percentiles by      *)
(* nearest rank, the mean and the variance, for any samples in any order   *)
(* (report.rs:46), in tables, in --csv and after a lone run.               *)
THEOREM RowsSayWhatTheirHeadingsName == Spec => []CellsUnderTheirHeading
<1>1. IInv => CellsUnderTheirHeading
  <2> SUFFICES ASSUME IInv, shown.row # None, phase = "print" => exit = "ok"
               PROVE  /\ Len(shown.row) = Len(heading)
                      /\ \A i \in DOMAIN heading : Says(heading[i], shown.row[i], shown.of)
    BY DEF CellsUnderTheirHeading
  <2>1. Typed /\ Displayed
    BY TypedText DEF IInv
  <2>2. shown # NothingShown
    BY DEF NothingShown
  <2>3. PICK msgSize \in Range(sizes) :
          CanRun(Head(modes), msgSize) /\ shown.of \in Measurements(Head(modes), msgSize)
    BY <2>1, <2>2 DEF Displayed
  <2>4. phase \in {"print", "runs"}
    BY <2>1, <2>2 DEF Displayed, Typed
  <2>5. heading \in {Header(Head(modes)), CsvHeader(Head(modes))}
    BY <2>1, <2>4 DEF Displayed
  <2>6. Head(modes) \in Modes /\ msgSize \in Word
    <3>1. modes \in Seq(Modes) /\ modes # <<>> /\ sizes \in Seq(Word)
      BY <2>1, <2>4 DEF Typed
    <3>2. Range(sizes) \subseteq Word
      BY <3>1, LenProperties, ElementOfSeq DEF Range
    <3> QED
      BY <3>1, <3>2, HeadTailProperties
  <2>7. shown.row = Row(ReportOf(shown.of))
    BY <2>1, <2>2 DEF Displayed
  <2>8. Fits(Row(ReportOf(shown.of)), heading, shown.of)
    BY <2>3, <2>5, <2>6, <2>7, RowFits
  <2> QED
    BY <2>7, <2>8 DEF Fits
<1> QED
  BY <1>1, Invariant, PTL

(* Whoever reads the tables of a suite that ended well finds one line for  *)
(* each run of the matrix, in its order and below the heading of its mode, *)
(* and the failed ones in the summary: for every plan, whatever is         *)
(* measured and whichever runs fail, unless the sweep wrapped.             *)
THEOREM TablesTellTheRuns == Spec => [](~Wrapped => TablesTellEveryRun)
<1>1. IInv => (~Wrapped => TablesTellEveryRun)
  <2> SUFFICES ASSUME IInv, ~Wrapped, exit = "ok", ~LoneAsked
               PROVE  /\ ~cmd.csv => Told(lines, Tells) = RunsAsked
                      /\ Last(lines).about = Told(lines, {"failed"})
    BY DEF TablesTellEveryRun, Tells
  <2>1. Typed /\ IsText(lines) /\ Sweep /\ Loops /\ Account
    BY TypedText DEF IInv
  <2>2. phase = "table"
    <3>1. phase \in {"print", "table"}
      BY <2>1 DEF Account
    <3>2. phase # "print"
      BY <2>1, PlanIs DEF Loops
    <3> QED
      BY <3>1, <3>2
  <2>3. /\ Told(lines, {"failed"}) = failures /\ Due = <<>> /\ Last(lines).about = failures
        /\ ~cmd.csv => Told(lines, Tells) \o Due = RunsAsked
    BY <2>1, <2>2 DEF Account
  <2>4. Told(lines, Tells) \o <<>> = Told(lines, Tells)
    <3>1. Told(lines, Tells) \in Seq(Tales(lines))
      BY <2>1, ToldIs DEF IsText
    <3> QED
      BY <3>1, ConcatEmptySeq
  <2> QED
    BY <2>3, <2>4
<1> QED
  BY <1>1, Invariant, PTL

(* The client makes the runs of its matrix, each once and in order, in     *)
(* spite of runs that fail, and ends well, or in error if it could not     *)
(* start or its one run failed: whatever is asked for and measured, unless *)
(* the sweep wrapped.                                                      *)
THEOREM StepsFollowTheMatrix ==
  Spec /\ ~Wrapped => Abstract!Init /\ [][Abstract!Next]_(Abstract!vars)
<1>1. Init => Abstract!Init
  BY DEF Init, Abstract!Init, Due
<1>2. ~Wrapped /\ [Next]_vars => ~Wrapped'
  BY AskedStays DEF Next, Ended, vars
<1>3. IInv /\ ~Wrapped => Ready
  BY TypedText DEF IInv, Ready
<1>4. IInv /\ ~Wrapped /\ [Next]_vars => [Abstract!Next]_Abstract!vars
  BY <1>3, MatrixStep
<1> QED
  BY <1>1, <1>2, <1>4, Invariant, PTL DEF Spec
================================================================================
