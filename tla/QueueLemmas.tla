------------------------------ MODULE QueueLemmas ------------------------------
(***************************************************************************)
(* Queues as sequences: what is in them, and when every entry is there     *)
(* once, after the operations the models of the benchmarks use.            *)
(***************************************************************************)
EXTENDS SequencesExt, SequenceTheorems, TLAPS

(* A queue without its first entry.                                        *)
LEMMA TailFacts ==
  ASSUME NEW S, NEW s \in Seq(S), s # <<>>
  PROVE  /\ Head(s) \in S /\ Tail(s) \in Seq(S) /\ Len(s) > 0
         /\ Len(Tail(s)) = Len(s) - 1 /\ Head(s) = s[1]
         /\ \A i \in 1 .. Len(Tail(s)) : Tail(s)[i] = s[i + 1]
         /\ Range(s) = Range(Tail(s)) \cup {Head(s)}
         /\ IsInjective(s) => IsInjective(Tail(s)) /\ Head(s) \notin Range(Tail(s))
<1>1. /\ Head(s) \in S /\ Tail(s) \in Seq(S) /\ Len(s) > 0 /\ Len(s) \in Nat
      /\ Len(Tail(s)) = Len(s) - 1 /\ Head(s) = s[1]
      /\ \A i \in 1 .. Len(Tail(s)) : Tail(s)[i] = s[i + 1]
  BY HeadTailProperties, LenProperties, EmptySeq
<1>2. DOMAIN s = 1 .. Len(s) /\ DOMAIN Tail(s) = 1 .. Len(s) - 1
  BY <1>1, LenProperties
<1>3. Range(s) = Range(Tail(s)) \cup {Head(s)}
  <2>1. ASSUME NEW i \in 1 .. Len(s) PROVE s[i] \in Range(Tail(s)) \cup {Head(s)}
    <3>1. CASE i = 1
      BY <1>1, <3>1
    <3>2. CASE i > 1
      <4>1. i - 1 \in DOMAIN Tail(s) /\ Tail(s)[i - 1] = s[i]
        BY <1>1, <1>2, <3>2
      <4> QED
        BY <4>1 DEF Range
    <3> QED
      BY <3>1, <3>2
  <2>2. Range(Tail(s)) \subseteq Range(s) /\ Head(s) \in Range(s)
    BY <1>1, <1>2 DEF Range
  <2> QED
    BY <1>2, <2>1, <2>2 DEF Range
<1>4. IsInjective(s) => IsInjective(Tail(s)) /\ Head(s) \notin Range(Tail(s))
  BY <1>1, <1>2 DEF Range, IsInjective
<1> QED
  BY <1>1, <1>3, <1>4

(* A queue with one entry more.                                            *)
LEMMA AppendFacts ==
  ASSUME NEW S, NEW s \in Seq(S), NEW e \in S
  PROVE  /\ Append(s, e) \in Seq(S)
         /\ Len(Append(s, e)) = Len(s) + 1
         /\ \A i \in 1 .. Len(s) : Append(s, e)[i] = s[i]
         /\ Append(s, e)[Len(s) + 1] = e
         /\ Range(Append(s, e)) = Range(s) \cup {e}
         /\ IsInjective(s) /\ e \notin Range(s) => IsInjective(Append(s, e))
<1>1. /\ Append(s, e) \in Seq(S) /\ Len(s) \in Nat
      /\ Len(Append(s, e)) = Len(s) + 1
      /\ \A i \in 1 .. Len(s) : Append(s, e)[i] = s[i]
      /\ Append(s, e)[Len(s) + 1] = e
  BY AppendProperties, LenProperties
<1>2. DOMAIN s = 1 .. Len(s) /\ DOMAIN Append(s, e) = 1 .. Len(s) + 1
  BY <1>1, LenProperties
<1>3. Range(Append(s, e)) = Range(s) \cup {e}
  <2>1. ASSUME NEW i \in 1 .. Len(s) + 1 PROVE Append(s, e)[i] \in Range(s) \cup {e}
    BY <1>1, <1>2, i \in 1 .. Len(s) \/ i = Len(s) + 1 DEF Range
  <2>2. Range(s) \subseteq Range(Append(s, e)) /\ e \in Range(Append(s, e))
    BY <1>1, <1>2 DEF Range
  <2> QED
    BY <1>2, <2>1, <2>2 DEF Range
<1>4. IsInjective(s) /\ e \notin Range(s) => IsInjective(Append(s, e))
  BY <1>1, <1>2 DEF Range, IsInjective
<1> QED
  BY <1>1, <1>3, <1>4

(* The first n entries of a queue and the others.                          *)
LEMMA SplitEntries ==
  ASSUME NEW S, NEW s \in Seq(S), NEW n \in 0 .. Len(s)
  PROVE  /\ SubSeq(s, 1, n) \in Seq(S) /\ Len(SubSeq(s, 1, n)) = n
         /\ \A i \in 1 .. n : SubSeq(s, 1, n)[i] = s[i]
         /\ SubSeq(s, n + 1, Len(s)) \in Seq(S) /\ Len(SubSeq(s, n + 1, Len(s))) = Len(s) - n
         /\ \A i \in 1 .. Len(s) - n : SubSeq(s, n + 1, Len(s))[i] = s[n + i]
<1> DEFINE p == SubSeq(s, 1, n)
           q == SubSeq(s, n + 1, Len(s))
<1>1. /\ Len(s) \in Nat /\ n \in Nat /\ n <= Len(s)
      /\ \A i \in 1 .. Len(s) : s[i] \in S
  BY LenProperties, ElementOfSeq
<1>2. p \in Seq(S) /\ Len(p) = n /\ \A i \in 1 .. n : p[i] = s[i]
  BY <1>1
<1>3. /\ q \in Seq(S)
      /\ Len(q) = IF n + 1 <= Len(s) THEN Len(s) - (n + 1) + 1 ELSE 0
      /\ \A i \in 1 .. Len(s) - (n + 1) + 1 : q[i] = s[n + 1 + i - 1]
  <2>1. n + 1 \in Int /\ Len(s) \in Int /\ \A i \in n + 1 .. Len(s) : s[i] \in S
    BY <1>1
  <2> QED
    BY <2>1, SubSeqProperties
<1> HIDE DEF p, q
<1>4. Len(s) - (n + 1) + 1 = Len(s) - n /\ \A i \in 1 .. Len(s) - n : n + 1 + i - 1 = n + i
  BY <1>1
<1>5. CASE n + 1 <= Len(s)
  BY <1>2, <1>3, <1>4, <1>5 DEF p, q
<1>6. CASE n = Len(s)
  BY <1>1, <1>2, <1>3, <1>4, <1>6 DEF p, q
<1> QED
  BY <1>1, <1>5, <1>6

(* A queue in two parts.                                                   *)
LEMMA SplitFacts ==
  ASSUME NEW S, NEW s \in Seq(S), NEW p \in Seq(S), NEW q \in Seq(S),
         Len(s) = Len(p) + Len(q),
         \A i \in 1 .. Len(p) : p[i] = s[i],
         \A i \in 1 .. Len(q) : q[i] = s[Len(p) + i]
  PROVE  /\ Range(s) = Range(p) \cup Range(q)
         /\ IsInjective(s) => /\ IsInjective(p) /\ IsInjective(q)
                              /\ Range(p) \cap Range(q) = {}
<1>0. PICK n : n = Len(p)
  OBVIOUS
<1>1. /\ Len(s) \in Nat /\ Len(q) \in Nat /\ DOMAIN s = 1 .. Len(s) /\ n \in Nat /\ n <= Len(s)
  BY <1>0, LenProperties
<1>2. \A i \in 1 .. n : p[i] = s[i]
  BY <1>0
<1>3. Len(q) = Len(s) - n /\ \A i \in 1 .. Len(s) - n : q[i] = s[n + i]
  BY <1>0, <1>1
<1>4. DOMAIN p = 1 .. n /\ DOMAIN q = 1 .. Len(s) - n
  BY <1>0, <1>3, LenProperties
<1>5. Range(s) = Range(p) \cup Range(q)
  <2>1. ASSUME NEW i \in 1 .. Len(s) PROVE s[i] \in Range(p) \cup Range(q)
    <3>1. CASE i <= n
      BY <1>2, <1>4, <3>1 DEF Range
    <3>2. CASE i > n
      <4>1. i - n \in DOMAIN q /\ q[i - n] = s[i]
        BY <1>1, <1>3, <1>4, <3>2
      <4> QED
        BY <4>1 DEF Range
    <3> QED
      BY <3>1, <3>2, <1>1
  <2>2. Range(p) \subseteq Range(s)
    BY <1>1, <1>2, <1>4 DEF Range
  <2>3. Range(q) \subseteq Range(s)
    <3>1. ASSUME NEW i \in 1 .. Len(s) - n PROVE q[i] \in Range(s)
      <4>1. n + i \in DOMAIN s /\ q[i] = s[n + i]
        BY <1>1, <1>3
      <4> QED
        BY <4>1 DEF Range
    <3> QED
      BY <1>4, <3>1 DEF Range
  <2> QED
    BY <1>1, <2>1, <2>2, <2>3 DEF Range
<1>6. ASSUME IsInjective(s)
      PROVE  IsInjective(p) /\ IsInjective(q) /\ Range(p) \cap Range(q) = {}
  <2>1. IsInjective(p)
    BY <1>1, <1>2, <1>4, <1>6 DEF IsInjective
  <2>2. \A i \in 1 .. Len(s) - n : n + i \in 1 .. Len(s) /\ n + i \notin 1 .. n
    BY <1>1
  <2>3. ASSUME NEW i \in 1 .. Len(s) - n, NEW j \in 1 .. Len(s) - n, q[i] = q[j]
        PROVE  i = j
    <3>1. s[n + i] = s[n + j] /\ n + i \in DOMAIN s /\ n + j \in DOMAIN s
      BY <1>1, <1>3, <2>2, <2>3
    <3>2. n + i = n + j
      BY <1>6, <3>1 DEF IsInjective
    <3> QED
      BY <1>1, <3>2
  <2>4. ASSUME NEW i \in 1 .. n, NEW j \in 1 .. Len(s) - n, p[i] = q[j]
        PROVE  FALSE
    <3>1. i \in 1 .. Len(s) /\ n + j \in 1 .. Len(s) /\ s[i] = s[n + j]
      BY <1>1, <1>2, <1>3, <2>2, <2>4
    <3>2. i = n + j
      BY <1>1, <1>6, <3>1 DEF IsInjective
    <3> QED
      BY <2>2, <3>2
  <2> QED
    BY <1>4, <2>1, <2>3, <2>4 DEF Range, IsInjective
<1> QED
  BY <1>5, <1>6

(* Two queues put together.                                                *)
LEMMA ConcatFacts ==
  ASSUME NEW S, NEW p \in Seq(S), NEW q \in Seq(S)
  PROVE  /\ p \o q \in Seq(S) /\ Len(p \o q) = Len(p) + Len(q)
         /\ Range(p \o q) = Range(p) \cup Range(q)
         /\ IsInjective(p) /\ IsInjective(q) /\ Range(p) \cap Range(q) = {}
              => IsInjective(p \o q)
<1> DEFINE s == p \o q
<1>1. /\ s \in Seq(S) /\ Len(s) = Len(p) + Len(q)
      /\ \A i \in 1 .. Len(p) + Len(q) : s[i] = IF i <= Len(p) THEN p[i] ELSE q[i - Len(p)]
  BY ConcatProperties
<1> HIDE DEF s
<1>2. PICK m \in Nat, n \in Nat : m = Len(p) /\ n = Len(q)
  BY LenProperties
<1>3. DOMAIN s = 1 .. m + n /\ DOMAIN p = 1 .. m /\ DOMAIN q = 1 .. n
  BY <1>1, <1>2, LenProperties
<1>4. \A i \in 1 .. m : s[i] = p[i]
  BY <1>1, <1>2
<1>5. \A i \in 1 .. n : s[m + i] = q[i]
  BY <1>1, <1>2
<1>6. Range(s) = Range(p) \cup Range(q)
  <2>1. \A i \in 1 .. Len(p) : p[i] = s[i]
    BY <1>2, <1>4
  <2>2. \A i \in 1 .. Len(q) : q[i] = s[Len(p) + i]
    BY <1>2, <1>5
  <2>3. s \in Seq(S) /\ Len(s) = Len(p) + Len(q)
    BY <1>1
  <2>4. /\ Range(s) = Range(p) \cup Range(q)
        /\ IsInjective(s) => /\ IsInjective(p) /\ IsInjective(q)
                             /\ Range(p) \cap Range(q) = {}
    BY <2>1, <2>2, <2>3, SplitFacts, Zenon
  <2> QED
    BY <2>4
<1>7. ASSUME IsInjective(p), IsInjective(q), Range(p) \cap Range(q) = {}
      PROVE  IsInjective(s)
  <2>1. ASSUME NEW i \in 1 .. m + n, NEW j \in 1 .. m + n, s[i] = s[j]
        PROVE  i = j
    <3>1. CASE i <= m /\ j <= m
      BY <1>2, <1>3, <1>4, <1>7, <2>1, <3>1 DEF IsInjective
    <3>2. CASE i <= m /\ j > m
      <4>1. j - m \in DOMAIN q /\ i \in DOMAIN p /\ p[i] = q[j - m]
        <5>1. i \in 1 .. m /\ j - m \in 1 .. n /\ m + (j - m) = j
          BY <1>2, <3>2
        <5> QED
          BY <1>3, <1>4, <1>5, <2>1, <5>1
      <4> QED
        BY <1>7, <4>1 DEF Range
    <3>3. CASE i > m /\ j <= m
      <4>1. i - m \in DOMAIN q /\ j \in DOMAIN p /\ p[j] = q[i - m]
        <5>1. j \in 1 .. m /\ i - m \in 1 .. n /\ m + (i - m) = i
          BY <1>2, <3>3
        <5> QED
          BY <1>3, <1>4, <1>5, <2>1, <5>1
      <4> QED
        BY <1>7, <4>1 DEF Range
    <3>4. CASE i > m /\ j > m
      <4>1. /\ i - m \in 1 .. n /\ j - m \in 1 .. n /\ m + (i - m) = i /\ m + (j - m) = j
        BY <1>2, <3>4
      <4>2. q[i - m] = q[j - m]
        BY <1>5, <2>1, <4>1
      <4>3. i - m = j - m
        BY <1>3, <1>7, <4>1, <4>2 DEF IsInjective
      <4> QED
        BY <1>2, <4>3
    <3> QED
      BY <1>2, <3>1, <3>2, <3>3, <3>4
  <2> QED
    BY <1>3, <2>1 DEF IsInjective
<1> QED
  BY <1>1, <1>6, <1>7 DEF s

(* A queue without its i-th entry.                                         *)
LEMMA RemoveFacts ==
  ASSUME NEW S, NEW s \in Seq(S), NEW i \in 1 .. Len(s)
  PROVE  /\ RemoveAt(s, i) \in Seq(S)
         /\ Len(RemoveAt(s, i)) = Len(s) - 1
         /\ \A j \in 1 .. Len(s) - 1 : RemoveAt(s, i)[j] = s[IF j < i THEN j ELSE j + 1]
<1>1. Len(s) \in Nat /\ i - 1 \in 0 .. Len(s) /\ i \in 0 .. Len(s)
  BY LenProperties
<1>2. /\ SubSeq(s, 1, i - 1) \in Seq(S) /\ Len(SubSeq(s, 1, i - 1)) = i - 1
      /\ \A j \in 1 .. i - 1 : SubSeq(s, 1, i - 1)[j] = s[j]
  BY <1>1
<1>3. /\ SubSeq(s, i + 1, Len(s)) \in Seq(S) /\ Len(SubSeq(s, i + 1, Len(s))) = Len(s) - i
      /\ \A j \in 1 .. Len(s) - i : SubSeq(s, i + 1, Len(s))[j] = s[i + j]
  BY <1>1
<1>4. /\ RemoveAt(s, i) \in Seq(S)
      /\ Len(RemoveAt(s, i)) = i - 1 + (Len(s) - i)
      /\ \A j \in 1 .. i - 1 + (Len(s) - i) :
           RemoveAt(s, i)[j] = IF j <= i - 1 THEN SubSeq(s, 1, i - 1)[j]
                                             ELSE SubSeq(s, i + 1, Len(s))[j - (i - 1)]
  <2> DEFINE a == SubSeq(s, 1, i - 1)
             b == SubSeq(s, i + 1, Len(s))
  <2>1. a \in Seq(S) /\ b \in Seq(S) /\ Len(a) = i - 1 /\ Len(b) = Len(s) - i
    BY <1>2, <1>3
  <2> HIDE DEF a, b
  <2>2. /\ a \o b \in Seq(S)
        /\ Len(a \o b) = Len(a) + Len(b)
        /\ \A j \in 1 .. Len(a) + Len(b) :
             (a \o b)[j] = IF j <= Len(a) THEN a[j] ELSE b[j - Len(a)]
    BY <2>1, ConcatProperties
  <2>3. RemoveAt(s, i) = a \o b
    BY DEF RemoveAt, a, b
  <2> QED
    BY <2>1, <2>2, <2>3 DEF a, b
<1> HIDE DEF RemoveAt
<1>5. Len(RemoveAt(s, i)) = Len(s) - 1
  BY <1>1, <1>4
<1>6. ASSUME NEW j \in 1 .. Len(s) - 1
      PROVE  RemoveAt(s, i)[j] = s[IF j < i THEN j ELSE j + 1]
  <2>1. CASE j < i
    BY <1>1, <1>2, <1>4, <2>1
  <2>2. CASE j >= i
    BY <1>1, <1>3, <1>4, <2>2
  <2> QED
    BY <1>1, <2>1, <2>2
<1> QED
  BY <1>4, <1>5, <1>6

(* Slots of a ring: numbers less than a window apart have different ones.  *)
LEMMA Residues ==
  ASSUME NEW w \in Nat \ {0}, NEW a \in Nat, NEW b \in Nat, a < b, b - a < w
  PROVE  a % w # b % w
<1> SUFFICES ASSUME a % w = b % w PROVE FALSE
  OBVIOUS
<1>1. a = w * (a \div w) + (a % w) /\ b = w * (b \div w) + (b % w)
  OBVIOUS
<1>2. a \div w \in Nat /\ b \div w \in Nat
  OBVIOUS
<1>3. b - a = w * (b \div w) - w * (a \div w)
  BY <1>1, <1>2
<1>4. b - a = w * ((b \div w) - (a \div w))
  BY <1>2, <1>3
<1>5. CASE b \div w <= a \div w
  BY <1>2, <1>4, <1>5
<1>6. CASE b \div w > a \div w
  BY <1>2, <1>4, <1>6
<1> QED
  BY <1>2, <1>5, <1>6
================================================================================
