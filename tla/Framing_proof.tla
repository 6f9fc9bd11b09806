----------------------------- MODULE Framing_proof -----------------------------
(***************************************************************************)
(* Proof that client and server of Session.tla never lose step with each   *)
(* other in the untyped stream of their connection, and that no client     *)
(* starts its traffic before the server is ready for it.                   *)
(*                                                                         *)
(* What is left of the two sides' code fits, and a step of a side takes    *)
(* the first item off its rest; that the whole code fits, mode by mode, is *)
(* put together from pieces that fit.                                      *)
(***************************************************************************)
EXTENDS Session_proof, FiniteSetTheorems, FunctionTheorems

(***************************************************************************)
(* Counting in sequences.                                                  *)
(***************************************************************************)

Moved(U, n) == {k + n : k \in U}

(* Places in a sequence can be counted.                                    *)
LEMMA CountIs ==
  ASSUME NEW n \in Nat, NEW T \in SUBSET (1 .. n)
  PROVE  IsFiniteSet(T) /\ Cardinality(T) \in Nat
<1>1. 1 \in Int /\ n \in Int
  OBVIOUS
<1>2. IsFiniteSet(T)
  BY <1>1, FS_Interval, FS_Subset
<1> QED
  BY <1>2, FS_CardinalityType

\* T has places of a sequence of length n.
Among(T, n) == T \in SUBSET (1 .. n)

(* Moving numbers up, behind others, keeps how many they are.              *)
LEMMA CountMoved ==
  ASSUME NEW n \in Nat, NEW T, Among(T, n), NEW m \in Nat, NEW U, Among(U, m)
  PROVE  Cardinality(T \cup Moved(U, n)) = Cardinality(T) + Cardinality(U)
<1> USE DEF Among
<1> DEFINE V == Moved(U, n)
           f == [k \in U |-> k + n]
<1>1. IsFiniteSet(T) /\ IsFiniteSet(U) /\ Cardinality(T) \in Nat /\ Cardinality(U) \in Nat
  BY CountIs
<1>2. ExistsBijection(U, V)
  <2>1. f \in [U -> V] /\ \A k \in U : f[k] = k + n
    BY DEF Moved
  <2>2. \A j, k \in U : f[j] = f[k] => j = k
    BY <2>1
  <2>3. \A v \in V : \E k \in U : f[k] = v
    BY DEF Moved
  <2> HIDE DEF f, V
  <2> QED
    BY <2>1, <2>2, <2>3 DEF ExistsBijection, Bijection, Injection, Surjection, IsInjective
<1>3. IsFiniteSet(V) /\ Cardinality(V) = Cardinality(U)
  BY <1>1, <1>2, FS_Bijection
<1>4. T \cap V = {}
  <2>1. \A k \in U : k + n > n
    OBVIOUS
  <2>2. \A k \in T : ~(k > n)
    OBVIOUS
  <2> QED
    BY <2>1, <2>2 DEF Moved
<1>5. Cardinality(T \cup V) = Cardinality(T) + Cardinality(V) - Cardinality({})
  BY <1>1, <1>3, <1>4, FS_Union
<1> QED
  BY <1>1, <1>3, <1>5, FS_EmptySet

(* What comes before a place in two sequences together.                    *)
LEMMA BeforeConcat ==
  ASSUME NEW s \in Seq(Item), NEW t \in Seq(Item), NEW verb
  PROVE  /\ \A i \in 1 .. Len(s) + 1 : /\ Before(s, verb, i) \in Nat
                                       /\ Before(s \o t, verb, i) = Before(s, verb, i)
         /\ \A i \in 1 .. Len(t) + 1 :
              Before(s \o t, verb, i + Len(s)) = Before(s, verb, Len(s) + 1) + Before(t, verb, i)
<1> DEFINE u == s \o t
<1>1. Len(s) \in Nat /\ Len(t) \in Nat
  BY LenProperties
<1>2. \A i \in 1 .. Len(s) + Len(t) : u[i] = IF i <= Len(s) THEN s[i] ELSE t[i - Len(s)]
  BY ConcatProperties
<1> HIDE DEF u
<1>3. ASSUME NEW i \in 1 .. Len(s) + 1
      PROVE  Before(s, verb, i) \in Nat /\ Before(u, verb, i) = Before(s, verb, i)
  <2>1. {k \in 1 .. i - 1 : u[k][1] = verb} = {k \in 1 .. i - 1 : s[k][1] = verb}
    BY <1>1, <1>2
  <2>2. {k \in 1 .. i - 1 : s[k][1] = verb} \in SUBSET (1 .. i - 1) /\ i - 1 \in Nat
    OBVIOUS
  <2> QED
    BY <2>1, <2>2, CountIs DEF Before
<1>4. ASSUME NEW i \in 1 .. Len(t) + 1
      PROVE  Before(u, verb, i + Len(s)) = Before(s, verb, Len(s) + 1) + Before(t, verb, i)
  <2> DEFINE T == {k \in 1 .. Len(s) : s[k][1] = verb}
             U == {k \in 1 .. i - 1 : t[k][1] = verb}
             V == Moved(U, Len(s))
             W == {k \in 1 .. i + Len(s) - 1 : u[k][1] = verb}
  <2>1. W = T \cup V
    <3>1. ASSUME NEW k \in W PROVE k \in T \cup V
      <4>1. CASE k <= Len(s)
        BY <1>1, <1>2, <4>1
      <4>2. CASE ~(k <= Len(s))
        <5>1. k - Len(s) \in U
          BY <1>1, <1>2, <4>2
        <5>2. k = (k - Len(s)) + Len(s)
          BY <1>1
        <5> QED
          BY <5>1, <5>2 DEF Moved
      <4> QED
        BY <4>1, <4>2
    <3>2. T \subseteq W
      BY <1>1, <1>2
    <3>3. ASSUME NEW k \in U PROVE k + Len(s) \in W
      <4>1. k + Len(s) \in 1 .. Len(s) + Len(t) /\ k + Len(s) \in 1 .. i + Len(s) - 1
        BY <1>1
      <4>2. ~(k + Len(s) <= Len(s)) /\ (k + Len(s)) - Len(s) = k
        BY <1>1
      <4> QED
        BY <1>2, <4>1, <4>2
    <3> QED
      BY <3>1, <3>2, <3>3 DEF Moved
  <2>2. T \in SUBSET (1 .. Len(s)) /\ U \in SUBSET (1 .. i - 1) /\ i - 1 \in Nat
    BY <1>1
  <2>3. Cardinality(T \cup V) = Cardinality(T) + Cardinality(U)
    <3>1. Len(s) \in Nat /\ Among(T, Len(s)) /\ i - 1 \in Nat /\ Among(U, i - 1)
      BY <1>1, <2>2 DEF Among
    <3> HIDE DEF T, U
    <3> QED
      BY <3>1, CountMoved
  <2>4. Before(s, verb, Len(s) + 1) = Cardinality(T)
    <3>1. (Len(s) + 1) - 1 = Len(s)
      BY <1>1
    <3> QED
      BY <3>1 DEF Before
  <2>5. Before(t, verb, i) = Cardinality(U) /\ Before(u, verb, i + Len(s)) = Cardinality(W)
    BY DEF Before
  <2> HIDE DEF T, U, V, W
  <2> QED
    BY <2>1, <2>3, <2>4, <2>5
<1> QED
  BY <1>3, <1>4 DEF u

(* The first place has nothing before it.                                  *)
LEMMA BeforeFirst ==
  ASSUME NEW s, NEW verb PROVE Before(s, verb, 1) = 0
<1>1. {k \in 1 .. 1 - 1 : s[k][1] = verb} = {}
  OBVIOUS
<1> QED
  BY <1>1, FS_EmptySet DEF Before

(* A send counts as one, and so does a receive.                            *)
LEMMA BeforeOne ==
  ASSUME NEW h \in Item, NEW verb
  PROVE  /\ <<h>> \in Seq(Item) /\ Len(<<h>>) = 1 /\ DOMAIN <<h>> = {1} /\ <<h>>[1] = h
         /\ Before(<<h>>, verb, 2) = IF h[1] = verb THEN 1 ELSE 0
<1>1. <<h>> \in Seq(Item) /\ Len(<<h>>) = 1 /\ DOMAIN <<h>> = {1} /\ <<h>>[1] = h
  OBVIOUS
<1> DEFINE T == {k \in 1 .. 2 - 1 : <<h>>[k][1] = verb}
<1>2. T = IF h[1] = verb THEN {1} ELSE {}
  OBVIOUS
<1>3. Cardinality(T) = IF h[1] = verb THEN 1 ELSE 0
  <2> HIDE DEF T
  <2> QED
    BY <1>2, FS_EmptySet, FS_Singleton
<1> QED
  BY <1>1, <1>3 DEF Before

(* A sequence is its first element and the rest.                           *)
LEMMA FirstAndRest ==
  ASSUME NEW s \in Seq(Item), s # <<>>
  PROVE  /\ s = <<s[1]>> \o Tail(s) /\ s[1] \in Item /\ Head(s) = s[1]
         /\ Tail(s) \in Seq(Item) /\ Len(s) \in Nat /\ Len(s) = Len(Tail(s)) + 1
         /\ DOMAIN s = 1 .. Len(s) /\ DOMAIN Tail(s) = 1 .. Len(s) - 1
         /\ \A i \in DOMAIN Tail(s) : i + 1 \in DOMAIN s /\ Tail(s)[i] = s[i + 1]
         /\ \A i \in DOMAIN s : i = 1 \/ (i - 1 \in DOMAIN Tail(s) /\ s[i] = Tail(s)[i - 1])
<1>1. /\ Len(s) \in Nat \ {0} /\ DOMAIN s = 1 .. Len(s) /\ Tail(s) \in Seq(Item)
      /\ Len(Tail(s)) = Len(s) - 1 /\ \A i \in 1 .. Len(Tail(s)) : Tail(s)[i] = s[i + 1]
  BY EmptySeq, LenProperties, HeadTailProperties
<1>2. s[1] \in Item /\ Head(s) = s[1] /\ DOMAIN Tail(s) = 1 .. Len(s) - 1
  BY <1>1, ElementOfSeq, LenProperties
<1>3. s = <<s[1]>> \o Tail(s)
  <2>1. 1 \in 1 .. Len(s) /\ Len(s) \in 1 .. Len(s) /\ 1 + 1 = 2
    BY <1>1
  <2>2. SubSeq(s, 1, Len(s)) = <<s[1]>> \o SubSeq(s, 1 + 1, Len(s))
    BY <2>1, SubSeqRecursiveFirst
  <2>3. SubSeq(s, 1, Len(s)) = s /\ Tail(s) = SubSeq(s, 2, Len(s))
    BY SubSeqFull, TailIsSubSeq
  <2> QED
    BY <2>1, <2>2, <2>3
<1> QED
  BY <1>1, <1>2, <1>3

(* Counting from the second element on.                                    *)
LEMMA BeforeRest ==
  ASSUME NEW s \in Seq(Item), s # <<>>, NEW verb, NEW i \in 1 .. Len(s)
  PROVE  /\ Before(Tail(s), verb, i) \in Nat
         /\ Before(s, verb, i + 1) = Before(Tail(s), verb, i) + IF s[1][1] = verb THEN 1 ELSE 0
<1> DEFINE h == s[1]
           t == Tail(s)
           one == <<h>>
<1>1. s = one \o t /\ h \in Item /\ t \in Seq(Item) /\ Len(t) \in Nat /\ Len(s) = Len(t) + 1
  BY FirstAndRest, LenProperties
<1> HIDE DEF h, t
<1>2. /\ one \in Seq(Item) /\ Len(one) = 1 /\ Len(one) + 1 = 2
      /\ Before(one, verb, 2) = IF h[1] = verb THEN 1 ELSE 0
  BY <1>1, BeforeOne
<1> HIDE DEF one
<1>3. i \in 1 .. Len(t) + 1
  BY <1>1
<1>4. Before(one \o t, verb, i + Len(one)) = Before(one, verb, Len(one) + 1) + Before(t, verb, i)
  BY <1>1, <1>2, <1>3, BeforeConcat
<1>5. Before(s, verb, i + 1) = Before(one, verb, 2) + Before(t, verb, i)
  BY <1>1, <1>2, <1>4
<1>6. Before(t, verb, i) \in Nat
  BY <1>1, <1>3, BeforeConcat
<1>7. Before(s, verb, i + 1) = (IF h[1] = verb THEN 1 ELSE 0) + Before(t, verb, i)
  BY <1>2, <1>5
<1> QED
  BY <1>6, <1>7 DEF h, t

(* How many there are is a number.                                         *)
LEMMA BeforeNat ==
  ASSUME NEW s, NEW verb, NEW i \in Nat \ {0}
  PROVE  Before(s, verb, i) \in Nat
<1> DEFINE T == {k \in 1 .. i - 1 : s[k][1] = verb}
<1>1. i - 1 \in Nat /\ T \in SUBSET (1 .. i - 1)
  OBVIOUS
<1>2. Cardinality(T) \in Nat
  <2> HIDE DEF T
  <2> QED
    BY <1>1, CountIs
<1> QED
  BY <1>2 DEF Before

(* A send or receive is one of all of them.                                *)
LEMMA BeforeLess ==
  ASSUME NEW s \in Seq(Item), NEW verb, NEW i \in DOMAIN s, s[i][1] = verb
  PROVE  Before(s, verb, i) < Before(s, verb, Len(s) + 1)
<1> DEFINE T == {k \in 1 .. i - 1 : s[k][1] = verb}
           U == {k \in 1 .. Len(s) + 1 - 1 : s[k][1] = verb}
<1>1. Len(s) \in Nat /\ i \in 1 .. Len(s) /\ Len(s) + 1 - 1 = Len(s)
  BY LenProperties
<1>2. T \cup {i} \subseteq U /\ i \notin T
  BY <1>1
<1>3. T \in SUBSET (1 .. Len(s)) /\ U \in SUBSET (1 .. Len(s))
  BY <1>1
<1> HIDE DEF T, U
<1>4. /\ IsFiniteSet(T) /\ Cardinality(T) \in Nat
      /\ IsFiniteSet(U) /\ Cardinality(U) \in Nat
  BY <1>1, <1>3, CountIs
<1>5. Cardinality(T \cup {i}) = Cardinality(T) + 1
  BY <1>2, <1>4, FS_AddElement
<1>6. Cardinality(T \cup {i}) <= Cardinality(U)
  BY <1>2, <1>4, FS_Subset
<1>7. Cardinality(T) < Cardinality(U)
  BY <1>4, <1>5, <1>6
<1> QED
  BY <1>7 DEF Before, T, U

(* Nothing is written before a post that comes first; until there is one,  *)
(* what is written counts.                                                 *)
LEMMA UnpostedIs ==
  ASSUME NEW s \in Seq(Item), NEW t \in Seq(Item)
  PROVE  /\ Unposted(<<>>) = 0 /\ Unposted(t) \in Nat
         /\ t # <<>> /\ t[1] = PostItem => Unposted(t) = 0
         /\ (\A i \in DOMAIN s : s[i] # PostItem) =>
              Unposted(s \o t) = Before(s, "send", Len(s) + 1) + Unposted(t)
<1> DEFINE U == {k \in DOMAIN t : t[k][1] = "send" /\ \A i \in 1 .. k : t[i] # PostItem}
<1>1. /\ Len(s) \in Nat /\ Len(t) \in Nat /\ DOMAIN s = 1 .. Len(s) /\ DOMAIN t = 1 .. Len(t)
      /\ DOMAIN <<>> = {}
  BY LenProperties
<1>2. U \in SUBSET (1 .. Len(t))
  BY <1>1
<1>3. Unposted(<<>>) = 0
  <2>1. {k \in DOMAIN <<>> : <<>>[k][1] = "send" /\ \A i \in 1 .. k : <<>>[i] # PostItem} = {}
    BY <1>1
  <2> QED
    BY <2>1, FS_EmptySet DEF Unposted
<1>4. Unposted(t) = Cardinality(U) /\ Unposted(t) \in Nat
  <2>1. Cardinality(U) \in Nat
    <3> HIDE DEF U
    <3> QED
      BY <1>1, <1>2, CountIs
  <2> QED
    BY <2>1 DEF Unposted
<1>5. ASSUME t # <<>>, t[1] = PostItem PROVE Unposted(t) = 0
  <2>1. U = {}
    <3>1. \A k \in DOMAIN t : 1 \in 1 .. k
      BY <1>1
    <3> QED
      BY <1>5, <3>1
  <2> QED
    BY <1>4, <2>1, FS_EmptySet
<1>6. ASSUME \A i \in DOMAIN s : s[i] # PostItem
      PROVE  Unposted(s \o t) = Before(s, "send", Len(s) + 1) + Unposted(t)
  <2> DEFINE u == s \o t
             T == {k \in 1 .. Len(s) : s[k][1] = "send"}
             V == Moved(U, Len(s))
             W == {k \in DOMAIN u : u[k][1] = "send" /\ \A i \in 1 .. k : u[i] # PostItem}
  <2>1. /\ u \in Seq(Item) /\ Len(u) = Len(s) + Len(t)
        /\ \A i \in 1 .. Len(s) + Len(t) : u[i] = IF i <= Len(s) THEN s[i] ELSE t[i - Len(s)]
    BY ConcatProperties
  <2>2. DOMAIN u = 1 .. Len(s) + Len(t)
    BY <2>1, LenProperties
  <2> HIDE DEF u
  <2>3. \A i \in 1 .. Len(s) : u[i] = s[i] /\ u[i] # PostItem
    <3>1. \A i \in 1 .. Len(s) : i \in 1 .. Len(s) + Len(t) /\ i <= Len(s)
      BY <1>1
    <3>2. \A i \in 1 .. Len(s) : u[i] = s[i]
      BY <2>1, <3>1
    <3>3. \A i \in 1 .. Len(s) : s[i] # PostItem
      BY <1>1, <1>6
    <3> QED
      BY <3>2, <3>3
  <2>4. \A i \in 1 .. Len(t) : i + Len(s) \in 1 .. Len(s) + Len(t) /\ u[i + Len(s)] = t[i]
    <3> SUFFICES ASSUME NEW i \in 1 .. Len(t)
                 PROVE  i + Len(s) \in 1 .. Len(s) + Len(t) /\ u[i + Len(s)] = t[i]
      OBVIOUS
    <3>1. i + Len(s) \in 1 .. Len(s) + Len(t) /\ ~(i + Len(s) <= Len(s)) /\ (i + Len(s)) - Len(s) = i
      BY <1>1
    <3> QED
      BY <2>1, <3>1
  <2>5. W = T \cup V
    <3>1. ASSUME NEW k \in W PROVE k \in T \cup V
      <4>1. CASE k <= Len(s)
        BY <1>1, <2>2, <2>3, <4>1
      <4>2. CASE ~(k <= Len(s))
        <5>1. k - Len(s) \in 1 .. Len(t) /\ k = (k - Len(s)) + Len(s)
          BY <1>1, <2>2, <4>2
        <5>2. t[k - Len(s)][1] = "send"
          BY <2>4, <5>1
        <5>3. ASSUME NEW i \in 1 .. k - Len(s) PROVE t[i] # PostItem
          <6>1. i \in 1 .. Len(t) /\ i + Len(s) \in 1 .. k
            BY <1>1, <5>1
          <6> QED
            BY <2>4, <6>1
        <5>4. k - Len(s) \in U
          BY <1>1, <5>1, <5>2, <5>3
        <5> QED
          BY <5>1, <5>4 DEF Moved
      <4> QED
        BY <4>1, <4>2
    <3>2. ASSUME NEW k \in T PROVE k \in W
      <4>1. k \in DOMAIN u /\ \A i \in 1 .. k : i \in 1 .. Len(s)
        BY <1>1, <2>2
      <4> QED
        BY <2>3, <4>1
    <3>3. ASSUME NEW k \in U PROVE k + Len(s) \in W
      <4>1. k \in 1 .. Len(t) /\ k + Len(s) \in DOMAIN u /\ u[k + Len(s)][1] = "send"
        BY <1>1, <2>2, <2>4
      <4>2. ASSUME NEW i \in 1 .. k + Len(s) PROVE u[i] # PostItem
        <5>1. CASE i <= Len(s)
          BY <1>1, <2>3, <5>1
        <5>2. CASE ~(i <= Len(s))
          <6>1. i - Len(s) \in 1 .. k /\ i - Len(s) \in 1 .. Len(t) /\ i = (i - Len(s)) + Len(s)
            BY <1>1, <4>1, <5>2
          <6> QED
            BY <2>4, <6>1
        <5> QED
          BY <5>1, <5>2
      <4> QED
        BY <4>1, <4>2
    <3> HIDE DEF T, U, W
    <3> QED
      BY <3>1, <3>2, <3>3 DEF Moved
  <2>6. T \in SUBSET (1 .. Len(s))
    OBVIOUS
  <2>7. Cardinality(T \cup V) = Cardinality(T) + Cardinality(U)
    <3>1. Len(s) \in Nat /\ Len(t) \in Nat
      BY <1>1
    <3>2. Among(T, Len(s)) /\ Among(U, Len(t))
      BY <1>2, <2>6 DEF Among
    <3> HIDE DEF T, U
    <3> QED
      BY <3>1, <3>2, CountMoved
  <2>8. Before(s, "send", Len(s) + 1) = Cardinality(T)
    <3>1. (Len(s) + 1) - 1 = Len(s)
      BY <1>1
    <3> QED
      BY <3>1 DEF Before
  <2>9. Unposted(u) = Cardinality(W)
    BY DEF Unposted
  <2> HIDE DEF T, U, V, W
  <2> QED
    BY <1>4, <2>5, <2>7, <2>8, <2>9 DEF u
<1> QED
  BY <1>3, <1>4, <1>5, <1>6
--------------------------------------------------------------------------------
(***************************************************************************)
(* A side takes its next step: what is left still agrees.                  *)
(***************************************************************************)

(* A message is written.                                                   *)
LEMMA AgreeSend ==
  ASSUME NEW M, NEW q \in Seq(M), NEW m \in M, NEW a \in Seq(Item), NEW b \in Seq(Item),
         a # <<>>, a[1][1] = "send", m.kind = a[1][2], Agree(a, q, b)
  PROVE  Agree(Tail(a), Append(q, m), b)
<1> DEFINE t == Tail(a)
           r == Append(q, m)
<1>1. /\ t \in Seq(Item) /\ Len(a) \in Nat /\ Len(a) = Len(t) + 1 /\ DOMAIN a = 1 .. Len(a)
      /\ DOMAIN t = 1 .. Len(a) - 1 /\ \A i \in DOMAIN t : i + 1 \in DOMAIN a /\ t[i] = a[i + 1]
  BY FirstAndRest
<1>2. /\ Len(q) \in Nat /\ Len(r) = Len(q) + 1 /\ r[Len(q) + 1] = m
      /\ \A i \in 1 .. Len(q) : r[i] = q[i]
  BY AppendProperties, LenProperties
<1>3. a[1] # RefuseItem
  BY DEF RefuseItem
<1>4. \A i \in DOMAIN t : Before(t, "send", i) \in Nat
                            /\ Before(a, "send", i + 1) = Before(t, "send", i) + 1
  BY <1>1, BeforeRest
<1> HIDE DEF t, r
<1> SUFFICES ASSUME NEW j \in DOMAIN b, b[j][1] = "recv"
             PROVE  LET n == Before(b, "recv", j)
                    IN /\ n < Len(r) => r[n + 1].kind \in Readable(b[j][2])
                       /\ \A i \in DOMAIN t :
                            /\ t[i][1] = "send" /\ (\A k \in 1 .. i : t[k] # RefuseItem)
                            /\ Len(r) + Before(t, "send", i) = n
                            => t[i][2] \in Readable(b[j][2])
  BY DEF Agree, t, r
<1> DEFINE n == Before(b, "recv", j)
<1>5. /\ n < Len(q) => q[n + 1].kind \in Readable(b[j][2])
      /\ \A i \in DOMAIN a :
           /\ a[i][1] = "send" /\ (\A k \in 1 .. i : a[k] # RefuseItem)
           /\ Len(q) + Before(a, "send", i) = n
           => a[i][2] \in Readable(b[j][2])
  BY DEF Agree
<1>6. n \in Nat
  <2>1. j \in Nat \ {0}
    BY LenProperties
  <2> QED
    BY <2>1, BeforeNat
<1> HIDE DEF n
<1>7. ASSUME n < Len(r) PROVE r[n + 1].kind \in Readable(b[j][2])
  <2>1. CASE n < Len(q)
    BY <1>2, <1>5, <1>6, <2>1
  <2>2. CASE n = Len(q)
    <3>1. 1 \in DOMAIN a /\ Before(a, "send", 1) = 0 /\ \A k \in 1 .. 1 : a[k] # RefuseItem
      BY <1>1, <1>3, BeforeFirst, LenProperties
    <3>2. Len(q) + Before(a, "send", 1) = n
      BY <1>2, <2>2, <3>1
    <3> QED
      BY <1>2, <1>5, <2>2, <3>1, <3>2
  <2> QED
    BY <1>2, <1>6, <1>7, <2>1, <2>2
<1>8. ASSUME NEW i \in DOMAIN t, t[i][1] = "send", \A k \in 1 .. i : t[k] # RefuseItem,
             Len(r) + Before(t, "send", i) = n
      PROVE  t[i][2] \in Readable(b[j][2])
  <2>1. i + 1 \in DOMAIN a /\ t[i] = a[i + 1]
    BY <1>1
  <2>2. Len(q) + Before(a, "send", i + 1) = n
    BY <1>2, <1>4, <1>8
  <2>3. ASSUME NEW k \in 1 .. i + 1 PROVE a[k] # RefuseItem
    <3>1. CASE k = 1
      BY <1>3, <3>1
    <3>2. CASE k # 1
      <4>1. k - 1 \in 1 .. i /\ k - 1 \in DOMAIN t /\ k = (k - 1) + 1
        BY <1>1, <3>2
      <4> QED
        BY <1>1, <1>8, <4>1
    <3> QED
      BY <3>1, <3>2
  <2> QED
    BY <1>5, <1>8, <2>1, <2>2, <2>3
<1> QED
  BY <1>7, <1>8 DEF n

(* The writing side does something else, but refuse.                       *)
LEMMA AgreeOther ==
  ASSUME NEW q, Len(q) \in Nat, NEW a \in Seq(Item), NEW b \in Seq(Item),
         a # <<>>, a[1][1] # "send", a[1] # RefuseItem, Agree(a, q, b)
  PROVE  Agree(Tail(a), q, b)
<1> DEFINE t == Tail(a)
<1>1. /\ t \in Seq(Item) /\ Len(a) \in Nat /\ Len(a) = Len(t) + 1 /\ DOMAIN a = 1 .. Len(a)
      /\ DOMAIN t = 1 .. Len(a) - 1 /\ \A i \in DOMAIN t : i + 1 \in DOMAIN a /\ t[i] = a[i + 1]
  BY FirstAndRest
<1>2. \A i \in DOMAIN t : Before(t, "send", i) \in Nat
                            /\ Before(a, "send", i + 1) = Before(t, "send", i)
  BY <1>1, BeforeRest
<1> HIDE DEF t
<1>3. ASSUME NEW i \in DOMAIN t, \A k \in 1 .. i : t[k] # RefuseItem
      PROVE  \A k \in 1 .. i + 1 : a[k] # RefuseItem
  <2> SUFFICES ASSUME NEW k \in 1 .. i + 1 PROVE a[k] # RefuseItem
    OBVIOUS
  <2>1. CASE k = 1
    BY <2>1
  <2>2. CASE k # 1
    <3>1. k - 1 \in 1 .. i /\ k - 1 \in DOMAIN t /\ k = (k - 1) + 1
      BY <1>1, <2>2
    <3> QED
      BY <1>1, <1>3, <3>1
  <2> QED
    BY <2>1, <2>2
<1>4. ASSUME NEW j \in DOMAIN b, b[j][1] = "recv", NEW i \in DOMAIN t, t[i][1] = "send",
             \A k \in 1 .. i : t[k] # RefuseItem,
             Len(q) + Before(t, "send", i) = Before(b, "recv", j)
      PROVE  t[i][2] \in Readable(b[j][2])
  <2>1. i + 1 \in DOMAIN a /\ t[i] = a[i + 1]
    BY <1>1
  <2>2. Len(q) + Before(a, "send", i + 1) = Before(b, "recv", j)
    BY <1>2, <1>4
  <2>3. \A k \in 1 .. i + 1 : a[k] # RefuseItem
    BY <1>3, <1>4
  <2> QED
    BY <1>4, <2>1, <2>2, <2>3 DEF Agree
<1>5. \A j \in DOMAIN b : b[j][1] = "recv" =>
        (Before(b, "recv", j) < Len(q) => q[Before(b, "recv", j) + 1].kind \in Readable(b[j][2]))
  BY DEF Agree
<1> QED
  BY <1>4, <1>5 DEF Agree, t

(* A message is read.                                                      *)
LEMMA AgreeRead ==
  ASSUME NEW M, NEW q \in Seq(M), NEW a \in Seq(Item), NEW b \in Seq(Item),
         b # <<>>, b[1][1] = "recv", q # <<>>, Agree(a, q, b)
  PROVE  Agree(a, Tail(q), Tail(b))
<1> DEFINE t == Tail(b)
           r == Tail(q)
<1>1. /\ t \in Seq(Item) /\ Len(b) \in Nat /\ Len(b) = Len(t) + 1 /\ DOMAIN b = 1 .. Len(b)
      /\ DOMAIN t = 1 .. Len(b) - 1 /\ \A i \in DOMAIN t : i + 1 \in DOMAIN b /\ t[i] = b[i + 1]
  BY FirstAndRest
<1>2. /\ Len(q) \in Nat \ {0} /\ Len(r) = Len(q) - 1 /\ \A i \in 1 .. Len(r) : r[i] = q[i + 1]
  BY HeadTailProperties, LenProperties, EmptySeq
<1>3. \A i \in DOMAIN t : Before(t, "recv", i) \in Nat
                            /\ Before(b, "recv", i + 1) = Before(t, "recv", i) + 1
  BY <1>1, BeforeRest
<1>4. \A i \in DOMAIN a : Before(a, "send", i) \in Nat
  <2>1. \A i \in DOMAIN a : i \in Nat \ {0}
    BY LenProperties
  <2> QED
    BY <2>1, BeforeNat
<1> HIDE DEF t, r
<1>5. ASSUME NEW j \in DOMAIN t, t[j][1] = "recv"
      PROVE  LET n == Before(t, "recv", j)
             IN /\ n < Len(r) => r[n + 1].kind \in Readable(t[j][2])
                /\ \A i \in DOMAIN a :
                     /\ a[i][1] = "send" /\ (\A k \in 1 .. i : a[k] # RefuseItem)
                     /\ Len(r) + Before(a, "send", i) = n
                     => a[i][2] \in Readable(t[j][2])
  <2> DEFINE n == Before(t, "recv", j)
  <2>1. n \in Nat /\ Before(b, "recv", j + 1) = n + 1
    BY <1>3
  <2> HIDE DEF n
  <2>2. j + 1 \in DOMAIN b /\ b[j + 1] = t[j]
    BY <1>1
  <2>3. /\ n + 1 < Len(q) => q[n + 1 + 1].kind \in Readable(t[j][2])
        /\ \A i \in DOMAIN a :
             /\ a[i][1] = "send" /\ (\A k \in 1 .. i : a[k] # RefuseItem)
             /\ Len(q) + Before(a, "send", i) = n + 1
             => a[i][2] \in Readable(t[j][2])
    BY <1>5, <2>1, <2>2 DEF Agree
  <2>4. n < Len(r) => r[n + 1].kind \in Readable(t[j][2])
    <3> SUFFICES ASSUME n < Len(r) PROVE r[n + 1].kind \in Readable(t[j][2])
      OBVIOUS
    <3>1. n + 1 < Len(q) /\ n + 1 \in 1 .. Len(r)
      BY <1>2, <2>1
    <3> QED
      BY <1>2, <2>3, <3>1
  <2>5. ASSUME NEW i \in DOMAIN a, Len(r) + Before(a, "send", i) = n
        PROVE  Len(q) + Before(a, "send", i) = n + 1
    BY <1>2, <1>4, <2>1, <2>5
  <2> QED
    BY <2>3, <2>4, <2>5 DEF n
<1> QED
  BY <1>5 DEF Agree, t, r

(* The reading side does something else.                                   *)
LEMMA AgreeIgnore ==
  ASSUME NEW q, NEW a \in Seq(Item), NEW b \in Seq(Item),
         b # <<>>, b[1][1] # "recv", Agree(a, q, b)
  PROVE  Agree(a, q, Tail(b))
<1> DEFINE t == Tail(b)
<1>1. /\ t \in Seq(Item) /\ Len(b) \in Nat /\ Len(b) = Len(t) + 1 /\ DOMAIN b = 1 .. Len(b)
      /\ DOMAIN t = 1 .. Len(b) - 1 /\ \A i \in DOMAIN t : i + 1 \in DOMAIN b /\ t[i] = b[i + 1]
  BY FirstAndRest
<1>2. \A i \in DOMAIN t : Before(b, "recv", i + 1) = Before(t, "recv", i)
  <2>1. \A i \in DOMAIN t : i \in 1 .. Len(b)
    BY <1>1
  <2>2. \A i \in DOMAIN t : /\ Before(t, "recv", i) \in Nat
                            /\ Before(b, "recv", i + 1) = Before(t, "recv", i) + 0
    BY <2>1, BeforeRest
  <2> QED
    BY <2>2
<1> HIDE DEF t
<1>3. ASSUME NEW j \in DOMAIN t, t[j][1] = "recv"
      PROVE  LET n == Before(t, "recv", j)
             IN /\ n < Len(q) => q[n + 1].kind \in Readable(t[j][2])
                /\ \A i \in DOMAIN a :
                     /\ a[i][1] = "send" /\ (\A k \in 1 .. i : a[k] # RefuseItem)
                     /\ Len(q) + Before(a, "send", i) = n
                     => a[i][2] \in Readable(t[j][2])
  <2>1. j + 1 \in DOMAIN b /\ b[j + 1] = t[j] /\ Before(b, "recv", j + 1) = Before(t, "recv", j)
    BY <1>1, <1>2
  <2>2. b[j + 1][1] = "recv"
    BY <1>3, <2>1
  <2> QED
    BY <2>1, <2>2 DEF Agree
<1> QED
  BY <1>3 DEF Agree, t

(* A side that has ended writes and reads nothing more.                    *)
LEMMA AgreeEnd ==
  ASSUME NEW q, NEW a, NEW b, Agree(a, q, b)
  PROVE  Agree(<<>>, q, b) /\ Agree(a, q, <<>>)
<1>1. DOMAIN <<>> = {}
  OBVIOUS
<1> QED
  BY <1>1 DEF Agree

(* What may still be written, from the second element on.                  *)
LEMMA UnpostedRest ==
  ASSUME NEW s \in Seq(Item), s # <<>>
  PROVE  /\ Unposted(Tail(s)) \in Nat
         /\ s[1] # PostItem =>
              Unposted(s) = Unposted(Tail(s)) + IF s[1][1] = "send" THEN 1 ELSE 0
<1> DEFINE h == s[1]
           t == Tail(s)
           one == <<h>>
<1>1. s = one \o t /\ h \in Item /\ t \in Seq(Item)
  BY FirstAndRest
<1> HIDE DEF h, t
<1>2. /\ one \in Seq(Item) /\ DOMAIN one = {1} /\ one[1] = h /\ Len(one) + 1 = 2
      /\ Before(one, "send", 2) = IF h[1] = "send" THEN 1 ELSE 0
  BY <1>1, BeforeOne
<1> HIDE DEF one
<1>3. Unposted(t) \in Nat
  BY <1>1, UnpostedIs
<1>4. ASSUME h # PostItem PROVE Unposted(s) = Unposted(t) + IF h[1] = "send" THEN 1 ELSE 0
  <2>1. \A i \in DOMAIN one : one[i] # PostItem
    BY <1>2, <1>4
  <2>2. Unposted(one \o t) = Before(one, "send", Len(one) + 1) + Unposted(t)
    BY <1>1, <1>2, <2>1, UnpostedIs
  <2>3. Unposted(s) = Before(one, "send", 2) + Unposted(t)
    BY <1>1, <1>2, <2>2
  <2>4. Unposted(s) = (IF h[1] = "send" THEN 1 ELSE 0) + Unposted(t)
    BY <1>2, <2>3
  <2> QED
    BY <1>3, <2>4
<1> QED
  BY <1>3, <1>4 DEF h, t

(* A message is written before the post.                                   *)
LEMMA GatedSend ==
  ASSUME NEW q, NEW r, Len(q) \in Nat, Len(r) = Len(q) + 1, NEW a \in Seq(Item), NEW b,
         a # <<>>, a[1][1] = "send", Gated(a, q, b)
  PROVE  Gated(Tail(a), r, b)
<1>1. a[1] # PostItem
  BY DEF PostItem
<1>2. Unposted(Tail(a)) \in Nat /\ Unposted(a) = Unposted(Tail(a)) + 1
  BY <1>1, UnpostedRest
<1>3. Len(r) + Unposted(Tail(a)) = Len(q) + Unposted(a)
  BY <1>2
<1> QED
  BY <1>3 DEF Gated

(* The server does something else, but post.                               *)
LEMMA GatedOther ==
  ASSUME NEW q, NEW a \in Seq(Item), NEW b,
         a # <<>>, a[1][1] # "send", a[1] # PostItem, Gated(a, q, b)
  PROVE  Gated(Tail(a), q, b)
<1>1. Unposted(Tail(a)) \in Nat /\ Unposted(a) = Unposted(Tail(a)) + 0
  BY UnpostedRest
<1>2. Unposted(Tail(a)) = Unposted(a)
  BY <1>1
<1> QED
  BY <1>2 DEF Gated

(* The client reads a message.                                             *)
LEMMA GatedRead ==
  ASSUME NEW q, NEW r, Len(r) \in Nat, Len(q) = Len(r) + 1, NEW a \in Seq(Item),
         NEW b \in Seq(Item), b # <<>>, b[1][1] = "recv", Gated(a, q, b)
  PROVE  Gated(a, r, Tail(b))
<1> DEFINE t == Tail(b)
<1>1. /\ Len(b) \in Nat /\ DOMAIN b = 1 .. Len(b) /\ DOMAIN t = 1 .. Len(b) - 1
      /\ \A i \in DOMAIN t : i + 1 \in DOMAIN b /\ t[i] = b[i + 1]
  BY FirstAndRest
<1>2. \A i \in DOMAIN t : Before(t, "recv", i) \in Nat
                            /\ Before(b, "recv", i + 1) = Before(t, "recv", i) + 1
  BY <1>1, BeforeRest
<1> HIDE DEF t
<1>3. Unposted(a) \in Nat
  BY UnpostedIs
<1>4. ASSUME NEW j \in DOMAIN t, t[j] = TrafficItem
      PROVE  Len(r) + Unposted(a) < Before(t, "recv", j)
  <2>1. Len(q) + Unposted(a) < Before(b, "recv", j + 1)
    BY <1>1, <1>4 DEF Gated
  <2> QED
    BY <1>2, <1>3, <2>1
<1> QED
  BY <1>4 DEF Gated, t

(* The client does something else.                                         *)
LEMMA GatedIgnore ==
  ASSUME NEW q, NEW a \in Seq(Item), NEW b \in Seq(Item), b # <<>>, b[1][1] # "recv", Gated(a, q, b)
  PROVE  Gated(a, q, Tail(b))
<1> DEFINE t == Tail(b)
<1>1. /\ Len(b) \in Nat /\ DOMAIN b = 1 .. Len(b) /\ DOMAIN t = 1 .. Len(b) - 1
      /\ \A i \in DOMAIN t : i + 1 \in DOMAIN b /\ t[i] = b[i + 1]
  BY FirstAndRest
<1>2. \A i \in DOMAIN t : Before(t, "recv", i) \in Nat
                            /\ Before(b, "recv", i + 1) = Before(t, "recv", i) + 0
  BY <1>1, BeforeRest
<1>3. \A i \in DOMAIN t : Before(b, "recv", i + 1) = Before(t, "recv", i)
  BY <1>2
<1> HIDE DEF t
<1> QED
  BY <1>1, <1>3 DEF Gated, t

(* One of them has ended.                                                  *)
LEMMA GatedEnd ==
  ASSUME NEW q, Len(q) \in Nat, NEW a \in Seq(Item), NEW b \in Seq(Item), Gated(a, q, b)
  PROVE  Gated(<<>>, q, b) /\ Gated(a, q, <<>>)
<1>1. DOMAIN <<>> = {} /\ Unposted(<<>>) = 0 /\ Unposted(a) \in Nat
  BY UnpostedIs
<1>2. \A j \in DOMAIN b : Before(b, "recv", j) \in Nat
  <2>1. \A j \in DOMAIN b : j \in Nat \ {0}
    BY LenProperties
  <2> QED
    BY <2>1, BeforeNat
<1>3. Gated(<<>>, q, b)
  BY <1>1, <1>2 DEF Gated
<1>4. Gated(a, q, <<>>)
  BY <1>1 DEF Gated
<1> QED
  BY <1>3, <1>4

(* What is left behind the first item.                                     *)
LEMMA RestHas ==
  ASSUME NEW s \in Seq(Item), s # <<>>
  PROVE  /\ \A x : Has(Tail(s), x) => Has(s, x)
         /\ \A x : Has(s, x) => s[1] = x \/ Has(Tail(s), x)
         /\ Has(s, s[1])
<1>1. /\ Len(s) \in Nat /\ DOMAIN s = 1 .. Len(s) /\ Len(s) = Len(Tail(s)) + 1
      /\ Tail(s) \in Seq(Item)
      /\ \A i \in DOMAIN Tail(s) : i + 1 \in DOMAIN s /\ Tail(s)[i] = s[i + 1]
      /\ \A i \in DOMAIN s : i = 1 \/ (i - 1 \in DOMAIN Tail(s) /\ s[i] = Tail(s)[i - 1])
  BY FirstAndRest
<1>2. 1 \in DOMAIN s
  BY <1>1, LenProperties
<1> QED
  BY <1>1, <1>2 DEF Has

LEMMA RestOrder ==
  ASSUME NEW s \in Seq(Item), s # <<>>, NEW x, NEW y
  PROVE  /\ Precedes(s, x, y) => Precedes(Tail(s), x, y)
         /\ Leads(s, x, y) => Leads(Tail(s), x, y)
         /\ Leads(s, x, y) /\ s[1] = x => Has(Tail(s), y)
         /\ Leads(s, x, y) /\ Has(s, x) => Has(s, y)
         /\ Precedes(s, x, y) /\ s[1] = y => ~Has(s, x)
<1> DEFINE t == Tail(s)
<1>1. /\ Len(s) \in Nat /\ DOMAIN s = 1 .. Len(s) /\ DOMAIN t = 1 .. Len(s) - 1
      /\ \A i \in DOMAIN t : i + 1 \in DOMAIN s /\ t[i] = s[i + 1]
      /\ \A i \in DOMAIN s : i = 1 \/ (i - 1 \in DOMAIN t /\ s[i] = t[i - 1])
  BY FirstAndRest
<1>2. 1 \in DOMAIN s
  <2>1. Len(s) # 0
    BY EmptySeq
  <2> QED
    BY <1>1, <2>1
<1> HIDE DEF t
<1>3. ASSUME Precedes(s, x, y) PROVE Precedes(t, x, y)
  <2> SUFFICES ASSUME NEW i \in DOMAIN t, NEW j \in DOMAIN t, t[i] = x, t[j] = y PROVE i < j
    BY DEF Precedes
  <2>1. i + 1 < j + 1
    BY <1>1, <1>3 DEF Precedes
  <2> QED
    BY <1>1, <2>1
<1>4. ASSUME Leads(s, x, y) PROVE Leads(t, x, y)
  <2> SUFFICES ASSUME NEW i \in DOMAIN t, t[i] = x PROVE \E j \in DOMAIN t : i < j /\ t[j] = y
    BY DEF Leads
  <2>1. i + 1 \in DOMAIN s /\ s[i + 1] = x
    BY <1>1
  <2>2. PICK j \in DOMAIN s : i + 1 < j /\ s[j] = y
    BY <1>4, <2>1 DEF Leads
  <2>3. j # 1 /\ i < j - 1
    BY <1>1, <2>2
  <2> QED
    BY <1>1, <2>2, <2>3
<1>5. ASSUME Leads(s, x, y), s[1] = x PROVE Has(t, y)
  <2>1. PICK j \in DOMAIN s : 1 < j /\ s[j] = y
    BY <1>2, <1>5 DEF Leads
  <2> QED
    BY <1>1, <2>1 DEF Has
<1>6. Leads(s, x, y) /\ Has(s, x) => Has(s, y)
  BY DEF Leads, Has
<1>7. ASSUME Precedes(s, x, y), s[1] = y PROVE ~Has(s, x)
  <2>1. \A i \in DOMAIN s : ~(i < 1)
    BY <1>1
  <2> QED
    BY <1>2, <1>7, <2>1 DEF Precedes, Has
<1> QED
  BY <1>3, <1>4, <1>5, <1>6, <1>7 DEF t

--------------------------------------------------------------------------------
(***************************************************************************)
(* What a step of either side does to a connection that fits.              *)
(***************************************************************************)

(* The client's next step.                                                 *)
LEMMA ClientQp ==
  ASSUME NEW conn, NEW c \in Seq(Item), c # <<>>, NEW a, NEW q, NEW r, NEW on,
         QpInOrder(conn, c, a, q, on), r["Server"] = q["Server"],
         c[1] = AckItem => r["Client"] = <<conn, "Server">>,
         c[1] \notin {AckItem, BuildItem} => r["Client"] = q["Client"]
  PROVE  QpInOrder(conn, Tail(c), a, r, on)
<1>1. Leads(Tail(c), BuildItem, AckItem) /\ Precedes(Tail(c), AckItem, TrafficItem)
  BY RestOrder DEF QpInOrder
<1>2. Has(Tail(c), AckItem) \/ r["Client"] = <<conn, "Server">>
  <2>1. CASE c[1] = AckItem
    BY <2>1
  <2>2. CASE c[1] = BuildItem
    BY <2>2, RestOrder DEF QpInOrder
  <2>3. CASE c[1] \notin {AckItem, BuildItem}
    BY <2>3, RestHas DEF QpInOrder
  <2> QED
    BY <2>1, <2>2, <2>3
<1> QED
  BY <1>1, <1>2 DEF QpInOrder

(* The server's next step; a post arms the connection.                     *)
LEMMA ServerQp ==
  ASSUME NEW conn, NEW c, NEW a \in Seq(Item), a # <<>>, NEW q, NEW r, NEW on, NEW onn,
         QpInOrder(conn, c, a, q, on), r["Client"] = q["Client"],
         a[1] = EndpointItem => r["Server"] = <<conn, "Client">>,
         a[1] \notin {EndpointItem, BuildItem} => r["Server"] = q["Server"],
         conn \in onn => conn \in on \/ a[1] = PostItem
  PROVE  QpInOrder(conn, c, Tail(a), r, onn)
<1>1. Leads(Tail(a), BuildItem, EndpointItem) /\ Precedes(Tail(a), EndpointItem, PostItem)
  BY RestOrder DEF QpInOrder
<1>2. PostItem \notin {EndpointItem, BuildItem} /\ EndpointItem # BuildItem
  BY DEF PostItem, EndpointItem, BuildItem
<1>3. ASSUME Has(Tail(a), PostItem)
      PROVE  Has(Tail(a), EndpointItem) \/ r["Server"] = <<conn, "Client">>
  <2>1. Has(a, EndpointItem) \/ q["Server"] = <<conn, "Client">>
    BY <1>3, RestHas DEF QpInOrder
  <2>2. CASE a[1] = EndpointItem
    BY <2>2
  <2>3. CASE a[1] = BuildItem
    BY <2>3, RestOrder DEF QpInOrder
  <2>4. CASE a[1] \notin {EndpointItem, BuildItem}
    BY <2>1, <2>4, RestHas
  <2> QED
    BY <2>2, <2>3, <2>4
<1>4. ASSUME conn \in onn
      PROVE  /\ ~Has(Tail(a), BuildItem) /\ ~Has(Tail(a), EndpointItem)
             /\ r["Server"] = <<conn, "Client">>
  <2>1. ~Has(a, BuildItem) /\ ~Has(a, EndpointItem) /\ q["Server"] = <<conn, "Client">>
    <3>1. CASE conn \in on
      BY <3>1 DEF QpInOrder
    <3>2. CASE a[1] = PostItem
      <4>1. Has(a, PostItem)
        BY <3>2, RestHas
      <4>2. ~Has(a, EndpointItem)
        BY <3>2, RestOrder DEF QpInOrder
      <4>3. ~Has(a, BuildItem)
        BY <4>2, RestOrder DEF QpInOrder
      <4> QED
        BY <4>1, <4>2, <4>3 DEF QpInOrder
    <3> QED
      BY <1>4, <3>1, <3>2
  <2>2. a[1] \notin {EndpointItem, BuildItem}
    BY <2>1, RestHas
  <2> QED
    BY <2>1, <2>2, RestHas
<1> QED
  BY <1>1, <1>3, <1>4 DEF QpInOrder

(* Who has ended is out of order with nobody.                              *)
LEMMA QpEnd ==
  ASSUME NEW conn, NEW c, NEW a, NEW q, NEW on, QpInOrder(conn, c, a, q, on)
  PROVE  QpInOrder(conn, <<>>, a, q, on) /\ QpInOrder(conn, c, <<>>, q, on)
<1>1. DOMAIN <<>> = {}
  OBVIOUS
<1>2. /\ \A x : ~Has(<<>>, x)
      /\ \A x, y : Leads(<<>>, x, y) /\ Precedes(<<>>, x, y)
  BY <1>1 DEF Has, Leads, Precedes
<1>3. QpInOrder(conn, <<>>, a, q, on)
  BY <1>2 DEF QpInOrder
<1>4. QpInOrder(conn, c, <<>>, q, on)
  BY <1>2 DEF QpInOrder
<1> QED
  BY <1>3, <1>4

(* Side s has one message more, or one less, or as many.                   *)
Mailed(M, m, n, s) ==
  /\ m \in [Side -> Seq(M)] /\ n \in [Side -> Seq(M)]
  /\ \A t \in Side : t # s => n[t] = m[t]

(* The client's step fits.                                                 *)
LEMMA ClientFits ==
  ASSUME NEW conn, NEW M, NEW c \in Seq(Item), c # <<>>, NEW a \in Seq(Item), NEW on,
         NEW m, NEW n, NEW q, NEW r, Fits(conn, c, a, m, q, on), c[1] # RefuseItem,
         r["Server"] = q["Server"],
         c[1] = AckItem => r["Client"] = <<conn, "Server">>,
         c[1] \notin {AckItem, BuildItem} => r["Client"] = q["Client"],
         \/ c[1][1] = "do" /\ m \in [Side -> Seq(M)] /\ n = m
         \/ /\ c[1][1] = "recv" /\ Mailed(M, m, n, "Client")
            /\ m["Client"] # <<>> /\ n["Client"] = Tail(m["Client"])
         \/ /\ c[1][1] = "send" /\ Mailed(M, m, n, "Server")
            /\ \E x \in M : x.kind = c[1][2] /\ n["Server"] = Append(m["Server"], x),
         Signed(conn, n)
  PROVE  Fits(conn, Tail(c), a, n, r, on)
<1>1. QpInOrder(conn, Tail(c), a, r, on)
  BY ClientQp DEF Fits
<1>2. Agree(c, m["Server"], a) /\ Agree(a, m["Client"], c) /\ (conn \in on \/ Gated(a, m["Client"], c))
  BY DEF Fits, InStep
<1>3. "Server" \in Side /\ "Client" \in Side
  BY DEF Side
<1>4. CASE c[1][1] = "do" /\ m \in [Side -> Seq(M)] /\ n = m
  <2>1. Len(m["Server"]) \in Nat
    BY <1>3, <1>4, LenProperties
  <2>2. Agree(Tail(c), n["Server"], a)
    BY <1>2, <1>4, <2>1, AgreeOther
  <2>3. Agree(a, n["Client"], Tail(c))
    BY <1>2, <1>4, AgreeIgnore
  <2>4. conn \in on \/ Gated(a, n["Client"], Tail(c))
    BY <1>2, <1>4, GatedIgnore
  <2> QED
    BY <1>1, <2>2, <2>3, <2>4 DEF Fits, InStep
<1>5. CASE /\ c[1][1] = "recv" /\ Mailed(M, m, n, "Client")
           /\ m["Client"] # <<>> /\ n["Client"] = Tail(m["Client"])
  <2>1. m["Client"] \in Seq(M) /\ m["Server"] \in Seq(M) /\ n["Server"] = m["Server"]
    BY <1>3, <1>5 DEF Mailed
  <2>2. /\ Len(m["Server"]) \in Nat /\ Len(n["Client"]) \in Nat
        /\ Len(m["Client"]) = Len(n["Client"]) + 1
    BY <1>5, <2>1, HeadTailProperties, LenProperties, EmptySeq
  <2>3. Agree(Tail(c), n["Server"], a)
    BY <1>2, <1>5, <2>1, <2>2, AgreeOther
  <2>4. Agree(a, n["Client"], Tail(c))
    BY <1>2, <1>5, <2>1, AgreeRead
  <2>5. conn \in on \/ Gated(a, n["Client"], Tail(c))
    BY <1>2, <1>5, <2>2, GatedRead
  <2> QED
    BY <1>1, <2>3, <2>4, <2>5 DEF Fits, InStep
<1>6. ASSUME c[1][1] = "send", Mailed(M, m, n, "Server"),
             NEW x \in M, x.kind = c[1][2], n["Server"] = Append(m["Server"], x)
      PROVE  Fits(conn, Tail(c), a, n, r, on)
  <2>1. m["Server"] \in Seq(M) /\ n["Client"] = m["Client"]
    BY <1>3, <1>6 DEF Mailed
  <2>2. Agree(Tail(c), n["Server"], a)
    BY <1>2, <1>6, <2>1, AgreeSend
  <2>3. Agree(a, n["Client"], Tail(c))
    BY <1>2, <1>6, <2>1, AgreeIgnore
  <2>4. conn \in on \/ Gated(a, n["Client"], Tail(c))
    BY <1>2, <1>6, <2>1, GatedIgnore
  <2> QED
    BY <1>1, <2>2, <2>3, <2>4 DEF Fits, InStep
<1> QED
  BY <1>4, <1>5, <1>6

(* The server's step fits.                                                 *)
LEMMA ServerFits ==
  ASSUME NEW conn, NEW M, NEW c \in Seq(Item), NEW a \in Seq(Item), a # <<>>, NEW on, NEW onn,
         NEW m, NEW n, NEW q, NEW r, Fits(conn, c, a, m, q, on), a[1] # RefuseItem,
         r["Client"] = q["Client"],
         a[1] = EndpointItem => r["Server"] = <<conn, "Client">>,
         a[1] \notin {EndpointItem, BuildItem} => r["Server"] = q["Server"],
         conn \in on => conn \in onn, conn \in onn <=> conn \in on \/ a[1] = PostItem,
         \/ a[1][1] = "do" /\ m \in [Side -> Seq(M)] /\ n = m
         \/ /\ a[1][1] = "recv" /\ Mailed(M, m, n, "Server")
            /\ m["Server"] # <<>> /\ n["Server"] = Tail(m["Server"])
         \/ /\ a[1][1] = "send" /\ Mailed(M, m, n, "Client")
            /\ \E x \in M : x.kind = a[1][2] /\ n["Client"] = Append(m["Client"], x),
         Signed(conn, n)
  PROVE  Fits(conn, c, Tail(a), n, r, onn)
<1>1. QpInOrder(conn, c, Tail(a), r, onn)
  BY ServerQp DEF Fits
<1>2. Agree(c, m["Server"], a) /\ Agree(a, m["Client"], c) /\ (conn \in on \/ Gated(a, m["Client"], c))
  BY DEF Fits, InStep
<1>3. "Server" \in Side /\ "Client" \in Side
  BY DEF Side
<1>4. CASE a[1][1] = "do" /\ m \in [Side -> Seq(M)] /\ n = m
  <2>1. Len(m["Client"]) \in Nat
    BY <1>3, <1>4, LenProperties
  <2>2. Agree(Tail(a), n["Client"], c)
    BY <1>2, <1>4, <2>1, AgreeOther
  <2>3. Agree(c, n["Server"], Tail(a))
    BY <1>2, <1>4, AgreeIgnore
  <2>4. conn \in onn \/ Gated(Tail(a), n["Client"], c)
    BY <1>2, <1>4, GatedOther
  <2> QED
    BY <1>1, <2>2, <2>3, <2>4 DEF Fits, InStep
<1>5. CASE /\ a[1][1] = "recv" /\ Mailed(M, m, n, "Server")
           /\ m["Server"] # <<>> /\ n["Server"] = Tail(m["Server"])
  <2>1. m["Client"] \in Seq(M) /\ m["Server"] \in Seq(M) /\ n["Client"] = m["Client"]
    BY <1>3, <1>5 DEF Mailed
  <2>2. Len(m["Client"]) \in Nat
    BY <2>1, LenProperties
  <2>3. Agree(Tail(a), n["Client"], c)
    BY <1>2, <1>5, <2>1, <2>2, AgreeOther
  <2>4. Agree(c, n["Server"], Tail(a))
    BY <1>2, <1>5, <2>1, AgreeRead
  <2>5. conn \in onn \/ Gated(Tail(a), n["Client"], c)
    BY <1>2, <1>5, <2>1, GatedOther
  <2> QED
    BY <1>1, <2>3, <2>4, <2>5 DEF Fits, InStep
<1>6. ASSUME a[1][1] = "send", Mailed(M, m, n, "Client"),
             NEW x \in M, x.kind = a[1][2], n["Client"] = Append(m["Client"], x)
      PROVE  Fits(conn, c, Tail(a), n, r, onn)
  <2>1. m["Client"] \in Seq(M) /\ n["Server"] = m["Server"]
    BY <1>3, <1>6 DEF Mailed
  <2>2. Len(m["Client"]) \in Nat /\ Len(n["Client"]) = Len(m["Client"]) + 1
    BY <1>6, <2>1, AppendProperties, LenProperties
  <2>3. Agree(Tail(a), n["Client"], c)
    BY <1>2, <1>6, <2>1, AgreeSend
  <2>4. Agree(c, n["Server"], Tail(a))
    BY <1>2, <1>6, <2>1, AgreeIgnore
  <2>5. conn \in onn \/ Gated(Tail(a), n["Client"], c)
    BY <1>2, <1>6, <2>2, GatedSend
  <2> QED
    BY <1>1, <2>3, <2>4, <2>5 DEF Fits, InStep
<1> QED
  BY <1>4, <1>5, <1>6

(* A side ends, perhaps over a message it has read.                        *)
LEMMA EndFits ==
  ASSUME NEW conn, NEW M, NEW c \in Seq(Item), NEW a \in Seq(Item), NEW m, NEW n, NEW q, NEW on,
         Fits(conn, c, a, m, q, on), Signed(conn, n)
  PROVE  /\ Mailed(M, m, n, "Client") => Fits(conn, <<>>, a, n, q, on)
         /\ Mailed(M, m, n, "Server") => Fits(conn, c, <<>>, n, q, on)
<1>1. QpInOrder(conn, <<>>, a, q, on) /\ QpInOrder(conn, c, <<>>, q, on)
  BY QpEnd DEF Fits
<1>2. Agree(c, m["Server"], a) /\ Agree(a, m["Client"], c) /\ (conn \in on \/ Gated(a, m["Client"], c))
  BY DEF Fits, InStep
<1>3. "Server" \in Side /\ "Client" \in Side /\ DOMAIN <<>> = {}
  BY DEF Side
<1>4. ASSUME Mailed(M, m, n, "Client") PROVE Fits(conn, <<>>, a, n, q, on)
  <2>1. n["Server"] = m["Server"]
    BY <1>3, <1>4 DEF Mailed
  <2>2. Agree(<<>>, n["Server"], a)
    BY <1>2, <2>1, AgreeEnd
  <2>3. Agree(a, n["Client"], <<>>) /\ Gated(a, n["Client"], <<>>)
    BY <1>3 DEF Agree, Gated
  <2> QED
    BY <1>1, <2>2, <2>3 DEF Fits, InStep
<1>5. ASSUME Mailed(M, m, n, "Server") PROVE Fits(conn, c, <<>>, n, q, on)
  <2>1. n["Client"] = m["Client"] /\ Len(m["Client"]) \in Nat
    BY <1>3, <1>5, LenProperties DEF Mailed
  <2>2. Agree(<<>>, n["Client"], c)
    BY <1>2, <2>1, AgreeEnd
  <2>3. Agree(c, n["Server"], <<>>)
    BY <1>3 DEF Agree
  <2>4. conn \in on \/ Gated(<<>>, n["Client"], c)
    BY <1>2, <2>1, GatedEnd
  <2> QED
    BY <1>1, <2>2, <2>3, <2>4 DEF Fits, InStep
<1> QED
  BY <1>4, <1>5

--------------------------------------------------------------------------------
(***************************************************************************)
(* The code of the two sides, put together.                                *)
(***************************************************************************)

\* How many sends, or receives, there are.
Total(s, verb) == Before(s, verb, Len(s) + 1)

LEMMA TotalNat == ASSUME NEW s \in Seq(Item), NEW verb PROVE Total(s, verb) \in Nat
<1>1. Len(s) + 1 \in Nat \ {0}
  BY LenProperties
<1> QED
  BY <1>1, BeforeNat DEF Total

LEMMA TotalConcat ==
  ASSUME NEW s \in Seq(Item), NEW t \in Seq(Item), NEW verb
  PROVE  Total(s \o t, verb) = Total(s, verb) + Total(t, verb)
<1>1. Len(s) \in Nat /\ Len(t) \in Nat /\ Len(s \o t) = Len(s) + Len(t)
  BY LenProperties, ConcatProperties
<1>2. Len(t) + 1 \in 1 .. Len(t) + 1
  BY <1>1
<1>3. Before(s \o t, verb, Len(t) + 1 + Len(s)) = Before(s, verb, Len(s) + 1) + Before(t, verb, Len(t) + 1)
  BY <1>2, BeforeConcat
<1>4. Len(t) + 1 + Len(s) = Len(s \o t) + 1
  BY <1>1
<1> QED
  BY <1>3, <1>4 DEF Total

(* A single step, and none.                                                *)
LEMMA TotalOne ==
  ASSUME NEW h \in Item, NEW verb
  PROVE  /\ Total(<<h>>, verb) = IF h[1] = verb THEN 1 ELSE 0
         /\ Total(<<>>, verb) = 0
<1>1. Len(<<h>>) + 1 = 2 /\ Len(<<>>) + 1 = 1
  OBVIOUS
<1>2. Before(<<h>>, verb, 2) = IF h[1] = verb THEN 1 ELSE 0
  BY BeforeOne
<1> QED
  BY <1>1, <1>2, BeforeFirst DEF Total

(* With nothing on its way, what is written is compared with what is read. *)
LEMMA AgreeFresh ==
  ASSUME NEW a \in Seq(Item), NEW b \in Seq(Item)
  PROVE  Agree(a, <<>>, b) <=>
           \A j \in DOMAIN b : \A i \in DOMAIN a :
             /\ b[j][1] = "recv" /\ a[i][1] = "send" /\ (\A k \in 1 .. i : a[k] # RefuseItem)
             /\ Before(a, "send", i) = Before(b, "recv", j)
             => a[i][2] \in Readable(b[j][2])
<1>1. /\ \A j \in DOMAIN b : Before(b, "recv", j) \in Nat
      /\ \A i \in DOMAIN a : Before(a, "send", i) \in Nat
  <2>1. (\A j \in DOMAIN b : j \in Nat \ {0}) /\ (\A i \in DOMAIN a : i \in Nat \ {0})
    BY LenProperties
  <2> QED
    BY <2>1, BeforeNat
<1>2. ASSUME NEW j \in DOMAIN b
      PROVE  /\ ~(Before(b, "recv", j) < Len(<<>>))
             /\ \A i \in DOMAIN a : (Len(<<>>) + Before(a, "send", i) = Before(b, "recv", j))
                                     = (Before(a, "send", i) = Before(b, "recv", j))
  <2>1. Len(<<>>) = 0
    OBVIOUS
  <2>2. ~(Before(b, "recv", j) < 0)
    BY <1>1
  <2>3. \A i \in DOMAIN a : 0 + Before(a, "send", i) = Before(a, "send", i)
    BY <1>1
  <2> QED
    BY <2>1, <2>2, <2>3
<1> QED
  BY <1>2, Zenon DEF Agree

(* Pieces of code that agree, one after the other, agree.                  *)
LEMMA AgreeConcat ==
  ASSUME NEW x \in Seq(Item), NEW y \in Seq(Item), NEW z \in Seq(Item), NEW w \in Seq(Item),
         Agree(x, <<>>, y), Total(x, "send") = Total(y, "recv"), Agree(z, <<>>, w)
  PROVE  Agree(x \o z, <<>>, y \o w)
<1>0. ASSUME NEW u \in Seq(Item), NEW v \in Seq(Item)
      PROVE  /\ u \o v \in Seq(Item)
             /\ \A i \in DOMAIN u : (u \o v)[i] = u[i]
             /\ \A i \in DOMAIN v : (u \o v)[i + Len(u)] = v[i]
             /\ \A i \in DOMAIN (u \o v) :
                  \/ i \in DOMAIN u
                  \/ i \in Nat /\ i > Len(u) /\ i - Len(u) \in DOMAIN v /\ (u \o v)[i] = v[i - Len(u)]
  BY Places, SMTT(60)
<1> DEFINE a == x \o z
           b == y \o w
<1>1. /\ a \in Seq(Item) /\ b \in Seq(Item)
      /\ \A i \in DOMAIN x : a[i] = x[i]
      /\ \A i \in DOMAIN z : a[i + Len(x)] = z[i]
      /\ \A i \in DOMAIN a : \/ i \in DOMAIN x
                             \/ i \in Nat /\ i > Len(x) /\ i - Len(x) \in DOMAIN z /\ a[i] = z[i - Len(x)]
      /\ \A j \in DOMAIN b : \/ j \in DOMAIN y /\ b[j] = y[j]
                             \/ j \in Nat /\ j > Len(y) /\ j - Len(y) \in DOMAIN w /\ b[j] = w[j - Len(y)]
  BY <1>0
<1>2. /\ Len(x) \in Nat /\ Len(y) \in Nat /\ Len(z) \in Nat /\ Len(w) \in Nat
      /\ DOMAIN x = 1 .. Len(x) /\ DOMAIN y = 1 .. Len(y) /\ DOMAIN z = 1 .. Len(z) /\ DOMAIN w = 1 .. Len(w)
  BY LenProperties
<1> DEFINE N == Total(x, "send")
<1>3. N \in Nat
  BY TotalNat
<1>4. /\ \A i \in DOMAIN x : Before(a, "send", i) = Before(x, "send", i)
      /\ \A i \in DOMAIN z : Before(a, "send", i + Len(x)) = N + Before(z, "send", i)
  <2>1. (\A i \in DOMAIN x : i \in 1 .. Len(x) + 1) /\ (\A i \in DOMAIN z : i \in 1 .. Len(z) + 1)
    BY <1>2
  <2> QED
    BY <2>1, BeforeConcat DEF Total
<1>5. /\ \A j \in DOMAIN y : Before(b, "recv", j) = Before(y, "recv", j)
      /\ \A j \in DOMAIN w : Before(b, "recv", j + Len(y)) = N + Before(w, "recv", j)
  <2>1. (\A j \in DOMAIN y : j \in 1 .. Len(y) + 1) /\ (\A j \in DOMAIN w : j \in 1 .. Len(w) + 1)
    BY <1>2
  <2> QED
    BY <2>1, BeforeConcat DEF Total
<1>6. /\ \A i \in DOMAIN x : x[i][1] = "send" => Before(x, "send", i) < N
      /\ \A j \in DOMAIN y : y[j][1] = "recv" => Before(y, "recv", j) < N
  BY BeforeLess DEF Total
<1>7. /\ \A i \in DOMAIN x : Before(x, "send", i) \in Nat
      /\ \A i \in DOMAIN z : Before(z, "send", i) \in Nat
      /\ \A j \in DOMAIN y : Before(y, "recv", j) \in Nat
      /\ \A j \in DOMAIN w : Before(w, "recv", j) \in Nat
  <2>1. \A s \in {x, y, z, w} : \A i \in DOMAIN s : i \in Nat \ {0}
    BY <1>2
  <2> QED
    BY <2>1, BeforeNat
<1> HIDE DEF a, b, N
<1>8. ASSUME NEW j \in DOMAIN b, NEW i \in DOMAIN a, b[j][1] = "recv", a[i][1] = "send",
             \A k \in 1 .. i : a[k] # RefuseItem, Before(a, "send", i) = Before(b, "recv", j)
      PROVE  a[i][2] \in Readable(b[j][2])
  <2>1. CASE i \in DOMAIN x /\ j \in DOMAIN y /\ b[j] = y[j]
    <3>1. \A k \in 1 .. i : k \in DOMAIN x
      BY <1>2, <2>1
    <3>2. \A k \in 1 .. i : x[k] # RefuseItem
      BY <1>1, <1>8, <3>1
    <3>3. Before(x, "send", i) = Before(y, "recv", j) /\ a[i] = x[i]
      BY <1>1, <1>4, <1>5, <1>8, <2>1
    <3> QED
      BY <1>8, <2>1, <3>2, <3>3, AgreeFresh
  <2>2. ASSUME i \in Nat, i - Len(x) \in DOMAIN z, a[i] = z[i - Len(x)],
               j \in Nat, j - Len(y) \in DOMAIN w, b[j] = w[j - Len(y)]
        PROVE  a[i][2] \in Readable(b[j][2])
    <3> DEFINE ii == i - Len(x)
               jj == j - Len(y)
    <3>1. i = ii + Len(x) /\ j = jj + Len(y)
      <4>1. i \in Nat /\ j \in Nat /\ Len(x) \in Nat /\ Len(y) \in Nat
        BY <1>2, <2>2
      <4> QED
        BY <4>1
    <3>2. ii \in DOMAIN z /\ jj \in DOMAIN w /\ a[i] = z[ii] /\ b[j] = w[jj]
      BY <2>2
    <3> HIDE DEF ii, jj
    <3>3. ASSUME NEW k \in 1 .. ii PROVE z[k] # RefuseItem
      <4>1. k \in DOMAIN z /\ k + Len(x) \in 1 .. i
        BY <1>2, <3>1, <3>2
      <4> QED
        BY <1>1, <1>8, <4>1
    <3>4. N + Before(z, "send", ii) = N + Before(w, "recv", jj)
      BY <1>4, <1>5, <1>8, <3>1, <3>2
    <3>5. Before(z, "send", ii) = Before(w, "recv", jj)
      BY <1>3, <1>7, <3>2, <3>4
    <3> QED
      BY <1>8, <3>2, <3>3, <3>5, AgreeFresh
  <2>3. ASSUME i \in DOMAIN x, j \in Nat, j - Len(y) \in DOMAIN w PROVE FALSE
    <3>1. j = (j - Len(y)) + Len(y)
      BY <1>2, <2>3
    <3>2. Before(b, "recv", j) = N + Before(w, "recv", j - Len(y))
      BY <1>5, <2>3, <3>1
    <3>3. Before(a, "send", i) < N
      BY <1>1, <1>4, <1>6, <1>8, <2>3
    <3> QED
      BY <1>3, <1>4, <1>7, <1>8, <2>3, <3>2, <3>3
  <2>4. ASSUME j \in DOMAIN y, b[j] = y[j], i \in Nat, i - Len(x) \in DOMAIN z PROVE FALSE
    <3>1. i = (i - Len(x)) + Len(x)
      BY <1>2, <2>4
    <3>2. Before(a, "send", i) = N + Before(z, "send", i - Len(x))
      BY <1>4, <2>4, <3>1
    <3>3. Before(b, "recv", j) < N
      BY <1>5, <1>6, <1>8, <2>4
    <3> QED
      BY <1>3, <1>5, <1>7, <1>8, <2>4, <3>2, <3>3
  <2> QED
    BY <1>1, <2>1, <2>2, <2>3, <2>4
<1> QED
  BY <1>1, <1>8, AgreeFresh DEF a, b

\* One side writes just what the other reads.
Says(x, y) ==
  /\ x \in Seq(Item) /\ y \in Seq(Item)
  /\ Agree(x, <<>>, y) /\ Total(x, "send") = Total(y, "recv")

Talk(x, y) == Says(x, y) /\ Says(y, x)

LEMMA SaysConcat ==
  ASSUME NEW x, NEW y, NEW z, NEW w, Says(x, y), Says(z, w)
  PROVE  Says(x \o z, y \o w)
<1>1. x \in Seq(Item) /\ y \in Seq(Item) /\ z \in Seq(Item) /\ w \in Seq(Item)
  BY DEF Says
<1>2. x \o z \in Seq(Item) /\ y \o w \in Seq(Item)
  BY <1>1, ConcatIn
<1>3. Agree(x \o z, <<>>, y \o w)
  BY <1>1, AgreeConcat DEF Says
<1>4. Total(x \o z, "send") = Total(y \o w, "recv")
  BY <1>1, TotalConcat DEF Says
<1> QED
  BY <1>2, <1>3, <1>4 DEF Says

LEMMA TalkConcat ==
  ASSUME NEW x, NEW y, NEW z, NEW w, Talk(x, y), Talk(z, w)
  PROVE  Talk(x \o z, y \o w)
  BY SaysConcat DEF Talk

(* Steps that say nothing, or ask nothing.                                 *)
LEMMA SaysNothing ==
  /\ Says(<<>>, <<>>)
  /\ \A h \in Item : h[1] # "send" => Says(<<h>>, <<>>)
  /\ \A h \in Item : h[1] # "recv" => Says(<<>>, <<h>>)
<1>1. <<>> \in Seq(Item) /\ DOMAIN <<>> = {}
  OBVIOUS
<1>2. \A s, t : (DOMAIN t = {} => Agree(s, <<>>, t))
  BY DEF Agree
<1>3. Says(<<>>, <<>>)
  <2>1. Agree(<<>>, <<>>, <<>>)
    BY <1>1, <1>2
  <2>2. Total(<<>>, "send") = 0 /\ Total(<<>>, "recv") = 0
    BY BeforeFirst DEF Total
  <2> QED
    BY <1>1, <2>1, <2>2 DEF Says
<1>4. ASSUME NEW h \in Item, h[1] # "send" PROVE Says(<<h>>, <<>>)
  <2>1. <<h>> \in Seq(Item)
    OBVIOUS
  <2>2. Agree(<<h>>, <<>>, <<>>)
    BY <1>1, <1>2
  <2>3. Total(<<h>>, "send") = Total(<<>>, "recv")
    BY <1>4, TotalOne
  <2> QED
    BY <1>1, <2>1, <2>2, <2>3 DEF Says
<1>5. ASSUME NEW h \in Item, h[1] # "recv" PROVE Says(<<>>, <<h>>)
  <2>1. <<h>> \in Seq(Item) /\ DOMAIN <<h>> = {1} /\ <<h>>[1] = h
    OBVIOUS
  <2> DEFINE one == <<h>>
  <2> HIDE DEF one
  <2>2. Agree(<<>>, <<>>, one)
    <3>1. one \in Seq(Item) /\ \A j \in DOMAIN one : one[j][1] # "recv"
      BY <1>5, <2>1 DEF one
    <3> QED
      BY <3>1 DEF Agree
  <2>3. Total(<<>>, "send") = Total(one, "recv")
    BY <1>5, TotalOne DEF one
  <2> QED
    BY <1>1, <2>1, <2>2, <2>3 DEF Says, one
<1> QED
  BY <1>3, <1>4, <1>5

(* A message the other side is ready for.                                  *)
LEMMA SaysOne ==
  ASSUME NEW k \in Words, NEW r \in Words, k \in Readable(r)
  PROVE  Says(Send(k), Recv(r))
<1> DEFINE h == <<"send", k>>
           g == <<"recv", r>>
           one == <<h>>
           two == <<g>>
<1>1. /\ h \in Item /\ g \in Item /\ h[1] = "send" /\ g[1] = "recv" /\ h[2] = k /\ g[2] = r
      /\ Send(k) = one /\ Recv(r) = two
  BY DEF Item, Send, Recv
<1> HIDE DEF h, g
<1>2. /\ one \in Seq(Item) /\ DOMAIN one = {1} /\ one[1] = h
      /\ two \in Seq(Item) /\ DOMAIN two = {1} /\ two[1] = g
  BY <1>1
<1>3. Total(one, "send") = 1 /\ Total(two, "recv") = 1
  BY <1>1, TotalOne
<1> HIDE DEF one, two
<1>4. Agree(one, <<>>, two)
  <2>1. \A j \in DOMAIN two : \A i \in DOMAIN one : one[i][2] \in Readable(two[j][2])
    BY <1>1, <1>2
  <2> QED
    BY <1>2, <2>1, AgreeFresh
<1> QED
  BY <1>1, <1>2, <1>3, <1>4 DEF Says

(* Nothing before or behind.                                               *)
LEMMA NoneAround == ASSUME NEW s \in Seq(Item) PROVE s \o <<>> = s /\ <<>> \o s = s
  BY ConcatEmptySeq

(* What one side does for itself, a message, and a barrier.                *)
LEMMA TalkSteps ==
  /\ \A w \in Words : Talk(Do(w), <<>>) /\ Talk(<<>>, Do(w))
  /\ \A k, r \in Words : k \in Readable(r) => Talk(Send(k), Recv(r)) /\ Talk(Recv(r), Send(k))
  /\ Talk(Sync, Sync)
<1>1. ASSUME NEW w \in Words
      PROVE  /\ Says(Do(w), <<>>) /\ Says(<<>>, Do(w)) /\ Says(Recv(w), <<>>) /\ Says(<<>>, Send(w))
  <2>1. /\ <<"do", w>> \in Item /\ <<"send", w>> \in Item /\ <<"recv", w>> \in Item
        /\ <<"do", w>>[1] = "do" /\ <<"send", w>>[1] = "send" /\ <<"recv", w>>[1] = "recv"
    BY DEF Item
  <2> QED
    BY <2>1, SaysNothing DEF Do, Send, Recv
<1>2. \A w \in Words : Talk(Do(w), <<>>) /\ Talk(<<>>, Do(w))
  BY <1>1 DEF Talk
<1>3. ASSUME NEW k \in Words, NEW r \in Words, k \in Readable(r)
      PROVE  Talk(Send(k), Recv(r)) /\ Talk(Recv(r), Send(k))
  <2>1. Says(Send(k), Recv(r))
    BY <1>3, SaysOne
  <2>2. Says(Recv(r) \o <<>>, <<>> \o Send(k))
    BY <1>1, SaysConcat
  <2>3. Recv(r) \o <<>> = Recv(r) /\ <<>> \o Send(k) = Send(k)
    BY StepTypes, NoneAround
  <2> QED
    BY <2>1, <2>2, <2>3 DEF Talk
<1>4. Talk(Sync, Sync)
  <2>1. "byte" \in Words /\ "byte" \in Readable("byte")
    BY DEF Words, Kinds, Readable
  <2>2. /\ Send("byte") \in Seq(Item) /\ Recv("byte") \in Seq(Item) /\ Says(Send("byte"), Recv("byte"))
        /\ Says(<<>>, Send("byte")) /\ Says(Recv("byte"), <<>>)
    BY <1>1, <2>1, SaysOne, StepTypes
  <2> DEFINE s == Send("byte")
             r == Recv("byte")
  <2> HIDE DEF s, r
  <2>3. Says((<<>> \o s) \o r, (s \o r) \o <<>>)
    BY <2>2, SaysConcat DEF s, r
  <2>4. <<>> \o s = s /\ s \o r \in Seq(Item) /\ (s \o r) \o <<>> = s \o r
    BY <2>2, NoneAround, ConcatIn DEF s, r
  <2> QED
    BY <2>3, <2>4 DEF Talk, Sync, s, r
<1> QED
  BY <1>2, <1>3, <1>4

(* One side does something for itself before, or behind, a conversation.   *)
LEMMA TalkAside ==
  ASSUME NEW x, NEW y, Talk(x, y), NEW w \in Words
  PROVE  /\ Talk(x \o Do(w), y) /\ Talk(x, y \o Do(w))
         /\ Talk(Do(w) \o x, y) /\ Talk(x, Do(w) \o y)
<1>1. x \in Seq(Item) /\ y \in Seq(Item)
  BY DEF Talk, Says
<1>2. /\ Talk(x \o Do(w), y \o <<>>) /\ Talk(x \o <<>>, y \o Do(w))
      /\ Talk(Do(w) \o x, <<>> \o y) /\ Talk(<<>> \o x, Do(w) \o y)
  BY TalkSteps, TalkConcat
<1> QED
  BY <1>1, <1>2, NoneAround

(* The benchmarks of both sides, of a mode the client has one for.         *)
Offered(c, mode) == mode \in {"Bandwidth", "Latency", "Accuracy"} \/ c \in Foreign

LEMMA BenchTalk ==
  ASSUME NEW c \in Client, NEW mode \in Modes, Offered(c, mode)
  PROVE  Talk(ClientBench(c, mode), ServerBench(mode))
<1>1. /\ Talk(Sync, Sync) /\ \A w \in Words : Talk(Do(w), <<>>) /\ Talk(<<>>, Do(w))
      /\ Talk(Recv("report"), Send("report")) /\ Talk(Recv("buffer"), Send("buffer"))
      /\ "post" \in Words /\ "traffic" \in Words
  <2>1. /\ "report" \in Words /\ "buffer" \in Words /\ "post" \in Words /\ "traffic" \in Words
        /\ "report" \in Readable("report") /\ "buffer" \in Readable("buffer")
    BY DEF Words, Kinds, Readable
  <2> QED
    BY <2>1, TalkSteps
<1>2. Talk(Sync, Announced) /\ Talk(Sync \o Sync, Sync \o Sync)
  BY <1>1, TalkAside, TalkConcat DEF Announced
<1>3. \A x, y : Talk(x, y) => Talk(x \o Do("traffic"), y \o Do("traffic"))
  BY <1>1, TalkAside
<1>4. CASE mode = "Bandwidth"
  <2>1. ClientBench(c, mode) = Sync \o Sync \o Sync \o Do("traffic") \o Sync
    BY <1>4 DEF ClientBench
  <2>2. ServerBench(mode) = Sync \o Sync \o Announced \o Do("traffic") \o Sync
    BY <1>4 DEF ServerBench
  <2>3. Talk(Sync \o Sync \o Sync, Sync \o Sync \o Announced)
    BY <1>2, TalkConcat
  <2> QED
    BY <1>1, <1>3, <2>1, <2>2, <2>3, TalkConcat
<1>5. CASE mode = "Latency"
  <2>1. ClientBench(c, mode) = Sync \o Sync \o Do("post") \o Sync \o Do("traffic") \o Sync
    BY <1>5 DEF ClientBench
  <2>2. ServerBench(mode) = Sync \o Sync \o Announced \o Do("traffic") \o Sync
    BY <1>5 DEF ServerBench
  <2>3. Talk(Sync \o Sync \o Do("post"), Sync \o Sync)
    BY <1>1, <1>2, TalkAside
  <2>4. Talk(Sync \o Sync \o Do("post") \o Sync, Sync \o Sync \o Announced)
    BY <1>2, <2>3, TalkConcat
  <2> QED
    BY <1>1, <1>3, <2>1, <2>2, <2>4, TalkConcat
<1>6. CASE mode = "Accuracy"
  <2>1. ClientBench(c, mode) = Sync \o Do("traffic") \o Sync \o Recv("report")
    BY <1>6 DEF ClientBench
  <2>2. ServerBench(mode) = Announced \o Do("traffic") \o Sync \o Send("report")
    BY <1>6 DEF ServerBench
  <2>3. Talk(Sync \o Do("traffic") \o Sync, Announced \o Do("traffic") \o Sync)
    BY <1>1, <1>2, <1>3, TalkConcat
  <2> QED
    BY <1>1, <2>1, <2>2, <2>3, TalkConcat
<1>7. CASE mode \in {"RdmaWrite", "RdmaRead"}
  <2>1. ClientBench(c, mode) = Recv("buffer") \o Sync \o Do("traffic") \o Sync
    BY <1>7 DEF ClientBench, Offered
  <2>2. ServerBench(mode) = Do("post") \o Send("buffer") \o Sync \o Sync
    BY <1>7 DEF ServerBench
  <2>3. Talk(Recv("buffer"), Do("post") \o Send("buffer"))
    BY <1>1, TalkAside
  <2>4. Talk(Recv("buffer") \o Sync \o Do("traffic"), Do("post") \o Send("buffer") \o Sync)
    BY <1>1, <2>3, TalkConcat, TalkAside
  <2> QED
    BY <1>1, <2>1, <2>2, <2>4, TalkConcat
<1> QED
  BY <1>4, <1>5, <1>6, <1>7 DEF Modes

(* What two pieces have.                                                   *)
LEMMA HasConcat ==
  ASSUME NEW s \in Seq(Item), NEW t \in Seq(Item), NEW x
  PROVE  Has(s \o t, x) <=> Has(s, x) \/ Has(t, x)
<1>1. Has(s, x) \/ Has(t, x) => Has(s \o t, x)
  BY Places
<1>2. ASSUME Has(s \o t, x) PROVE Has(s, x) \/ Has(t, x)
  <2>1. /\ \A i \in DOMAIN s : (s \o t)[i] = s[i]
        /\ \A i \in DOMAIN (s \o t) :
             \/ i \in DOMAIN s
             \/ i - Len(s) \in DOMAIN t /\ (s \o t)[i] = t[i - Len(s)]
    BY Places
  <2> QED
    BY <1>2, <2>1 DEF Has
<1> QED
  BY <1>1, <1>2

\* s has no other items than those of S.
Only(s, S) == s \in Seq(Item) /\ \A x : Has(s, x) => x \in S

LEMMA OnlyConcat ==
  ASSUME NEW S, NEW s, NEW t, Only(s, S), Only(t, S)
  PROVE  Only(s \o t, S)
<1>1. s \in Seq(Item) /\ t \in Seq(Item) /\ s \o t \in Seq(Item)
  BY ConcatIn DEF Only
<1> QED
  BY <1>1, HasConcat DEF Only

LEMMA OnlyStep ==
  ASSUME NEW S, NEW w \in Words
  PROVE  /\ <<"do", w>> \in S => Only(Do(w), S)
         /\ <<"send", w>> \in S => Only(Send(w), S)
         /\ <<"recv", w>> \in S => Only(Recv(w), S)
<1>1. \A h, x : Has(<<h>>, x) <=> x = h
  <2>1. \A h : DOMAIN <<h>> = {1} /\ <<h>>[1] = h
    OBVIOUS
  <2> QED
    BY <2>1 DEF Has
<1>2. Do(w) \in Seq(Item) /\ Send(w) \in Seq(Item) /\ Recv(w) \in Seq(Item)
  BY StepTypes
<1> QED
  BY <1>1, <1>2 DEF Only, Do, Send, Recv

ByteItems == {<<"send", "byte">>, <<"recv", "byte">>}

\* What the benchmarks of the two sides are made of.
ClientItems ==
  ByteItems \cup {TrafficItem, PostItem, RefuseItem, <<"recv", "report">>, <<"recv", "buffer">>}
ServerItems ==
  ByteItems \cup {TrafficItem, PostItem, <<"send", "report">>, <<"send", "buffer">>}

LEMMA BenchItems ==
  ASSUME NEW mode \in Modes
  PROVE  /\ \A c \in Client : Only(ClientBench(c, mode), ClientItems)
         /\ Only(ServerBench(mode), ServerItems)
<1>1. /\ "byte" \in Words /\ "post" \in Words /\ "traffic" \in Words /\ "refuse" \in Words
      /\ "report" \in Words /\ "buffer" \in Words
  BY DEF Words, Kinds
<1>2. \A S : ByteItems \subseteq S => Only(Sync, S)
  BY <1>1, OnlyStep, OnlyConcat DEF Sync, ByteItems
<1>3. /\ Only(Sync, ClientItems) /\ Only(Do("traffic"), ClientItems) /\ Only(Do("post"), ClientItems)
      /\ Only(Do("refuse"), ClientItems) /\ Only(Recv("report"), ClientItems)
      /\ Only(Recv("buffer"), ClientItems)
  BY <1>1, <1>2, OnlyStep DEF ClientItems, TrafficItem, PostItem, RefuseItem
<1>4. /\ Only(Sync, ServerItems) /\ Only(Do("traffic"), ServerItems) /\ Only(Do("post"), ServerItems)
      /\ Only(Send("report"), ServerItems) /\ Only(Send("buffer"), ServerItems)
  BY <1>1, <1>2, OnlyStep DEF ServerItems, TrafficItem, PostItem
<1>5. Only(Announced, ServerItems)
  BY <1>4, OnlyConcat DEF Announced
<1>6. ASSUME NEW c \in Client PROVE Only(ClientBench(c, mode), ClientItems)
  <2>1. CASE mode = "Bandwidth"
    <3>1. ClientBench(c, mode) = Sync \o Sync \o Sync \o Do("traffic") \o Sync
      BY <2>1 DEF ClientBench
    <3> QED
      BY <1>3, <3>1, OnlyConcat
  <2>2. CASE mode = "Latency"
    <3>1. ClientBench(c, mode) = Sync \o Sync \o Do("post") \o Sync \o Do("traffic") \o Sync
      BY <2>2 DEF ClientBench
    <3> QED
      BY <1>3, <3>1, OnlyConcat
  <2>3. CASE mode = "Accuracy"
    <3>1. ClientBench(c, mode) = Sync \o Do("traffic") \o Sync \o Recv("report")
      BY <2>3 DEF ClientBench
    <3> QED
      BY <1>3, <3>1, OnlyConcat
  <2>4. CASE mode \in {"RdmaWrite", "RdmaRead"} /\ c \in Foreign
    <3>1. ClientBench(c, mode) = Recv("buffer") \o Sync \o Do("traffic") \o Sync
      BY <2>4 DEF ClientBench
    <3> QED
      BY <1>3, <3>1, OnlyConcat
  <2>5. CASE mode \in {"RdmaWrite", "RdmaRead"} /\ c \notin Foreign
    <3>1. ClientBench(c, mode) = Do("refuse")
      BY <2>5 DEF ClientBench
    <3> QED
      BY <1>3, <3>1
  <2> QED
    BY <2>1, <2>2, <2>3, <2>4, <2>5 DEF Modes
<1>7. Only(ServerBench(mode), ServerItems)
  <2>1. CASE mode \in {"Bandwidth", "Latency"}
    <3>1. ServerBench(mode) = Sync \o Sync \o Announced \o Do("traffic") \o Sync
      BY <2>1 DEF ServerBench
    <3> QED
      BY <1>4, <1>5, <3>1, OnlyConcat
  <2>2. CASE mode = "Accuracy"
    <3>1. ServerBench(mode) = Announced \o Do("traffic") \o Sync \o Send("report")
      BY <2>2 DEF ServerBench
    <3> QED
      BY <1>4, <1>5, <3>1, OnlyConcat
  <2>3. CASE mode \in {"RdmaWrite", "RdmaRead"}
    <3>1. ServerBench(mode) = Do("post") \o Send("buffer") \o Sync \o Sync
      BY <2>3 DEF ServerBench
    <3> QED
      BY <1>4, <3>1, OnlyConcat
  <2> QED
    BY <2>1, <2>2, <2>3 DEF Modes
<1> QED
  BY <1>6, <1>7

(* Behind pieces that talk to each other, with no traffic of the client's  *)
(* and no post of the server's, the server still posts in time.            *)
LEMMA GatedConcat ==
  ASSUME NEW x \in Seq(Item), NEW y \in Seq(Item), NEW z \in Seq(Item), NEW w \in Seq(Item),
         Total(y, "send") = Total(x, "recv"), ~Has(x, TrafficItem), ~Has(y, PostItem),
         Gated(w, <<>>, z)
  PROVE  Gated(y \o w, <<>>, x \o z)
<1> DEFINE N == Total(y, "send")
<1>1. N \in Nat /\ Unposted(w) \in Nat /\ Unposted(y \o w) = N + Unposted(w)
  <2>1. \A i \in DOMAIN y : y[i] # PostItem
    BY DEF Has
  <2> QED
    BY <2>1, TotalNat, UnpostedIs DEF Total
<1>2. /\ Len(x) \in Nat /\ Len(z) \in Nat /\ DOMAIN z = 1 .. Len(z) /\ Len(<<>>) = 0
      /\ \A i \in DOMAIN x : (x \o z)[i] = x[i]
      /\ \A i \in DOMAIN (x \o z) :
           \/ i \in DOMAIN x
           \/ i \in Nat /\ i - Len(x) \in DOMAIN z /\ (x \o z)[i] = z[i - Len(x)]
  BY Places, LenProperties
<1>3. \A i \in DOMAIN z : Before(x \o z, "recv", i + Len(x)) = N + Before(z, "recv", i)
  <2>1. \A i \in DOMAIN z : i \in 1 .. Len(z) + 1
    BY <1>2
  <2> QED
    BY <2>1, BeforeConcat DEF Total
<1>4. \A i \in DOMAIN z : Before(z, "recv", i) \in Nat
  <2>1. \A i \in DOMAIN z : i \in Nat \ {0}
    BY <1>2
  <2> QED
    BY <2>1, BeforeNat
<1> HIDE DEF N
<1>5. ASSUME NEW j \in DOMAIN (x \o z), (x \o z)[j] = TrafficItem
      PROVE  Len(<<>>) + Unposted(y \o w) < Before(x \o z, "recv", j)
  <2>1. j \notin DOMAIN x
    BY <1>2, <1>5 DEF Has
  <2>2. j \in Nat /\ j - Len(x) \in DOMAIN z /\ z[j - Len(x)] = TrafficItem
    BY <1>2, <1>5, <2>1
  <2> DEFINE i == j - Len(x)
  <2>3. i \in DOMAIN z /\ z[i] = TrafficItem /\ j = i + Len(x)
    BY <1>2, <2>2
  <2> HIDE DEF i
  <2>4. Len(<<>>) + Unposted(w) < Before(z, "recv", i)
    BY <2>3 DEF Gated
  <2>5. Before(x \o z, "recv", j) = N + Before(z, "recv", i) /\ Before(z, "recv", i) \in Nat
    BY <1>3, <1>4, <2>3
  <2> QED
    BY <1>1, <1>2, <2>4, <2>5
<1> QED
  BY <1>5 DEF Gated

\* The server (w) has posted; the client (z) has read more than the server
\* wrote before.
Past(z, w) ==
  /\ z \in Seq(Item) /\ w \in Seq(Item)
  /\ Has(w, PostItem) /\ Gated(w, <<>>, z) /\ Unposted(w) < Total(z, "recv")

(* What is written behind the post does not count.                         *)
LEMMA UnpostedMore ==
  ASSUME NEW s \in Seq(Item), NEW t \in Seq(Item), Has(s, PostItem)
  PROVE  Unposted(s \o t) = Unposted(s)
<1> DEFINE u == s \o t
<1>1. /\ \A i \in DOMAIN s : i \in DOMAIN u /\ u[i] = s[i]
      /\ \A i \in DOMAIN u : i \in DOMAIN s \/ (i \in Nat /\ i > Len(s))
      /\ Len(s) \in Nat /\ DOMAIN s = 1 .. Len(s)
  BY Places, LenProperties
<1> HIDE DEF u
<1>2. PICK p \in DOMAIN s : s[p] = PostItem
  BY DEF Has
<1> DEFINE S == {k \in DOMAIN s : s[k][1] = "send" /\ \A i \in 1 .. k : s[i] # PostItem}
           U == {k \in DOMAIN u : u[k][1] = "send" /\ \A i \in 1 .. k : u[i] # PostItem}
<1>3. \A k \in DOMAIN s : \A i \in 1 .. k : i \in DOMAIN s
  BY <1>1
<1>4. S \subseteq U
  BY <1>1, <1>3
<1>5. ASSUME NEW k \in U PROVE k \in S
  <2>1. k \in DOMAIN s
    <3>1. p \notin 1 .. k
      BY <1>1, <1>2
    <3> QED
      BY <1>1, <1>2, <3>1
  <2> QED
    BY <1>1, <1>3, <2>1
<1>6. S = U
  BY <1>4, <1>5
<1> HIDE DEF S, U
<1> QED
  BY <1>6 DEF Unposted, S, U, u

LEMMA PastMore ==
  ASSUME NEW z, NEW w, Past(z, w), NEW t \in Seq(Item), NEW s \in Seq(Item)
  PROVE  Past(z \o t, w \o s)
<1>1. /\ z \in Seq(Item) /\ w \in Seq(Item) /\ z \o t \in Seq(Item) /\ w \o s \in Seq(Item)
      /\ Has(w, PostItem) /\ Gated(w, <<>>, z)
      /\ Unposted(w) \in Nat /\ Unposted(w) < Total(z, "recv")
  BY ConcatIn, UnpostedIs DEF Past
<1>2. Unposted(w \o s) = Unposted(w) /\ Has(w \o s, PostItem)
  BY <1>1, UnpostedMore, HasConcat
<1>3. Total(z \o t, "recv") = Total(z, "recv") + Total(t, "recv")
      /\ Total(z, "recv") \in Nat /\ Total(t, "recv") \in Nat
  BY <1>1, TotalConcat, TotalNat
<1>4. /\ Len(z) \in Nat /\ Len(t) \in Nat /\ Len(<<>>) = 0
      /\ DOMAIN z = 1 .. Len(z) /\ DOMAIN t = 1 .. Len(t)
      /\ \A i \in DOMAIN z : (z \o t)[i] = z[i]
      /\ \A i \in DOMAIN (z \o t) : i \in DOMAIN z \/ (i \in Nat /\ i - Len(z) \in DOMAIN t)
  BY <1>1, Places, LenProperties
<1>5. /\ \A i \in DOMAIN z : Before(z \o t, "recv", i) = Before(z, "recv", i)
      /\ \A i \in DOMAIN t : Before(z \o t, "recv", i + Len(z)) = Total(z, "recv") + Before(t, "recv", i)
      /\ \A i \in DOMAIN t : Before(t, "recv", i) \in Nat
  <2>1. /\ \A i \in DOMAIN z : i \in 1 .. Len(z) + 1
        /\ \A i \in DOMAIN t : i \in 1 .. Len(t) + 1 /\ i \in Nat \ {0}
    BY <1>4
  <2> QED
    BY <1>1, <2>1, BeforeConcat, BeforeNat DEF Total
<1>6. ASSUME NEW j \in DOMAIN (z \o t), (z \o t)[j] = TrafficItem
      PROVE  Len(<<>>) + Unposted(w \o s) < Before(z \o t, "recv", j)
  <2>1. CASE j \in DOMAIN z
    BY <1>1, <1>2, <1>4, <1>5, <1>6, <2>1 DEF Gated
  <2>2. CASE j \in Nat /\ j - Len(z) \in DOMAIN t
    <3>1. j = (j - Len(z)) + Len(z)
      BY <1>4, <2>2
    <3>2. /\ Before(z \o t, "recv", j) = Total(z, "recv") + Before(t, "recv", j - Len(z))
          /\ Before(t, "recv", j - Len(z)) \in Nat
      BY <1>5, <2>2, <3>1
    <3> QED
      BY <1>1, <1>2, <1>3, <1>4, <3>2
  <2> QED
    BY <1>4, <2>1, <2>2
<1>7. Gated(w \o s, <<>>, z \o t)
  BY <1>6 DEF Gated
<1>8. Unposted(w \o s) < Total(z \o t, "recv")
  BY <1>1, <1>2, <1>3
<1> QED
  BY <1>1, <1>2, <1>7, <1>8 DEF Past

LEMMA PastConcat ==
  ASSUME NEW x, NEW y, Talk(x, y), ~Has(x, TrafficItem), ~Has(y, PostItem), NEW z, NEW w, Past(z, w)
  PROVE  Past(x \o z, y \o w)
<1>1. /\ x \in Seq(Item) /\ y \in Seq(Item) /\ z \in Seq(Item) /\ w \in Seq(Item)
      /\ Total(y, "send") = Total(x, "recv") /\ Gated(w, <<>>, z) /\ Has(w, PostItem)
      /\ Unposted(w) < Total(z, "recv")
  BY DEF Talk, Says, Past
<1>2. x \o z \in Seq(Item) /\ y \o w \in Seq(Item) /\ Has(y \o w, PostItem)
  BY <1>1, ConcatIn, HasConcat
<1>3. Gated(y \o w, <<>>, x \o z)
  BY <1>1, GatedConcat
<1>4. /\ Unposted(y \o w) = Total(y, "send") + Unposted(w) /\ Unposted(w) \in Nat
      /\ Total(x \o z, "recv") = Total(x, "recv") + Total(z, "recv")
      /\ Total(x, "recv") \in Nat /\ Total(z, "recv") \in Nat
  <2>1. \A i \in DOMAIN y : y[i] # PostItem
    BY DEF Has
  <2> QED
    BY <1>1, <2>1, UnpostedIs, TotalConcat, TotalNat DEF Total
<1>5. Unposted(y \o w) < Total(x \o z, "recv")
  BY <1>1, <1>4
<1> QED
  BY <1>2, <1>3, <1>5 DEF Past

(* The server posts first; the client reads a message.                     *)
LEMMA PastFirst ==
  ASSUME NEW z \in Seq(Item), ~Has(z, TrafficItem), Total(z, "recv") = 1, NEW t \in Seq(Item)
  PROVE  Past(z, Do("post") \o t)
<1> DEFINE w == Do("post") \o t
<1>1. Do("post") \in Seq(Item) /\ Len(Do("post")) = 1 /\ Do("post")[1] = PostItem
      /\ DOMAIN Do("post") = {1}
  BY StepTypes DEF Words, Do, PostItem
<1>2. w \in Seq(Item) /\ 1 \in DOMAIN w /\ w[1] = PostItem
  BY <1>1, Places
<1> HIDE DEF w
<1>3. w # <<>> /\ Has(w, PostItem)
  <2>1. DOMAIN <<>> = {}
    OBVIOUS
  <2> QED
    BY <1>2, <2>1 DEF Has
<1>4. Unposted(w) = 0
  BY <1>2, <1>3, UnpostedIs
<1>5. Gated(w, <<>>, z)
  BY DEF Gated, Has
<1> QED
  BY <1>2, <1>3, <1>4, <1>5 DEF Past, w

(* In every mode the server has posted before the client's traffic.        *)
LEMMA BenchPast ==
  ASSUME NEW c \in Client, NEW mode \in Modes, Offered(c, mode)
  PROVE  Past(ClientBench(c, mode), ServerBench(mode))
<1>1. /\ "byte" \in Words /\ "post" \in Words /\ "traffic" \in Words
      /\ "report" \in Words /\ "buffer" \in Words
  BY DEF Words, Kinds
<1>2. /\ Do("traffic") \in Seq(Item) /\ Do("post") \in Seq(Item)
      /\ Send("byte") \in Seq(Item) /\ Recv("byte") \in Seq(Item)
      /\ Send("report") \in Seq(Item) /\ Recv("report") \in Seq(Item)
      /\ Send("buffer") \in Seq(Item) /\ Recv("buffer") \in Seq(Item)
  BY <1>1, StepTypes
<1>3. Only(Sync, ByteItems) /\ Only(Recv("buffer"), {<<"recv", "buffer">>})
      /\ Only(Do("post"), {PostItem})
  BY <1>1, OnlyStep, OnlyConcat DEF Sync, ByteItems, PostItem
<1>4. TrafficItem \notin ByteItems /\ PostItem \notin ByteItems /\ TrafficItem # PostItem
      /\ TrafficItem # <<"recv", "buffer">>
  BY DEF TrafficItem, PostItem, ByteItems
<1>5. /\ Sync \in Seq(Item) /\ ~Has(Sync, TrafficItem) /\ ~Has(Sync, PostItem)
      /\ ~Has(Recv("buffer"), TrafficItem) /\ ~Has(Do("post"), TrafficItem)
  BY <1>3, <1>4 DEF Only
<1>6. Total(Sync, "recv") = 1 /\ Total(Recv("buffer"), "recv") = 1
  <2>1. /\ <<"send", "byte">> \in Item /\ <<"recv", "byte">> \in Item /\ <<"recv", "buffer">> \in Item
        /\ <<"send", "byte">>[1] = "send" /\ <<"recv", "byte">>[1] = "recv"
        /\ <<"recv", "buffer">>[1] = "recv"
    BY <1>1 DEF Item
  <2>2. /\ Total(Send("byte"), "recv") = 0 /\ Total(Recv("byte"), "recv") = 1
        /\ Total(Recv("buffer"), "recv") = 1
    BY <2>1, TotalOne DEF Send, Recv
  <2>3. Total(Sync, "recv") = Total(Send("byte"), "recv") + Total(Recv("byte"), "recv")
    BY <1>2, TotalConcat DEF Sync
  <2> QED
    BY <2>2, <2>3
<1>7. Past(Sync, Announced) /\ Announced \in Seq(Item)
  BY <1>2, <1>5, <1>6, PastFirst, ConcatIn DEF Announced
<1> DEFINE two == Sync \o Sync
<1>8. Talk(two, two) /\ two \in Seq(Item) /\ ~Has(two, TrafficItem) /\ ~Has(two, PostItem)
  BY <1>5, TalkSteps, TalkConcat, HasConcat, ConcatIn
<1> HIDE DEF two
<1>9. CASE mode = "Bandwidth"
  <2>1. ClientBench(c, mode) = two \o Sync \o Do("traffic") \o Sync
    BY <1>9 DEF ClientBench, two
  <2>2. ServerBench(mode) = two \o Announced \o Do("traffic") \o Sync
    BY <1>9 DEF ServerBench, two
  <2>3. Past(two \o Sync, two \o Announced)
    BY <1>7, <1>8, PastConcat
  <2> QED
    BY <1>2, <1>5, <2>1, <2>2, <2>3, PastMore
<1>10. CASE mode = "Latency"
  <2>1. ClientBench(c, mode) = two \o Do("post") \o Sync \o Do("traffic") \o Sync
    BY <1>10 DEF ClientBench, two
  <2>2. ServerBench(mode) = two \o Announced \o Do("traffic") \o Sync
    BY <1>10 DEF ServerBench, two
  <2>3. Talk(two \o Do("post"), two) /\ ~Has(two \o Do("post"), TrafficItem)
    BY <1>1, <1>2, <1>5, <1>8, TalkAside, HasConcat
  <2>4. Past(two \o Do("post") \o Sync, two \o Announced)
    BY <1>7, <1>8, <2>3, PastConcat
  <2> QED
    BY <1>2, <1>5, <2>1, <2>2, <2>4, PastMore
<1>11. CASE mode = "Accuracy"
  <2>1. ClientBench(c, mode) = Sync \o Do("traffic") \o Sync \o Recv("report")
    BY <1>11 DEF ClientBench
  <2>2. ServerBench(mode) = Announced \o Do("traffic") \o Sync \o Send("report")
    BY <1>11 DEF ServerBench
  <2> QED
    BY <1>2, <1>5, <1>7, <2>1, <2>2, PastMore
<1>12. CASE mode \in {"RdmaWrite", "RdmaRead"}
  <2>1. ClientBench(c, mode) = Recv("buffer") \o Sync \o Do("traffic") \o Sync
    BY <1>12 DEF ClientBench, Offered
  <2>2. ServerBench(mode) = Do("post") \o Send("buffer") \o Sync \o Sync
    BY <1>12 DEF ServerBench
  <2> DEFINE told == Do("post") \o Send("buffer")
  <2>3. Past(Recv("buffer"), told)
    BY <1>2, <1>5, <1>6, PastFirst
  <2>4. told \o Sync \in Seq(Item)
    BY <1>2, <1>5, ConcatIn
  <2> HIDE DEF told
  <2>5. Past(Recv("buffer") \o Sync \o Do("traffic"), told \o Sync \o <<>>)
    BY <1>2, <1>5, <2>3, PastMore, EmptySeq
  <2>6. Past(Recv("buffer") \o Sync \o Do("traffic") \o Sync, told \o Sync \o Sync)
    BY <1>5, <2>4, <2>5, PastMore, NoneAround
  <2> QED
    BY <2>1, <2>2, <2>6 DEF told
<1> QED
  BY <1>9, <1>10, <1>11, <1>12 DEF Modes

\* The first half of the two sides' code.
Opening == Do("build") \o Do("connect") \o Send("request")
Greeting == Opening \o Recv("ack") \o Send("endpoint")
Welcome == Recv("request") \o Do("build") \o Send("ok") \o Recv("endpoint")
Declined == Recv("request") \o Send("unsupported")

\* Short for the server's whole code for a run.
Serve(req) == Recv("request") \o ServerSteps(req)

LEMMA Regroup ==
  ASSUME NEW s \in Seq(Item), NEW t \in Seq(Item), NEW u \in Seq(Item)
  PROVE  s \o (t \o u) = (s \o t) \o u
<1> DEFINE S == Item
<1>1. s \in Seq(S) /\ t \in Seq(S) /\ u \in Seq(S)
  OBVIOUS
<1> HIDE DEF S
<1> QED
  BY <1>1, ConcatAssociative

LEMMA CodeIs ==
  ASSUME NEW c \in Client, NEW req \in [transport : Transports, mode : Modes]
  PROVE  LET bench == ClientBench(c, req.mode)
             served == ServerBench(req.mode)
         IN /\ Greeting \in Seq(Item) /\ Welcome \in Seq(Item) /\ Conclude \in Seq(Item)
            /\ Declined \in Seq(Item) /\ Opening \in Seq(Item)
            /\ bench \in Seq(Item) /\ served \in Seq(Item)
            /\ ClientSteps(c, req.mode) = (Greeting \o bench) \o Conclude
            /\ Supported(req) => Serve(req) = (Welcome \o served) \o Recv("row")
            /\ ~Supported(req) => Serve(req) = Declined \o Do("return")
<1> DEFINE bench == ClientBench(c, req.mode)
           served == ServerBench(req.mode)
<1>1. /\ "byte" \in Words /\ "build" \in Words /\ "connect" \in Words /\ "request" \in Words
      /\ "ack" \in Words /\ "endpoint" \in Words /\ "ok" \in Words /\ "unsupported" \in Words
      /\ "row" \in Words /\ "return" \in Words
  BY DEF Words, Kinds
<1>2. \A w \in Words : Do(w) \in Seq(Item) /\ Send(w) \in Seq(Item) /\ Recv(w) \in Seq(Item)
  BY StepTypes
<1>3. /\ Opening \in Seq(Item) /\ Greeting \in Seq(Item) /\ Welcome \in Seq(Item)
      /\ Conclude \in Seq(Item) /\ Declined \in Seq(Item)
  BY <1>1, <1>2, ConcatIn DEF Opening, Greeting, Welcome, Conclude, Declined
<1>4. bench \in Seq(Item) /\ served \in Seq(Item)
  BY BenchItems DEF Only
<1>5. ClientSteps(c, req.mode) = (Greeting \o bench) \o Conclude
  BY DEF ClientSteps, Greeting, Opening
<1> HIDE DEF bench, served
<1>6. ASSUME Supported(req) PROVE Serve(req) = (Welcome \o served) \o Recv("row")
  <2> DEFINE r == Recv("request")
             b == Do("build")
             k == Send("ok")
             e == Recv("endpoint")
             w == Recv("row")
  <2>1. ServerSteps(req) = (((b \o k) \o e) \o served) \o w
    BY <1>6 DEF ServerSteps, served
  <2>2. r \in Seq(Item) /\ b \in Seq(Item) /\ k \in Seq(Item) /\ e \in Seq(Item) /\ w \in Seq(Item)
    BY <1>1, <1>2
  <2>3. Welcome = ((r \o b) \o k) \o e
    BY DEF Welcome
  <2> HIDE DEF r, b, k, e, w
  <2> DEFINE bk == b \o k
             bke == bk \o e
             most == bke \o served
  <2>4. bk \in Seq(Item) /\ bke \in Seq(Item) /\ most \in Seq(Item)
    BY <1>4, <2>2, ConcatIn
  <2>5. r \o bk = (r \o b) \o k
    BY <2>2, Regroup, SMTT(60)
  <2> HIDE DEF bk
  <2>6. r \o bke = (r \o bk) \o e
    <3>1. r \in Seq(Item) /\ bk \in Seq(Item) /\ e \in Seq(Item)
      BY <2>2, <2>4
    <3> HIDE DEF most
    <3> QED
      BY <3>1, Regroup
  <2> HIDE DEF bke
  <2>7. r \o most = (r \o bke) \o served
    <3>1. r \in Seq(Item) /\ bke \in Seq(Item) /\ served \in Seq(Item)
      BY <1>4, <2>2, <2>4
    <3> QED
      BY <3>1, Regroup
  <2> HIDE DEF most
  <2>8. r \o (most \o w) = (r \o most) \o w
    <3>1. r \in Seq(Item) /\ most \in Seq(Item) /\ w \in Seq(Item)
      BY <2>2, <2>4
    <3> QED
      BY <3>1, Regroup
  <2>9. ServerSteps(req) = most \o w
    BY <2>1 DEF most, bke, bk
  <2>10. r \o most = Welcome \o served
    BY <2>3, <2>5, <2>6, <2>7
  <2> QED
    BY <2>8, <2>9, <2>10 DEF Serve, r, w
<1>7. ASSUME ~Supported(req) PROVE Serve(req) = Declined \o Do("return")
  <2>1. ServerSteps(req) = Send("unsupported") \o Do("return")
    BY <1>7 DEF ServerSteps
  <2> DEFINE r == Recv("request")
             u == Send("unsupported")
             t == Do("return")
  <2>2. r \in Seq(Item) /\ u \in Seq(Item) /\ t \in Seq(Item)
    BY <1>1, <1>2
  <2>3. Serve(req) = r \o (u \o t)
    BY <2>1 DEF Serve
  <2> HIDE DEF r, u, t
  <2>4. Serve(req) = (r \o u) \o t
    BY <2>2, <2>3, Regroup
  <2> QED
    BY <2>4 DEF Declined, r, u, t
<1> QED
  BY <1>3, <1>4, <1>5, <1>6, <1>7 DEF bench, served

(* Nothing asked, nothing said, or nothing but a refusal.                  *)
LEMMA AgreeSilent ==
  ASSUME NEW a \in Seq(Item), NEW b \in Seq(Item),
         \/ \A x : Has(b, x) => x[1] # "recv"
         \/ \A x : Has(a, x) => x[1] # "send"
         \/ 1 \in DOMAIN a /\ a[1] = RefuseItem
  PROVE  Agree(a, <<>>, b)
<1>1. (\A j \in DOMAIN b : Has(b, b[j])) /\ (\A i \in DOMAIN a : Has(a, a[i]))
  BY DEF Has
<1>2. \A i \in DOMAIN a : 1 \in 1 .. i
  BY LenProperties
<1> QED
  BY <1>1, <1>2, AgreeFresh

(* What the two sides have in the halves of their code.                    *)
LEMMA HalvesHave ==
  /\ Only(Opening, {BuildItem, ConnectItem, <<"send", "request">>})
  /\ Only(Greeting, {BuildItem, ConnectItem, <<"send", "request">>, AckItem, <<"send", "endpoint">>})
  /\ Only(Welcome, {RequestItem, BuildItem, <<"send", "ok">>, EndpointItem})
  /\ Only(Declined, {RequestItem, <<"send", "unsupported">>})
  /\ Only(Conclude, {<<"send", "row">>, ReturnItem})
<1>1. /\ "build" \in Words /\ "connect" \in Words /\ "request" \in Words
      /\ "ack" \in Words /\ "endpoint" \in Words /\ "ok" \in Words /\ "unsupported" \in Words
      /\ "row" \in Words /\ "return" \in Words
  BY DEF Words, Kinds
<1>2. \A S : {BuildItem, ConnectItem, <<"send", "request">>} \subseteq S => Only(Opening, S)
  BY <1>1, OnlyStep, OnlyConcat DEF Opening, BuildItem, ConnectItem
<1>3. Only(Greeting, {BuildItem, ConnectItem, <<"send", "request">>, AckItem, <<"send", "endpoint">>})
  <2> DEFINE S == {BuildItem, ConnectItem, <<"send", "request">>, AckItem, <<"send", "endpoint">>}
  <2>1. Only(Opening, S) /\ Only(Recv("ack"), S) /\ Only(Send("endpoint"), S)
    BY <1>1, <1>2, OnlyStep DEF AckItem
  <2> HIDE DEF S
  <2>2. Only(Greeting, S)
    BY <2>1, OnlyConcat DEF Greeting
  <2> QED
    BY <2>2 DEF S
<1>4. Only(Welcome, {RequestItem, BuildItem, <<"send", "ok">>, EndpointItem})
  <2> DEFINE S == {RequestItem, BuildItem, <<"send", "ok">>, EndpointItem}
  <2>1. /\ Only(Recv("request"), S) /\ Only(Do("build"), S) /\ Only(Send("ok"), S)
        /\ Only(Recv("endpoint"), S)
    BY <1>1, OnlyStep DEF RequestItem, BuildItem, EndpointItem
  <2> HIDE DEF S
  <2>2. Only(Welcome, S)
    BY <2>1, OnlyConcat DEF Welcome
  <2> QED
    BY <2>2 DEF S
<1>5. Only(Declined, {RequestItem, <<"send", "unsupported">>})
  BY <1>1, OnlyStep, OnlyConcat, ZenonT(60) DEF Declined, RequestItem
<1>6. Only(Conclude, {<<"send", "row">>, ReturnItem})
  <2> DEFINE S == {<<"send", "row">>, ReturnItem}
  <2>1. Only(Send("row"), S) /\ Only(Do("return"), S)
    BY <1>1, OnlyStep DEF ReturnItem
  <2> HIDE DEF S
  <2>2. Only(Conclude, S)
    BY <2>1, OnlyConcat DEF Conclude
  <2> QED
    BY <2>2 DEF S
<1> QED
  BY <1>2, <1>3, <1>4, <1>5, <1>6

(* The halves talk to each other.                                          *)
LEMMA HalvesTalk ==
  /\ Talk(Greeting, Welcome)
  /\ Talk(Opening \o Recv("ack"), Declined)
  /\ Talk(Conclude, Recv("row"))
<1>1. /\ "build" \in Words /\ "connect" \in Words /\ "request" \in Words
      /\ "ack" \in Words /\ "endpoint" \in Words /\ "ok" \in Words /\ "unsupported" \in Words
      /\ "row" \in Words /\ "return" \in Words
  BY DEF Words, Kinds
<1>2. /\ "request" \in Readable("request") /\ "ok" \in Readable("ack")
      /\ "unsupported" \in Readable("ack") /\ "endpoint" \in Readable("endpoint")
      /\ "row" \in Readable("row")
  BY DEF Readable
<1>3. /\ Talk(Send("request"), Recv("request")) /\ Talk(Recv("ack"), Send("ok"))
      /\ Talk(Recv("ack"), Send("unsupported")) /\ Talk(Send("endpoint"), Recv("endpoint"))
      /\ Talk(Send("row"), Recv("row"))
  BY <1>1, <1>2, TalkSteps
<1>4. Talk(Opening, Recv("request"))
  <2>1. Talk(Do("build") \o Do("connect"), <<>>)
    BY <1>1, TalkSteps, TalkAside
  <2>2. Talk(Opening, <<>> \o Recv("request"))
    BY <1>3, <2>1, TalkConcat DEF Opening
  <2> QED
    BY <1>1, <2>2, StepTypes, NoneAround
<1>5. Talk(Opening, Recv("request") \o Do("build"))
  BY <1>1, <1>4, TalkAside
<1>6. Talk(Greeting, Welcome)
  BY <1>3, <1>5, TalkConcat DEF Greeting, Welcome
<1>7. Talk(Opening \o Recv("ack"), Declined)
  BY <1>3, <1>4, TalkConcat DEF Declined
<1>8. Talk(Conclude, Recv("row"))
  BY <1>1, <1>3, TalkAside DEF Conclude
<1> QED
  BY <1>6, <1>7, <1>8

(* The whole code of the two sides fits, whatever the run is.              *)
LEMMA CodeAgrees ==
  ASSUME NEW c \in Client, NEW req \in [transport : Transports, mode : Modes],
         c \in Foreign \/ Supported(req)
  PROVE  LET s == ClientSteps(c, req.mode)
             a == Serve(req)
         IN Agree(s, <<>>, a) /\ Agree(a, <<>>, s) /\ Gated(a, <<>>, s)
<1> DEFINE bench == ClientBench(c, req.mode)
           served == ServerBench(req.mode)
           s == ClientSteps(c, req.mode)
           a == Serve(req)
           R == Recv("row")
<1>0. req.mode \in Modes /\ R \in Seq(Item) /\ "row" \in Words
  BY StepTypes DEF Words, Kinds
<1>1. /\ Greeting \in Seq(Item) /\ Welcome \in Seq(Item) /\ Conclude \in Seq(Item)
      /\ Declined \in Seq(Item) /\ Opening \in Seq(Item)
      /\ bench \in Seq(Item) /\ served \in Seq(Item)
      /\ s = (Greeting \o bench) \o Conclude
      /\ Supported(req) => a = (Welcome \o served) \o R
      /\ ~Supported(req) => a = Declined \o Do("return")
  BY CodeIs
<1>2. Offered(c, req.mode) => Talk(bench, served) /\ Past(bench, served)
  BY <1>0, BenchTalk, BenchPast
<1>3. ~Offered(c, req.mode) => bench = Do("refuse")
  BY <1>0 DEF Offered, ClientBench, Modes
<1>4. ~Has(Greeting, TrafficItem) /\ ~Has(Welcome, PostItem) /\ ~Has(Conclude, TrafficItem)
  <2>1. TrafficItem \notin {BuildItem, ConnectItem, <<"send", "request">>, AckItem, <<"send", "endpoint">>}
    BY DEF TrafficItem, BuildItem, ConnectItem, AckItem
  <2>2. PostItem \notin {RequestItem, BuildItem, <<"send", "ok">>, EndpointItem}
    BY DEF PostItem, RequestItem, BuildItem, EndpointItem
  <2>3. TrafficItem \notin {<<"send", "row">>, ReturnItem}
    BY DEF TrafficItem, ReturnItem
  <2> QED
    BY <2>1, <2>2, <2>3, HalvesHave, Zenon DEF Only
<1>5. \A x : Has(Conclude, x) => x[1] # "recv"
  <2>1. \A x \in {<<"send", "row">>, ReturnItem} : x[1] # "recv"
    BY DEF ReturnItem
  <2> QED
    BY <2>1, HalvesHave, Zenon DEF Only
<1> HIDE DEF bench, served, s, a, R
<1>6. CASE Supported(req) /\ Offered(c, req.mode)
  <2>1. Talk(Greeting \o bench, Welcome \o served)
    BY <1>2, <1>6, HalvesTalk, TalkConcat
  <2>2. Talk(s, a)
    BY <1>1, <1>6, <2>1, HalvesTalk, TalkConcat DEF R
  <2>3. Past(Greeting \o bench, Welcome \o served)
    BY <1>2, <1>4, <1>6, HalvesTalk, PastConcat
  <2>4. Past(s, a)
    BY <1>0, <1>1, <1>6, <2>3, PastMore
  <2> QED
    BY <2>2, <2>4 DEF Talk, Says, Past, s, a
<1>7. CASE Supported(req) /\ ~Offered(c, req.mode)
  <2> DEFINE z == bench \o Conclude
             w == served \o R
  <2>1. z \in Seq(Item) /\ w \in Seq(Item)
    BY <1>0, <1>1, ConcatIn
  <2>2. s = Greeting \o z /\ a = Welcome \o w
    <3>1. Greeting \o (bench \o Conclude) = (Greeting \o bench) \o Conclude
      <4>1. Greeting \in Seq(Item) /\ bench \in Seq(Item) /\ Conclude \in Seq(Item)
        BY <1>1
      <4> QED
        BY <4>1, Regroup
    <3>2. Welcome \o (served \o R) = (Welcome \o served) \o R
      <4>1. Welcome \in Seq(Item) /\ served \in Seq(Item) /\ R \in Seq(Item)
        BY <1>0, <1>1
      <4> QED
        BY <4>1, Regroup
    <3> QED
      BY <1>1, <1>7, <3>1, <3>2
  <2>3. "refuse" \in Words /\ bench = << RefuseItem >>
    BY <1>3, <1>7 DEF Do, RefuseItem, Words
  <2>4. \A x : Has(bench, x) => x = RefuseItem
    BY <2>3 DEF Has
  <2>5. /\ 1 \in DOMAIN z /\ z[1] = RefuseItem
        /\ \A x : Has(z, x) => x[1] # "recv" /\ x # TrafficItem
    <3>1. 1 \in DOMAIN bench /\ bench[1] = RefuseItem
      BY <2>3
    <3>2. RefuseItem[1] # "recv" /\ RefuseItem # TrafficItem
      BY DEF RefuseItem, TrafficItem
    <3> QED
      BY <1>1, <1>4, <1>5, <2>4, <3>1, <3>2, Places, HasConcat, SMTT(60)
  <2> HIDE DEF z, w
  <2>6. Agree(z, <<>>, w) /\ Agree(w, <<>>, z)
    BY <2>1, <2>5, AgreeSilent
  <2>7. Agree(s, <<>>, a) /\ Agree(a, <<>>, s)
    BY <1>1, <2>1, <2>2, <2>6, HalvesTalk, AgreeConcat DEF Talk, Says
  <2>8. ~Has(s, TrafficItem)
    BY <1>1, <1>4, <2>1, <2>2, <2>5, HasConcat
  <2>9. Gated(a, <<>>, s)
    BY <2>8 DEF Gated, Has
  <2> QED
    BY <2>7, <2>9 DEF s, a
<1>8. CASE ~Supported(req)
  <2>1. Offered(c, req.mode)
    BY <1>8 DEF Offered
  <2> DEFINE x == Opening \o Recv("ack")
             e == Send("endpoint")
             t == Do("return")
             z == bench \o Conclude
             y == e \o z
  <2>2. /\ Recv("ack") \in Seq(Item) /\ e \in Seq(Item) /\ t \in Seq(Item)
        /\ t = << ReturnItem >> /\ ReturnItem \in Item /\ e = << <<"send", "endpoint">> >>
        /\ <<"send", "endpoint">> \in Item
    BY StepTypes DEF Words, Kinds, ReturnItem, Do, Send, Item
  <2>3. x \in Seq(Item) /\ z \in Seq(Item) /\ y \in Seq(Item)
    BY <1>1, <2>2, ConcatIn
  <2>4. s = x \o y /\ a = Declined \o t
    <3>1. Greeting = x \o e
      BY DEF Greeting
    <3>2. (Greeting \o bench) \o Conclude = Greeting \o z
      <4>1. Greeting \in Seq(Item) /\ bench \in Seq(Item) /\ Conclude \in Seq(Item)
        BY <1>1
      <4>2. Greeting \o (bench \o Conclude) = (Greeting \o bench) \o Conclude
        BY <4>1, Regroup
      <4> QED
        BY <4>2
    <3> HIDE DEF x, e, z
    <3>3. (x \o e) \o z = x \o (e \o z)
      BY <2>2, <2>3, Regroup
    <3> QED
      BY <1>1, <1>8, <3>1, <3>2, <3>3
  <2>5. \A i : Has(t, i) => i[1] # "send" /\ i[1] # "recv" /\ i # PostItem
    <3>1. \A i : Has(<<ReturnItem>>, i) => i = ReturnItem
      BY DEF Has
    <3>2. ReturnItem[1] # "send" /\ ReturnItem[1] # "recv" /\ ReturnItem # PostItem
      BY DEF ReturnItem, PostItem
    <3> QED
      BY <2>2, <3>1, <3>2
  <2>6. ~Has(x, TrafficItem) /\ ~Has(Declined, PostItem) /\ ~Has(e, TrafficItem)
    <3>1. ~Has(Opening, TrafficItem) /\ ~Has(Declined, PostItem)
      <4>1. TrafficItem \notin {BuildItem, ConnectItem, <<"send", "request">>}
        BY DEF TrafficItem, BuildItem, ConnectItem
      <4>2. PostItem \notin {RequestItem, <<"send", "unsupported">>}
        BY DEF PostItem, RequestItem
      <4> QED
        BY <4>1, <4>2, HalvesHave, Zenon DEF Only
    <3>2. ~Has(Recv("ack"), TrafficItem) /\ ~Has(e, TrafficItem)
      BY <2>2 DEF Has, Recv, TrafficItem
    <3> QED
      BY <1>1, <2>2, <3>1, <3>2, HasConcat
  <2>7. Total(e, "recv") = 0 /\ Total(<<>>, "send") = 0 /\ Total(t, "send") = 0
    <3>1. <<"send", "endpoint">>[1] # "recv" /\ ReturnItem[1] # "send"
      BY DEF ReturnItem
    <3> QED
      BY <2>2, <3>1, TotalOne
  <2>8. Unposted(t) = 0
    <3>1. \A i \in DOMAIN t : t[i] # PostItem
      BY <2>5 DEF Has
    <3>2. Unposted(t \o <<>>) = Total(t, "send") + Unposted(<<>>) /\ Unposted(<<>>) = 0
      BY <2>2, <3>1, UnpostedIs, EmptySeq DEF Total
    <3> HIDE DEF t
    <3> QED
      BY <2>2, <2>7, <3>2, NoneAround
  <2>9. Gated(t, <<>>, z)
    <3>1. Past(z, served \o <<>>)
      BY <1>1, <1>2, <2>1, PastMore, EmptySeq
    <3>2. Gated(served \o <<>>, <<>>, z) /\ Unposted(served \o <<>>) \in Nat
      BY <3>1, UnpostedIs DEF Past
    <3>3. Len(<<>>) = 0 /\ \A j \in DOMAIN z : Before(z, "recv", j) \in Nat
      <4>1. \A j \in DOMAIN z : j \in Nat \ {0}
        BY <2>3, LenProperties
      <4> QED
        BY <4>1, BeforeNat
    <3> HIDE DEF z, t
    <3>4. ASSUME NEW j \in DOMAIN z, z[j] = TrafficItem
          PROVE  Len(<<>>) + Unposted(t) < Before(z, "recv", j)
      <4>1. Len(<<>>) + Unposted(served \o <<>>) < Before(z, "recv", j)
        BY <3>2, <3>4 DEF Gated
      <4> QED
        BY <2>8, <3>2, <3>3, <4>1
    <3> QED
      BY <3>4 DEF Gated
  <2> HIDE DEF x, e, t, z
  <2>10. Gated(t, <<>>, y)
    <3>1. Total(<<>>, "send") = Total(e, "recv") /\ ~Has(<<>>, PostItem) /\ <<>> \in Seq(Item)
      BY <2>7, EmptySeq DEF Has
    <3>2. Gated(<<>> \o t, <<>>, e \o z)
      BY <2>2, <2>3, <2>6, <2>9, <3>1, GatedConcat
    <3> QED
      BY <2>2, <3>2, NoneAround
  <2> HIDE DEF y
  <2>11. Talk(x, Declined)
    BY HalvesTalk DEF x
  <2>12. Gated(a, <<>>, s)
    <3>1. Total(Declined, "send") = Total(x, "recv")
      BY <2>11 DEF Talk, Says
    <3>2. Gated(Declined \o t, <<>>, x \o y)
      BY <1>1, <2>2, <2>3, <2>6, <2>10, <3>1, GatedConcat
    <3> QED
      BY <2>4, <3>2
  <2>13. Agree(t, <<>>, y) /\ Agree(y, <<>>, t)
    BY <2>2, <2>3, <2>5, AgreeSilent
  <2>14. Agree(s, <<>>, a) /\ Agree(a, <<>>, s)
    <3>1. /\ Agree(x, <<>>, Declined) /\ Total(x, "send") = Total(Declined, "recv")
          /\ Agree(Declined, <<>>, x) /\ Total(Declined, "send") = Total(x, "recv")
      BY <2>11 DEF Talk, Says
    <3>2. x \in Seq(Item) /\ y \in Seq(Item) /\ Declined \in Seq(Item) /\ t \in Seq(Item)
      BY <1>1, <2>2, <2>3
    <3> QED
      BY <2>4, <2>13, <3>1, <3>2, AgreeConcat
  <2> QED
    BY <2>12, <2>14 DEF s, a
<1> QED
  BY <1>6, <1>7, <1>8

(* The order of two items, with more behind.                               *)
LEMMA OrderMore ==
  ASSUME NEW s \in Seq(Item), NEW t \in Seq(Item), NEW x, NEW y, ~Has(t, x)
  PROVE  /\ Leads(s, x, y) => Leads(s \o t, x, y)
         /\ Precedes(s, x, y) => Precedes(s \o t, x, y)
         /\ Has(t, y) => Leads(s \o t, x, y)
<1> DEFINE u == s \o t
<1>1. /\ \A i \in DOMAIN s : i \in DOMAIN u /\ u[i] = s[i]
      /\ \A i \in DOMAIN t : i + Len(s) \in DOMAIN u /\ u[i + Len(s)] = t[i]
      /\ \A i \in DOMAIN u : \/ i \in DOMAIN s
                             \/ /\ i \in Nat /\ i > Len(s)
                                /\ i - Len(s) \in DOMAIN t /\ u[i] = t[i - Len(s)]
  BY Places
<1>2. DOMAIN s = 1 .. Len(s) /\ Len(s) \in Nat /\ \A i \in DOMAIN t : i \in Nat /\ i > 0
  BY LenProperties
<1> HIDE DEF u
<1>3. \A i \in DOMAIN u : u[i] = x => i \in DOMAIN s /\ s[i] = x
  BY <1>1 DEF Has
<1>4. ASSUME Leads(s, x, y) PROVE Leads(u, x, y)
  BY <1>1, <1>3, <1>4 DEF Leads
<1>5. ASSUME Precedes(s, x, y) PROVE Precedes(u, x, y)
  <2> SUFFICES ASSUME NEW i \in DOMAIN u, NEW j \in DOMAIN u, u[i] = x, u[j] = y PROVE i < j
    BY DEF Precedes
  <2>1. i \in DOMAIN s /\ s[i] = x
    BY <1>3
  <2>2. CASE j \in DOMAIN s
    BY <1>1, <1>5, <2>1, <2>2 DEF Precedes
  <2>3. CASE j \in Nat /\ j > Len(s)
    BY <1>2, <2>1, <2>3
  <2> QED
    BY <1>1, <2>2, <2>3
<1>6. ASSUME Has(t, y) PROVE Leads(u, x, y)
  <2>1. PICK k \in DOMAIN t : t[k] = y
    BY <1>6 DEF Has
  <2>2. k + Len(s) \in DOMAIN u /\ u[k + Len(s)] = y
    BY <1>1, <2>1
  <2>3. k \in Nat /\ k > 0
    BY <1>2
  <2>4. \A i \in DOMAIN s : i < k + Len(s)
    BY <1>2, <2>3
  <2> QED
    BY <1>3, <2>2, <2>4 DEF Leads
<1> QED
  BY <1>4, <1>5, <1>6 DEF u

(* A queue pair is built before it is connected, and connected before it   *)
(* is used.                                                                *)
LEMMA CodeInOrder ==
  ASSUME NEW c \in Client, NEW req \in [transport : Transports, mode : Modes]
  PROVE  LET s == ClientSteps(c, req.mode)
             a == Serve(req)
         IN /\ s \in Seq(Item) /\ a \in Seq(Item)
            /\ Leads(s, BuildItem, AckItem) /\ Precedes(s, AckItem, TrafficItem) /\ Has(s, AckItem)
            /\ Leads(a, BuildItem, EndpointItem) /\ Precedes(a, EndpointItem, PostItem)
            /\ Has(a, PostItem) => Has(a, EndpointItem)
<1> DEFINE bench == ClientBench(c, req.mode)
           served == ServerBench(req.mode)
           s == ClientSteps(c, req.mode)
           a == Serve(req)
           R == Recv("row")
           rbk == Recv("request") \o Do("build") \o Send("ok")
           E == Recv("endpoint")
<1>1. /\ "build" \in Words /\ "request" \in Words /\ "ack" \in Words /\ "endpoint" \in Words
      /\ "ok" \in Words /\ "row" \in Words /\ "return" \in Words
  BY DEF Words, Kinds
<1>2. /\ Greeting \in Seq(Item) /\ Welcome \in Seq(Item) /\ Conclude \in Seq(Item)
      /\ Declined \in Seq(Item) /\ Opening \in Seq(Item)
      /\ bench \in Seq(Item) /\ served \in Seq(Item)
      /\ s = (Greeting \o bench) \o Conclude
      /\ Supported(req) => a = (Welcome \o served) \o R
      /\ ~Supported(req) => a = Declined \o Do("return")
  BY CodeIs
<1>3. /\ Recv("ack") \in Seq(Item) /\ Send("endpoint") \in Seq(Item) /\ R \in Seq(Item)
      /\ E \in Seq(Item) /\ rbk \in Seq(Item) /\ Do("return") \in Seq(Item)
  BY <1>1, StepTypes, ConcatIn
<1>4. req.mode \in Modes
  OBVIOUS
<1>5. Only(bench, ClientItems) /\ Only(served, ServerItems)
  BY <1>4, BenchItems
<1>6. /\ Only(R, {<<"recv", "row">>}) /\ Only(Do("return"), {ReturnItem})
      /\ Only(Recv("ack"), {AckItem}) /\ Only(Send("endpoint"), {<<"send", "endpoint">>})
      /\ Only(E, {EndpointItem})
  BY <1>1, OnlyStep DEF ReturnItem, AckItem, EndpointItem
<1>7. Has(Recv("ack"), AckItem) /\ Has(E, EndpointItem)
  BY HasOne DEF Recv, AckItem, EndpointItem
<1>8. Welcome = rbk \o E /\ Greeting = (Opening \o Recv("ack")) \o Send("endpoint")
  BY DEF Welcome, Greeting
<1> HIDE DEF bench, served, s, a, R, rbk, E
<1>9. /\ ~Has(Recv("ack"), BuildItem) /\ ~Has(Send("endpoint"), BuildItem)
      /\ ~Has(bench, BuildItem) /\ ~Has(Conclude, BuildItem)
      /\ ~Has(bench, AckItem) /\ ~Has(Conclude, AckItem) /\ ~Has(Greeting, TrafficItem)
  <2>1. BuildItem \notin {AckItem} /\ BuildItem \notin {<<"send", "endpoint">>}
        /\ BuildItem \notin {<<"send", "row">>, ReturnItem}
        /\ AckItem \notin {<<"send", "row">>, ReturnItem}
    BY DEF BuildItem, AckItem, ReturnItem
  <2>2. BuildItem \notin ClientItems /\ AckItem \notin ClientItems
    BY DEF BuildItem, AckItem, ClientItems, ByteItems, TrafficItem, PostItem, RefuseItem
  <2>3. TrafficItem \notin {BuildItem, ConnectItem, <<"send", "request">>, AckItem, <<"send", "endpoint">>}
    BY DEF TrafficItem, BuildItem, ConnectItem, AckItem
  <2> QED
    BY <1>5, <1>6, <2>1, <2>2, <2>3, HalvesHave, Zenon DEF Only
<1>10. /\ ~Has(E, BuildItem) /\ ~Has(served, BuildItem) /\ ~Has(R, BuildItem)
       /\ ~Has(served, EndpointItem) /\ ~Has(R, EndpointItem) /\ ~Has(Welcome, PostItem)
       /\ ~Has(Declined, BuildItem) /\ ~Has(Declined, EndpointItem) /\ ~Has(Declined, PostItem)
       /\ ~Has(Do("return"), BuildItem) /\ ~Has(Do("return"), EndpointItem)
       /\ ~Has(Do("return"), PostItem)
  <2>1. /\ BuildItem \notin {EndpointItem} /\ BuildItem \notin {<<"recv", "row">>}
        /\ BuildItem \notin {RequestItem, <<"send", "unsupported">>} /\ BuildItem \notin {ReturnItem}
    BY DEF BuildItem, EndpointItem, RequestItem, ReturnItem
  <2>2. /\ EndpointItem \notin {<<"recv", "row">>} /\ EndpointItem \notin {ReturnItem}
        /\ EndpointItem \notin {RequestItem, <<"send", "unsupported">>}
    BY DEF EndpointItem, RequestItem, ReturnItem
  <2>3. /\ PostItem \notin {RequestItem, <<"send", "unsupported">>} /\ PostItem \notin {ReturnItem}
        /\ PostItem \notin {RequestItem, BuildItem, <<"send", "ok">>, EndpointItem}
    BY DEF PostItem, RequestItem, ReturnItem, BuildItem, EndpointItem
  <2>4. BuildItem \notin ServerItems /\ EndpointItem \notin ServerItems
    BY DEF BuildItem, EndpointItem, ServerItems, ByteItems, TrafficItem, PostItem
  <2> QED
    BY <1>5, <1>6, <2>1, <2>2, <2>3, <2>4, HalvesHave, Zenon DEF Only
<1>11. Leads(s, BuildItem, AckItem) /\ Precedes(s, AckItem, TrafficItem) /\ Has(s, AckItem)
  <2> DEFINE oa == Opening \o Recv("ack")
             gb == Greeting \o bench
  <2>1. oa \in Seq(Item) /\ gb \in Seq(Item)
    BY <1>2, <1>3, ConcatIn
  <2>2. Leads(oa, BuildItem, AckItem) /\ Has(oa, AckItem)
    BY <1>2, <1>3, <1>7, <1>9, OrderMore, HasConcat
  <2> HIDE DEF oa
  <2>3. Leads(Greeting, BuildItem, AckItem) /\ Has(Greeting, AckItem)
    BY <1>3, <1>8, <1>9, <2>1, <2>2, OrderMore, HasConcat DEF oa
  <2>4. Precedes(Greeting, AckItem, TrafficItem)
    BY <1>9 DEF Precedes, Has
  <2>5. Leads(gb, BuildItem, AckItem) /\ Precedes(gb, AckItem, TrafficItem) /\ Has(gb, AckItem)
    BY <1>2, <1>9, <2>3, <2>4, OrderMore, HasConcat
  <2>6. s = gb \o Conclude
    BY <1>2
  <2> HIDE DEF gb
  <2> QED
    BY <1>2, <1>9, <2>1, <2>5, <2>6, OrderMore, HasConcat
<1>12. ASSUME Supported(req)
       PROVE  /\ Leads(a, BuildItem, EndpointItem) /\ Precedes(a, EndpointItem, PostItem)
              /\ Has(a, EndpointItem)
  <2> DEFINE ws == Welcome \o served
  <2>1. ws \in Seq(Item)
    BY <1>2, ConcatIn
  <2>2. Leads(Welcome, BuildItem, EndpointItem) /\ Has(Welcome, EndpointItem)
    BY <1>3, <1>7, <1>8, <1>10, OrderMore, HasConcat
  <2>3. Precedes(Welcome, EndpointItem, PostItem)
    BY <1>10 DEF Precedes, Has
  <2>4. /\ Leads(ws, BuildItem, EndpointItem) /\ Precedes(ws, EndpointItem, PostItem)
        /\ Has(ws, EndpointItem)
    BY <1>2, <1>10, <2>2, <2>3, OrderMore, HasConcat
  <2>5. a = ws \o R
    BY <1>2, <1>12
  <2> HIDE DEF ws
  <2> QED
    BY <1>3, <1>10, <2>1, <2>4, <2>5, OrderMore, HasConcat
<1>13. ASSUME ~Supported(req)
       PROVE  ~Has(a, BuildItem) /\ ~Has(a, EndpointItem) /\ ~Has(a, PostItem)
  <2> DEFINE d == Do("return")
  <2>1. d \in Seq(Item) /\ Declined \in Seq(Item) /\ a = Declined \o d
    BY <1>2, <1>3, <1>13
  <2>2. /\ ~Has(d, BuildItem) /\ ~Has(d, EndpointItem) /\ ~Has(d, PostItem)
        /\ ~Has(Declined, BuildItem) /\ ~Has(Declined, EndpointItem) /\ ~Has(Declined, PostItem)
    BY <1>10
  <2> HIDE DEF d
  <2>3. \A x : Has(Declined \o d, x) <=> Has(Declined, x) \/ Has(d, x)
    BY <2>1, HasConcat
  <2> QED
    BY <2>1, <2>2, <2>3, Zenon
<1>14. ASSUME ~Supported(req)
       PROVE  /\ Leads(a, BuildItem, EndpointItem) /\ Precedes(a, EndpointItem, PostItem)
              /\ Has(a, PostItem) => Has(a, EndpointItem)
  BY <1>13, <1>14 DEF Leads, Precedes, Has
<1>15. s \in Seq(Item) /\ a \in Seq(Item)
  <2>1. (Greeting \o bench) \o Conclude \in Seq(Item)
    BY <1>2, ConcatIn
  <2>2. (Welcome \o served) \o R \in Seq(Item) /\ Declined \o Do("return") \in Seq(Item)
    BY <1>2, <1>3, ConcatIn
  <2> QED
    BY <1>2, <2>1, <2>2
<1> QED
  BY <1>11, <1>12, <1>14, <1>15 DEF s, a

(* The server reads the request first, and only once.                      *)
LEMMA ServerCode ==
  ASSUME NEW req \in [transport : Transports, mode : Modes]
  PROVE  LET a == Serve(req)
             t == ServerSteps(req)
         IN /\ t \in Seq(Item) /\ ~Has(t, RequestItem)
            /\ a \in Seq(Item) /\ a # <<>> /\ a[1] = RequestItem /\ Head(a) = RequestItem
            /\ Tail(a) = t
<1> DEFINE t == ServerSteps(req)
           one == << RequestItem >>
           a == one \o t
<1>1. /\ "build" \in Words /\ "request" \in Words /\ "endpoint" \in Words /\ "ok" \in Words
      /\ "unsupported" \in Words /\ "row" \in Words /\ "return" \in Words
  BY DEF Words, Kinds
<1> DEFINE S == Item \ {RequestItem}
<1>2. /\ Only(Do("build"), S) /\ Only(Send("ok"), S) /\ Only(Recv("endpoint"), S)
      /\ Only(Recv("row"), S) /\ Only(Send("unsupported"), S) /\ Only(Do("return"), S)
  <2>1. \A w \in Words : /\ <<"do", w>> \in S /\ <<"send", w>> \in S
                         /\ w # "request" => <<"recv", w>> \in S
    BY DEF RequestItem, Item
  <2> HIDE DEF S
  <2> QED
    BY <1>1, <2>1, OnlyStep
<1>3. Only(ServerBench(req.mode), S)
  <2>1. req.mode \in Modes
    OBVIOUS
  <2>2. RequestItem \notin ServerItems
    BY DEF RequestItem, ServerItems, ByteItems, TrafficItem, PostItem
  <2>3. Only(ServerBench(req.mode), ServerItems)
    BY <2>1, BenchItems
  <2>4. ServerItems \subseteq Item
    BY DEF Item, Words, Kinds, ServerItems, ByteItems, TrafficItem, PostItem
  <2> QED
    BY <2>2, <2>3, <2>4 DEF Only
<1> HIDE DEF S
<1>4. Only(t, S)
  <2>1. CASE Supported(req)
    <3>1. t = Do("build") \o Send("ok") \o Recv("endpoint") \o ServerBench(req.mode) \o Recv("row")
      BY <2>1 DEF ServerSteps
    <3> HIDE DEF t
    <3> QED
      BY <1>2, <1>3, <3>1, OnlyConcat
  <2>2. CASE ~Supported(req)
    <3>1. t = Send("unsupported") \o Do("return")
      BY <2>2 DEF ServerSteps
    <3> HIDE DEF t
    <3> QED
      BY <1>2, <3>1, OnlyConcat
  <2> QED
    BY <2>1, <2>2
<1> HIDE DEF t
<1>5. t \in Seq(Item) /\ ~Has(t, RequestItem)
  <2>1. RequestItem \notin S
    BY DEF S
  <2> QED
    BY <1>4, <2>1 DEF Only
<1>6. RequestItem \in Item /\ one \in Seq(Item) /\ Len(one) = 1 /\ one[1] = RequestItem
  BY <1>1 DEF RequestItem, Item
<1> HIDE DEF one
<1>7. /\ a \in Seq(Item) /\ Len(a) = 1 + Len(t) /\ a[1] = RequestItem
      /\ \A i \in 1 .. Len(t) : a[i + 1] = t[i]
  <2>1. /\ a \in Seq(Item) /\ Len(a) = Len(one) + Len(t)
        /\ \A i \in 1 .. Len(one) + Len(t) : a[i] = IF i <= Len(one) THEN one[i] ELSE t[i - Len(one)]
    BY <1>5, <1>6, ConcatProperties
  <2>2. Len(t) \in Nat
    BY <1>5, LenProperties
  <2> HIDE DEF a
  <2>3. a[1] = RequestItem
    BY <1>6, <2>1, <2>2
  <2>4. ASSUME NEW i \in 1 .. Len(t) PROVE a[i + 1] = t[i]
    <3>1. i + 1 \in 1 .. Len(one) + Len(t) /\ ~(i + 1 <= Len(one)) /\ (i + 1) - Len(one) = i
      BY <1>6, <2>2
    <3> QED
      BY <2>1, <3>1
  <2> QED
    BY <1>6, <2>1, <2>3, <2>4
<1>8. Serve(req) = a
  BY DEF Serve, Recv, RequestItem, t, one
<1> HIDE DEF a
<1>9. a # <<>> /\ Len(t) \in Nat
  <2>1. Len(<<>>) = 0 /\ Len(t) \in Nat
    BY <1>5, LenProperties
  <2>2. Len(a) # 0
    BY <1>7, <2>1
  <2> QED
    BY <2>1, <2>2
<1>10. Head(a) = a[1] /\ Tail(a) \in Seq(Item) /\ Len(Tail(a)) = Len(t)
       /\ \A i \in 1 .. Len(t) : Tail(a)[i] = a[i + 1]
  <2>1. /\ Head(a) = a[1] /\ Tail(a) \in Seq(Item) /\ Len(Tail(a)) = Len(a) - 1
        /\ \A i \in 1 .. Len(Tail(a)) : Tail(a)[i] = a[i + 1]
    BY <1>7, <1>9, HeadTailProperties
  <2>2. Len(a) - 1 = Len(t)
    BY <1>7, <1>9
  <2> QED
    BY <2>1, <2>2
<1>11. Tail(a) = t
  <2> DEFINE r == Tail(a)
  <2>1. r \in Seq(Item) /\ Len(r) = Len(t) /\ \A i \in 1 .. Len(r) : r[i] = t[i]
    BY <1>7, <1>10
  <2> HIDE DEF r
  <2>2. r = t
    BY <1>5, <2>1, SeqEqual
  <2> QED
    BY <2>2 DEF r
<1> QED
  BY <1>5, <1>7, <1>8, <1>9, <1>10, <1>11 DEF t

--------------------------------------------------------------------------------
(***************************************************************************)
(* What is left of the code, step by step.                                 *)
(***************************************************************************)

(* What is left is a piece of code.                                        *)
LEMMA TodoTypes ==
  ASSUME Work, NEW conn \in Conn
  PROVE  ClientTodo(conn) \in Seq(Item) /\ ServerTodo(conn) \in Seq(Item)
<1>1. /\ conn[1] \in Process /\ Srv \in Process /\ todo \in [Process -> Seq(Item)]
      /\ Req(conn) \in [transport : Transports, mode : Modes]
  BY ConnIs DEF Work, WorkTypes, Process
<1>2. Serve(Req(conn)) \in Seq(Item) /\ <<>> \in Seq(Item)
  BY <1>1, ServerCode, EmptySeq
<1>3. ClientTodo(conn) \in Seq(Item)
  BY <1>1, <1>2 DEF ClientTodo
<1>4. ServerTodo(conn) \in {todo[Srv], <<>>, Serve(Req(conn))}
  BY DEF ServerTodo, Serve
<1> QED
  BY <1>1, <1>2, <1>3, <1>4

(* What is left to do changes for the connection of who moves only.        *)
LEMMA ClientMoves ==
  ASSUME Work, NEW c \in Client, NEW t, todo' = [todo EXCEPT ![c] = t],
         UNCHANGED <<at, serving>>,
         \A conn \in Conn : "Server" \in closed'[conn] <=> "Server" \in closed[conn]
  PROVE  \A conn \in Conn :
           /\ ServerTodo(conn)' = ServerTodo(conn)
           /\ conn = <<c, at[c]>> => ClientTodo(conn) = todo[c] /\ ClientTodo(conn)' = t
           /\ conn # <<c, at[c]>> => ClientTodo(conn)' = ClientTodo(conn)
<1> SUFFICES ASSUME NEW conn \in Conn
             PROVE  /\ ServerTodo(conn)' = ServerTodo(conn)
                    /\ conn = <<c, at[c]>> => ClientTodo(conn) = todo[c] /\ ClientTodo(conn)' = t
                    /\ conn # <<c, at[c]>> => ClientTodo(conn)' = ClientTodo(conn)
  OBVIOUS
<1>1. /\ c \in Process /\ c # Srv /\ Srv \in Process /\ todo \in [Process -> Seq(Item)]
      /\ conn[1] \in Process /\ conn = <<conn[1], conn[2]>>
  BY SuiteAssumption, ConnIs DEF Work, WorkTypes, Process
<1>2. todo'[c] = t /\ \A p \in Process : p # c => todo'[p] = todo[p]
  BY <1>1
<1>3. todo'[Srv] = todo[Srv]
  BY <1>1, <1>2
<1>4. ServerTodo(conn)' = ServerTodo(conn)
  BY <1>3 DEF ServerTodo
<1>5. ClientTodo(conn) = IF conn[2] = at[conn[1]] THEN todo[conn[1]] ELSE <<>>
  BY DEF ClientTodo
<1>6. ClientTodo(conn)' = IF conn[2] = at[conn[1]] THEN todo'[conn[1]] ELSE <<>>
  BY DEF ClientTodo
<1>7. conn = <<c, at[c]>> => conn[1] = c /\ conn[2] = at[c]
  OBVIOUS
<1>8. conn # <<c, at[c]>> => conn[1] # c \/ conn[2] # at[conn[1]]
  BY <1>1
<1> QED
  BY <1>1, <1>2, <1>4, <1>5, <1>6, <1>7, <1>8

LEMMA ServerMoves ==
  ASSUME Work, serving \in Conn, NEW t, t # Recv("request"), todo' = [todo EXCEPT ![Srv] = t],
         UNCHANGED <<at, serving, closed>>
  PROVE  /\ todo[Srv] # Recv("request") => ServerTodo(serving) = todo[Srv]
         /\ todo[Srv] = Recv("request") => ServerTodo(serving) = Serve(Req(serving))
         /\ \A conn \in Conn :
              /\ ClientTodo(conn)' = ClientTodo(conn)
              /\ conn = serving => ServerTodo(conn)' = t
              /\ conn # serving => ServerTodo(conn)' = ServerTodo(conn)
<1>1. Srv \in Process /\ todo \in [Process -> Seq(Item)] /\ \A conn \in Conn : conn[1] \in Client
  BY ConnIs DEF Work, WorkTypes, Process
<1>2. todo'[Srv] = t /\ \A c \in Client : todo'[c] = todo[c]
  BY <1>1, SuiteAssumption DEF Process
<1>3. todo[Srv] # Recv("request") => ServerTodo(serving) = todo[Srv]
  BY DEF ServerTodo
<1>4. todo[Srv] = Recv("request") => ServerTodo(serving) = Serve(Req(serving))
  BY DEF ServerTodo, Serve
<1>5. ASSUME NEW conn \in Conn
      PROVE  /\ ClientTodo(conn)' = ClientTodo(conn)
             /\ conn = serving => ServerTodo(conn)' = t
             /\ conn # serving => ServerTodo(conn)' = ServerTodo(conn)
  <2>1. ClientTodo(conn)' = ClientTodo(conn)
    BY <1>1, <1>2 DEF ClientTodo
  <2>2. conn = serving => ServerTodo(conn)' = t
    BY <1>2 DEF ServerTodo
  <2>3. conn # serving => ServerTodo(conn)' = ServerTodo(conn)
    BY <1>2 DEF ServerTodo
  <2> QED
    BY <2>1, <2>2, <2>3
<1> QED
  BY <1>3, <1>4, <1>5

(* When the server leaves a connection, it has nothing left to do for it.  *)
LEMMA ServerStops ==
  ASSUME Work, todo' = [todo EXCEPT ![Srv] = <<>>] \/ (todo' = todo /\ serving = NoConn),
         serving' = NoConn, at' = at,
         \A conn \in Conn : "Server" \in closed[conn] => "Server" \in closed'[conn],
         serving \in Conn => "Server" \in closed'[serving]
  PROVE  \A conn \in Conn :
           /\ ClientTodo(conn)' = ClientTodo(conn)
           /\ ServerTodo(conn)' \in {ServerTodo(conn), <<>>}
           /\ conn = serving => ServerTodo(conn)' = <<>>
<1> SUFFICES ASSUME NEW conn \in Conn
             PROVE  /\ ClientTodo(conn)' = ClientTodo(conn)
                    /\ ServerTodo(conn)' \in {ServerTodo(conn), <<>>}
                    /\ conn = serving => ServerTodo(conn)' = <<>>
  OBVIOUS
<1>1. todo \in [Process -> Seq(Item)] /\ conn[1] \in Client /\ conn # NoConn
  BY ConnIs DEF Work, WorkTypes, Process
<1>2. \A c \in Client : todo'[c] = todo[c]
  BY <1>1, SuiteAssumption DEF Process
<1>3. ClientTodo(conn)' = ClientTodo(conn)
  BY <1>1, <1>2 DEF ClientTodo
<1>4. ServerTodo(conn)' = IF "Server" \in closed'[conn] THEN <<>> ELSE Serve(Req(conn))
  BY <1>1 DEF ServerTodo, Serve
<1>5. serving # conn => ServerTodo(conn) = IF "Server" \in closed[conn] THEN <<>> ELSE Serve(Req(conn))
  BY DEF ServerTodo, Serve
<1> QED
  BY <1>3, <1>4, <1>5

--------------------------------------------------------------------------------
(***************************************************************************)
(* A step of one side, and the end of one.                                 *)
(***************************************************************************)

\* The item with which p connects its queue pair.
LinkItem(p) == IF p = Srv THEN EndpointItem ELSE AckItem

\* p writes a message, reads one, or leaves the streams of conn alone.
Spoken(p, conn, h) ==
  LET s == SideOf(p)
      t == Other(s)
      M == Letters(conn)
      m == mail[conn]
      n == mail'[conn]
  IN \/ h[1] = "do" /\ n = m
     \/ h[1] = "recv" /\ Mailed(M, m, n, s) /\ m[s] # <<>> /\ n[s] = Tail(m[s])
     \/ h[1] = "send" /\ Mailed(M, m, n, t) /\ \E x \in M : x.kind = h[2] /\ n[t] = Append(m[t], x)

\* p does nothing to other queue pairs, and connects its own as it should.
Linked(p, conn, h) ==
  LET s == SideOf(p)
      t == Other(s)
  IN /\ qp'[conn][t] = qp[conn][t]
     /\ h = LinkItem(p) => qp'[conn][s] = <<conn, t>>
     /\ h \notin {LinkItem(p), BuildItem} => qp'[conn][s] = qp[conn][s]

Arms(p, conn, h) ==
  \A other \in Conn : other \in armed' <=> other \in armed \/ (other = conn /\ p = Srv /\ h = PostItem)

(* A step of another connection.                                           *)
LEMMA FitsAside ==
  ASSUME NEW conn, NEW c, NEW a, NEW m, NEW q, NEW on, NEW onn, Fits(conn, c, a, m, q, on),
         conn \in on <=> conn \in onn
  PROVE  Fits(conn, c, a, m, q, onn)
BY DEF Fits, InStep, QpInOrder

(* The next item of the client's, and of the server's code.                *)
LEMMA ClientAdvances ==
  ASSUME Base, FitsAll, NEW c \in Client, todo[c] # <<>>, Advance(c), UNCHANGED <<at, serving, closed>>,
         Head(todo[c]) # RefuseItem, Spoken(c, <<c, at[c]>>, Head(todo[c])),
         Linked(c, <<c, at[c]>>, Head(todo[c])), Arms(c, <<c, at[c]>>, Head(todo[c])),
         Signed(<<c, at[c]>>, mail'[<<c, at[c]>>]),
         \A conn \in Conn : conn # <<c, at[c]>> => mail'[conn] = mail[conn] /\ qp'[conn] = qp[conn]
  PROVE  FitsAll'
<1> DEFINE here == <<c, at[c]>>
           s == todo[c]
           h == Head(s)
<1>1. Work /\ MailHeld
  BY DEF Base, Work
<1>2. c \in Process /\ c # Srv /\ SideOf(c) = "Client" /\ Other("Client") = "Server"
  BY SuiteAssumption DEF Process, SideOf, Other
<1>3. here \in Conn /\ ConnOf(c) = here
  BY <1>1, <1>2, AtWork DEF ConnOf
<1>4. s \in Seq(Item) /\ s # <<>> /\ h = s[1]
  BY <1>1, <1>2, HeadIs DEF Work, WorkTypes
<1>5. todo' = [todo EXCEPT ![c] = Tail(s)]
  BY DEF Advance
<1>6. \A conn \in Conn : conn \in armed' <=> conn \in armed
  BY <1>2 DEF Arms
<1>7. /\ ClientTodo(here) = s /\ ClientTodo(here)' = Tail(s)
      /\ \A conn \in Conn : conn # here => ClientTodo(conn)' = ClientTodo(conn)
      /\ \A conn \in Conn : ServerTodo(conn)' = ServerTodo(conn)
  BY <1>1, <1>3, <1>5, ClientMoves
<1> SUFFICES ASSUME NEW conn \in Conn
             PROVE  Fits(conn, ClientTodo(conn)', ServerTodo(conn)', mail'[conn], qp'[conn], armed')
  BY DEF FitsAll
<1>8. Fits(conn, ClientTodo(conn), ServerTodo(conn), mail[conn], qp[conn], armed)
  BY DEF FitsAll
<1>9. CASE conn # here
  <2>1. Fits(conn, ClientTodo(conn), ServerTodo(conn), mail[conn], qp[conn], armed')
    BY <1>6, <1>8, FitsAside
  <2> QED
    BY <1>7, <1>9, <2>1
<1>10. CASE conn = here
  <2> DEFINE a == ServerTodo(here)
             m == mail[here]
             n == mail'[here]
             q == qp[here]
             r == qp'[here]
             M == Letters(here)
  <2>1. Fits(here, s, a, m, q, armed')
    <3>1. Fits(here, s, a, m, q, armed)
      BY <1>7, <1>8, <1>10
    <3> QED
      BY <1>3, <1>6, <3>1, FitsAside
  <2>2. a \in Seq(Item) /\ m \in [Side -> Seq(M)]
    BY <1>1, <1>3, TodoTypes DEF MailHeld
  <2>3. /\ r["Server"] = q["Server"]
        /\ h = AckItem => r["Client"] = <<here, "Server">>
        /\ h \notin {AckItem, BuildItem} => r["Client"] = q["Client"]
    BY <1>2 DEF Linked, LinkItem
  <2>4. \/ h[1] = "do" /\ n = m
        \/ /\ h[1] = "recv" /\ Mailed(M, m, n, "Client")
           /\ m["Client"] # <<>> /\ n["Client"] = Tail(m["Client"])
        \/ /\ h[1] = "send" /\ Mailed(M, m, n, "Server")
           /\ \E x \in M : x.kind = h[2] /\ n["Server"] = Append(m["Server"], x)
    BY <1>2 DEF Spoken
  <2>5. Signed(here, n)
    OBVIOUS
  <2>6. h # RefuseItem
    OBVIOUS
  <2>7. Fits(here, Tail(s), a, n, r, armed')
    <3> HIDE DEF here, s, a, m, n, q, r, M, h
    <3> QED
      BY <1>4, <2>1, <2>2, <2>3, <2>4, <2>5, <2>6, ClientFits
  <2> QED
    BY <1>7, <1>10, <2>7
<1> QED
  BY <1>9, <1>10

LEMMA ServerAdvances ==
  ASSUME Base, FitsAll, serving \in Conn, NEW s, s = ServerTodo(serving), s # <<>>,
         Tail(s) # Recv("request"), todo' = [todo EXCEPT ![Srv] = Tail(s)],
         UNCHANGED <<at, serving, closed>>,
         Head(s) # RefuseItem, Spoken(Srv, serving, Head(s)),
         Linked(Srv, serving, Head(s)), Arms(Srv, serving, Head(s)), Signed(serving, mail'[serving]),
         \A conn \in Conn : conn # serving => mail'[conn] = mail[conn] /\ qp'[conn] = qp[conn]
  PROVE  FitsAll'
<1> DEFINE h == Head(s)
<1>1. Work /\ MailHeld
  BY DEF Base, Work
<1>2. SideOf(Srv) = "Server" /\ Other("Server") = "Client"
  BY DEF SideOf, Other
<1>3. s \in Seq(Item)
  BY <1>1, TodoTypes
<1>4. h = s[1]
  BY <1>3, FirstAndRest
<1>5. /\ \A conn \in Conn : conn = serving => ServerTodo(conn)' = Tail(s)
      /\ \A conn \in Conn : conn # serving => ServerTodo(conn)' = ServerTodo(conn)
      /\ \A conn \in Conn : ClientTodo(conn)' = ClientTodo(conn)
  <2> DEFINE t == Tail(s)
  <2>1. t # Recv("request") /\ todo' = [todo EXCEPT ![Srv] = t]
    OBVIOUS
  <2> HIDE DEF t
  <2>2. /\ \A conn \in Conn : conn = serving => ServerTodo(conn)' = t
        /\ \A conn \in Conn : conn # serving => ServerTodo(conn)' = ServerTodo(conn)
        /\ \A conn \in Conn : ClientTodo(conn)' = ClientTodo(conn)
    BY <1>1, <2>1, ServerMoves
  <2> QED
    BY <2>2 DEF t
<1> SUFFICES ASSUME NEW conn \in Conn
             PROVE  Fits(conn, ClientTodo(conn)', ServerTodo(conn)', mail'[conn], qp'[conn], armed')
  BY DEF FitsAll
<1>6. Fits(conn, ClientTodo(conn), ServerTodo(conn), mail[conn], qp[conn], armed)
  BY DEF FitsAll
<1>7. CASE conn # serving
  <2>1. conn \in armed <=> conn \in armed'
    BY <1>7 DEF Arms
  <2>2. Fits(conn, ClientTodo(conn), ServerTodo(conn), mail[conn], qp[conn], armed')
    BY <1>6, <2>1, FitsAside
  <2> QED
    BY <1>5, <1>7, <2>2
<1>8. CASE conn = serving
  <2> DEFINE here == serving
             c == ClientTodo(here)
             m == mail[here]
             n == mail'[here]
             q == qp[here]
             r == qp'[here]
             M == Letters(here)
  <2>1. Fits(here, c, s, m, q, armed)
    BY <1>5, <1>6, <1>8
  <2>2. c \in Seq(Item) /\ m \in [Side -> Seq(M)]
    BY <1>1, TodoTypes DEF MailHeld
  <2>3. /\ r["Client"] = q["Client"]
        /\ h = EndpointItem => r["Server"] = <<here, "Client">>
        /\ h \notin {EndpointItem, BuildItem} => r["Server"] = q["Server"]
    BY <1>2 DEF Linked, LinkItem
  <2>4. \/ h[1] = "do" /\ n = m
        \/ /\ h[1] = "recv" /\ Mailed(M, m, n, "Server")
           /\ m["Server"] # <<>> /\ n["Server"] = Tail(m["Server"])
        \/ /\ h[1] = "send" /\ Mailed(M, m, n, "Client")
           /\ \E x \in M : x.kind = h[2] /\ n["Client"] = Append(m["Client"], x)
    BY <1>2 DEF Spoken
  <2>5. Signed(here, n) /\ h # RefuseItem
    OBVIOUS
  <2>6. here \in armed' <=> here \in armed \/ h = PostItem
    BY DEF Arms
  <2>7. Fits(here, c, Tail(s), n, r, armed')
    <3> HIDE DEF here, c, m, n, q, r, M, h
    <3> QED
      BY <1>3, <1>4, <2>1, <2>2, <2>3, <2>4, <2>5, <2>6, ServerFits, ZenonT(60)
  <2> QED
    BY <1>5, <1>8, <2>7
<1> QED
  BY <1>7, <1>8

(* One side ends, or both do, perhaps over a message it has read.          *)
LEMMA StopFits ==
  ASSUME Base, FitsAll, UNCHANGED <<qp, armed>>,
         \A conn \in Conn :
           /\ ClientTodo(conn)' \in {ClientTodo(conn), <<>>}
           /\ ServerTodo(conn)' \in {ServerTodo(conn), <<>>}
           /\ \/ mail'[conn] = mail[conn]
              \/ /\ Mailed(Letters(conn), mail[conn], mail'[conn], "Client")
                 /\ Signed(conn, mail'[conn]) /\ ClientTodo(conn)' = <<>>
              \/ /\ Mailed(Letters(conn), mail[conn], mail'[conn], "Server")
                 /\ Signed(conn, mail'[conn]) /\ ServerTodo(conn)' = <<>>
  PROVE  FitsAll'
<1>1. Work /\ MailHeld
  BY DEF Base, Work
<1> SUFFICES ASSUME NEW conn \in Conn
             PROVE  Fits(conn, ClientTodo(conn)', ServerTodo(conn)', mail'[conn], qp[conn], armed)
  BY DEF FitsAll
<1> DEFINE c == ClientTodo(conn)
           a == ServerTodo(conn)
           m == mail[conn]
           n == mail'[conn]
           M == Letters(conn)
           q == qp[conn]
<1>2. Fits(conn, c, a, m, q, armed)
  BY DEF FitsAll
<1>3. c \in Seq(Item) /\ a \in Seq(Item) /\ <<>> \in Seq(Item) /\ m \in [Side -> Seq(M)]
  BY <1>1, TodoTypes, EmptySeq DEF MailHeld
<1>4. Signed(conn, m) /\ Mailed(M, m, m, "Client") /\ Mailed(M, m, m, "Server")
  BY <1>2, <1>3 DEF Fits, Mailed
<1>5. /\ ClientTodo(conn)' = c \/ ClientTodo(conn)' = <<>>
      /\ ServerTodo(conn)' = a \/ ServerTodo(conn)' = <<>>
      /\ \/ n = m
         \/ Mailed(M, m, n, "Client") /\ Signed(conn, n) /\ ClientTodo(conn)' = <<>>
         \/ Mailed(M, m, n, "Server") /\ Signed(conn, n) /\ ServerTodo(conn)' = <<>>
  OBVIOUS
<1> HIDE DEF c, a, m, n, M, q
<1>6. Fits(conn, <<>>, a, m, q, armed) /\ Fits(conn, c, <<>>, m, q, armed)
  BY <1>2, <1>3, <1>4, EndFits
<1>7. Fits(conn, <<>>, <<>>, m, q, armed)
  BY <1>3, <1>4, <1>6, EndFits
<1>8. Mailed(M, m, n, "Client") /\ Signed(conn, n) => Fits(conn, <<>>, a, n, q, armed)
  BY <1>2, <1>3, EndFits
<1>9. Mailed(M, m, n, "Client") /\ Signed(conn, n) => Fits(conn, <<>>, <<>>, n, q, armed)
  BY <1>3, <1>6, EndFits
<1>10. Mailed(M, m, n, "Server") /\ Signed(conn, n) => Fits(conn, c, <<>>, n, q, armed)
  BY <1>2, <1>3, EndFits
<1>11. Mailed(M, m, n, "Server") /\ Signed(conn, n) => Fits(conn, <<>>, <<>>, n, q, armed)
  BY <1>3, <1>6, EndFits
<1>12. Fits(conn, ClientTodo(conn)', ServerTodo(conn)', n, q, armed)
  BY <1>2, <1>5, <1>6, <1>7, <1>8, <1>9, <1>10, <1>11
<1> QED
  BY <1>12 DEF n, q

(* A message written is signed, and one side's to the other.               *)
LEMMA WriteSpeaks ==
  ASSUME Work, MailHeld, NEW p \in Process, todo[p] # <<>>, NEW kind \in Kinds,
         NEW x \in Message(p, kind), Signed(ConnOf(p), mail[ConnOf(p)]),
         mail' = [mail EXCEPT ![ConnOf(p)][Other(SideOf(p))] = Append(@, x)]
  PROVE  /\ Spoken(p, ConnOf(p), <<"send", kind>>)
         /\ Signed(ConnOf(p), mail'[ConnOf(p)])
         /\ \A conn \in Conn : conn # ConnOf(p) => mail'[conn] = mail[conn]
<1> DEFINE here == ConnOf(p)
           t == Other(SideOf(p))
           M == Letters(here)
           m == mail[here]
           n == mail'[here]
<1>1. here \in Conn /\ t \in Side /\ x \in M /\ Other(t) = SideOf(p)
  BY AtWork, MessageIs DEF SideOf, Other
<1>2. x.kind = kind /\ (kind \in {"ok", "endpoint"} => x.body = <<here, Other(t)>>)
  <2>1. kind \in {"ok", "endpoint"} => x \in [kind : {kind}, body : {<<here, Other(t)>>}]
    BY <1>1 DEF Message
  <2>2. x.kind = kind
    BY DEF Message
  <2> QED
    BY <2>1, <2>2
<1>3. m \in [Side -> Seq(M)] /\ m[t] \in Seq(M) /\ DOMAIN mail = Conn
  BY <1>1 DEF MailHeld
<1> DEFINE q == Append(m[t], x)
<1>4. /\ q \in Seq(M) /\ Len(m[t]) \in Nat /\ DOMAIN q = 1 .. Len(m[t]) + 1
      /\ DOMAIN m[t] = 1 .. Len(m[t])
      /\ q[Len(m[t]) + 1] = x /\ \A i \in 1 .. Len(m[t]) : q[i] = m[t][i]
  BY <1>1, <1>3, AppendProperties, LenProperties
<1>5. /\ n \in [Side -> Seq(M)] /\ n[t] = q /\ \A u \in Side : u # t => n[u] = m[u]
      /\ \A conn \in Conn : conn # here => mail'[conn] = mail[conn]
  <2> HIDE DEF here, t, M
  <2>1. mail' = [mail EXCEPT ![here][t] = q]
    BY DEF here, t
  <2> HIDE DEF q
  <2> QED
    BY <1>1, <1>3, <1>4, <2>1
<1>6. Spoken(p, here, <<"send", kind>>)
  <2>1. Mailed(M, m, n, t)
    BY <1>3, <1>5 DEF Mailed
  <2>2. <<"send", kind>>[1] = "send" /\ <<"send", kind>>[2] = kind
    OBVIOUS
  <2> QED
    BY <1>1, <1>2, <1>5, <2>1, <2>2 DEF Spoken
<1>7. Signed(here, n)
  <2> SUFFICES ASSUME NEW u \in Side, NEW i \in DOMAIN n[u], n[u][i].kind \in {"ok", "endpoint"}
               PROVE  n[u][i].body = <<here, Other(u)>>
    BY DEF Signed
  <2>0. Signed(here, m)
    OBVIOUS
  <2>1. CASE u # t
    <3>1. n[u] = m[u]
      BY <1>5, <2>1
    <3> HIDE DEF m, n, here, t
    <3> QED
      BY <2>0, <3>1 DEF Signed
  <2>2. CASE u = t
    <3>1. i \in 1 .. Len(m[t]) \/ i = Len(m[t]) + 1
      BY <1>4, <1>5, <2>2
    <3>2. n[u][i] = q[i]
      BY <1>5, <2>2
    <3>3. CASE i = Len(m[t]) + 1
      BY <1>2, <1>4, <2>2, <3>2, <3>3
    <3>4. CASE i \in 1 .. Len(m[t])
      <4>1. i \in DOMAIN m[t] /\ n[u][i] = m[t][i]
        BY <1>4, <3>2, <3>4
      <4> HIDE DEF m, n, q, here, t
      <4> QED
        BY <1>1, <2>0, <2>2, <4>1 DEF Signed
    <3> QED
      BY <3>1, <3>3, <3>4
  <2> QED
    BY <2>1, <2>2
<1> QED
  BY <1>5, <1>6, <1>7

(* A message read was one for this side.                                   *)
LEMMA TakeSpeaks ==
  ASSUME Work, MailHeld, NEW p \in Process, todo[p] # <<>>, NEW kinds, Take(p, kinds),
         Signed(ConnOf(p), mail[ConnOf(p)])
  PROVE  /\ Mailed(Letters(ConnOf(p)), mail[ConnOf(p)], mail'[ConnOf(p)], SideOf(p))
         /\ \A h : h[1] = "recv" => Spoken(p, ConnOf(p), h)
         /\ Signed(ConnOf(p), mail'[ConnOf(p)])
         /\ \A conn \in Conn : conn # ConnOf(p) => mail'[conn] = mail[conn]
<1> DEFINE here == ConnOf(p)
           s == SideOf(p)
           M == Letters(here)
           m == mail[here]
           n == mail'[here]
           q == Tail(m[s])
<1>1. here \in Conn /\ s \in Side
  BY AtWork
<1>2. m \in [Side -> Seq(M)] /\ m[s] \in Seq(M) /\ m[s] # <<>> /\ DOMAIN mail = Conn
  BY <1>1 DEF MailHeld, Take
<1>3. /\ q \in Seq(M) /\ \A i \in DOMAIN q : i + 1 \in DOMAIN m[s] /\ q[i] = m[s][i + 1]
  <2> DEFINE l == m[s]
  <2>1. l \in Seq(M) /\ l # <<>>
    BY <1>2
  <2> HIDE DEF l
  <2>2. /\ Tail(l) \in Seq(M) /\ Len(l) \in Nat /\ DOMAIN l = 1 .. Len(l)
        /\ Len(Tail(l)) = Len(l) - 1
        /\ \A i \in 1 .. Len(Tail(l)) : Tail(l)[i] = l[i + 1]
    BY <2>1, HeadTailProperties, LenProperties
  <2>3. DOMAIN Tail(l) = 1 .. Len(l) - 1
    BY <2>2, LenProperties
  <2>4. \A i \in 1 .. Len(l) - 1 : i + 1 \in 1 .. Len(l)
    BY <2>2
  <2> QED
    BY <2>2, <2>3, <2>4 DEF l
<1>4. mail' = [mail EXCEPT ![here][s] = q]
  BY DEF Take
<1>5. /\ n \in [Side -> Seq(M)] /\ n[s] = q /\ \A u \in Side : u # s => n[u] = m[u]
      /\ \A conn \in Conn : conn # here => mail'[conn] = mail[conn]
  <2> HIDE DEF here, s, M, q
  <2> QED
    BY <1>1, <1>2, <1>3, <1>4
<1>6. Mailed(M, m, n, s)
  BY <1>2, <1>5 DEF Mailed
<1>7. \A h : h[1] = "recv" => Spoken(p, here, h)
  BY <1>2, <1>5, <1>6 DEF Spoken
<1>8. Signed(here, n)
  <2> SUFFICES ASSUME NEW u \in Side, NEW i \in DOMAIN n[u], n[u][i].kind \in {"ok", "endpoint"}
               PROVE  n[u][i].body = <<here, Other(u)>>
    BY DEF Signed
  <2>0. Signed(here, m)
    OBVIOUS
  <2>1. \E k \in DOMAIN m[u] : n[u][i] = m[u][k]
    <3>1. CASE u = s
      BY <1>3, <1>5, <3>1
    <3>2. CASE u # s
      BY <1>5, <3>2
    <3> QED
      BY <3>1, <3>2
  <2> HIDE DEF m, n, here
  <2> QED
    BY <2>0, <2>1 DEF Signed
<1> QED
  BY <1>5, <1>6, <1>7, <1>8

(* Who is at work is not ahead of its client.                              *)
LEMMA AtWorkIsNow ==
  ASSUME Work, NEW p \in Process, todo[p] # <<>>
  PROVE  ~(ConnOf(p)[2] > at[ConnOf(p)[1]])
<1>1. ConnOf(p) \in Conn /\ \A conn \in Conn : conn[1] \in Client /\ conn[2] \in Nat
  BY AtWork, ConnIs
<1>2. at \in [Client -> Nat]
  BY DEF Work, WorkTypes
<1>3. CASE p = Srv
  <2>1. ConnOf(p) = serving /\ serving[2] <= at[serving[1]]
    BY <1>1, <1>3 DEF ConnOf, Work, HeardOnce, Begun
  <2>2. serving[2] \in Nat /\ at[serving[1]] \in Nat
    BY <1>1, <1>2, <2>1
  <2> QED
    BY <2>1, <2>2
<1>4. CASE p # Srv
  <2>1. ConnOf(p) = <<p, at[p]>> /\ at[p] \in Nat
    BY <1>2, <1>4 DEF ConnOf, Process
  <2> QED
    BY <2>1
<1> QED
  BY <1>3, <1>4

LEMMA AdvanceOpened ==
  ASSUME Base, Opened, NEW p \in Process, todo[p] # <<>>, Advance(p), UNCHANGED <<at, serving, closed>>,
         \A conn \in Conn : conn # ConnOf(p) => mail'[conn] = mail[conn],
         \/ backlog' = backlog
         \/ backlog' = Append(backlog, ConnOf(p)) /\ "Server" \notin closed[ConnOf(p)]
  PROVE  Opened'
<1>1. Work
  BY DEF Base, Work
<1>2. \A conn \in Conn : conn[2] > at[conn[1]] => \A s \in Side : mail'[conn][s] = <<>>
  BY <1>1, AtWorkIsNow DEF Opened
<1>3. \A i \in DOMAIN backlog' : "Server" \notin closed[backlog'[i]]
  <2>1. CASE backlog' = backlog
    BY <2>1 DEF Opened
  <2>2. CASE backlog' = Append(backlog, ConnOf(p)) /\ "Server" \notin closed[ConnOf(p)]
    <3>1. backlog \in Seq(Conn) /\ ConnOf(p) \in Conn
      BY <1>1, AtWork DEF Work, WorkTypes
    <3> DEFINE here == ConnOf(p)
    <3>2. here \in Conn /\ "Server" \notin closed[here] /\ backlog' = Append(backlog, here)
      BY <2>2, <3>1
    <3> HIDE DEF here
    <3>3. /\ Len(backlog) \in Nat /\ DOMAIN backlog = 1 .. Len(backlog)
          /\ DOMAIN backlog' = 1 .. Len(backlog) + 1
          /\ \A i \in 1 .. Len(backlog) : backlog'[i] = backlog[i]
          /\ backlog'[Len(backlog) + 1] = here
      BY <3>1, <3>2, AppendProperties, LenProperties
    <3>4. \A i \in 1 .. Len(backlog) + 1 : i \in 1 .. Len(backlog) \/ i = Len(backlog) + 1
      BY <3>3
    <3> QED
      BY <3>2, <3>3, <3>4 DEF Opened
  <2> QED
    BY <2>1, <2>2
<1>4. Has(todo'[Srv], RequestItem) => todo'[Srv] = Recv("request")
  <2>1. Srv \in Process /\ todo \in [Process -> Seq(Item)]
    BY <1>1 DEF Work, WorkTypes, Process
  <2>2. CASE p # Srv
    <3>1. todo'[Srv] = todo[Srv]
      BY <2>1, <2>2 DEF Advance
    <3> QED
      BY <3>1 DEF Opened
  <2>3. CASE p = Srv
    <3>1. todo'[Srv] = Tail(todo[Srv]) /\ todo[Srv] \in Seq(Item) /\ todo[Srv] # <<>>
      BY <2>1, <2>3 DEF Advance
    <3>2. ASSUME Has(Tail(todo[Srv]), RequestItem) PROVE FALSE
      <4>1. Has(todo[Srv], RequestItem)
        BY <3>1, <3>2, RestHas
      <4>2. todo[Srv] = << RequestItem >>
        BY <4>1 DEF Opened, Recv, RequestItem
      <4>3. Tail(<< RequestItem >>) = <<>>
        OBVIOUS
      <4> QED
        BY <3>2, <4>2, <4>3 DEF Has
    <3> QED
      BY <3>1, <3>2
  <2> QED
    BY <2>2, <2>3
<1>5. serving' = serving /\ closed' = closed /\ at' = at
  OBVIOUS
<1>6. serving' \in Conn => "Server" \notin closed'[serving']
  BY <1>5 DEF Opened
<1> QED
  BY <1>2, <1>3, <1>4, <1>5, <1>6 DEF Opened

LEMMA StopOpened ==
  ASSUME Base, Opened, at' = at, todo'[Srv] \in {todo[Srv], <<>>},
         \A conn \in Conn : mail'[conn] = mail[conn] \/ ~(conn[2] > at[conn[1]]),
         serving' = serving \/ serving' = NoConn, backlog' = backlog \/ backlog' = <<>>,
         \A conn \in Conn : "Server" \in closed'[conn] =>
           \/ "Server" \in closed[conn]
           \/ conn # serving' /\ \A i \in DOMAIN backlog' : conn # backlog'[i]
  PROVE  Opened'
<1>1. Work
  BY DEF Base, Work
<1>2. \A conn \in Conn : conn[2] > at[conn[1]] => \A s \in Side : mail'[conn][s] = <<>>
  BY DEF Opened
<1>3. Has(todo'[Srv], RequestItem) => todo'[Srv] = Recv("request")
  <2>1. ~Has(<<>>, RequestItem)
    BY DEF Has
  <2> QED
    BY <2>1 DEF Opened
<1>4. serving' \in Conn => "Server" \notin closed'[serving']
  BY ConnIs DEF Opened
<1>5. ASSUME NEW i \in DOMAIN backlog' PROVE "Server" \notin closed'[backlog'[i]]
  <2>1. backlog' = backlog
    BY <1>5
  <2>2. i \in DOMAIN backlog /\ backlog[i] \in Conn
    BY <1>1, <1>5, <2>1, ElementOfSeq, LenProperties DEF Work, WorkTypes
  <2> QED
    BY <2>1, <2>2 DEF Opened
<1> QED
  BY <1>2, <1>3, <1>4, <1>5 DEF Opened

\* The streams are as they were, but for a message that p has read.
ReadOrNot(p) == mail' = mail \/ \E kinds : Take(p, kinds)

(* A message read last.                                                    *)
LEMMA ReadLast ==
  ASSUME Base, Framed, NEW p \in Process, todo[p] # <<>>, ReadOrNot(p)
  PROVE  \A conn \in Conn :
           \/ mail'[conn] = mail[conn]
           \/ /\ conn = ConnOf(p) /\ ~(conn[2] > at[conn[1]])
              /\ Mailed(Letters(conn), mail[conn], mail'[conn], SideOf(p)) /\ Signed(conn, mail'[conn])
<1>1. Work /\ MailHeld /\ FitsAll
  BY DEF Base, Work, Framed
<1>2. ConnOf(p) \in Conn /\ ~(ConnOf(p)[2] > at[ConnOf(p)[1]])
  BY <1>1, AtWork, AtWorkIsNow
<1>3. Signed(ConnOf(p), mail[ConnOf(p)])
  BY <1>1, <1>2 DEF FitsAll, Fits
<1>4. ASSUME NEW kinds, Take(p, kinds)
      PROVE  /\ Mailed(Letters(ConnOf(p)), mail[ConnOf(p)], mail'[ConnOf(p)], SideOf(p))
             /\ Signed(ConnOf(p), mail'[ConnOf(p)])
             /\ \A conn \in Conn : conn # ConnOf(p) => mail'[conn] = mail[conn]
  BY <1>1, <1>3, <1>4, TakeSpeaks
<1> QED
  BY <1>2, <1>4 DEF ReadOrNot

(* The end of a run.                                                       *)
LEMMA EndRunFramed ==
  ASSUME Base, Framed, NEW c \in Client, NEW conns,
         todo' = [todo EXCEPT ![c] = <<>>], Close(conns, "Client") \/ closed' = closed,
         UNCHANGED <<at, serving, backlog, qp, armed>>,
         mail' = mail \/ (todo[c] # <<>> /\ ReadOrNot(c))
  PROVE  Framed'
<1>1. Work /\ EndTypes /\ Opened /\ FitsAll
  BY DEF Base, Work, Framed
<1>2. c \in Process /\ c # Srv /\ SideOf(c) = "Client" /\ ConnOf(c) = <<c, at[c]>>
  BY SuiteAssumption DEF Process, SideOf, ConnOf
<1>3. \A conn \in Conn : "Server" \in closed'[conn] <=> "Server" \in closed[conn]
  BY <1>1 DEF Close, EndTypes
<1>4. \A conn \in Conn :
        /\ ServerTodo(conn)' = ServerTodo(conn)
        /\ conn = <<c, at[c]>> => ClientTodo(conn)' = <<>>
        /\ conn # <<c, at[c]>> => ClientTodo(conn)' = ClientTodo(conn)
  BY <1>1, <1>3, ClientMoves
<1>5. \A conn \in Conn :
        \/ mail'[conn] = mail[conn]
        \/ /\ conn = <<c, at[c]>> /\ ~(conn[2] > at[conn[1]])
           /\ Mailed(Letters(conn), mail[conn], mail'[conn], "Client") /\ Signed(conn, mail'[conn])
  <2>1. CASE mail' = mail
    BY <2>1
  <2>2. CASE todo[c] # <<>> /\ ReadOrNot(c)
    BY <1>2, <2>2, ReadLast
  <2> QED
    BY <2>1, <2>2
<1>6. FitsAll'
  BY <1>1, <1>4, <1>5, StopFits
<1>7. todo'[Srv] = todo[Srv]
  BY <1>1, <1>2 DEF Work, WorkTypes, Process
<1>8. Opened'
  BY <1>1, <1>3, <1>5, <1>7, StopOpened
<1> QED
  BY <1>6, <1>8 DEF Framed

(* The server leaves a connection, or its accept.                          *)
LEMMA LeaveFramed ==
  ASSUME Base, Framed, todo' = [todo EXCEPT ![Srv] = <<>>] \/ (todo' = todo /\ serving = NoConn),
         serving' = NoConn, UNCHANGED <<at, qp, armed>>,
         NEW conns, serving \in Conn => serving \in conns,
         \/ conns \subseteq {serving} /\ Close(conns, "Server") /\ backlog' = backlog
         \/ Exit(conns),
         mail' = mail \/ (todo[Srv] # <<>> /\ ReadOrNot(Srv))
  PROVE  Framed'
<1>1. Work /\ EndTypes /\ Opened /\ FitsAll /\ Srv \in Process
  BY DEF Base, Work, Framed, Process
<1>2. /\ \A conn \in Conn : "Server" \in closed[conn] => "Server" \in closed'[conn]
      /\ serving \in Conn => "Server" \in closed'[serving]
      /\ backlog' = backlog \/ backlog' = <<>>
      /\ \A conn \in Conn : "Server" \in closed'[conn] =>
           "Server" \in closed[conn] \/ (\A i \in DOMAIN backlog' : conn # backlog'[i])
  <2>1. CASE conns \subseteq {serving} /\ Close(conns, "Server") /\ backlog' = backlog
    <3>1. \A i \in DOMAIN backlog : backlog[i] # serving
      BY <1>1 DEF Work, HeardOnce
    <3> QED
      BY <1>1, <2>1, <3>1 DEF Close, EndTypes
  <2>2. CASE Exit(conns)
    <3> DEFINE gone == conns \cup {backlog[i] : i \in DOMAIN backlog}
    <3>1. closed' = [conn \in Conn |-> IF conn \in gone THEN closed[conn] \cup {"Server"} ELSE closed[conn]]
      BY <1>1, <2>2 DEF Exit, Close, EndTypes
    <3>2. serving \in Conn => serving \in gone
      OBVIOUS
    <3>3. backlog' = <<>> /\ DOMAIN <<>> = {}
      BY <2>2 DEF Exit
    <3> HIDE DEF gone
    <3> QED
      BY <3>1, <3>2, <3>3
  <2> QED
    BY <2>1, <2>2
<1>3. \A conn \in Conn :
        /\ ClientTodo(conn)' = ClientTodo(conn)
        /\ ServerTodo(conn)' \in {ServerTodo(conn), <<>>}
        /\ conn = serving => ServerTodo(conn)' = <<>>
  BY <1>1, <1>2, ServerStops
<1>4. \A conn \in Conn :
        \/ mail'[conn] = mail[conn]
        \/ /\ conn = serving /\ ~(conn[2] > at[conn[1]])
           /\ Mailed(Letters(conn), mail[conn], mail'[conn], "Server") /\ Signed(conn, mail'[conn])
  <2>1. CASE mail' = mail
    BY <2>1
  <2>2. CASE todo[Srv] # <<>> /\ ReadOrNot(Srv)
    <3>1. ConnOf(Srv) = serving /\ SideOf(Srv) = "Server"
      BY DEF ConnOf, SideOf
    <3> QED
      BY <1>1, <2>2, <3>1, ReadLast
  <2> QED
    BY <2>1, <2>2
<1>5. FitsAll'
  BY <1>1, <1>3, <1>4, StopFits
<1>6. todo'[Srv] \in {todo[Srv], <<>>}
  BY <1>1 DEF Work, WorkTypes, Process
<1>7. Opened'
  <2>1. \A conn \in Conn : "Server" \in closed'[conn] =>
          "Server" \in closed[conn] \/ (conn # serving' /\ \A i \in DOMAIN backlog' : conn # backlog'[i])
    BY <1>2, ConnIs
  <2>2. \A conn \in Conn : mail'[conn] = mail[conn] \/ ~(conn[2] > at[conn[1]])
    BY <1>4
  <2> QED
    BY <1>1, <1>2, <1>6, <2>1, <2>2, StopOpened
<1> QED
  BY <1>5, <1>7 DEF Framed

LEMMA EndServeFramed ==
  ASSUME Base, Framed, todo[Srv] # <<>>, EndServe, UNCHANGED <<qp, armed>>, ReadOrNot(Srv)
  PROVE  Framed'
<1>1. /\ todo' = [todo EXCEPT ![Srv] = <<>>] /\ serving' = NoConn /\ at' = at
      /\ (Close({serving}, "Server") /\ backlog' = backlog) \/ Exit({serving})
  BY DEF EndServe
<1> DEFINE conns == {serving}
<1>2. /\ serving \in Conn => serving \in conns
      /\ (conns \subseteq {serving} /\ Close(conns, "Server") /\ backlog' = backlog) \/ Exit(conns)
  BY <1>1
<1> HIDE DEF conns
<1> QED
  BY <1>1, <1>2, LeaveFramed

(* A side gives up.                                                        *)
LEMMA AbortFramed ==
  ASSUME Base, Framed, NEW p \in Process, todo[p] # <<>>, Abort(p), ReadOrNot(p)
  PROVE  Framed'
<1>1. CASE p = Srv
  <2>1. EndServe /\ UNCHANGED <<qp, armed>>
    BY <1>1 DEF Abort
  <2> QED
    BY <1>1, <2>1, EndServeFramed
<1>2. CASE p # Srv
  <2>1. p \in Client
    BY <1>2 DEF Process
  <2> DEFINE conns == {ConnOf(p)}
  <2>2. /\ todo' = [todo EXCEPT ![p] = <<>>] /\ Close(conns, "Client")
        /\ UNCHANGED <<at, serving, backlog, qp, armed>>
    BY <1>2 DEF Abort, EndRun
  <2> HIDE DEF conns
  <2> QED
    BY <2>1, <2>2, EndRunFramed
<1> QED
  BY <1>1, <1>2

(* A step of one side that both sides are ready for.                       *)
LEMMA AdvanceFramed ==
  ASSUME Base, Framed, NEW p \in Process, todo[p] # <<>>, Advance(p), UNCHANGED <<at, serving, closed>>,
         Head(todo[p]) \notin {RequestItem, RefuseItem}, Spoken(p, ConnOf(p), Head(todo[p])),
         Linked(p, ConnOf(p), Head(todo[p])), Arms(p, ConnOf(p), Head(todo[p])),
         Signed(ConnOf(p), mail'[ConnOf(p)]),
         \A conn \in Conn : conn # ConnOf(p) => mail'[conn] = mail[conn] /\ qp'[conn] = qp[conn],
         \/ backlog' = backlog
         \/ backlog' = Append(backlog, ConnOf(p)) /\ "Server" \notin closed[ConnOf(p)]
  PROVE  Framed'
<1>1. Work /\ Opened /\ FitsAll
  BY DEF Base, Work, Framed
<1>2. Opened'
  BY <1>1, AdvanceOpened
<1>3. CASE p # Srv
  <2>1. p \in Client /\ ConnOf(p) = <<p, at[p]>>
    BY <1>3 DEF Process, ConnOf
  <2>2. FitsAll'
    BY <1>1, <2>1, ClientAdvances
  <2> QED
    BY <1>2, <2>2 DEF Framed
<1>4. CASE p = Srv
  <2> DEFINE s == todo[Srv]
  <2>1. ConnOf(Srv) = serving /\ serving \in Conn /\ s \in Seq(Item) /\ s # <<>>
    BY <1>1, <1>4 DEF ConnOf, Work, WorkTypes
  <2>2. todo' = [todo EXCEPT ![Srv] = Tail(s)]
    BY <1>4 DEF Advance
  <2>3. Head(s) = s[1] /\ Has(s, s[1]) /\ \A x : Has(Tail(s), x) => Has(s, x)
    BY <2>1, FirstAndRest, RestHas
  <2>4. Recv("request")[1] = RequestItem /\ Has(Recv("request"), RequestItem)
    BY HasOne DEF Recv, RequestItem
  <2>5. ~Has(s, RequestItem)
    <3>1. Has(s, RequestItem) => s = Recv("request")
      BY <1>1 DEF Opened
    <3>2. s[1] # RequestItem
      BY <1>4, <2>3
    <3> QED
      BY <2>4, <3>1, <3>2
  <2>6. s # Recv("request") /\ Tail(s) # Recv("request")
    BY <2>3, <2>4, <2>5
  <2>7. s = ServerTodo(serving)
    BY <2>6 DEF ServerTodo
  <2>8. FitsAll'
    <3>1. /\ Head(s) # RefuseItem /\ Spoken(Srv, serving, Head(s)) /\ Linked(Srv, serving, Head(s))
          /\ Arms(Srv, serving, Head(s)) /\ Signed(serving, mail'[serving])
          /\ \A conn \in Conn : conn # serving => mail'[conn] = mail[conn] /\ qp'[conn] = qp[conn]
      BY <1>4, <2>1
    <3> HIDE DEF s
    <3> QED
      BY <1>1, <2>1, <2>2, <2>6, <2>7, <3>1, ServerAdvances
  <2> QED
    BY <1>2, <2>8 DEF Framed
<1> QED
  BY <1>3, <1>4

(* Who does not connect leaves the queue pairs in order; who does not post *)
(* arms nothing.                                                           *)
LEMMA LinkedIs ==
  ASSUME QpHeld, NEW p \in Process, NEW conn \in Conn, NEW h
  PROVE  /\ qp' = qp /\ h # LinkItem(p) => Linked(p, conn, h)
         /\ armed' = armed /\ h # PostItem => Arms(p, conn, h)
         /\ \A v : qp' = [qp EXCEPT ![conn][SideOf(p)] = v]
              => /\ \A other \in Conn : other # conn => qp'[other] = qp[other]
                 /\ h = BuildItem => Linked(p, conn, h)
                 /\ v = <<conn, Other(SideOf(p))>> => Linked(p, conn, LinkItem(p))
<1>1. qp' = qp /\ h # LinkItem(p) => Linked(p, conn, h)
  BY DEF Linked
<1>2. armed' = armed /\ h # PostItem => Arms(p, conn, h)
  BY DEF Arms
<1>3. /\ SideOf(p) \in Side /\ Other(SideOf(p)) \in Side /\ Other(SideOf(p)) # SideOf(p)
      /\ BuildItem # LinkItem(p)
  BY DEF SideOf, Other, Side, LinkItem, BuildItem, EndpointItem, AckItem
<1>4. ASSUME NEW v, qp' = [qp EXCEPT ![conn][SideOf(p)] = v]
      PROVE  /\ \A other \in Conn : other # conn => qp'[other] = qp[other]
             /\ h = BuildItem => Linked(p, conn, h)
             /\ v = <<conn, Other(SideOf(p))>> => Linked(p, conn, LinkItem(p))
  <2> DEFINE s == SideOf(p)
             t == Other(s)
  <2>1. qp \in [Conn -> [Side -> {NoQp, Built} \cup Endpoint]] /\ qp' = [qp EXCEPT ![conn][s] = v]
    BY <1>4 DEF QpHeld
  <2> HIDE DEF s
  <2>2. s \in Side /\ t \in Side /\ t # s
    BY <1>3 DEF s
  <2> HIDE DEF t
  <2>3. /\ \A other \in Conn : other # conn => qp'[other] = qp[other]
        /\ qp'[conn][s] = v /\ qp'[conn][t] = qp[conn][t]
    BY <2>1, <2>2
  <2> QED
    BY <1>3, <2>3 DEF Linked, s, t
<1> QED
  BY <1>1, <1>2, <1>4

(* What both sides do.                                                     *)
LEMMA ExchangeFramed == ASSUME Base, Framed, NEW p \in Process, Exchange(p) PROVE Framed'
<1>1. Work /\ MailHeld /\ QpHeld /\ FitsAll
  BY DEF Base, Work, Framed
<1>2. todo[p] # <<>> => ConnOf(p) \in Conn /\ Signed(ConnOf(p), mail[ConnOf(p)])
  BY <1>1, AtWork DEF FitsAll, Fits
<1>3. ASSUME NEW kind \in Kinds, Write(p, kind) PROVE Framed'
  <2>1. todo[p] # <<>> /\ Head(todo[p]) = <<"send", kind>>
    BY <1>3 DEF Write, At
  <2>2. CASE Abort(p) /\ UNCHANGED mail
    BY <2>1, <2>2, AbortFramed DEF ReadOrNot
  <2>3. ASSUME NEW x \in Message(p, kind),
               mail' = [mail EXCEPT ![ConnOf(p)][Other(SideOf(p))] = Append(@, x)], Advance(p),
               UNCHANGED <<up, at, serving, backlog, closed, qp, armed, result, lastMode, printed>>
        PROVE  Framed'
    <3>1. /\ Spoken(p, ConnOf(p), <<"send", kind>>) /\ Signed(ConnOf(p), mail'[ConnOf(p)])
          /\ \A conn \in Conn : conn # ConnOf(p) => mail'[conn] = mail[conn]
      BY <1>1, <1>2, <2>1, <2>3, WriteSpeaks
    <3>2. <<"send", kind>> \notin {RequestItem, RefuseItem, PostItem, LinkItem(p)}
      BY DEF RequestItem, RefuseItem, PostItem, LinkItem, EndpointItem, AckItem
    <3>3. Linked(p, ConnOf(p), <<"send", kind>>) /\ Arms(p, ConnOf(p), <<"send", kind>>)
      BY <1>1, <1>2, <2>1, <2>3, <3>2, LinkedIs
    <3> QED
      BY <2>1, <2>3, <3>1, <3>2, <3>3, AdvanceFramed
  <2> QED
    BY <1>3, <2>2, <2>3 DEF Write
<1>4. ASSUME NEW kind \in {"byte", "buffer", "report"}, Read(p, kind) PROVE Framed'
  <2> DEFINE h == <<"recv", kind>>
  <2>1. todo[p] # <<>> /\ Head(todo[p]) = h /\ Take(p, {kind}) /\ Advance(p)
        /\ UNCHANGED <<up, at, serving, backlog, closed, qp, armed, result, lastMode, printed>>
    BY <1>4 DEF Read, At
  <2>2. h \notin {RequestItem, RefuseItem, PostItem, LinkItem(p)} /\ h[1] = "recv"
    BY DEF RequestItem, RefuseItem, PostItem, LinkItem, EndpointItem, AckItem
  <2> HIDE DEF h
  <2>3. /\ Spoken(p, ConnOf(p), h) /\ Signed(ConnOf(p), mail'[ConnOf(p)])
        /\ \A conn \in Conn : conn # ConnOf(p) => mail'[conn] = mail[conn]
    BY <1>1, <1>2, <2>1, <2>2, TakeSpeaks
  <2>4. Linked(p, ConnOf(p), h) /\ Arms(p, ConnOf(p), h)
    BY <1>1, <1>2, <2>1, <2>2, LinkedIs
  <2> QED
    BY <2>1, <2>2, <2>3, <2>4, AdvanceFramed
<1>5. CASE ReadFails(p) \/ VerbsFail(p)
  <2>1. todo[p] # <<>> /\ Abort(p) /\ mail' = mail
    BY <1>5 DEF ReadFails, VerbsFail, At, Allocating
  <2> QED
    BY <2>1, AbortFramed DEF ReadOrNot
<1>6. ASSUME NEW h \in {BuildItem, PostItem, TrafficItem}, todo[p] # <<>>, Head(todo[p]) = h, Advance(p),
             UNCHANGED <<at, connVars>>, Linked(p, ConnOf(p), h), Arms(p, ConnOf(p), h),
             \A conn \in Conn : conn # ConnOf(p) => qp'[conn] = qp[conn]
      PROVE  Framed'
  <2>1. h \notin {RequestItem, RefuseItem} /\ h[1] = "do"
    BY DEF BuildItem, PostItem, TrafficItem, RequestItem, RefuseItem
  <2>2. mail' = mail /\ backlog' = backlog /\ serving' = serving /\ closed' = closed /\ at' = at
    BY <1>6 DEF connVars
  <2>3. Spoken(p, ConnOf(p), h)
    BY <2>1, <2>2 DEF Spoken
  <2> QED
    BY <1>2, <1>6, <2>1, <2>2, <2>3, AdvanceFramed
<1>7. CASE Build(p)
  <2>1. /\ todo[p] # <<>> /\ Head(todo[p]) = BuildItem /\ Advance(p) /\ armed' = armed
        /\ qp' = [qp EXCEPT ![ConnOf(p)][SideOf(p)] = Built] /\ UNCHANGED <<at, connVars>>
    BY <1>7 DEF Build, At, BuildItem
  <2>2. BuildItem # PostItem
    BY DEF BuildItem, PostItem
  <2>3. /\ Linked(p, ConnOf(p), BuildItem) /\ Arms(p, ConnOf(p), BuildItem)
        /\ \A conn \in Conn : conn # ConnOf(p) => qp'[conn] = qp[conn]
    BY <1>1, <1>2, <2>1, <2>2, LinkedIs
  <2> QED
    BY <1>6, <2>1, <2>3
<1>8. CASE Post(p)
  <2>1. /\ todo[p] # <<>> /\ Head(todo[p]) = PostItem /\ Advance(p) /\ qp' = qp
        /\ UNCHANGED <<at, connVars>>
        /\ armed' = IF p = Srv THEN armed \cup {serving} ELSE armed
    BY <1>8 DEF Post, At, PostItem
  <2>2. PostItem # LinkItem(p)
    BY DEF PostItem, LinkItem, EndpointItem, AckItem
  <2>3. Linked(p, ConnOf(p), PostItem)
    BY <1>1, <1>2, <2>1, <2>2, LinkedIs
  <2>4. Arms(p, ConnOf(p), PostItem)
    BY <2>1 DEF Arms, ConnOf
  <2> QED
    BY <1>6, <2>1, <2>3, <2>4
<1>9. CASE Traffic(p)
  <2>1. /\ todo[p] # <<>> /\ Head(todo[p]) = TrafficItem /\ Advance(p) /\ qp' = qp
        /\ armed' = armed /\ UNCHANGED <<at, connVars>>
    BY <1>9 DEF Traffic, At, TrafficItem
  <2>2. TrafficItem \notin {LinkItem(p), PostItem}
    BY DEF TrafficItem, PostItem, LinkItem, EndpointItem, AckItem
  <2>3. Linked(p, ConnOf(p), TrafficItem) /\ Arms(p, ConnOf(p), TrafficItem)
    BY <1>1, <1>2, <2>1, <2>2, LinkedIs
  <2> QED
    BY <1>6, <2>1, <2>3
<1> QED
  BY <1>3, <1>4, <1>5, <1>7, <1>8, <1>9 DEF Exchange, Kinds

(* The other side's endpoint arrives, and is what its queue pair says.     *)
LEMMA ReadEndpointFramed ==
  ASSUME Base, Framed, NEW p \in Process, NEW what, NEW kind \in {"ok", "endpoint"},
         ReadEndpoint(p, what, kind), <<"recv", what>> = LinkItem(p)
  PROVE  Framed'
<1>1. Work /\ MailHeld /\ QpHeld /\ FitsAll
  BY DEF Base, Work, Framed
<1>2. todo[p] # <<>> /\ Head(todo[p]) = LinkItem(p) /\ Take(p, {kind})
  BY DEF ReadEndpoint, At
<1> DEFINE here == ConnOf(p)
           s == SideOf(p)
<1>3. here \in Conn /\ s \in Side /\ Signed(here, mail[here])
  BY <1>1, <1>2, AtWork DEF FitsAll, Fits
<1>4. CASE Abort(p)
  BY <1>2, <1>4, AbortFramed DEF ReadOrNot
<1>5. CASE /\ qp' = [qp EXCEPT ![ConnOf(p)][SideOf(p)] = Incoming(p).body]
           /\ Advance(p)
           /\ UNCHANGED <<up, at, serving, backlog, closed, armed, result, lastMode, printed>>
  <2>1. Incoming(p).body = <<here, Other(s)>>
    <3>1. mail[here][s] # <<>> /\ Incoming(p) = Head(mail[here][s]) /\ Incoming(p).kind = kind
      BY <1>2 DEF Take, Incoming
    <3>2. 1 \in DOMAIN mail[here][s] /\ Head(mail[here][s]) = mail[here][s][1]
      BY <1>1, <1>3, <3>1, FirstLetter
    <3> HIDE DEF here, s
    <3> QED
      BY <1>3, <3>1, <3>2 DEF Signed
  <2>2. /\ LinkItem(p) \notin {RequestItem, RefuseItem, PostItem} /\ LinkItem(p)[1] = "recv"
    BY DEF LinkItem, EndpointItem, AckItem, RequestItem, RefuseItem, PostItem
  <2>3. /\ Spoken(p, here, LinkItem(p)) /\ Signed(here, mail'[here])
        /\ \A conn \in Conn : conn # here => mail'[conn] = mail[conn]
    BY <1>1, <1>2, <1>3, <2>2, TakeSpeaks
  <2>4. /\ Linked(p, here, LinkItem(p)) /\ Arms(p, here, LinkItem(p))
        /\ \A conn \in Conn : conn # here => qp'[conn] = qp[conn]
    BY <1>1, <1>3, <1>5, <2>1, <2>2, LinkedIs
  <2> QED
    BY <1>2, <1>5, <2>2, <2>3, <2>4, AdvanceFramed
<1> QED
  BY <1>4, <1>5 DEF ReadEndpoint

(* A connection that is new has the whole code of both sides before it.    *)
LEMMA FreshFits ==
  ASSUME NEW conn \in Conn, conn[1] \in Foreign \/ Supported(Req(conn)), NEW m, NEW q, NEW on,
         \A s \in Side : m[s] = <<>>, Fits(conn, <<>>, Serve(Req(conn)), m, q, on)
  PROVE  Fits(conn, ClientSteps(conn[1], Req(conn).mode), Serve(Req(conn)), m, q, on)
<1> DEFINE c == ClientSteps(conn[1], Req(conn).mode)
           a == Serve(Req(conn))
<1>1. conn[1] \in Client /\ Req(conn) \in [transport : Transports, mode : Modes]
  BY ConnIs
<1>2. Agree(c, <<>>, a) /\ Agree(a, <<>>, c) /\ Gated(a, <<>>, c)
  BY <1>1, CodeAgrees
<1>3. Leads(c, BuildItem, AckItem) /\ Precedes(c, AckItem, TrafficItem) /\ Has(c, AckItem)
  BY <1>1, CodeInOrder
<1>4. m["Client"] = <<>> /\ m["Server"] = <<>>
  BY DEF Side
<1> HIDE DEF c, a
<1>5. Fits(conn, <<>>, a, m, q, on)
  BY DEF a
<1>6. InStep(conn, c, a, m, on)
  BY <1>2, <1>4 DEF InStep
<1>7. QpInOrder(conn, c, a, q, on)
  BY <1>3, <1>5 DEF Fits, QpInOrder
<1>8. Fits(conn, c, a, m, q, on)
  BY <1>5, <1>6, <1>7 DEF Fits
<1> QED
  BY <1>8 DEF c, a

(* A run begins, over a connection of its own.                             *)
LEMMA StartRunFramed ==
  ASSUME Base, Promised, Framed, NEW c \in Client, StartRun(c) PROVE Framed'
<1> DEFINE new == <<c, at[c] + 1>>
<1>1. Work /\ Opened /\ FitsAll /\ ClosedAreBegun
  BY DEF Base, Work, Framed, Promised
<1>2. /\ todo[c] = <<>> /\ at[c] < Len(Suite[c]) /\ at' = [at EXCEPT ![c] = @ + 1]
      /\ UNCHANGED <<serving, backlog, mail, closed, qp, armed>>
  BY DEF StartRun, MoreRuns, connVars
<1>3. at \in [Client -> Nat] /\ todo \in [Process -> Seq(Item)] /\ c \in Process /\ c # Srv
      /\ Srv \in Process
  BY <1>1, SuiteAssumption DEF Work, WorkTypes, Process
<1>4. new \in Conn /\ new[1] = c /\ new[2] = at[c] + 1
  <2>1. at[c] \in Nat /\ at[c] + 1 \in 1 .. Len(Suite[c])
    BY <1>2, <1>3, ConnIs
  <2> QED
    BY <2>1, ConnIs
<1>5. at'[c] = at[c] + 1 /\ \A d \in Client : d # c => at'[d] = at[d]
  BY <1>2, <1>3
<1>6. /\ todo'[Srv] = todo[Srv] /\ \A d \in Client : d # c => todo'[d] = todo[d]
      /\ \/ todo'[c] = <<>>
         \/ /\ c \in Foreign \/ Supported(Req(new))
            /\ todo'[c] = ClientSteps(c, Req(new).mode)
  <2>1. CASE c \in Foreign \/ Supported(Req(new))
    <3>1. todo' = [todo EXCEPT ![c] = ClientSteps(c, Req(new).mode)]
      BY <2>1 DEF StartRun
    <3> QED
      BY <1>3, <2>1, <3>1, SuiteAssumption DEF Process
  <2>2. CASE ~(c \in Foreign \/ Supported(Req(new)))
    <3>1. todo' = todo
      BY <2>2 DEF StartRun
    <3> QED
      BY <1>2, <3>1
  <2> QED
    BY <2>1, <2>2
<1>7. \A conn \in Conn : conn[2] \in Nat /\ conn[1] \in Client /\ conn = <<conn[1], conn[2]>>
  BY ConnIs
<1>8. at[c] \in Nat
  BY <1>3
<1>9. new[2] > at[c] /\ ~(new[2] <= at[c]) /\ new[2] # at[c]
  BY <1>4, <1>8
<1> HIDE DEF new
<1>10. \A conn \in Conn : ServerTodo(conn)' = ServerTodo(conn)
  BY <1>2, <1>6 DEF ServerTodo
<1>11. \A conn \in Conn : conn = new => ClientTodo(conn)' = todo'[c] /\ ClientTodo(conn) = <<>>
  BY <1>4, <1>5, <1>9 DEF ClientTodo
<1>12. ASSUME NEW conn \in Conn, conn # new PROVE ClientTodo(conn)' = ClientTodo(conn)
  <2>1. CASE conn[1] # c
    BY <1>5, <1>6, <1>7, <2>1 DEF ClientTodo
  <2>2. CASE conn[1] = c
    <3>1. conn[2] # at[c] + 1
      BY <1>7, <1>12, <2>2 DEF new
    <3>2. ClientTodo(conn)' = <<>>
      BY <1>5, <2>2, <3>1 DEF ClientTodo
    <3>3. ClientTodo(conn) = <<>>
      BY <1>2, <2>2 DEF ClientTodo
    <3> QED
      BY <3>2, <3>3
  <2> QED
    BY <2>1, <2>2
<1>13. ServerTodo(new) = Serve(Req(new))
  <2>1. ~Begun(new)
    BY <1>4, <1>9 DEF Begun
  <2>2. serving # new /\ "Server" \notin closed[new]
    BY <1>1, <1>4, <2>1 DEF Work, HeardOnce, ClosedAreBegun
  <2> QED
    BY <2>2 DEF ServerTodo, Serve
<1>14. FitsAll'
  <2> SUFFICES ASSUME NEW conn \in Conn
               PROVE  Fits(conn, ClientTodo(conn)', ServerTodo(conn)', mail[conn], qp[conn], armed)
    BY <1>2 DEF FitsAll
  <2>1. Fits(conn, ClientTodo(conn), ServerTodo(conn), mail[conn], qp[conn], armed)
    BY <1>1 DEF FitsAll
  <2>2. CASE conn # new
    BY <1>10, <1>12, <2>1, <2>2
  <2>3. CASE conn = new
    <3>1. Fits(new, <<>>, Serve(Req(new)), mail[new], qp[new], armed)
      BY <1>11, <1>13, <2>1, <2>3
    <3>2. CASE todo'[c] = <<>>
      BY <1>10, <1>11, <1>13, <2>3, <3>1, <3>2
    <3>3. CASE /\ c \in Foreign \/ Supported(Req(new))
               /\ todo'[c] = ClientSteps(c, Req(new).mode)
      <4>1. \A s \in Side : mail[new][s] = <<>>
        BY <1>1, <1>4, <1>9 DEF Opened
      <4>2. Fits(new, ClientSteps(c, Req(new).mode), Serve(Req(new)), mail[new], qp[new], armed)
        BY <1>4, <3>1, <3>3, <4>1, FreshFits
      <4> QED
        BY <1>10, <1>11, <1>13, <2>3, <3>3, <4>2
    <3> QED
      BY <1>6, <3>2, <3>3
  <2> QED
    BY <2>2, <2>3
<1>15. Opened'
  <2>1. \A conn \in Conn : conn[2] > at'[conn[1]] => conn[2] > at[conn[1]]
    <3> SUFFICES ASSUME NEW conn \in Conn, conn[2] > at'[conn[1]] PROVE conn[2] > at[conn[1]]
      OBVIOUS
    <3>1. conn[2] \in Nat /\ at[conn[1]] \in Nat
      BY <1>3, <1>7
    <3>2. at'[conn[1]] = at[conn[1]] \/ at'[conn[1]] = at[conn[1]] + 1
      BY <1>5, <1>7
    <3> QED
      BY <3>1, <3>2
  <2> QED
    BY <1>1, <1>2, <1>6, <2>1 DEF Opened
<1> QED
  BY <1>14, <1>15 DEF Framed

(* A connection waits for the server, which has not closed it.             *)
LEMMA ConnectFramed ==
  ASSUME Base, Promised, Framed, NEW c \in Client, Connect(c) PROVE Framed'
<1>1. Work /\ QpHeld /\ FitsAll /\ ClosedAreBegun
  BY DEF Base, Work, Framed, Promised
<1>2. c \in Process /\ c # Srv /\ ConnOf(c) = <<c, at[c]>>
  BY SuiteAssumption DEF Process, ConnOf
<1>3. todo[c] # <<>> /\ Head(todo[c]) = ConnectItem
  BY DEF Connect, At, ConnectItem
<1>4. CASE Abort(c) /\ UNCHANGED mail
  BY <1>2, <1>3, <1>4, AbortFramed DEF ReadOrNot
<1>5. CASE /\ backlog' = Append(backlog, ConnOf(c)) /\ Advance(c)
           /\ UNCHANGED <<up, at, serving, mail, closed, qp, armed, result, lastMode, printed>>
  <2>1. ConnOf(c) \in Conn /\ Signed(ConnOf(c), mail[ConnOf(c)])
    BY <1>1, <1>2, <1>3, AtWork DEF FitsAll, Fits
  <2>2. ConnectItem \notin {RequestItem, RefuseItem, PostItem, LinkItem(c)} /\ ConnectItem[1] = "do"
    BY DEF ConnectItem, RequestItem, RefuseItem, PostItem, LinkItem, EndpointItem, AckItem
  <2>3. "Server" \notin closed[ConnOf(c)]
    <3>1. 1 \in DOMAIN todo[c] /\ todo[c][1] = ConnectItem
      BY <1>1, <1>2, <1>3, HeadIs
    <3>2. ~Begun(ConnOf(c))
      BY <1>2, <3>1 DEF Begun, Connected
    <3> QED
      BY <1>1, <2>1, <3>2 DEF ClosedAreBegun
  <2>4. Linked(c, ConnOf(c), ConnectItem) /\ Arms(c, ConnOf(c), ConnectItem)
    BY <1>1, <1>2, <1>5, <2>1, <2>2, LinkedIs
  <2>5. Spoken(c, ConnOf(c), ConnectItem)
    BY <1>5, <2>2 DEF Spoken
  <2> QED
    BY <1>2, <1>3, <1>5, <2>1, <2>2, <2>3, <2>4, <2>5, AdvanceFramed
<1> QED
  BY <1>4, <1>5 DEF Connect

(* A client process.                                                       *)
LEMMA ClientFramed ==
  ASSUME Base, Promised, Framed, NEW c \in Client, ClientStep(c) PROVE Framed'
<1>1. c \in Process /\ c # Srv
  BY SuiteAssumption DEF Process
<1>2. CASE Exchange(c)
  BY <1>1, <1>2, ExchangeFramed
<1>3. CASE ReadEndpoint(c, "ack", "ok")
  <2>1. <<"recv", "ack">> = LinkItem(c)
    BY <1>1 DEF LinkItem, AckItem
  <2> QED
    BY <1>1, <1>3, <2>1, ReadEndpointFramed
<1>4. ASSUME NEW how, EndRun(c, how), UNCHANGED <<qp, armed>>, todo[c] # <<>>, ReadOrNot(c)
      PROVE  Framed'
  <2> DEFINE conns == {ConnOf(c)}
  <2>1. /\ todo' = [todo EXCEPT ![c] = <<>>] /\ Close(conns, "Client")
        /\ UNCHANGED <<at, serving, backlog, qp, armed>>
    BY <1>4 DEF EndRun
  <2> HIDE DEF conns
  <2> QED
    BY <1>4, <2>1, EndRunFramed
<1>5. CASE ReadRejection(c)
  BY <1>4, <1>5 DEF ReadRejection, At, ReadOrNot
<1>6. CASE Return(c)
  BY <1>4, <1>6 DEF Return, At, ReadOrNot
<1>7. CASE StartRun(c)
  BY <1>7, StartRunFramed
<1>8. CASE Connect(c)
  BY <1>8, ConnectFramed
<1>9. CASE Refuse(c)
  <2>1. todo[c] # <<>> /\ Abort(c) /\ mail' = mail
    BY <1>9 DEF Refuse, At
  <2> QED
    BY <1>1, <2>1, AbortFramed DEF ReadOrNot
<1> QED
  BY <1>2, <1>3, <1>5, <1>6, <1>7, <1>8, <1>9 DEF ClientStep

(* The server turns to a connection it has not closed.                     *)
LEMMA AcceptFramed == ASSUME Base, Framed, Accept PROVE Framed'
<1>1. Work /\ Opened /\ FitsAll
  BY DEF Base, Work, Framed
<1>2. /\ serving = NoConn /\ backlog # <<>> /\ serving' = Head(backlog) /\ backlog' = Tail(backlog)
      /\ todo' = [todo EXCEPT ![Srv] = Recv("request")]
      /\ UNCHANGED <<at, mail, closed, qp, armed>>
  BY DEF Accept
<1>3. todo'[Srv] = Recv("request") /\ \A d \in Client : todo'[d] = todo[d]
  BY <1>1, <1>2, SuiteAssumption DEF Work, WorkTypes
<1>4. /\ backlog \in Seq(Conn) /\ 1 \in DOMAIN backlog /\ Head(backlog) = backlog[1]
      /\ backlog[1] \in Conn
      /\ \A i \in DOMAIN backlog' : i + 1 \in DOMAIN backlog /\ backlog'[i] = backlog[i + 1]
  <2>1. backlog \in Seq(Conn) /\ backlog # <<>>
    BY <1>1, <1>2 DEF Work, WorkTypes
  <2>2. /\ Len(backlog) \in Nat \ {0} /\ DOMAIN backlog = 1 .. Len(backlog)
        /\ Head(backlog) = backlog[1] /\ Tail(backlog) \in Seq(Conn)
        /\ Len(Tail(backlog)) = Len(backlog) - 1
        /\ \A i \in 1 .. Len(Tail(backlog)) : Tail(backlog)[i] = backlog[i + 1]
    BY <2>1, EmptySeq, HeadTailProperties, LenProperties
  <2>3. DOMAIN Tail(backlog) = 1 .. Len(backlog) - 1
    BY <2>2, LenProperties
  <2>4. (\A i \in 1 .. Len(backlog) - 1 : i + 1 \in 1 .. Len(backlog)) /\ 1 \in 1 .. Len(backlog)
    BY <2>2
  <2>5. backlog[1] \in Conn
    BY <2>1, <2>2, <2>4, ElementOfSeq
  <2> QED
    BY <1>2, <2>1, <2>2, <2>3, <2>4, <2>5
<1> DEFINE first == backlog[1]
<1>5. serving' = first /\ first \in Conn /\ "Server" \notin closed[first] /\ first # NoConn
  BY <1>1, <1>2, <1>4, ConnIs DEF Opened
<1> HIDE DEF first
<1>6. \A conn \in Conn : ClientTodo(conn)' = ClientTodo(conn)
  BY <1>2, <1>3, ConnIs DEF ClientTodo
<1>7. ASSUME NEW conn \in Conn PROVE ServerTodo(conn)' = ServerTodo(conn)
  <2>1. ServerTodo(conn)' =
          IF conn # first /\ "Server" \in closed[conn] THEN <<>> ELSE Serve(Req(conn))
    BY <1>2, <1>3, <1>5 DEF ServerTodo, Serve
  <2>2. ServerTodo(conn) = IF "Server" \in closed[conn] THEN <<>> ELSE Serve(Req(conn))
    BY <1>2, ConnIs DEF ServerTodo, Serve
  <2> QED
    BY <1>5, <2>1, <2>2
<1>8. FitsAll'
  <2> SUFFICES ASSUME NEW conn \in Conn
               PROVE  Fits(conn, ClientTodo(conn)', ServerTodo(conn)', mail[conn], qp[conn], armed)
    BY <1>2 DEF FitsAll
  <2>1. Fits(conn, ClientTodo(conn), ServerTodo(conn), mail[conn], qp[conn], armed)
    BY <1>1 DEF FitsAll
  <2> QED
    BY <1>6, <1>7, <2>1
<1>9. Opened'
  BY <1>1, <1>2, <1>3, <1>4, <1>5 DEF Opened
<1> QED
  BY <1>8, <1>9 DEF Framed

(* The server reads the request, and goes by it.                           *)
LEMMA ReadRequestFramed == ASSUME Base, Framed, ReadRequest PROVE Framed'
<1>1. Work /\ MailHeld /\ QpHeld /\ Opened /\ FitsAll /\ Srv \in Process
  BY DEF Base, Work, Framed, Process
<1>2. /\ todo[Srv] # <<>> /\ Head(todo[Srv]) = RequestItem /\ Take(Srv, {"request"})
      /\ todo' = [todo EXCEPT ![Srv] = ServerSteps(Incoming(Srv).body)]
      /\ UNCHANGED <<at, serving, backlog, closed, qp, armed>>
  BY DEF ReadRequest, At, RequestItem
<1>3. serving \in Conn /\ ConnOf(Srv) = serving /\ SideOf(Srv) = "Server" /\ "Server" \in Side
  BY <1>1, <1>2 DEF Work, WorkTypes, ConnOf, SideOf, Side
<1>4. Incoming(Srv).body = Req(serving)
  BY <1>1, <1>2, <1>3, HeadLetter DEF Take, Incoming
<1>5. Req(serving) \in [transport : Transports, mode : Modes]
  BY <1>3, ConnIs
<1> DEFINE s == Serve(Req(serving))
<1>6. /\ s # <<>> /\ Head(s) = RequestItem /\ Tail(s) = ServerSteps(Req(serving))
      /\ ~Has(Tail(s), RequestItem)
  BY <1>5, ServerCode
<1>7. s = ServerTodo(serving)
  <2>1. 1 \in DOMAIN todo[Srv] /\ todo[Srv][1] = RequestItem
    BY <1>1, <1>2, HeadIs
  <2>2. todo[Srv] = Recv("request")
    BY <1>1, <2>1 DEF Opened, Has
  <2> QED
    BY <1>1, <1>3, <2>2 DEF ServerTodo, Serve, Opened
<1>8. todo' = [todo EXCEPT ![Srv] = Tail(s)]
  BY <1>2, <1>4, <1>6
<1> HIDE DEF s
<1>9. Tail(s) # Recv("request")
  <2>1. Has(Recv("request"), RequestItem)
    BY HasOne DEF Recv, RequestItem
  <2> QED
    BY <1>6, <2>1
<1>10. Signed(serving, mail[serving]) /\ RequestItem[1] = "recv"
  BY <1>1, <1>3 DEF FitsAll, Fits, RequestItem
<1>11. /\ Spoken(Srv, serving, RequestItem) /\ Signed(serving, mail'[serving])
       /\ \A conn \in Conn : conn # serving => mail'[conn] = mail[conn]
  BY <1>1, <1>2, <1>3, <1>10, TakeSpeaks
<1>12. RequestItem \notin {RefuseItem, PostItem, LinkItem(Srv)}
  BY DEF RequestItem, RefuseItem, PostItem, LinkItem, EndpointItem, AckItem
<1>13. Linked(Srv, serving, RequestItem) /\ Arms(Srv, serving, RequestItem)
  BY <1>1, <1>2, <1>3, <1>12, LinkedIs
<1>14. FitsAll'
  BY <1>1, <1>2, <1>3, <1>6, <1>7, <1>8, <1>9, <1>11, <1>12, <1>13, ServerAdvances
<1>15. Opened'
  <2>1. \A conn \in Conn : conn[2] > at[conn[1]] => \A u \in Side : mail'[conn][u] = <<>>
    <3>1. ~(serving[2] > at[serving[1]])
      BY <1>1, <1>2, <1>3, AtWorkIsNow
    <3> QED
      BY <1>1, <1>11, <3>1 DEF Opened
  <2>2. todo'[Srv] = Tail(s)
    BY <1>1, <1>8 DEF Work, WorkTypes, Process
  <2> QED
    BY <1>1, <1>2, <1>6, <2>1, <2>2 DEF Opened
<1> QED
  BY <1>14, <1>15 DEF Framed

(* The server process.                                                     *)
LEMMA ServerFramed == ASSUME Base, Framed, ServerStep PROVE Framed'
<1>1. Srv \in Process
  BY DEF Process
<1>2. CASE Exchange(Srv)
  BY <1>1, <1>2, ExchangeFramed
<1>3. CASE ReadEndpoint(Srv, "endpoint", "endpoint")
  <2>1. <<"recv", "endpoint">> = LinkItem(Srv)
    BY DEF LinkItem, EndpointItem
  <2> QED
    BY <1>1, <1>3, <2>1, ReadEndpointFramed
<1>4. CASE Accept
  BY <1>4, AcceptFramed
<1>5. CASE ReadRequest
  BY <1>5, ReadRequestFramed
<1>6. CASE ReturnRejected
  <2>1. todo[Srv] # <<>> /\ EndServe /\ UNCHANGED <<qp, armed>> /\ ReadOrNot(Srv)
    BY <1>6 DEF ReturnRejected, At, ReadOrNot
  <2> QED
    BY <2>1, EndServeFramed
<1>7. CASE ReadRow
  <2>1. todo[Srv] # <<>> /\ EndServe /\ UNCHANGED <<qp, armed>> /\ ReadOrNot(Srv)
    BY <1>7 DEF ReadRow, At, ReadOrNot
  <2> QED
    BY <2>1, EndServeFramed
<1> QED
  BY <1>2, <1>3, <1>4, <1>5, <1>6, <1>7 DEF ServerStep

(* What goes wrong from outside.                                           *)
LEMMA FaultFramed ==
  ASSUME Base, Framed, AcceptFails \/ \E p \in Process : Kill(p) PROVE Framed'
<1>1. Work
  BY DEF Base, Work
<1>2. CASE AcceptFails
  <2> DEFINE conns == {}
  <2>1. serving = NoConn /\ Exit(conns) /\ UNCHANGED <<todo, at, serving, mail, qp, armed>>
    BY <1>2 DEF AcceptFails
  <2>2. serving \in Conn => serving \in conns
    BY <2>1, ConnIs
  <2> HIDE DEF conns
  <2> QED
    BY <2>1, <2>2, LeaveFramed
<1>3. CASE Kill(Srv)
  <2> DEFINE conns == {serving}
  <2>1. /\ todo' = [todo EXCEPT ![Srv] = <<>>] /\ Exit(conns) /\ serving' = NoConn
        /\ UNCHANGED <<at, mail, qp, armed>>
    BY <1>3 DEF Kill
  <2>2. serving \in Conn => serving \in conns
    OBVIOUS
  <2> HIDE DEF conns
  <2> QED
    BY <2>1, <2>2, LeaveFramed
<1>4. ASSUME NEW c \in Client, Kill(c) PROVE Framed'
  <2>1. c # Srv
    BY SuiteAssumption
  <2> DEFINE conns == {ConnOf(c)}
  <2>2. /\ todo' = [todo EXCEPT ![c] = <<>>] /\ UNCHANGED <<at, serving, backlog, mail, qp, armed>>
        /\ Close(conns, "Client") \/ closed' = closed
    BY <1>4, <2>1 DEF Kill
  <2> HIDE DEF conns
  <2> QED
    BY <2>2, EndRunFramed
<1> QED
  BY <1>2, <1>3, <1>4 DEF Process

--------------------------------------------------------------------------------
(***************************************************************************)
(* The theorems.                                                           *)
(***************************************************************************)

(* At first everything is before everybody.                                *)
LEMMA InitFramed == Init => Framed
<1> SUFFICES ASSUME Init PROVE Framed
  OBVIOUS
<1>1. /\ \A c \in Client : todo[c] = <<>>
      /\ todo[Srv] = <<>> /\ serving = NoConn /\ backlog = <<>> /\ armed = {} /\ DOMAIN <<>> = {}
      /\ \A conn \in Conn : closed[conn] = {} /\ \A s \in Side : mail[conn][s] = <<>>
  BY DEF Init
<1>2. Opened
  BY <1>1, ConnIs DEF Opened, Has
<1>3. ASSUME NEW conn \in Conn
      PROVE  Fits(conn, ClientTodo(conn), ServerTodo(conn), mail[conn], qp[conn], armed)
  <2> DEFINE a == Serve(Req(conn))
             m == mail[conn]
             q == qp[conn]
  <2>1. conn[1] \in Client /\ Req(conn) \in [transport : Transports, mode : Modes] /\ serving # conn
    BY <1>1, ConnIs
  <2>2. ClientTodo(conn) = <<>>
    BY <1>1, <2>1 DEF ClientTodo
  <2>3. ServerTodo(conn) = a
    BY <1>1, <2>1 DEF ServerTodo, Serve
  <2>4. m["Client"] = <<>> /\ m["Server"] = <<>> /\ \A s \in Side : m[s] = <<>>
    BY <1>1 DEF Side
  <2>5. /\ a \in Seq(Item) /\ Leads(a, BuildItem, EndpointItem) /\ Precedes(a, EndpointItem, PostItem)
        /\ Has(a, PostItem) => Has(a, EndpointItem)
    BY <2>1, CodeInOrder
  <2> HIDE DEF a, m, q
  <2>6. Agree(<<>>, <<>>, a) /\ Agree(a, <<>>, <<>>) /\ Gated(a, <<>>, <<>>)
    <3>1. <<>> \in Seq(Item) /\ \A x : ~Has(<<>>, x)
      BY <1>1, EmptySeq DEF Has
    <3>2. Agree(<<>>, <<>>, a) /\ Agree(a, <<>>, <<>>)
      BY <2>5, <3>1, AgreeSilent
    <3>3. Gated(a, <<>>, <<>>)
      BY <1>1 DEF Gated
    <3> QED
      BY <3>2, <3>3
  <2>7. InStep(conn, <<>>, a, m, armed)
    BY <2>4, <2>6 DEF InStep
  <2>8. Signed(conn, m)
    BY <1>1, <2>4 DEF Signed
  <2>9. QpInOrder(conn, <<>>, a, q, armed)
    <3>1. Leads(<<>>, BuildItem, AckItem) /\ Precedes(<<>>, AckItem, TrafficItem)
      BY <1>1 DEF Leads, Precedes
    <3> QED
      BY <1>1, <2>5, <3>1 DEF QpInOrder
  <2>10. Fits(conn, <<>>, a, m, q, armed)
    BY <2>7, <2>8, <2>9 DEF Fits
  <2> QED
    BY <2>2, <2>3, <2>10 DEF m, q
<1> QED
  BY <1>2, <1>3 DEF Framed, FitsAll

(* Every step keeps the two sides in step.                                 *)
LEMMA StepFramed == Base /\ Promised /\ Framed /\ [Next]_vars => Framed'
<1> SUFFICES ASSUME Base, Promised, Framed, [Next]_vars PROVE Framed'
  OBVIOUS
<1>1. CASE Over \/ UNCHANGED vars
  <2>1. UNCHANGED <<todo, at, serving, backlog, mail, closed, qp, armed>>
    BY <1>1 DEF Over, vars, connVars
  <2>2. \A conn \in Conn : ClientTodo(conn)' = ClientTodo(conn) /\ ServerTodo(conn)' = ServerTodo(conn)
    BY <2>1 DEF ClientTodo, ServerTodo
  <2>3. FitsAll'
    <3> SUFFICES ASSUME NEW conn \in Conn
                 PROVE  Fits(conn, ClientTodo(conn)', ServerTodo(conn)', mail[conn], qp[conn], armed)
      BY <2>1 DEF FitsAll
    <3> QED
      BY <2>2 DEF Framed, FitsAll
  <2>4. Opened'
    BY <2>1 DEF Framed, Opened
  <2> QED
    BY <2>3, <2>4 DEF Framed
<1> QED
  BY <1>1, ClientFramed, ServerFramed, FaultFramed DEF Next, Step, Process

(* The rests of the code of server.rs and client.rs fit message by message *)
(* for all clients and suites, whatever fails and whoever is killed.       *)
THEOREM Invariant == Spec => []IInv
<1>1. Init => IInv
  BY InitBase, InitFine, InitFramed DEF IInv
<1>2. IInv /\ [Next]_vars => IInv'
  BY BaseStep, StepFine, StepFramed DEF IInv, Fine
<1> QED
  BY <1>1, <1>2, PTL DEF Spec

(* No side ever finds at the head of its stream what it is not about to    *)
(* read, in any mode and after any failure of the other side: the untyped  *)
(* lines and bytes of comm.rs are framed by the order of the code alone.   *)
THEOREM StreamsAreFramed == Spec => []StreamsStayFramed
<1>1. IInv => StreamsStayFramed
  <2> SUFFICES ASSUME IInv, NEW p \in up, todo[p] # <<>>, Head(todo[p])[1] = "recv",
                      mail[ConnOf(p)][SideOf(p)] # <<>>
               PROVE  Incoming(p).kind \in Readable(Head(todo[p])[2])
    BY DEF StreamsStayFramed
  <2>1. Work /\ MailHeld /\ Opened /\ FitsAll /\ p \in Process
    BY DEF IInv, Base, Work, WorkTypes, Framed, Process
  <2> DEFINE conn == ConnOf(p)
             s == SideOf(p)
             q == mail[conn][s]
             h == Head(todo[p])
  <2>2. conn \in Conn /\ s \in Side
    BY <2>1, AtWork
  <2>3. /\ 1 \in DOMAIN todo[p] /\ h = todo[p][1]
    BY <2>1, HeadIs
  <2>4. q[1] = Incoming(p) /\ 0 < Len(q)
    <3>1. q \in Seq(Letters(conn)) /\ q # <<>>
      BY <2>1, <2>2 DEF MailHeld
    <3>2. Incoming(p) = Head(q)
      BY DEF Incoming
    <3> HIDE DEF q
    <3> QED
      BY <3>1, <3>2, EmptySeq, HeadTailProperties, LenProperties
  <2>5. Fits(conn, ClientTodo(conn), ServerTodo(conn), mail[conn], qp[conn], armed)
    BY <2>1, <2>2 DEF FitsAll
  <2> HIDE DEF h
  <2>6. PICK a, b : Agree(a, q, b) /\ 1 \in DOMAIN b /\ b[1] = h
    <3>1. CASE p # Srv
      <4>1. s = "Client" /\ conn = <<p, at[p]>>
        BY <3>1 DEF SideOf, ConnOf
      <4>2. ClientTodo(conn) = todo[p]
        BY <4>1 DEF ClientTodo
      <4>3. Agree(ServerTodo(conn), q, todo[p])
        BY <2>5, <4>1, <4>2 DEF Fits, InStep
      <4> QED
        BY <2>3, <4>3
    <3>2. CASE p = Srv
      <4>1. s = "Server" /\ conn = serving
        BY <3>2 DEF SideOf, ConnOf
      <4>2. Agree(ClientTodo(conn), q, ServerTodo(conn))
        BY <2>5, <4>1 DEF Fits, InStep
      <4>3. CASE todo[Srv] # Recv("request")
        <5>1. ServerTodo(conn) = todo[Srv]
          BY <4>1, <4>3 DEF ServerTodo
        <5> QED
          BY <2>3, <3>2, <4>2, <5>1
      <4>4. CASE todo[Srv] = Recv("request")
        <5>1. ServerTodo(conn) = Serve(Req(conn))
          BY <4>1, <4>4 DEF ServerTodo, Serve
        <5>2. /\ Serve(Req(conn)) \in Seq(Item) /\ Serve(Req(conn)) # <<>>
              /\ Serve(Req(conn))[1] = RequestItem
          BY <2>2, ConnIs, ServerCode
        <5>3. 1 \in DOMAIN Serve(Req(conn))
          BY <5>2, EmptySeq, LenProperties
        <5>4. h = RequestItem
          BY <2>3, <3>2, <4>4 DEF Recv, RequestItem
        <5> QED
          BY <4>2, <5>1, <5>2, <5>3, <5>4
      <4> QED
        BY <4>3, <4>4
    <3> QED
      BY <3>1, <3>2
  <2>7. Before(b, "recv", 1) = 0
    BY BeforeFirst
  <2> HIDE DEF q
  <2>8. q[0 + 1].kind \in Readable(h[2])
    BY <2>4, <2>6, <2>7 DEF Agree, h
  <2> QED
    BY <2>4, <2>8 DEF h
<1> QED
  BY <1>1, Invariant, PTL

(* A client starts its traffic only when both queue pairs of its run are   *)
(* connected to each other and the server has posted its receives, or      *)
(* registered its buffer: what the syncs of the benchmarks are for         *)
(* (bandwidth.rs, latency.rs, accuracy.rs, rdma.rs).                       *)
THEOREM TrafficIsAwaited == Spec => []TrafficFindsPeerReady
<1>1. IInv => TrafficFindsPeerReady
  <2> SUFFICES ASSUME IInv, NEW c \in Client, At(c, "do", "traffic")
               PROVE  /\ \A s \in Side : qp[ConnOf(c)][s] = <<ConnOf(c), Other(s)>>
                      /\ ConnOf(c) \in armed
    BY DEF TrafficFindsPeerReady
  <2>1. Work /\ MailHeld /\ FitsAll /\ c \in Process /\ c # Srv
    BY SuiteAssumption DEF IInv, Base, Work, Framed, Process
  <2> DEFINE conn == ConnOf(c)
             b == todo[c]
             a == ServerTodo(conn)
             q == mail[conn]["Client"]
  <2>2. b # <<>> /\ Head(b) = TrafficItem
    BY DEF At, TrafficItem
  <2>3. conn \in Conn /\ conn = <<c, at[c]>>
    BY <2>1, <2>2, AtWork DEF ConnOf
  <2>4. ClientTodo(conn) = b
    BY <2>3 DEF ClientTodo
  <2>5. Fits(conn, b, a, mail[conn], qp[conn], armed)
    BY <2>1, <2>3, <2>4 DEF FitsAll
  <2>6. b \in Seq(Item) /\ 1 \in DOMAIN b /\ b[1] = TrafficItem
    BY <2>1, <2>2, HeadIs DEF Work, WorkTypes
  <2>7. a \in Seq(Item) /\ q \in Seq(Letters(conn))
    BY <2>1, <2>3, TodoTypes DEF MailHeld, Side
  <2> HIDE DEF conn, b, a, q
  <2>8. Len(q) \in Nat /\ Unposted(a) \in Nat
    BY <2>7, UnpostedIs, LenProperties
  <2>9. ~Gated(a, q, b)
    <3>1. Before(b, "recv", 1) = 0
      BY BeforeFirst
    <3>2. ~(Len(q) + Unposted(a) < 0)
      BY <2>8
    <3> QED
      BY <2>6, <3>1, <3>2 DEF Gated
  <2>10. conn \in armed
    BY <2>5, <2>9 DEF Fits, InStep, q
  <2>11. ~Has(b, AckItem)
    BY <2>2, <2>5, <2>6, RestOrder DEF Fits, QpInOrder
  <2>12. qp[conn]["Client"] = <<conn, "Server">> /\ qp[conn]["Server"] = <<conn, "Client">>
    BY <2>2, <2>5, <2>10, <2>11 DEF Fits, QpInOrder
  <2> QED
    BY <2>10, <2>12 DEF Side, Other, conn
<1> QED
  BY <1>1, Invariant, PTL
================================================================================
