-------------------------- MODULE ConfigLoadProofs --------------------------
(***************************************************************************)
(* Proofs about ConfigLoad, for all files that have what AreFiles says,    *)
(* any number of linked ones and of repositories, and all requests:        *)
(* nothing is lost or doubled on the way into the configuration            *)
(* (NothingIsLostOrDoubled), no error forgotten (OnlyTheValidIsAccepted),  *)
(* the generated commands are those of the active repositories             *)
(* (CommandsForTheActive), and the index, made before validation, finds    *)
(* what was configured (FindIsComplete).  All follow from LoadInv.         *)
(***************************************************************************)
EXTENDS ConfigLoad, FiniteSetTheorems, FunctionTheorems, SequenceTheorems,
        WellFoundedInduction, TLAPS

-----------------------------------------------------------------------------
(* Sets of numbers have a least one.                                       *)
LEMMA Least ==
  ASSUME NEW T, T \subseteq Nat, T # {}
  PROVE  \E x \in T : \A y \in T : x <= y
<1> DEFINE R == OpToRel(<, Nat)
<1>1. IsWellFoundedOn(R, Nat)
  BY NatLessThanWellFounded
<1>2. \A x, y \in Nat : <<y, x>> \in R <=> y < x
  BY DEF OpToRel
<1> HIDE DEF R
<1>3. PICK x \in T : \A y \in T : ~(<<y, x>> \in R)
  BY <1>1, WFMin
<1>4. ASSUME NEW y \in T
      PROVE  x <= y
  <2>1. x \in Nat /\ y \in Nat
    OBVIOUS
  <2>2. ~(y < x)
    BY <1>2, <1>3, <2>1
  <2> QED BY <2>1, <2>2
<1> QED BY <1>4

-----------------------------------------------------------------------------
(* What FlattenSeq computes: f[i] joins the first i of the sequences.      *)

Concats(ss, f, n) ==
  f = [i \in 1 .. n |-> IF i = 1 THEN ss[i] ELSE f[i - 1] \o ss[i]]

LEMMA ConcatsExist ==
  ASSUME NEW ss, NEW n \in Nat, n # 0
  PROVE  \E f : Concats(ss, f, n)
<1> DEFINE T == {m \in Nat : m # 0 /\ ~ \E f : Concats(ss, f, m)}
<1>1. T = {}
  <2> SUFFICES ASSUME T # {} PROVE FALSE
    OBVIOUS
  <2>1. T \subseteq Nat
    OBVIOUS
  <2> HIDE DEF T
  <2>2. PICK m \in T : \A y \in T : m <= y
    BY <2>1, Least
  <2> USE DEF T
  <2>3. m \in Nat /\ m # 0 /\ ~ \E f : Concats(ss, f, m)
    BY <2>2
  <2>4. CASE m = 1
    <3>1. Concats(ss, [i \in 1 .. 1 |-> ss[i]], 1)
      BY DEF Concats
    <3> QED BY <2>3, <2>4, <3>1
  <2>5. CASE m # 1
    <3>1. m - 1 \in Nat /\ m - 1 # 0 /\ ~(m <= m - 1)
      BY <2>3, <2>5
    <3>2. m - 1 \notin T
      BY <2>2, <3>1
    <3>3. PICK f : Concats(ss, f, m - 1)
      BY <3>1, <3>2
    <3> DEFINE g == [i \in 1 .. m |-> IF i = m THEN f[m - 1] \o ss[m] ELSE f[i]]
    <3>4. ASSUME NEW i \in 1 .. m
          PROVE  g[i] = IF i = 1 THEN ss[i] ELSE g[i - 1] \o ss[i]
      <4>1. CASE i = m
        <5>1. i - 1 \in 1 .. m /\ i - 1 # m
          BY <2>3, <2>5, <4>1
        <5> QED BY <2>5, <4>1, <5>1
      <4>2. CASE i # m
        <5>1. i \in 1 .. m - 1 /\ i \in 1 .. m /\ (i # 1 => i - 1 \in 1 .. m /\ i - 1 # m)
          BY <2>3, <4>2
        <5>2. f[i] = IF i = 1 THEN ss[i] ELSE f[i - 1] \o ss[i]
          BY <3>3, <5>1 DEF Concats
        <5> QED BY <4>2, <5>1, <5>2
      <4> QED BY <4>1, <4>2
    <3>5. g = [i \in 1 .. m |-> IF i = 1 THEN ss[i] ELSE g[i - 1] \o ss[i]]
      BY <3>4
    <3> HIDE DEF g
    <3> QED BY <2>3, <3>5 DEF Concats
  <2> QED BY <2>4, <2>5
<1> QED BY <1>1

Agree(f, g, n) == \A i \in 1 .. n : f[i] = g[i]

LEMMA ConcatsAgree ==
  ASSUME NEW k \in Nat, NEW m \in Nat, k <= m, NEW ss, NEW tt, Agree(ss, tt, k),
         NEW f, NEW g, Concats(ss, f, m), Concats(tt, g, k)
  PROVE  Agree(f, g, k)
<1> DEFINE T == {i \in 1 .. k : f[i] # g[i]}
<1> SUFFICES ASSUME T # {} PROVE FALSE
  BY DEF Agree
<1>1. T \subseteq Nat
  OBVIOUS
<1> HIDE DEF T
<1>2. PICK i \in T : \A y \in T : i <= y
  BY <1>1, Least
<1> USE DEF T
<1>3. i \in 1 .. k /\ f[i] # g[i] /\ i \in 1 .. m /\ ss[i] = tt[i]
  BY <1>2 DEF Agree
<1>4. /\ f[i] = IF i = 1 THEN ss[i] ELSE f[i - 1] \o ss[i]
      /\ g[i] = IF i = 1 THEN tt[i] ELSE g[i - 1] \o tt[i]
  BY <1>3 DEF Concats
<1>5. CASE i = 1
  BY <1>3, <1>4, <1>5
<1>6. CASE i # 1
  <2>1. i - 1 \in 1 .. k /\ ~(i <= i - 1)
    BY <1>3, <1>6
  <2>2. f[i - 1] = g[i - 1]
    BY <1>2, <2>1
  <2> QED BY <1>3, <1>4, <1>6, <2>2
<1> QED BY <1>5, <1>6

LEMMA FlattenIs ==
  ASSUME NEW S, NEW ss \in Seq(Seq(S)), Len(ss) # 0
  PROVE  \E f : Concats(ss, f, Len(ss)) /\ FlattenSeq(ss) = f[Len(ss)]
<1> DEFINE n == Len(ss)
           f == CHOOSE f : f = [i \in 1 .. n |-> IF i = 1 THEN ss[i] ELSE f[i - 1] \o ss[i]]
<1>1. n \in Nat
  OBVIOUS
<1>2. FlattenSeq(ss) = f[n]
  BY DEF FlattenSeq
<1>3. Concats(ss, f, n)
  <2>1. \E g : g = [i \in 1 .. n |-> IF i = 1 THEN ss[i] ELSE g[i - 1] \o ss[i]]
    BY <1>1, ConcatsExist DEF Concats
  <2>2. f = [i \in 1 .. n |-> IF i = 1 THEN ss[i] ELSE f[i - 1] \o ss[i]]
    BY <2>1, Zenon
  <2> HIDE DEF f
  <2> QED BY <2>2 DEF Concats
<1> QED BY <1>2, <1>3

(* Adding a sequence at the end adds its elements at the end.              *)
LEMMA FlattenAppend ==
  ASSUME NEW S, NEW ss \in Seq(Seq(S)), NEW t \in Seq(S)
  PROVE  FlattenSeq(Append(ss, t)) = FlattenSeq(ss) \o t
<1> DEFINE n == Len(ss)
           tt == Append(ss, t)
<1>1. /\ n \in Nat /\ Len(tt) = n + 1 /\ Len(tt) # 0 /\ tt \in Seq(Seq(S))
      /\ \A i \in 1 .. n : tt[i] = ss[i]
      /\ tt[n + 1] = t
  BY AppendProperties
<1> HIDE DEF tt
<1>2. PICK f : Concats(tt, f, Len(tt)) /\ FlattenSeq(tt) = f[Len(tt)]
  BY <1>1, FlattenIs
<1>3. Concats(tt, f, n + 1) /\ FlattenSeq(tt) = f[n + 1]
  BY <1>1, <1>2
<1>4. f[n + 1] = IF n + 1 = 1 THEN t ELSE f[n] \o t
  <2> DEFINE k == n + 1
  <2>1. k \in 1 .. k /\ k - 1 = n
    BY <1>1
  <2>2. f[k] = IF k = 1 THEN tt[k] ELSE f[k - 1] \o tt[k]
    <3> HIDE DEF k
    <3>1. Concats(tt, f, k)
      BY <1>3 DEF k
    <3> QED BY <2>1, <3>1 DEF Concats
  <2> QED BY <1>1, <2>1, <2>2
<1>5. CASE n = 0
  <2>1. ss = <<>> /\ FlattenSeq(ss) = ss
    BY <1>5, EmptySeq DEF FlattenSeq
  <2>2. <<>> \o t = t
    BY ConcatEmptySeq
  <2> QED BY <1>3, <1>4, <1>5, <2>1, <2>2 DEF tt
<1>6. CASE n # 0
  <2>1. PICK h : Concats(ss, h, n) /\ FlattenSeq(ss) = h[n]
    BY <1>6, FlattenIs
  <2>2. Concats(ss, h, n)
    BY <2>1
  <2>3. n + 1 \in Nat /\ n <= n + 1 /\ n <= n /\ n \in 1 .. n /\ \A i \in 1 .. n : ss[i] = tt[i]
    BY <1>1, <1>6
  <2> HIDE DEF n
  <2>4. Agree(f, h, n)
    <3>1. n \in Nat /\ n + 1 \in Nat /\ n <= n + 1 /\ Agree(tt, ss, n)
      BY <1>1, <2>3 DEF Agree
    <3> DEFINE k == n + 1
    <3>2. k \in Nat /\ n <= k /\ Concats(tt, f, k)
      BY <1>3, <3>1
    <3> HIDE DEF k
    <3> QED BY <2>2, <3>1, <3>2, ConcatsAgree
  <2>5. f[n] = h[n]
    BY <2>3, <2>4 DEF Agree
  <2>6. n + 1 # 1
    BY <1>1, <1>6
  <2> QED BY <1>3, <1>4, <2>1, <2>5, <2>6 DEF tt
<1> QED BY <1>5, <1>6

(* So what is so of the first sequences is so of all.                      *)
LEMMA FlattenEmpty == FlattenSeq(<<>>) = <<>>
BY DEF FlattenSeq

Joins(S, ss, f, i) ==
  /\ f[i] \in Seq(S)
  /\ Range(f[i]) = UNION {Range(ss[j]) : j \in 1 .. i}

LEMMA ConcatsAre ==
  ASSUME NEW S, NEW ss \in Seq(Seq(S)), NEW f, Concats(ss, f, Len(ss))
  PROVE  \A i \in 1 .. Len(ss) : Joins(S, ss, f, i)
<1> DEFINE Good(i) == Joins(S, ss, f, i)
           T == {i \in 1 .. Len(ss) : ~Good(i)}
<1> SUFFICES T = {}
  OBVIOUS
<1> SUFFICES ASSUME T # {} PROVE FALSE
  OBVIOUS
<1>1. T \subseteq Nat /\ Len(ss) \in Nat /\ \A i \in 1 .. Len(ss) : ss[i] \in Seq(S)
  OBVIOUS
<1> HIDE DEF T
<1>2. PICK i \in T : \A y \in T : i <= y
  BY <1>1, Least
<1> USE DEF T
<1>3. i \in 1 .. Len(ss) /\ ~Good(i) /\ ss[i] \in Seq(S)
  BY <1>1, <1>2
<1>4. f[i] = IF i = 1 THEN ss[i] ELSE f[i - 1] \o ss[i]
  BY <1>3 DEF Concats
<1>5. CASE i = 1
  <2>1. 1 .. 1 = {1}
    OBVIOUS
  <2>2. UNION {Range(ss[j]) : j \in {1}} = Range(ss[1])
    OBVIOUS
  <2>3. f[i] = ss[1]
    BY <1>4, <1>5
  <2> QED BY <1>3, <1>5, <2>1, <2>2, <2>3 DEF Joins
<1>6. CASE i # 1
  <2>1. i - 1 \in 1 .. Len(ss) /\ ~(i <= i - 1) /\ 1 .. i = (1 .. i - 1) \cup {i}
    BY <1>1, <1>3, <1>6
  <2>2. Good(i - 1)
    BY <1>2, <2>1
  <2> DEFINE u == f[i - 1]
             v == ss[i]
  <2>3. u \in Seq(S) /\ v \in Seq(S) /\ f[i] = u \o v
    BY <1>3, <1>4, <1>6, <2>2 DEF Joins
  <2>4. Range(u) = UNION {Range(ss[j]) : j \in 1 .. i - 1}
    BY <2>2 DEF Joins
  <2> HIDE DEF u
  <2>5. u \o v \in Seq(S) /\ Range(u \o v) = Range(u) \cup Range(v)
    BY <2>3, RangeConcatenation
  <2>6. UNION {Range(ss[j]) : j \in 1 .. i} =
          (UNION {Range(ss[j]) : j \in 1 .. i - 1}) \cup Range(v)
    BY <2>1
  <2> QED BY <1>3, <2>3, <2>4, <2>5, <2>6 DEF Joins
<1> QED BY <1>5, <1>6

(* Whatever is in one of the sequences is in the flat one, nothing else.   *)
LEMMA Flattened ==
  ASSUME NEW S, NEW ss \in Seq(Seq(S))
  PROVE  /\ FlattenSeq(ss) \in Seq(S)
         /\ Range(FlattenSeq(ss)) = UNION {Range(ss[j]) : j \in 1 .. Len(ss)}
<1>1. CASE Len(ss) = 0
  <2>1. ss = <<>> /\ FlattenSeq(ss) = ss /\ 1 .. Len(ss) = {}
    BY <1>1, EmptySeq DEF FlattenSeq
  <2>2. Range(<<>>) = {}
    BY DEF Range
  <2>3. UNION {Range(ss[j]) : j \in {}} = {} /\ <<>> \in Seq(S)
    OBVIOUS
  <2> QED BY <2>1, <2>2, <2>3
<1>2. CASE Len(ss) # 0
  <2>1. PICK f : Concats(ss, f, Len(ss)) /\ FlattenSeq(ss) = f[Len(ss)]
    BY <1>2, FlattenIs
  <2>2. Len(ss) \in 1 .. Len(ss)
    BY <1>2
  <2>3. Joins(S, ss, f, Len(ss))
    BY <2>1, <2>2, ConcatsAre
  <2> QED BY <2>1, <2>3 DEF Joins
<1> QED BY <1>1, <1>2

(* Things of different names.                                              *)
LEMMA InjectiveAppend ==
  ASSUME NEW S, NEW u \in Seq(S), NEW x \in S, IsInjective(NamesOf(u)),
         \A y \in Range(u) : y.name # x.name
  PROVE  IsInjective(NamesOf(Append(u, x)))
<1> DEFINE v == Append(u, x)
           n == Len(u)
<1>1. /\ n \in Nat /\ DOMAIN u = 1 .. n /\ DOMAIN v = 1 .. n + 1
      /\ (\A i \in 1 .. n : v[i] = u[i]) /\ v[n + 1] = x
  BY AppendProperties
<1>2. \A i, j \in 1 .. n : u[i].name = u[j].name => i = j
  <2> DEFINE ns == NamesOf(u)
  <2>1. DOMAIN ns = 1 .. n /\ \A i \in 1 .. n : ns[i] = u[i].name
    BY <1>1 DEF NamesOf
  <2>2. \A i, j \in DOMAIN ns : ns[i] = ns[j] => i = j
    BY DEF IsInjective
  <2> HIDE DEF ns, n
  <2> QED BY <2>1, <2>2
<1>3. \A i \in 1 .. n : u[i].name # x.name
  BY <1>1 DEF Range
<1> HIDE DEF v, n
<1>4. ASSUME NEW i \in 1 .. n + 1, NEW j \in 1 .. n + 1, v[i].name = v[j].name
      PROVE  i = j
  <2>1. (i \in 1 .. n \/ i = n + 1) /\ (j \in 1 .. n \/ j = n + 1)
    BY <1>1
  <2>2. CASE i \in 1 .. n /\ j \in 1 .. n
    BY <1>1, <1>2, <1>4, <2>2
  <2>3. CASE i \in 1 .. n /\ j = n + 1
    BY <1>1, <1>3, <1>4, <2>3
  <2>4. CASE i = n + 1 /\ j \in 1 .. n
    BY <1>1, <1>3, <1>4, <2>4
  <2> QED BY <2>1, <2>2, <2>3, <2>4
<1> DEFINE ns == NamesOf(v)
<1>5. DOMAIN ns = 1 .. n + 1 /\ \A i \in 1 .. n + 1 : ns[i] = v[i].name
  BY <1>1 DEF NamesOf
<1> HIDE DEF ns
<1>6. IsInjective(ns)
  BY <1>4, <1>5 DEF IsInjective
<1> QED BY <1>6 DEF ns, v

(* Nothing, or one thing whose name nothing before it has.                 *)
Fresh(S, ss, i) ==
  \/ ss[i] = <<>>
  \/ \E x \in S : ss[i] = <<x>> /\ \A j \in 1 .. i - 1 : \A y \in Range(ss[j]) : y.name # x.name

LEMMA FlattenFresh ==
  ASSUME NEW S, NEW ss \in Seq(Seq(S)), \A i \in 1 .. Len(ss) : Fresh(S, ss, i)
  PROVE  IsInjective(NamesOf(FlattenSeq(ss)))
<1>0. IsInjective(NamesOf(<<>>))
  BY DEF IsInjective, NamesOf
<1>1. CASE Len(ss) = 0
  <2>1. ss = <<>>
    BY <1>1, EmptySeq
  <2> QED BY <1>0, <2>1, FlattenEmpty
<1>2. CASE Len(ss) # 0
  <2>1. PICK f : Concats(ss, f, Len(ss)) /\ FlattenSeq(ss) = f[Len(ss)]
    BY <1>2, FlattenIs
  <2> DEFINE T == {i \in 1 .. Len(ss) : ~IsInjective(NamesOf(f[i]))}
  <2>2. T = {}
    <3> SUFFICES ASSUME T # {} PROVE FALSE
      OBVIOUS
    <3>1. T \subseteq Nat
      OBVIOUS
    <3> HIDE DEF T
    <3>2. PICK i \in T : \A y \in T : i <= y
      BY <3>1, Least
    <3> USE DEF T
    <3>3. i \in 1 .. Len(ss) /\ ~IsInjective(NamesOf(f[i])) /\ Fresh(S, ss, i)
      BY <3>2
    <3>4. f[i] = IF i = 1 THEN ss[i] ELSE f[i - 1] \o ss[i]
      BY <2>1, <3>3 DEF Concats
    <3>5. PICK u \in Seq(S) : /\ IsInjective(NamesOf(u)) /\ f[i] = u \o ss[i]
                              /\ Range(u) = UNION {Range(ss[j]) : j \in 1 .. i - 1}
      <4>1. CASE i = 1
        <5>1. 1 .. i - 1 = {} /\ <<>> \in Seq(S) /\ ss[i] \in Seq(S)
          BY <3>3, <4>1
        <5>2. <<>> \o ss[i] = ss[i] /\ Range(<<>>) = {}
          BY <5>1, ConcatEmptySeq DEF Range
        <5>3. UNION {Range(ss[j]) : j \in {}} = {}
          OBVIOUS
        <5> QED BY <1>0, <3>4, <4>1, <5>1, <5>2, <5>3
      <4>2. CASE i # 1
        <5>1. i - 1 \in 1 .. Len(ss) /\ ~(i <= i - 1)
          BY <3>3, <4>2
        <5>2. Joins(S, ss, f, i - 1)
          BY <2>1, <5>1, ConcatsAre
        <5>3. IsInjective(NamesOf(f[i - 1]))
          BY <3>2, <5>1
        <5> QED BY <3>4, <4>2, <5>2, <5>3 DEF Joins
      <4> QED BY <4>1, <4>2
    <3>6. CASE ss[i] = <<>>
      <4>1. u \o <<>> = u
        BY ConcatEmptySeq
      <4> QED BY <3>3, <3>5, <3>6, <4>1
    <3>7. ASSUME NEW x \in S, ss[i] = <<x>>,
                 \A j \in 1 .. i - 1 : \A y \in Range(ss[j]) : y.name # x.name
          PROVE  FALSE
      <4>1. Append(u, x) = u \o <<x>>
        BY AppendIsConcat
      <4>2. \A y \in Range(u) : y.name # x.name
        BY <3>5, <3>7
      <4>3. IsInjective(NamesOf(Append(u, x)))
        BY <3>5, <4>2, InjectiveAppend
      <4> QED BY <3>3, <3>5, <3>7, <4>1, <4>3
    <3> QED BY <3>3, <3>6, <3>7 DEF Fresh
  <2>3. Len(ss) \in 1 .. Len(ss)
    BY <1>2
  <2>4. IsInjective(NamesOf(f[Len(ss)]))
    BY <2>2, <2>3
  <2> QED BY <2>1, <2>4
<1> QED BY <1>1, <1>2

-----------------------------------------------------------------------------
(* How often a sequence has elements of a set.                             *)

Occ(xs, T) == Cardinality({i \in DOMAIN xs : xs[i] \in T})

LEMMA OccEmpty == \A T : Occ(<<>>, T) = 0
<1> SUFFICES ASSUME NEW T PROVE Occ(<<>>, T) = 0
  OBVIOUS
<1>1. {i \in DOMAIN <<>> : <<>>[i] \in T} = {}
  OBVIOUS
<1> QED BY <1>1, FS_EmptySet DEF Occ

LEMMA OccFinite ==
  ASSUME NEW S, NEW xs \in Seq(S), NEW T
  PROVE  /\ IsFiniteSet({i \in DOMAIN xs : xs[i] \in T})
         /\ Occ(xs, T) \in Nat
         /\ Occ(xs, T) = 0 <=> \A i \in DOMAIN xs : xs[i] \notin T
<1> DEFINE A == {i \in DOMAIN xs : xs[i] \in T}
<1>1. DOMAIN xs = 1 .. Len(xs) /\ Len(xs) \in Nat
  OBVIOUS
<1>2. IsFiniteSet(1 .. Len(xs)) /\ A \subseteq 1 .. Len(xs)
  BY <1>1, FS_Interval
<1> HIDE DEF A
<1>3. IsFiniteSet(A) /\ Cardinality(A) \in Nat
  BY <1>2, FS_Subset, FS_CardinalityType
<1>4. Cardinality(A) = 0 <=> A = {}
  BY <1>3, FS_EmptySet
<1> QED BY <1>3, <1>4 DEF A, Occ

LEMMA OccConcat ==
  ASSUME NEW S, NEW a \in Seq(S), NEW b \in Seq(S), NEW T
  PROVE  Occ(a \o b, T) = Occ(a, T) + Occ(b, T)
<1> DEFINE m == Len(a)
           n == Len(b)
           A == {i \in DOMAIN a : a[i] \in T}
           B == {i \in DOMAIN b : b[i] \in T}
           C == {i \in DOMAIN (a \o b) : (a \o b)[i] \in T}
           D == {m + i : i \in B}
<1>1. /\ m \in Nat /\ n \in Nat /\ DOMAIN a = 1 .. m /\ DOMAIN b = 1 .. n
      /\ DOMAIN (a \o b) = 1 .. m + n
      /\ \A i \in 1 .. m + n : (a \o b)[i] = IF i <= m THEN a[i] ELSE b[i - m]
  BY ConcatProperties, LenProperties
<1>2. C = A \cup D
  <2>1. ASSUME NEW i \in C PROVE i \in A \cup D
    <3>1. i \in 1 .. m + n /\ (IF i <= m THEN a[i] ELSE b[i - m]) \in T
      BY <1>1
    <3>2. CASE i <= m
      BY <1>1, <3>1, <3>2
    <3>3. CASE ~(i <= m)
      <4>1. i - m \in 1 .. n /\ i = m + (i - m) /\ b[i - m] \in T
        BY <1>1, <3>1, <3>3
      <4>2. i - m \in B
        BY <1>1, <4>1
      <4> QED BY <4>1, <4>2
    <3> QED BY <3>2, <3>3
  <2>2. ASSUME NEW i \in A PROVE i \in C
    <3>1. i \in 1 .. m /\ i \in 1 .. m + n /\ i <= m /\ a[i] \in T
      BY <1>1
    <3> QED BY <1>1, <3>1
  <2>3. ASSUME NEW j \in B PROVE m + j \in C
    <3>1. j \in 1 .. n /\ m + j \in 1 .. m + n /\ ~(m + j <= m) /\ (m + j) - m = j /\ b[j] \in T
      BY <1>1
    <3> QED BY <1>1, <3>1
  <2> QED BY <2>1, <2>2, <2>3
<1>3. A \cap D = {}
  BY <1>1
<1>4. IsFiniteSet(A) /\ IsFiniteSet(B)
  BY OccFinite
<1>5. IsFiniteSet(D) /\ Cardinality(D) = Cardinality(B)
  <2> DEFINE f == [j \in B |-> m + j]
  <2>1. f \in Bijection(B, D)
    <3>1. \A j \in B : j \in Nat
      BY <1>1
    <3>2. f \in [B -> D] /\ (\A j, k \in B : f[j] = f[k] => j = k)
      BY <1>1, <3>1
    <3>3. \A d \in D : \E j \in B : f[j] = d
      OBVIOUS
    <3> QED BY <3>2, <3>3, Fun_IsBij
  <2>2. ExistsBijection(B, D)
    BY <2>1 DEF ExistsBijection
  <2> QED BY <1>4, <2>2, FS_Bijection
<1> HIDE DEF A, B, C, D
<1>6. Cardinality(A \cup D) = Cardinality(A) + Cardinality(D) - Cardinality(A \cap D)
  BY <1>4, <1>5, FS_Union
<1>7. Cardinality(A \cap D) = 0 /\ Cardinality(A) \in Nat /\ Cardinality(D) \in Nat
  BY <1>3, <1>4, <1>5, FS_EmptySet, FS_CardinalityType
<1>8. Cardinality(C) = Cardinality(A) + Cardinality(B)
  BY <1>2, <1>5, <1>6, <1>7
<1> QED BY <1>8 DEF A, B, C, Occ

-----------------------------------------------------------------------------
(* What files hold: items, of which those among the repositories have the  *)
(* fields of a GitRepository.  Name is the set of all names.               *)

Repository(Name) ==
  [name : Name, tags : SUBSET Name, fetch : BOOLEAN, sync : BOOLEAN, disabled : BOOLEAN,
   remote : BOOLEAN, home : BOOLEAN, ready : BOOLEAN]

(* The names of files, of which all are in Disks, readable or not.         *)
File == UNION {DOMAIN d : d \in Disks}

TagGroups(Name) == UNION {[G -> SUBSET Name] : G \in SUBSET Name}

Configuration(Name, Item) ==
  {c \in [sec : [Section -> Seq(Item)], old : [Section -> Seq(Item)], net : Seq(Item),
          set : BOOLEAN, paths : Seq(File), groups : TagGroups(Name)] :
     /\ c.sec["repos"] \in Seq(Repository(Name))
     /\ c.old["repos"] \in Seq(Repository(Name))}

AtMostOne(S) == {<<>>} \cup {<<c>> : c \in S}

IsFile(f, Name, Item) ==
  \/ f.kind = "unreadable"
  \/ f.kind = "plain" /\ f.conf \in Configuration(Name, Item)
  \/ /\ f.kind = "split"
     /\ f.global \in AtMostOne(Configuration(Name, Item))
     /\ f.here \in AtMostOne(Configuration(Name, Item))

(* A hypothesis of the theorems: the files are such files, and requests    *)
(* consist of names.                                                       *)
AreFiles(Name, Item) ==
  /\ Repository(Name) \subseteq Item
  /\ Main \in File
  /\ \A d \in Disks : \A n \in File : IsFile(d[n], Name, Item)
  /\ Requests \subseteq Seq(Name)

LEMMA Fields ==
  ASSUME NEW Name, NEW Item, NEW c \in Configuration(Name, Item)
  PROVE  /\ c.sec \in [Section -> Seq(Item)] /\ c.old \in [Section -> Seq(Item)]
         /\ \A s \in Section : c.sec[s] \in Seq(Item) /\ c.old[s] \in Seq(Item)
         /\ c.net \in Seq(Item) /\ c.paths \in Seq(File) /\ c.groups \in TagGroups(Name)
         /\ c.set \in BOOLEAN
         /\ c.sec["repos"] \in Seq(Repository(Name))
         /\ c.old["repos"] \in Seq(Repository(Name))
         /\ c = [sec |-> c.sec, old |-> c.old, net |-> c.net, set |-> c.set,
                 paths |-> c.paths, groups |-> c.groups]
<1>1. /\ c \in [sec : [Section -> Seq(Item)], old : [Section -> Seq(Item)], net : Seq(Item),
                set : BOOLEAN, paths : Seq(File), groups : TagGroups(Name)]
      /\ c.sec["repos"] \in Seq(Repository(Name))
      /\ c.old["repos"] \in Seq(Repository(Name))
  BY DEF Configuration
<1>2. /\ c.sec \in [Section -> Seq(Item)] /\ c.old \in [Section -> Seq(Item)]
      /\ c.net \in Seq(Item) /\ c.paths \in Seq(File) /\ c.groups \in TagGroups(Name)
      /\ c = [sec |-> c.sec, old |-> c.old, net |-> c.net, set |-> c.set,
              paths |-> c.paths, groups |-> c.groups]
  BY <1>1
<1>3. c.set \in BOOLEAN
  BY <1>1
<1>4. \A s \in Section : c.sec[s] \in Seq(Item) /\ c.old[s] \in Seq(Item)
  BY <1>2
<1> QED BY <1>1, <1>2, <1>3, <1>4

LEMMA IsConfiguration ==
  ASSUME NEW Name, NEW Item, NEW c,
         c.sec \in [Section -> Seq(Item)], c.old \in [Section -> Seq(Item)],
         c.net \in Seq(Item), c.paths \in Seq(File), c.groups \in TagGroups(Name),
         c.set \in BOOLEAN,
         c.sec["repos"] \in Seq(Repository(Name)),
         c.old["repos"] \in Seq(Repository(Name)),
         c = [sec |-> c.sec, old |-> c.old, net |-> c.net, set |-> c.set,
              paths |-> c.paths, groups |-> c.groups]
  PROVE  c \in Configuration(Name, Item)
BY DEF Configuration

(* What migrating does.                                                    *)
IsMigrated(m, c) ==
  /\ m.net = <<>> /\ m.paths = c.paths /\ m.groups = c.groups
  /\ m.set = (c.set \/ c.net \o c.net # <<>>)
  /\ \A s \in Section \ {"hosts"} : m.sec[s] = c.sec[s] \o c.old[s] /\ m.old[s] = <<>>
  /\ c.set => /\ m.sec["hosts"] = (c.sec["hosts"] \o c.old["hosts"]) \o (c.net \o c.net)
              /\ m.old["hosts"] = <<>>

LEMMA Migrated ==
  ASSUME NEW Name, NEW Item, NEW c \in Configuration(Name, Item)
  PROVE  Migrate(c) \in Configuration(Name, Item) /\ IsMigrated(Migrate(c), c)
<1> SUFFICES ASSUME NEW m, m = Migrate(c)
             PROVE  m \in Configuration(Name, Item) /\ IsMigrated(m, c)
  OBVIOUS
<1> DEFINE net == c.net \o c.net
           set == c.set \/ net # <<>>
           Stays(s) == s = "hosts" /\ ~set
           Sec(s) == IF Stays(s) THEN c.sec[s]
                     ELSE c.sec[s] \o c.old[s] \o IF s = "hosts" THEN net ELSE <<>>
           Old(s) == IF Stays(s) THEN c.old[s] ELSE <<>>
<1>1. /\ c = [sec |-> c.sec, old |-> c.old, net |-> c.net, set |-> c.set,
              paths |-> c.paths, groups |-> c.groups]
      /\ \A s \in Section : c.sec[s] \in Seq(Item) /\ c.old[s] \in Seq(Item)
      /\ c.net \in Seq(Item) /\ c.paths \in Seq(File) /\ c.groups \in TagGroups(Name)
      /\ c.sec["repos"] \in Seq(Repository(Name)) /\ c.old["repos"] \in Seq(Repository(Name))
  BY Fields
<1>2. m = [sec |-> [s \in Section |-> Sec(s)], old |-> [s \in Section |-> Old(s)],
           net |-> <<>>, set |-> set, paths |-> c.paths, groups |-> c.groups]
  BY <1>1 DEF Migrate
<1>3. net \in Seq(Item) /\ \A s \in Section : c.sec[s] \o c.old[s] \in Seq(Item)
  BY <1>1, ConcatProperties
<1>4. \A s \in Section \ {"hosts"} : Sec(s) = c.sec[s] \o c.old[s] /\ Old(s) = <<>>
  BY <1>3, ConcatEmptySeq
<1>5. \A s \in Section : Sec(s) \in Seq(Item) /\ Old(s) \in Seq(Item)
  BY <1>1, <1>3, ConcatProperties, EmptySeq
<1>6. "repos" \in Section \ {"hosts"} /\ "hosts" \in Section
  BY DEF Section
<1>7. Sec("repos") \in Seq(Repository(Name)) /\ Old("repos") \in Seq(Repository(Name))
  BY <1>1, <1>4, <1>6, ConcatProperties, EmptySeq
<1>8. c.set => Sec("hosts") = (c.sec["hosts"] \o c.old["hosts"]) \o (c.net \o c.net) /\ Old("hosts") = <<>>
  OBVIOUS
<1>9. set \in BOOLEAN
  OBVIOUS
<1> HIDE DEF net, set, Sec, Old
<1>10. /\ m.sec = [s \in Section |-> Sec(s)] /\ m.old = [s \in Section |-> Old(s)]
       /\ m.net = <<>> /\ m.paths = c.paths /\ m.groups = c.groups
       /\ m = [sec |-> m.sec, old |-> m.old, net |-> m.net, set |-> m.set,
               paths |-> m.paths, groups |-> m.groups]
  BY <1>2
<1>11. m.set = set
  BY <1>2
<1>12. m \in Configuration(Name, Item)
  <2>1. m.sec \in [Section -> Seq(Item)] /\ m.old \in [Section -> Seq(Item)]
    BY <1>5, <1>10
  <2>2. m.sec["repos"] \in Seq(Repository(Name)) /\ m.old["repos"] \in Seq(Repository(Name))
    BY <1>6, <1>7, <1>10
  <2>3. m.net \in Seq(Item)
    BY <1>10, EmptySeq
  <2> QED BY <1>1, <1>9, <1>10, <1>11, <2>1, <2>2, <2>3, IsConfiguration
<1>13. \A s \in Section \ {"hosts"} : m.sec[s] = c.sec[s] \o c.old[s] /\ m.old[s] = <<>>
  BY <1>4, <1>10
<1>14. c.set => /\ m.sec["hosts"] = (c.sec["hosts"] \o c.old["hosts"]) \o (c.net \o c.net)
                /\ m.old["hosts"] = <<>>
  <2>1. m.sec["hosts"] = Sec("hosts") /\ m.old["hosts"] = Old("hosts")
    BY <1>6, <1>10
  <2> QED BY <1>8, <2>1
<1>15. m.set = (c.set \/ c.net \o c.net # <<>>)
  BY <1>11 DEF set, net
<1> QED BY <1>10, <1>12, <1>13, <1>14, <1>15 DEF IsMigrated

Joined == Section \ {"projects", "hosts"}

(* What joining does.                                                      *)
IsJoin(j, c, m) ==
  /\ j.net = c.net \o m.net /\ j.paths = c.paths \o m.paths /\ j.groups = c.groups
  /\ j.set = c.set /\ j.old = c.old
  /\ \A s \in Joined : j.sec[s] = c.sec[s] \o m.sec[s]
  /\ \A s \in {"projects", "hosts"} : j.sec[s] = c.sec[s]

LEMMA JoinedFields ==
  ASSUME NEW Name, NEW Item, NEW c \in Configuration(Name, Item),
         NEW m \in Configuration(Name, Item)
  PROVE  Join(c, m) \in Configuration(Name, Item) /\ IsJoin(Join(c, m), c, m)
<1> SUFFICES ASSUME NEW j, j = Join(c, m)
             PROVE  j \in Configuration(Name, Item) /\ IsJoin(j, c, m)
  OBVIOUS
<1> DEFINE Sec(s) == IF s \in {"projects", "hosts"} THEN c.sec[s] ELSE c.sec[s] \o m.sec[s]
<1>1. /\ c = [sec |-> c.sec, old |-> c.old, net |-> c.net, set |-> c.set,
              paths |-> c.paths, groups |-> c.groups]
      /\ \A s \in Section : c.sec[s] \in Seq(Item) /\ m.sec[s] \in Seq(Item)
      /\ c.net \in Seq(Item) /\ c.paths \in Seq(File) /\ c.groups \in TagGroups(Name)
      /\ m.net \in Seq(Item) /\ m.paths \in Seq(File)
      /\ c.old \in [Section -> Seq(Item)] /\ c.old["repos"] \in Seq(Repository(Name))
      /\ c.sec["repos"] \in Seq(Repository(Name)) /\ m.sec["repos"] \in Seq(Repository(Name))
  BY Fields
<1>2. c.set \in BOOLEAN
  BY Fields
<1>3. j = [sec |-> [s \in Section |-> Sec(s)], old |-> c.old, net |-> c.net \o m.net,
           set |-> c.set, paths |-> c.paths \o m.paths, groups |-> c.groups]
  BY <1>1 DEF Join
<1>4. c.net \o m.net \in Seq(Item) /\ c.paths \o m.paths \in Seq(File)
  BY <1>1, ConcatProperties
<1>5. \A s \in Section : Sec(s) \in Seq(Item)
  BY <1>1, ConcatProperties
<1>6. "repos" \in Joined /\ {"projects", "hosts"} \subseteq Section
  BY DEF Joined, Section
<1>7. Sec("repos") \in Seq(Repository(Name))
  BY <1>1, ConcatProperties
<1>8. /\ \A s \in Joined : Sec(s) = c.sec[s] \o m.sec[s]
      /\ \A s \in {"projects", "hosts"} : Sec(s) = c.sec[s]
  BY DEF Joined
<1> DEFINE n == c.net \o m.net
           p == c.paths \o m.paths
<1>13. j = [sec |-> [s \in Section |-> Sec(s)], old |-> c.old, net |-> n,
            set |-> c.set, paths |-> p, groups |-> c.groups]
  BY <1>3
<1> HIDE DEF Sec, n, p
<1>14. /\ j.sec = [s \in Section |-> Sec(s)] /\ j.old = c.old
       /\ j.net = n /\ j.paths = p /\ j.groups = c.groups
       /\ j = [sec |-> j.sec, old |-> j.old, net |-> j.net, set |-> j.set,
               paths |-> j.paths, groups |-> j.groups]
  BY <1>13
<1>9. /\ j.sec = [s \in Section |-> Sec(s)] /\ j.old = c.old
      /\ j.net = c.net \o m.net /\ j.paths = c.paths \o m.paths /\ j.groups = c.groups
      /\ j = [sec |-> j.sec, old |-> j.old, net |-> j.net, set |-> j.set,
               paths |-> j.paths, groups |-> j.groups]
  BY <1>14 DEF n, p
<1>10. j.set = c.set
  BY <1>13
<1>11. j \in Configuration(Name, Item)
  <2>1. j.sec \in [Section -> Seq(Item)]
    BY <1>5, <1>9
  <2>2. j.sec["repos"] \in Seq(Repository(Name))
    BY <1>6, <1>7, <1>9 DEF Joined
  <2> QED BY <1>1, <1>2, <1>4, <1>9, <1>10, <2>1, <2>2, IsConfiguration
<1>12. /\ \A s \in Joined : j.sec[s] = c.sec[s] \o m.sec[s]
       /\ \A s \in {"projects", "hosts"} : j.sec[s] = c.sec[s]
  BY <1>6, <1>8, <1>9 DEF Joined
<1> QED BY <1>9, <1>10, <1>11, <1>12 DEF IsJoin

-----------------------------------------------------------------------------
(* What the parts of a file hold.                                          *)

LEMMA TwoAreJoined ==
  ASSUME NEW S, NEW c \in S, NEW d \in S
  PROVE  /\ <<c>> \o <<d>> = <<c, d>> /\ Append(<<c>>, d) = <<c, d>>
         /\ <<c>> \in Seq(S) /\ <<c, d>> \in Seq(S)
<1>1. <<c>> \in Seq(S) /\ <<d>> \in Seq(S) /\ <<c, d>> \in Seq(S)
  OBVIOUS
<1>2. Append(<<c>>, d) = <<c>> \o <<d>>
  BY <1>1, AppendIsConcat
<1>3. Append(<<c>>, d) = <<c, d>>
  <2> DEFINE v == Append(<<c>>, d)
             w == <<c, d>>
  <2>1. v \in Seq(S) /\ Len(v) = 2 /\ v[1] = c /\ v[2] = d
    BY <1>1, AppendProperties
  <2>2. w \in Seq(S) /\ Len(w) = 2 /\ w[1] = c /\ w[2] = d
    BY <1>1
  <2> HIDE DEF v, w
  <2>3. \A i \in 1 .. 2 : v[i] = w[i]
    BY <2>1, <2>2
  <2>4. v = w
    BY <2>1, <2>2, <2>3, SeqEqual
  <2> QED BY <2>4 DEF v, w
<1> QED BY <1>1, <1>2, <1>3

LEMMA PartsAre ==
  ASSUME NEW Name, NEW Item, NEW f, IsFile(f, Name, Item)
  PROVE  /\ PartsOf(f) \in Seq(Configuration(Name, Item))
         /\ \/ PartsOf(f) = <<>>
            \/ \E c \in Configuration(Name, Item) : PartsOf(f) = <<c>>
            \/ \E c, d \in Configuration(Name, Item) : PartsOf(f) = <<c, d>>
<1> DEFINE C == Configuration(Name, Item)
<1>1. \/ f.kind = "unreadable"
      \/ f.kind = "plain" /\ f.conf \in C
      \/ f.kind = "split" /\ f.global \in AtMostOne(C) /\ f.here \in AtMostOne(C)
  BY DEF IsFile
<1> HIDE DEF C
<1> DEFINE Few(p) == p = <<>> \/ (\E c \in C : p = <<c>>) \/ (\E c, d \in C : p = <<c, d>>)
<1>2. \A p : Few(p) => p \in Seq(C)
  <2> SUFFICES ASSUME NEW p, Few(p) PROVE p \in Seq(C)
    OBVIOUS
  <2>1. CASE p = <<>>
    BY <2>1
  <2>2. ASSUME NEW c \in C, p = <<c>> PROVE p \in Seq(C)
    BY <2>2
  <2>3. ASSUME NEW c \in C, NEW d \in C, p = <<c, d>> PROVE p \in Seq(C)
    BY <2>3
  <2> QED BY <2>1, <2>2, <2>3
<1>3. CASE f.kind = "unreadable"
  <2>1. PartsOf(f) = <<>>
    BY <1>3 DEF PartsOf
  <2> QED BY <1>2, <2>1 DEF C
<1>4. CASE f.kind = "plain" /\ f.conf \in C
  <2>1. PartsOf(f) = <<f.conf>>
    BY <1>4 DEF PartsOf
  <2> QED BY <1>2, <1>4, <2>1 DEF C
<1>5. CASE f.kind = "split" /\ f.global \in AtMostOne(C) /\ f.here \in AtMostOne(C)
  <2>1. PartsOf(f) = f.global \o f.here
    BY <1>5 DEF PartsOf
  <2>2. f.global = <<>> \/ \E c \in C : f.global = <<c>>
    BY <1>5 DEF AtMostOne
  <2>3. f.here = <<>> \/ \E d \in C : f.here = <<d>>
    BY <1>5 DEF AtMostOne
  <2>4. Few(f.global \o f.here)
    <3>1. CASE f.global = <<>> \/ f.here = <<>>
      <4>1. f.global \in Seq(C) /\ f.here \in Seq(C)
        BY <1>2, <2>2, <2>3
      <4>2. f.global \o f.here = f.here \/ f.global \o f.here = f.global
        BY <3>1, <4>1, ConcatEmptySeq
      <4> QED BY <2>2, <2>3, <4>2
    <3>2. ASSUME NEW c \in C, NEW d \in C, f.global = <<c>>, f.here = <<d>>
          PROVE  Few(f.global \o f.here)
      <4>1. <<c>> \o <<d>> = <<c, d>>
        BY TwoAreJoined
      <4> QED BY <3>2, <4>1
    <3> QED BY <2>2, <2>3, <3>1, <3>2
  <2> QED BY <1>2, <2>1, <2>4 DEF C
<1> QED BY <1>1, <1>3, <1>4, <1>5

Row(p, s) == p.sec[s] \o p.old[s] \o IF s = "hosts" THEN p.net ELSE <<>>

LEMMA RowOcc ==
  ASSUME NEW Name, NEW Item, NEW p \in Configuration(Name, Item), NEW s \in Section, NEW T
  PROVE  /\ Row(p, s) \in Seq(Item)
         /\ Occ(Row(p, s), T) = Occ(p.sec[s], T) + Occ(p.old[s], T)
                                  + IF s = "hosts" THEN Occ(p.net, T) ELSE 0
<1> DEFINE a == p.sec[s]
           b == p.old[s]
           c == IF s = "hosts" THEN p.net ELSE <<>>
<1>1. a \in Seq(Item) /\ b \in Seq(Item) /\ c \in Seq(Item)
  BY Fields
<1>2. Occ(c, T) = IF s = "hosts" THEN Occ(p.net, T) ELSE 0
  BY OccEmpty
<1>3. Row(p, s) = (a \o b) \o c
  BY DEF Row
<1> HIDE DEF a, b, c
<1>4. a \o b \in Seq(Item) /\ Occ(a \o b, T) = Occ(a, T) + Occ(b, T)
  BY <1>1, OccConcat, ConcatProperties
<1> DEFINE ab == a \o b
<1>5. ab \in Seq(Item) /\ Occ(ab, T) = Occ(a, T) + Occ(b, T) /\ Row(p, s) = ab \o c
  BY <1>3, <1>4
<1> HIDE DEF ab
<1>6. ab \o c \in Seq(Item) /\ Occ(ab \o c, T) = Occ(ab, T) + Occ(c, T)
  BY <1>1, <1>5, OccConcat, ConcatProperties
<1> QED BY <1>2, <1>5, <1>6 DEF a, b

LEMMA InAppend ==
  ASSUME NEW Name, NEW Item, NEW ps \in Seq(Configuration(Name, Item)),
         NEW p \in Configuration(Name, Item), NEW s \in Section
  PROVE  /\ In(ps, s) \in Seq(Item)
         /\ In(Append(ps, p), s) = In(ps, s) \o Row(p, s)
<1> DEFINE C == Configuration(Name, Item)
           n == Len(ps)
           qs == Append(ps, p)
           rows == [i \in DOMAIN ps |-> Row(ps[i], s)]
           more == [i \in DOMAIN qs |-> Row(qs[i], s)]
<1>1. /\ n \in Nat /\ DOMAIN ps = 1 .. n /\ DOMAIN qs = 1 .. n + 1
      /\ \A i \in 1 .. n : ps[i] \in C /\ qs[i] = ps[i]
      /\ qs[n + 1] = p
  BY AppendProperties
<1>2. In(ps, s) = FlattenSeq(rows) /\ In(qs, s) = FlattenSeq(more)
  BY DEF In, Row
<1>3. \A c \in C : Row(c, s) \in Seq(Item)
  BY RowOcc
<1> HIDE DEF C, qs
<1>4. rows \in Seq(Seq(Item)) /\ Len(rows) = n /\ DOMAIN rows = 1 .. n
  <2>1. rows \in [1 .. n -> Seq(Item)]
    BY <1>1, <1>3
  <2>2. rows \in Seq(Seq(Item))
    BY <1>1, <2>1, SeqDef
  <2> QED BY <1>1, <2>1, <2>2
<1>5. more = Append(rows, Row(p, s))
  <2> DEFINE r == Row(p, s)
             v == Append(rows, r)
  <2>1. r \in Seq(Item)
    BY <1>3 DEF C
  <2>2. more \in [1 .. n + 1 -> Seq(Item)]
    <3>1. \A i \in 1 .. n + 1 : qs[i] \in C
      <4> SUFFICES ASSUME NEW i \in 1 .. n + 1 PROVE qs[i] \in C
        OBVIOUS
      <4>1. CASE i \in 1 .. n
        BY <1>1, <4>1
      <4>2. CASE i = n + 1
        BY <1>1, <4>2 DEF C
      <4> QED BY <1>1, <4>1, <4>2
    <3> QED BY <1>1, <1>3, <3>1
  <2>3. more \in Seq(Seq(Item)) /\ Len(more) = n + 1
    <3>1. n + 1 \in Nat
      BY <1>1
    <3>2. more \in Seq(Seq(Item))
      BY <2>2, <3>1, SeqDef
    <3> QED BY <2>2, <3>1, <3>2
  <2> HIDE DEF r
  <2>4. /\ v \in Seq(Seq(Item)) /\ Len(v) = n + 1
        /\ \A i \in 1 .. n : v[i] = rows[i]
        /\ v[n + 1] = r
    BY <1>4, <2>1, AppendProperties
  <2>5. \A i \in 1 .. n + 1 : more[i] = v[i]
    <3> SUFFICES ASSUME NEW i \in 1 .. n + 1 PROVE more[i] = v[i]
      OBVIOUS
    <3> HIDE DEF v
    <3>1. CASE i \in 1 .. n
      BY <1>1, <2>4, <3>1
    <3>2. CASE i = n + 1
      BY <1>1, <2>4, <3>2 DEF r
    <3> QED BY <1>1, <3>1, <3>2
  <2> HIDE DEF more, v
  <2>6. more = v
    BY <2>3, <2>4, <2>5, SeqEqual
  <2> QED BY <2>6 DEF v, r
<1>6. Row(p, s) \in Seq(Item)
  BY RowOcc
<1> HIDE DEF rows, more
<1>7. FlattenSeq(rows) \in Seq(Item)
  BY <1>4, Flattened
<1>8. FlattenSeq(more) = FlattenSeq(rows) \o Row(p, s)
  BY <1>4, <1>5, <1>6, FlattenAppend
<1> QED BY <1>2, <1>7, <1>8 DEF qs

LEMMA InEmpty == \A s : In(<<>>, s) = <<>>
<1> SUFFICES ASSUME NEW s PROVE In(<<>>, s) = <<>>
  OBVIOUS
<1> DEFINE rows == [i \in DOMAIN <<>> |-> Row(<<>>[i], s)]
<1>1. In(<<>>, s) = FlattenSeq(rows)
  BY DEF In, Row
<1>2. rows = <<>>
  OBVIOUS
<1> QED BY <1>1, <1>2, FlattenEmpty

LEMMA InOcc ==
  ASSUME NEW Name, NEW Item, NEW s \in Section, NEW T
  PROVE  /\ \A ps \in Seq(Configuration(Name, Item)) :
              In(ps, s) \in Seq(Item) /\ Occ(In(ps, s), T) \in Nat
         /\ \A p \in Configuration(Name, Item) : Occ(Row(p, s), T) \in Nat
         /\ Occ(In(<<>>, s), T) = 0
<1> DEFINE C == Configuration(Name, Item)
<1>1. \A p \in C : Row(p, s) \in Seq(Item)
  BY RowOcc
<1>2. \A ps \in Seq(C) : In(ps, s) \in Seq(Item)
  <2> SUFFICES ASSUME NEW ps \in Seq(C) PROVE In(ps, s) \in Seq(Item)
    OBVIOUS
  <2>1. CASE ps = <<>>
    BY <2>1, InEmpty, EmptySeq
  <2>2. CASE ps # <<>>
    <3>1. \E p \in C : TRUE
      BY <2>2, SequenceEmptyOrAppend
    <3> QED BY <3>1, InAppend
  <2> QED BY <2>1, <2>2
<1>4. Occ(In(<<>>, s), T) = 0
  BY InEmpty, OccEmpty
<1>5. \A p \in C : Occ(Row(p, s), T) \in Nat
  BY <1>1, OccFinite
<1>7. \A ps \in Seq(C) : Occ(In(ps, s), T) \in Nat
  BY <1>2, OccFinite
<1> HIDE DEF C
<1> QED BY <1>2, <1>4, <1>5, <1>7 DEF C

LEMMA InOne ==
  ASSUME NEW Name, NEW Item, NEW p \in Configuration(Name, Item), NEW s \in Section
  PROVE  In(<<p>>, s) = Row(p, s) /\ Row(p, s) \in Seq(Item)
<1> DEFINE C == Configuration(Name, Item)
           w == <<>>
<1>1. Append(<<>>, p) = <<p>> /\ w \in Seq(C)
  OBVIOUS
<1> HIDE DEF w
<1>2. In(Append(w, p), s) = In(w, s) \o Row(p, s)
  BY <1>1, InAppend
<1>3. Row(p, s) \in Seq(Item)
  BY RowOcc
<1>4. <<>> \o Row(p, s) = Row(p, s)
  BY <1>3, ConcatEmptySeq
<1> QED BY <1>1, <1>2, <1>3, <1>4, InEmpty DEF w

LEMMA OneOcc ==
  ASSUME NEW Name, NEW Item, NEW p \in Configuration(Name, Item), NEW s \in Section, NEW T
  PROVE  Occ(In(<<p>>, s), T) = Occ(Row(p, s), T)
<1>1. In(<<p>>, s) = Row(p, s)
  BY InOne
<1> QED BY <1>1

(* Adding the parts of a file adds what they hold.                         *)
LEMMA InConcat ==
  ASSUME NEW Name, NEW Item, NEW f, IsFile(f, Name, Item),
         NEW ps \in Seq(Configuration(Name, Item)), NEW s \in Section, NEW T
  PROVE  Occ(In(ps \o PartsOf(f), s), T) = Occ(In(ps, s), T) + Occ(In(PartsOf(f), s), T)
<1> DEFINE C == Configuration(Name, Item)
           qs == PartsOf(f)
           N(xs) == Occ(In(xs, s), T)
<1>1. /\ qs \in Seq(C)
      /\ qs = <<>> \/ (\E c \in C : qs = <<c>>) \/ (\E c, d \in C : qs = <<c, d>>)
  BY PartsAre
<1>2. /\ \A xs \in Seq(C) : N(xs) \in Nat
      /\ \A xs \in Seq(C) : \A p \in C : N(Append(xs, p)) = N(xs) + Occ(Row(p, s), T)
      /\ \A p \in C : N(<<p>>) = Occ(Row(p, s), T) /\ Occ(Row(p, s), T) \in Nat
      /\ N(<<>>) = 0
  <2>1. \A xs \in Seq(C) : N(xs) \in Nat
    BY InOcc
  <2>2. \A xs \in Seq(C) : \A p \in C : N(Append(xs, p)) = N(xs) + Occ(Row(p, s), T)
    <3> SUFFICES ASSUME NEW xs \in Seq(C), NEW p \in C
                 PROVE  N(Append(xs, p)) = N(xs) + Occ(Row(p, s), T)
      OBVIOUS
    <3>1. In(Append(xs, p), s) = In(xs, s) \o Row(p, s) /\ In(xs, s) \in Seq(Item)
      BY InAppend
    <3>2. Row(p, s) \in Seq(Item)
      BY RowOcc
    <3> QED BY <3>1, <3>2, OccConcat
  <2>3. \A p \in C : N(<<p>>) = Occ(Row(p, s), T) /\ Occ(Row(p, s), T) \in Nat
    <3> SUFFICES ASSUME NEW p \in C
                 PROVE  N(<<p>>) = Occ(Row(p, s), T) /\ Occ(Row(p, s), T) \in Nat
      OBVIOUS
    <3>1. N(<<p>>) = Occ(Row(p, s), T)
      BY OneOcc
    <3>2. Occ(Row(p, s), T) \in Nat
      BY InOcc
    <3> QED BY <3>1, <3>2
  <2>4. N(<<>>) = 0
    BY InOcc
  <2> QED BY <2>1, <2>2, <2>3, <2>4
<1> HIDE DEF C, qs, N
<1>3. CASE qs = <<>>
  <2>1. ps \o qs = ps
    BY <1>3, ConcatEmptySeq DEF C
  <2> QED BY <1>2, <1>3, <2>1 DEF qs, N, C
<1>4. ASSUME NEW c \in C, qs = <<c>>
      PROVE  N(ps \o qs) = N(ps) + N(qs)
  <2>1. ps \o qs = Append(ps, c) /\ ps \in Seq(C)
    BY <1>4, AppendIsConcat DEF C
  <2> QED BY <1>2, <1>4, <2>1
<1>5. ASSUME NEW c \in C, NEW d \in C, qs = <<c, d>>
      PROVE  N(ps \o qs) = N(ps) + N(qs)
  <2>1. /\ ps \in Seq(C) /\ <<c>> \in Seq(C) /\ <<d>> \in Seq(C) /\ <<c, d>> = <<c>> \o <<d>>
        /\ <<c, d>> = Append(<<c>>, d)
    <3> ps \in Seq(C)
      BY DEF C
    <3> QED BY TwoAreJoined
  <2>2. (ps \o <<c>>) \o <<d>> = ps \o (<<c>> \o <<d>>)
    BY <2>1, ConcatAssociative
  <2>3. ps \o <<c>> = Append(ps, c) /\ Append(ps, c) \in Seq(C)
    BY <2>1, AppendIsConcat, AppendProperties
  <2>4. Append(ps, c) \o <<d>> = Append(Append(ps, c), d)
    BY <2>3, AppendIsConcat
  <2>5. ps \o qs = Append(Append(ps, c), d)
    BY <1>5, <2>1, <2>2, <2>3, <2>4
  <2>6. N(Append(Append(ps, c), d)) = N(ps) + Occ(Row(c, s), T) + Occ(Row(d, s), T)
    BY <1>2, <2>1, <2>3
  <2>7. N(qs) = Occ(Row(c, s), T) + Occ(Row(d, s), T)
    BY <1>2, <1>5, <2>1
  <2>8. N(ps) \in Nat /\ Occ(Row(c, s), T) \in Nat /\ Occ(Row(d, s), T) \in Nat
    BY <1>2, <2>1
  <2> QED BY <2>5, <2>6, <2>7, <2>8
<1> QED BY <1>1, <1>3, <1>4, <1>5 DEF qs, N

-----------------------------------------------------------------------------
(* What reading a file keeps.                                              *)

(* The items of a section, in their present and in their old place.        *)
Both(c, s, T) == Occ(c.sec[s], T) + Occ(c.old[s], T)

(* What a configuration has of the parts of a file, but for the sections   *)
(* that are not joined, of which it has what is in the first part.         *)
Reads(c, f) ==
  /\ \A T : \A s \in Joined : Both(c, s, T) = Occ(In(PartsOf(f), s), T)
  /\ \A s \in {"projects", "hosts"} :
       c.sec[s] = PartsOf(f)[1].sec[s] /\ c.old[s] = PartsOf(f)[1].old[s]
  /\ c.net = PartsOf(f)[1].net
  /\ PartsOf(f) # <<>>

LEMMA BothMigrated ==
  ASSUME NEW Name, NEW Item, NEW c \in Configuration(Name, Item),
         NEW m \in Configuration(Name, Item), IsMigrated(m, c)
  PROVE  \A T : \A s \in Section \ {"hosts"} :
           /\ Occ(m.sec[s], T) = Both(c, s, T) /\ Both(m, s, T) = Both(c, s, T)
           /\ Both(c, s, T) \in Nat
<1> SUFFICES ASSUME NEW s \in Section \ {"hosts"}, NEW T
             PROVE  /\ Occ(m.sec[s], T) = Both(c, s, T) /\ Both(m, s, T) = Both(c, s, T)
                    /\ Both(c, s, T) \in Nat
  OBVIOUS
<1>1. c.sec[s] \in Seq(Item) /\ c.old[s] \in Seq(Item)
  BY Fields
<1>2. m.sec[s] = c.sec[s] \o c.old[s] /\ m.old[s] = <<>>
  BY DEF IsMigrated
<1>3. Occ(m.sec[s], T) = Occ(c.sec[s], T) + Occ(c.old[s], T)
  BY <1>1, <1>2, OccConcat
<1>4. Occ(m.old[s], T) = 0 /\ Occ(c.sec[s], T) \in Nat /\ Occ(c.old[s], T) \in Nat
  BY <1>1, <1>2, OccEmpty, OccFinite
<1> QED BY <1>3, <1>4 DEF Both

LEMMA BothJoined ==
  ASSUME NEW Name, NEW Item, NEW c \in Configuration(Name, Item),
         NEW m \in Configuration(Name, Item), NEW j, IsJoin(j, c, m)
  PROVE  \A T : \A s \in Joined : Both(j, s, T) = Both(c, s, T) + Occ(m.sec[s], T)
<1> SUFFICES ASSUME NEW s \in Joined, NEW T
             PROVE  Both(j, s, T) = Both(c, s, T) + Occ(m.sec[s], T)
  OBVIOUS
<1>1. c.sec[s] \in Seq(Item) /\ m.sec[s] \in Seq(Item) /\ c.old[s] \in Seq(Item)
  BY Fields DEF Joined
<1>2. j.sec[s] = c.sec[s] \o m.sec[s] /\ j.old = c.old
  BY DEF IsJoin
<1>3. Occ(j.sec[s], T) = Occ(c.sec[s], T) + Occ(m.sec[s], T)
  BY <1>1, <1>2, OccConcat
<1>4. Occ(c.sec[s], T) \in Nat /\ Occ(c.old[s], T) \in Nat /\ Occ(m.sec[s], T) \in Nat
  BY <1>1, OccFinite
<1> QED BY <1>2, <1>3, <1>4 DEF Both

LEMMA ReadKeeps ==
  ASSUME NEW Name, NEW Item, NEW f, IsFile(f, Name, Item),
         NEW r, r = Read(f), r.kind = "conf"
  PROVE  r.conf \in Configuration(Name, Item) /\ Reads(r.conf, f)
<1> DEFINE C == Configuration(Name, Item)
<1>1. \A c : Is(c).kind = "conf" /\ Is(c).conf = c
  BY DEF Is
<1>2. NotRead.kind # "conf" /\ Crash.kind # "conf"
  BY DEF NotRead, Crash
<1>3. \A s \in Joined : s \in Section /\ s # "hosts"
  BY DEF Joined
<1>4. ASSUME NEW s \in Joined, NEW T, NEW p \in C
      PROVE  Occ(In(<<p>>, s), T) = Both(p, s, T) /\ Both(p, s, T) \in Nat
  <2>1. Occ(In(<<p>>, s), T) = Occ(Row(p, s), T)
    <3>1. s \in Section /\ p \in Configuration(Name, Item)
      BY <1>3
    <3> QED BY <3>1, OneOcc
  <2>2. Occ(Row(p, s), T) = Occ(p.sec[s], T) + Occ(p.old[s], T) + 0
    BY <1>3, RowOcc
  <2>3. Occ(p.sec[s], T) \in Nat /\ Occ(p.old[s], T) \in Nat
    <3>1. p.sec[s] \in Seq(Item) /\ p.old[s] \in Seq(Item)
      BY <1>3, Fields
    <3> QED BY <3>1, OccFinite
  <2> QED BY <2>1, <2>2, <2>3 DEF Both
<1>5. ASSUME NEW c \in C, PartsOf(f) = <<c>>, r = Is(c)
      PROVE  r.conf \in C /\ Reads(r.conf, f)
  <2>1. r.conf = c /\ PartsOf(f)[1] = c /\ PartsOf(f) # <<>>
    BY <1>1, <1>5
  <2>2. \A T : \A s \in Joined : Both(c, s, T) = Occ(In(PartsOf(f), s), T)
    BY <1>4, <1>5
  <2> QED BY <2>1, <2>2 DEF Reads
<1>6. CASE f.kind = "plain" /\ f.conf \in C
  <2>1. PartsOf(f) = <<f.conf>> /\ r = Is(f.conf)
    BY <1>6 DEF PartsOf, Read
  <2> QED BY <1>5, <1>6, <2>1
<1>7. CASE f.kind = "unreadable"
  BY <1>2, <1>7 DEF Read
<1>8. CASE f.kind = "split" /\ f.global \in AtMostOne(C) /\ f.here \in AtMostOne(C)
  <2>1. PartsOf(f) = f.global \o f.here /\ r = ReadSplit(f)
    BY <1>8 DEF PartsOf, Read
  <2>2. PICK c \in C : f.global = <<c>>
    <3>1. f.global # <<>>
      BY <1>2, <2>1 DEF ReadSplit
    <3> QED BY <1>8, <3>1 DEF AtMostOne
  <2>3. f.here = <<>> \/ \E d \in C : f.here = <<d>>
    BY <1>8 DEF AtMostOne
  <2>4. CASE f.here = <<>>
    <3>1. <<c>> \o <<>> = <<c>> /\ f.global # <<>> /\ f.global[1] = c
      BY <2>2, ConcatEmptySeq, TwoAreJoined
    <3>2. PartsOf(f) = <<c>> /\ r = Is(c)
      BY <2>1, <2>2, <2>4, <3>1 DEF ReadSplit
    <3> QED BY <1>5, <3>2
  <2>5. ASSUME NEW d \in C, f.here = <<d>>
        PROVE  r.conf \in C /\ Reads(r.conf, f)
    <3> DEFINE m == Migrate(d)
               j == Join(c, m)
    <3>1. f.global # <<>> /\ f.here # <<>> /\ f.global[1] = c /\ f.here[1] = d
      BY <2>2, <2>5
    <3>2. r = IF m.set /\ ~c.set THEN Crash ELSE Is(j)
      BY <2>1, <3>1 DEF ReadSplit
    <3>3. r.conf = j
      BY <1>1, <1>2, <3>2
    <3>4. m \in C /\ m.net = <<>> /\ IsMigrated(m, d)
      <4>1. m \in C /\ IsMigrated(m, d)
        BY Migrated
      <4> QED BY <4>1 DEF IsMigrated
    <3>5. PartsOf(f) = Append(<<c>>, d) /\ PartsOf(f)[1] = c /\ PartsOf(f) # <<>> /\ <<c>> \in Seq(C)
      <4>1. PartsOf(f) = <<c, d>> /\ Append(<<c>>, d) = <<c, d>> /\ <<c>> \in Seq(C)
        BY <2>1, <2>2, <2>5, TwoAreJoined
      <4> QED BY <4>1
    <3> HIDE DEF m
    <3>6. /\ j \in C /\ j.net = c.net /\ j.old = c.old
          /\ \A s \in {"projects", "hosts"} : j.sec[s] = c.sec[s]
      <4>1. /\ j \in C /\ j.net = c.net \o m.net /\ j.old = c.old
            /\ \A s \in {"projects", "hosts"} : j.sec[s] = c.sec[s]
        <5>1. j \in C /\ IsJoin(j, c, m)
          BY <3>4, JoinedFields
        <5> QED BY <5>1 DEF IsJoin
      <4>2. c.net \o <<>> = c.net
        BY Fields, ConcatEmptySeq
      <4> QED BY <3>4, <4>1, <4>2
    <3>7. ASSUME NEW s \in Joined, NEW T
          PROVE  Both(j, s, T) = Occ(In(PartsOf(f), s), T)
      <4>1. Both(j, s, T) = Both(c, s, T) + Occ(m.sec[s], T)
        <5>1. IsJoin(j, c, m)
          BY <3>4, JoinedFields
        <5> HIDE DEF j
        <5> QED BY <3>4, <5>1, BothJoined
      <4>2. Occ(m.sec[s], T) = Both(d, s, T)
        BY <1>3, <3>4, BothMigrated
      <4>3. Occ(In(Append(<<c>>, d), s), T) = Occ(In(<<c>>, s), T) + Occ(Row(d, s), T)
        <5>1. In(Append(<<c>>, d), s) = In(<<c>>, s) \o Row(d, s) /\ In(<<c>>, s) \in Seq(Item)
          <6> DEFINE w == <<c>>
          <6>1. w \in Seq(C) /\ s \in Section
            BY <1>3, <3>5
          <6> HIDE DEF w
          <6>2. In(Append(w, d), s) = In(w, s) \o Row(d, s) /\ In(w, s) \in Seq(Item)
            BY <6>1, InAppend
          <6> QED BY <6>2 DEF w
        <5>2. Row(d, s) \in Seq(Item)
          BY <1>3, RowOcc
        <5> DEFINE u == In(<<c>>, s)
                   v == Row(d, s)
        <5>3. u \in Seq(Item) /\ v \in Seq(Item) /\ In(Append(<<c>>, d), s) = u \o v
          BY <5>1, <5>2
        <5> HIDE DEF u, v
        <5>4. Occ(u \o v, T) = Occ(u, T) + Occ(v, T)
          BY <5>3, OccConcat
        <5> QED BY <5>3, <5>4 DEF u, v
      <4>4. Occ(In(<<c>>, s), T) = Both(c, s, T) /\ Occ(In(<<d>>, s), T) = Both(d, s, T)
        BY <1>4
      <4>5. Occ(In(<<d>>, s), T) = Occ(Row(d, s), T)
        BY <1>3, OneOcc
      <4> QED BY <3>5, <4>1, <4>2, <4>3, <4>4, <4>5
    <3> HIDE DEF j, C
    <3> QED BY <3>3, <3>5, <3>6, <3>7 DEF Reads
  <2> QED BY <2>3, <2>4, <2>5
<1> QED BY <1>6, <1>7, <1>8 DEF IsFile
-----------------------------------------------------------------------------
(* The invariant.  While the configuration is made, what has been read of  *)
(* it is what the files up to the next one hold, and what is made of it    *)
(* follows it; when it is accepted, that is so of the whole.               *)

(* All that has been read: the parts of the main file and of the first     *)
(* k - 1 linked files.                                                     *)
PartsTo(d, ps, k) ==
  PartsOf(d[Main]) \o FlattenSeq([i \in 1 .. k - 1 |-> PartsOf(d[ps[i]])])

IsLinked(f) == Read(f).kind = "conf" /\ ~Read(f).conf.set

(* Unless an error was collected, of which nothing more is said.           *)
AsRead ==
  ~failed =>
    /\ \A T : \A s \in Joined : Both(conf, s, T) = Occ(In(PartsTo(disk, conf.paths, next), s), T)
    /\ \A i \in 1 .. next - 1 : IsLinked(disk[conf.paths[i]])

(* What is not joined is that of the first part.                           *)
IsBase(c, b) ==
  /\ c.net = b.net
  /\ \A s \in {"projects", "hosts"} : c.sec[s] = b.sec[s] /\ c.old[s] = b.old[s]

IsMigratedBase(c, b) ==
  /\ c.sec["projects"] = b.sec["projects"] \o b.old["projects"]
  /\ c.sec["hosts"] = (b.sec["hosts"] \o b.old["hosts"]) \o (b.net \o b.net)
  /\ \A s \in Joined : c.old[s] = <<>>

Collected(Name, Item) ==
  /\ conf \in Configuration(Name, Item)
  /\ next \in Nat /\ 1 <= next /\ next <= Len(conf.paths) + 1
  /\ AsRead
  /\ PartsOf(disk[Main]) # <<>>
  /\ IF phase = "migrate" THEN next = 1 /\ IsBase(conf, PartsOf(disk[Main])[1])
                          ELSE IsMigratedBase(conf, PartsOf(disk[Main])[1])
  /\ phase \in {"index", "groups", "validate"} => next = Len(conf.paths) + 1

ConcreteJobs ==
  {Job("pull", <<r.name>>, {r}) : r \in {r \in Repos : Active(r)}}
    \cup {Job("update", <<r.name>>, {r}) : r \in {r \in Repos : Active(r) /\ r.sync}}

Batch(t) == {lookup[n] : n \in Range(tags[t])}

Live == {t \in DOMAIN tags : \E r \in Batch(t) : Active(r)}

TagJobs == {Job(g, <<"tag", t>>, Batch(t)) : g \in {"pull", "update"}, t \in Live}

HasJobs == jobs = ConcreteJobs \cup (IF phase = "validate" THEN TagJobs ELSE {})

RepoNames == {r.name : r \in Repos}

(* The index, of which nothing is said when there are tag groups: it would *)
(* not be accepted.                                                        *)
Indexed(Name) ==
  /\ IsInjective(NamesOf(conf.sec["repos"]))
  /\ DOMAIN lookup = RepoNames
  /\ \A n \in RepoNames : lookup[n].name = n
  /\ DOMAIN conf.groups = {} =>
       /\ DOMAIN tags = UNION {r.tags : r \in Repos}
       /\ \A t \in DOMAIN tags :
            tags[t] \in Seq(Name) /\ Range(tags[t]) = {r.name : r \in {r \in Repos : t \in r.tags}}

(* A tag group is in the index when it is not left.                        *)
Groups ==
  /\ left \subseteq DOMAIN conf.groups
  /\ \A g \in DOMAIN conf.groups : g \in left \/ g \in DOMAIN tags
  /\ phase = "validate" => left = {}

Started == phase \in {"index", "groups", "validate"}

LoadInv(Name, Item) ==
  /\ disk \in Disks
  /\ phase = "read" => ~failed /\ next = 1
  /\ phase \in {"migrate", "link"} \/ Started => Collected(Name, Item)
  /\ Started => HasJobs
  /\ phase \in {"groups", "validate"} => Indexed(Name) /\ Groups /\ \A n \in RepoNames : lookup[n] \in Repos
  /\ Accepted => /\ conf \in Configuration(Name, Item)
                 /\ Indexed(Name) /\ DOMAIN conf.groups = {}
                 /\ ConfiguredOnce /\ AcceptedIsValid /\ ActiveHaveCommands
  /\ phase \in {"done", "error"} /\ request[1] \notin {"list", "publish"} =>
       request[2] \in Seq(Name) /\ found = FindAll(request[2])

-----------------------------------------------------------------------------
(* Reading one more file.                                                  *)

LEMMA DiskFiles ==
  ASSUME NEW Name, NEW Item, AreFiles(Name, Item), NEW d \in Disks
  PROVE  /\ IsFile(d[Main], Name, Item)
         /\ \A n \in File : IsFile(d[n], Name, Item)
BY DEF AreFiles

LEMMA PartsToNext ==
  ASSUME NEW Name, NEW Item, AreFiles(Name, Item), NEW d \in Disks,
         NEW ps \in Seq(File), NEW k \in 1 .. Len(ps)
  PROVE  PartsTo(d, ps, k + 1) = PartsTo(d, ps, k) \o PartsOf(d[ps[k]])
<1> DEFINE C == Configuration(Name, Item)
           u == [i \in 1 .. k - 1 |-> PartsOf(d[ps[i]])]
           v == [i \in 1 .. k |-> PartsOf(d[ps[i]])]
           p == PartsOf(d[ps[k]])
           m == PartsOf(d[Main])
<1>1. \A i \in 1 .. k : i \in 1 .. Len(ps) /\ ps[i] \in File
  OBVIOUS
<1>2. k \in 1 .. k /\ k - 1 \in Nat /\ \A i \in 1 .. k - 1 : i \in 1 .. k
  OBVIOUS
<1>3. \A n \in File : PartsOf(d[n]) \in Seq(C)
  BY DiskFiles, PartsAre
<1>4. m \in Seq(C) /\ p \in Seq(C)
  BY <1>1, <1>2, <1>3, DiskFiles, PartsAre
<1>5. u \in [1 .. k - 1 -> Seq(C)] /\ v \in [1 .. k -> Seq(C)]
  BY <1>1, <1>2, <1>3
<1>6. u \in Seq(Seq(C)) /\ v \in Seq(Seq(C)) /\ Len(u) = k - 1 /\ Len(v) = k
  <2>1. u \in Seq(Seq(C))
    <3>1. u \in [1 .. k - 1 -> Seq(C)] /\ k - 1 \in Nat
      BY <1>2, <1>5
    <3> QED BY <3>1, SeqDef
  <2>2. v \in Seq(Seq(C))
    <3>1. v \in [1 .. k -> Seq(C)] /\ k \in Nat
      BY <1>2, <1>5
    <3> QED BY <3>1, SeqDef
  <2> QED BY <1>2, <1>5, <2>1, <2>2
<1>7. (\A i \in 1 .. k - 1 : v[i] = u[i]) /\ v[k] = p
  BY <1>2
<1>8. PartsTo(d, ps, k + 1) = m \o FlattenSeq(v) /\ PartsTo(d, ps, k) = m \o FlattenSeq(u)
  <2>1. k + 1 - 1 = k
    OBVIOUS
  <2> QED BY <2>1 DEF PartsTo
<1> HIDE DEF u, v, p, m, C
<1>9. v = Append(u, p)
  <2> DEFINE w == Append(u, p)
  <2>1. /\ w \in Seq(Seq(C)) /\ Len(w) = (k - 1) + 1
        /\ \A i \in 1 .. k - 1 : w[i] = u[i]
        /\ w[(k - 1) + 1] = p
    BY <1>4, <1>6, AppendProperties
  <2> HIDE DEF w
  <2>2. Len(w) = k /\ w[k] = p
    BY <1>2, <2>1
  <2>3. \A i \in 1 .. k : w[i] = v[i]
    <3> SUFFICES ASSUME NEW i \in 1 .. k PROVE w[i] = v[i]
      OBVIOUS
    <3>1. i = k \/ i \in 1 .. k - 1
      OBVIOUS
    <3> QED BY <1>7, <2>1, <2>2, <3>1
  <2>4. v = w
    BY <1>6, <2>1, <2>2, <2>3, SeqEqual
  <2> QED BY <2>4 DEF w
<1>10. FlattenSeq(v) = FlattenSeq(u) \o p /\ FlattenSeq(u) \in Seq(C)
  BY <1>4, <1>6, <1>9, FlattenAppend, Flattened
<1> DEFINE x == FlattenSeq(u)
<1>11. x \in Seq(C) /\ FlattenSeq(v) = x \o p /\ FlattenSeq(u) = x
  BY <1>10
<1> HIDE DEF x
<1>12. m \o (x \o p) = (m \o x) \o p
  <2>1. m \in Seq(C) /\ x \in Seq(C) /\ p \in Seq(C)
    BY <1>4, <1>11
  <2>2. (m \o x) \o p = m \o (x \o p)
    BY <2>1, ConcatAssociative
  <2> QED BY <2>2
<1> QED BY <1>8, <1>11, <1>12 DEF p

LEMMA PartsToOne ==
  ASSUME NEW Name, NEW Item, AreFiles(Name, Item), NEW d \in Disks, NEW ps
  PROVE  PartsTo(d, ps, 1) = PartsOf(d[Main])
<1>1. [i \in 1 .. 1 - 1 |-> PartsOf(d[ps[i]])] = <<>>
  OBVIOUS
<1>2. PartsOf(d[Main]) \in Seq(Configuration(Name, Item))
  BY DiskFiles, PartsAre
<1>3. PartsOf(d[Main]) \o <<>> = PartsOf(d[Main])
  BY <1>2, ConcatEmptySeq
<1> QED BY <1>1, <1>3, FlattenEmpty DEF PartsTo

(* Files that are linked later do not matter.                              *)
LEMMA PartsToConcat ==
  ASSUME NEW ps \in Seq(File), NEW qs \in Seq(File), NEW d,
         NEW k \in 1 .. Len(ps) + 1
  PROVE  /\ PartsTo(d, ps \o qs, k) = PartsTo(d, ps, k)
         /\ \A i \in 1 .. k - 1 : (ps \o qs)[i] = ps[i]
<1>1. \A i \in 1 .. k - 1 : (ps \o qs)[i] = ps[i]
  <2> SUFFICES ASSUME NEW i \in 1 .. k - 1 PROVE (ps \o qs)[i] = ps[i]
    OBVIOUS
  <2>1. i \in 1 .. Len(ps)
    OBVIOUS
  <2> QED BY <2>1, ConcatProperties
<1> DEFINE w == ps \o qs
<1> HIDE DEF w
<1>2. [i \in 1 .. k - 1 |-> PartsOf(d[w[i]])] = [i \in 1 .. k - 1 |-> PartsOf(d[ps[i]])]
  BY <1>1 DEF w
<1>3. PartsTo(d, w, k) = PartsTo(d, ps, k)
  BY <1>2 DEF PartsTo
<1> QED BY <1>1, <1>3 DEF w

LEMMA PartsToAre ==
  ASSUME NEW Name, NEW Item, AreFiles(Name, Item), NEW d \in Disks,
         NEW ps \in Seq(File), NEW k \in 1 .. Len(ps) + 1
  PROVE  PartsTo(d, ps, k) \in Seq(Configuration(Name, Item))
<1> DEFINE C == Configuration(Name, Item)
           u == [i \in 1 .. k - 1 |-> PartsOf(d[ps[i]])]
           m == PartsOf(d[Main])
<1>1. \A i \in 1 .. k - 1 : i \in 1 .. Len(ps) /\ ps[i] \in File
  OBVIOUS
<1>2. \A n \in File : PartsOf(d[n]) \in Seq(C)
  BY DiskFiles, PartsAre
<1>3. m \in Seq(C)
  BY DiskFiles, PartsAre
<1>4. u \in Seq(Seq(C))
  <2>1. u \in [1 .. k - 1 -> Seq(C)] /\ k - 1 \in Nat
    BY <1>1, <1>2
  <2> QED BY <2>1, SeqDef
<1>5. PartsTo(d, ps, k) = m \o FlattenSeq(u)
  BY DEF PartsTo
<1> HIDE DEF C, u, m
<1>6. FlattenSeq(u) \in Seq(C)
  BY <1>4, Flattened
<1> QED BY <1>3, <1>5, <1>6, ConcatProperties DEF C
(* What linking a file keeps and adds.                                     *)
IsLinking(j, c, f) ==
  /\ \A T : \A s \in Joined : Both(j, s, T) = Both(c, s, T) + Occ(In(PartsOf(f), s), T)
  /\ j.old = c.old
  /\ \A s \in {"projects", "hosts"} : j.sec[s] = c.sec[s]
  /\ \E qs \in Seq(File) : j.paths = c.paths \o qs

LEMMA Linking ==
  ASSUME NEW Name, NEW Item, NEW c \in Configuration(Name, Item),
         NEW f, IsFile(f, Name, Item), NEW r, r = Read(f), r.kind = "conf",
         NEW j, j = Join(c, Migrate(r.conf))
  PROVE  j \in Configuration(Name, Item) /\ IsLinking(j, c, f)
<1> DEFINE C == Configuration(Name, Item)
           e == r.conf
           m == Migrate(e)
<1>1. e \in C /\ Reads(e, f)
  BY ReadKeeps
<1> HIDE DEF e
<1>2. m \in C /\ IsMigrated(m, e)
  BY <1>1, Migrated
<1>a. j = Join(c, m)
  BY DEF e
<1> HIDE DEF m
<1>3. j \in C /\ IsJoin(j, c, m)
  BY <1>2, <1>a, JoinedFields
<1>4. ASSUME NEW s \in Joined, NEW T
      PROVE  Both(j, s, T) = Both(c, s, T) + Occ(In(PartsOf(f), s), T)
  <2>1. Both(j, s, T) = Both(c, s, T) + Occ(m.sec[s], T)
    BY <1>2, <1>3, BothJoined
  <2>2. s \in Section \ {"hosts"}
    BY DEF Joined
  <2>3. Occ(m.sec[s], T) = Both(e, s, T)
    BY <1>1, <1>2, <2>2, BothMigrated
  <2>4. Both(e, s, T) = Occ(In(PartsOf(f), s), T)
    BY <1>1 DEF Reads
  <2> QED BY <2>1, <2>3, <2>4
<1>5. /\ j.old = c.old
      /\ \A s \in {"projects", "hosts"} : j.sec[s] = c.sec[s]
      /\ j.paths = c.paths \o m.paths
  BY <1>3 DEF IsJoin
<1>6. m.paths \in Seq(File)
  BY <1>2, Fields
<1> QED BY <1>3, <1>4, <1>5, <1>6 DEF IsLinking

-----------------------------------------------------------------------------
(* The steps that read.                                                    *)

LEMMA ReadMainKeeps ==
  ASSUME NEW Name, NEW Item, AreFiles(Name, Item), LoadInv(Name, Item), ReadMain
  PROVE  LoadInv(Name, Item)'
<1> DEFINE r == Read(disk[Main])
           f == disk[Main]
<1>1. disk \in Disks /\ phase = "read" /\ ~failed /\ next = 1
  BY DEF LoadInv, ReadMain
<1>2. disk' = disk /\ next' = next /\ failed' = failed
  BY DEF ReadMain
<1>3. CASE phase' \in {"rejected", "panic"}
  BY <1>1, <1>2, <1>3 DEF LoadInv, Accepted, Started
<1>4. CASE r.kind = "conf" /\ conf' = r.conf /\ phase' = "migrate"
  <2>1. IsFile(f, Name, Item)
    BY <1>1, DiskFiles
  <2>2. conf' \in Configuration(Name, Item) /\ Reads(conf', f)
    BY <1>4, <2>1, ReadKeeps
  <2>3. PartsTo(disk, conf'.paths, 1) = PartsOf(f)
    BY <1>1, PartsToOne
  <2>4. conf'.paths \in Seq(File)
    BY <2>2, Fields
  <2>5. next' \in Nat /\ 1 <= next' /\ next' <= Len(conf'.paths) + 1
    BY <1>1, <1>2, <2>4
  <2>6. AsRead'
    <3>1. \A i \in 1 .. next' - 1 : FALSE
      BY <1>1, <1>2
    <3>2. \A T : \A s \in Joined : Both(conf', s, T) = Occ(In(PartsTo(disk', conf'.paths, next'), s), T)
      BY <1>1, <1>2, <2>2, <2>3 DEF Reads
    <3> QED BY <3>1, <3>2 DEF AsRead
  <2>7. PartsOf(f) # <<>> /\ IsBase(conf', PartsOf(f)[1])
    BY <2>2 DEF Reads, IsBase
  <2>8. Collected(Name, Item)'
    BY <1>1, <1>2, <1>4, <2>2, <2>5, <2>6, <2>7 DEF Collected
  <2> QED BY <1>1, <1>2, <1>4, <2>8 DEF LoadInv, Accepted, Started
<1> QED BY <1>3, <1>4 DEF ReadMain

LEMMA MigrateMainKeeps ==
  ASSUME NEW Name, NEW Item, AreFiles(Name, Item), LoadInv(Name, Item), MigrateMain
  PROVE  LoadInv(Name, Item)'
<1> DEFINE c == [conf EXCEPT !.set = TRUE]
           m == Migrate(c)
           b == PartsOf(disk[Main])[1]
           C == Configuration(Name, Item)
<1>1. disk \in Disks /\ phase = "migrate" /\ Collected(Name, Item)
  BY DEF LoadInv, MigrateMain
<1>2. disk' = disk /\ next' = next /\ failed' = failed /\ conf' = m /\ phase' = "link"
  BY DEF MigrateMain
<1>3. conf \in C /\ next = 1 /\ IsBase(conf, b) /\ PartsOf(disk[Main]) # <<>> /\ AsRead
  BY <1>1 DEF Collected
<1>4. c \in C /\ c.set /\ c.sec = conf.sec /\ c.old = conf.old /\ c.net = conf.net /\ c.paths = conf.paths
  <2> SUFFICES ASSUME NEW x, x = c
               PROVE  /\ x \in C /\ x.set /\ x.sec = conf.sec /\ x.old = conf.old
                      /\ x.net = conf.net /\ x.paths = conf.paths
    OBVIOUS
  <2>1. /\ conf.sec \in [Section -> Seq(Item)] /\ conf.old \in [Section -> Seq(Item)]
        /\ conf.net \in Seq(Item) /\ conf.paths \in Seq(File) /\ conf.groups \in TagGroups(Name)
        /\ conf.sec["repos"] \in Seq(Repository(Name))
        /\ conf.old["repos"] \in Seq(Repository(Name))
        /\ conf = [sec |-> conf.sec, old |-> conf.old, net |-> conf.net, set |-> conf.set,
                   paths |-> conf.paths, groups |-> conf.groups]
    BY <1>3, Fields
  <2>2. x = [sec |-> conf.sec, old |-> conf.old, net |-> conf.net, set |-> TRUE,
             paths |-> conf.paths, groups |-> conf.groups]
    BY <2>1
  <2>3. x.set = TRUE
    BY <2>2
  <2>4. /\ x.sec = conf.sec /\ x.old = conf.old /\ x.net = conf.net /\ x.paths = conf.paths
        /\ x.groups = conf.groups
        /\ x = [sec |-> x.sec, old |-> x.old, net |-> x.net, set |-> x.set,
                paths |-> x.paths, groups |-> x.groups]
    BY <2>2
  <2>5. x \in C
    BY <2>1, <2>3, <2>4, IsConfiguration
  <2> QED BY <2>3, <2>4, <2>5
<1> HIDE DEF c, C
<1>5. m \in C /\ IsMigrated(m, c)
  BY <1>4, Migrated DEF C
<1> HIDE DEF m
<1>6. m.paths = conf.paths
  BY <1>4, <1>5 DEF IsMigrated
<1>7. m.paths \in Seq(File)
  BY <1>5, Fields DEF C
<1>8. AsRead'
  <2>1. \A i \in 1 .. next' - 1 : FALSE
    BY <1>2, <1>3
  <2>2. ASSUME ~failed, NEW s \in Joined, NEW T
        PROVE  Both(m, s, T) = Occ(In(PartsTo(disk, m.paths, next), s), T)
    <3>1. s \in Section \ {"hosts"}
      BY DEF Joined
    <3>2. Both(m, s, T) = Both(c, s, T)
      BY <1>4, <1>5, <3>1, BothMigrated DEF C
    <3>3. Both(c, s, T) = Both(conf, s, T)
      BY <1>4 DEF Both
    <3>4. Both(conf, s, T) = Occ(In(PartsTo(disk, conf.paths, next), s), T)
      BY <1>3, <2>2 DEF AsRead
    <3> QED BY <1>6, <3>2, <3>3, <3>4
  <2> QED BY <1>2, <2>1, <2>2 DEF AsRead
<1>9. IsMigratedBase(m, b)
  <2>1. /\ m.sec["projects"] = c.sec["projects"] \o c.old["projects"]
        /\ m.sec["hosts"] = (c.sec["hosts"] \o c.old["hosts"]) \o (c.net \o c.net)
        /\ \A s \in Joined : m.old[s] = <<>>
    BY <1>4, <1>5 DEF IsMigrated, Joined, Section
  <2>2. /\ c.sec["projects"] = b.sec["projects"] /\ c.old["projects"] = b.old["projects"]
        /\ c.sec["hosts"] = b.sec["hosts"] /\ c.old["hosts"] = b.old["hosts"] /\ c.net = b.net
    BY <1>3, <1>4 DEF IsBase
  <2> QED BY <2>1, <2>2 DEF IsMigratedBase
<1>10. Collected(Name, Item)'
  <2>1. next' \in Nat /\ 1 <= next' /\ next' <= Len(m.paths) + 1
    BY <1>2, <1>3, <1>7
  <2> QED BY <1>2, <1>3, <1>5, <1>8, <1>9, <2>1 DEF Collected, C
<1> QED BY <1>1, <1>2, <1>10 DEF LoadInv, Accepted, Started

LEMMA LinkFileKeeps ==
  ASSUME NEW Name, NEW Item, AreFiles(Name, Item), LoadInv(Name, Item), LinkFile
  PROVE  LoadInv(Name, Item)'
<1> DEFINE f == disk[conf.paths[next]]
           r == Read(f)
           b == PartsOf(disk[Main])[1]
           C == Configuration(Name, Item)
<1>1. disk \in Disks /\ phase = "link" /\ Collected(Name, Item) /\ next <= Len(conf.paths)
  BY DEF LoadInv, LinkFile
<1>2. disk' = disk /\ next' = next + 1
  BY DEF LinkFile
<1>3. /\ conf \in C /\ IsMigratedBase(conf, b) /\ PartsOf(disk[Main]) # <<>> /\ AsRead
      /\ next \in Nat /\ 1 <= next
  BY <1>1 DEF Collected
<1>4. conf.paths \in Seq(File)
  BY <1>3, Fields
<1>5. next \in 1 .. Len(conf.paths) /\ conf.paths[next] \in File
  BY <1>1, <1>3, <1>4
<1>6. IsFile(f, Name, Item)
  BY <1>1, <1>5, DiskFiles
<1>7. CASE failed' = TRUE /\ conf' = conf /\ phase' = phase
  <2>1. AsRead'
    BY <1>7, Zenon DEF AsRead
  <2>2. next' \in Nat /\ 1 <= next' /\ next' <= Len(conf'.paths) + 1
    BY <1>2, <1>5, <1>7, <1>4
  <2>3. Collected(Name, Item)'
    BY <1>1, <1>2, <1>3, <1>7, <2>1, <2>2 DEF Collected
  <2> QED BY <1>1, <1>2, <1>7, <2>3 DEF LoadInv, Accepted, Started
<1>8. CASE phase' = "panic"
  BY <1>1, <1>2, <1>8 DEF LoadInv, Accepted, Started
<1>9. CASE /\ r.kind = "conf" /\ ~r.conf.set
           /\ conf' = Join(conf, Migrate(r.conf))
           /\ failed' = failed /\ phase' = phase
  <2> DEFINE j == Join(conf, Migrate(r.conf))
  <2>1. j \in C /\ IsLinking(j, conf, f)
    BY <1>3, <1>6, <1>9, Linking
  <2>2. conf' = j
    BY <1>9
  <2> HIDE DEF j
  <2>3. PICK qs \in Seq(File) : j.paths = conf.paths \o qs
    BY <2>1 DEF IsLinking
  <2>4. j.paths \in Seq(File) /\ Len(j.paths) = Len(conf.paths) + Len(qs)
    BY <1>4, <2>3, ConcatProperties
  <2>5. next' \in Nat /\ 1 <= next' /\ next' <= Len(j.paths) + 1
    <3>1. Len(qs) \in Nat /\ Len(conf.paths) \in Nat
      BY <1>4
    <3> QED BY <1>2, <1>5, <2>4, <3>1
  <2>6. next \in 1 .. Len(conf.paths) + 1 /\ next + 1 \in 1 .. Len(conf.paths) + 1 /\ (next + 1) - 1 = next
    BY <1>4, <1>5
  <2> DEFINE k == next + 1
  <2>7. /\ PartsTo(disk, conf.paths \o qs, k) = PartsTo(disk, conf.paths, k)
        /\ \A i \in 1 .. k - 1 : (conf.paths \o qs)[i] = conf.paths[i]
    <3> HIDE DEF k
    <3>1. k \in 1 .. Len(conf.paths) + 1
      BY <2>6 DEF k
    <3> QED BY <1>4, <3>1, PartsToConcat
  <2>8. PartsTo(disk, j.paths, k) = PartsTo(disk, conf.paths, next) \o PartsOf(f)
    <3>1. PartsTo(disk, conf.paths, next + 1) = PartsTo(disk, conf.paths, next) \o PartsOf(f)
      BY <1>1, <1>4, <1>5, PartsToNext
    <3> QED BY <2>3, <2>7, <3>1
  <2>9. PartsTo(disk, conf.paths, next) \in Seq(C)
    BY <1>1, <1>4, <2>6, PartsToAre
  <2>10. AsRead'
    <3>1. ASSUME ~failed, NEW s \in Joined, NEW T
          PROVE  Both(j, s, T) = Occ(In(PartsTo(disk, j.paths, k), s), T)
      <4>1. Both(j, s, T) = Both(conf, s, T) + Occ(In(PartsOf(f), s), T)
        BY <2>1 DEF IsLinking
      <4>2. Both(conf, s, T) = Occ(In(PartsTo(disk, conf.paths, next), s), T)
        BY <1>3, <3>1 DEF AsRead
      <4>3. s \in Section
        BY DEF Joined
      <4> DEFINE ps == PartsTo(disk, conf.paths, next)
      <4>4. ps \in Seq(C)
        BY <2>9
      <4> HIDE DEF ps, f
      <4>5. Occ(In(ps \o PartsOf(f), s), T) = Occ(In(ps, s), T) + Occ(In(PartsOf(f), s), T)
        BY <1>6, <4>3, <4>4, InConcat
      <4> QED BY <2>8, <4>1, <4>2, <4>5 DEF ps
    <3>2. ASSUME ~failed, NEW i \in 1 .. k - 1
          PROVE  IsLinked(disk[j.paths[i]])
      <4>1. j.paths[i] = conf.paths[i]
        BY <2>3, <2>7
      <4>2. CASE i = next
        BY <1>9, <4>1, <4>2 DEF IsLinked
      <4>3. CASE i # next
        <5>1. i \in 1 .. next - 1
          BY <1>5, <4>3
        <5> QED BY <1>3, <3>2, <4>1, <5>1 DEF AsRead
      <4> QED BY <4>2, <4>3
    <3> QED BY <1>2, <1>9, <2>2, <3>1, <3>2 DEF AsRead
  <2>11. IsMigratedBase(j, b)
    <3>1. \A s \in {"projects", "hosts"} : j.sec[s] = conf.sec[s]
      BY <2>1 DEF IsLinking
    <3>2. j.old = conf.old
      BY <2>1 DEF IsLinking
    <3> QED BY <1>3, <3>1, <3>2 DEF IsMigratedBase
  <2>12. Collected(Name, Item)'
    BY <1>1, <1>2, <1>3, <1>9, <2>1, <2>2, <2>5, <2>10, <2>11 DEF Collected
  <2> QED BY <1>1, <1>2, <1>9, <2>12 DEF LoadInv, Accepted, Started
<1> QED BY <1>7, <1>8, <1>9 DEF LinkFile

LEMMA ExpandConcreteKeeps ==
  ASSUME NEW Name, NEW Item, AreFiles(Name, Item), LoadInv(Name, Item), ExpandConcrete
  PROVE  LoadInv(Name, Item)'
<1>1. /\ disk \in Disks /\ phase = "link" /\ Collected(Name, Item)
      /\ conf \in Configuration(Name, Item) /\ next > Len(conf.paths)
  BY DEF LoadInv, ExpandConcrete, Collected
<1>2. /\ phase' = "index" /\ disk' = disk /\ conf' = conf /\ next' = next /\ failed' = failed
      /\ jobs' = ConcreteJobs
  BY DEF ExpandConcrete, ConcreteJobs
<1>3. next = Len(conf.paths) + 1
  <2>1. conf.paths \in Seq(File)
    BY <1>1, Fields
  <2>2. next \in Nat /\ next <= Len(conf.paths) + 1 /\ Len(conf.paths) \in Nat
    BY <1>1, <2>1 DEF Collected
  <2> QED BY <1>1, <2>2
<1>4. AsRead'
  BY <1>1, <1>2 DEF AsRead, Collected
<1>5. Collected(Name, Item)'
  BY <1>1, <1>2, <1>3, <1>4 DEF Collected
<1>6. HasJobs'
  BY <1>2 DEF HasJobs, ConcreteJobs, Repos
<1> QED BY <1>1, <1>2, <1>5, <1>6 DEF LoadInv, Accepted, Started

-----------------------------------------------------------------------------
(* The steps that make the index.                                          *)

LEMMA TaggedAre ==
  ASSUME NEW Name, conf.sec["repos"] \in Seq(Repository(Name)), NEW t
  PROVE  /\ Tagged(t) \in Seq(Name)
         /\ Range(Tagged(t)) = {r.name : r \in {r \in Repos : t \in r.tags}}
<1> DEFINE rs == conf.sec["repos"]
           rows == [i \in DOMAIN rs |-> IF t \in rs[i].tags THEN <<rs[i].name>> ELSE <<>>]
           n == Len(rs)
<1>1. n \in Nat /\ DOMAIN rs = 1 .. n /\ \A i \in 1 .. n : rs[i] \in Repository(Name)
  OBVIOUS
<1>2. \A r \in Repository(Name) : r.name \in Name
  BY DEF Repository
<1>3. Repos = {rs[i] : i \in 1 .. n}
  BY <1>1 DEF Repos, Range
<1>4. Tagged(t) = FlattenSeq(rows)
  BY DEF Tagged
<1> HIDE DEF rs, n
<1>5. rows \in [1 .. n -> Seq(Name)]
  BY <1>1, <1>2
<1>6. rows \in Seq(Seq(Name)) /\ Len(rows) = n
  <2>1. rows \in Seq(Seq(Name))
    BY <1>1, <1>5, SeqDef
  <2> QED BY <1>1, <1>5, <2>1
<1>7. \A i \in 1 .. n : Range(rows[i]) = IF t \in rs[i].tags THEN {rs[i].name} ELSE {}
  BY <1>1 DEF Range
<1> HIDE DEF rows
<1>8. FlattenSeq(rows) \in Seq(Name) /\ Range(FlattenSeq(rows)) = UNION {Range(rows[j]) : j \in 1 .. n}
  BY <1>6, Flattened
<1>9. UNION {Range(rows[j]) : j \in 1 .. n} = {r.name : r \in {r \in Repos : t \in r.tags}}
  <2>1. ASSUME NEW j \in 1 .. n, NEW x \in Range(rows[j])
        PROVE  x \in {r.name : r \in {r \in Repos : t \in r.tags}}
    <3>1. t \in rs[j].tags /\ x = rs[j].name /\ rs[j] \in Repos
      BY <1>3, <1>7, <2>1
    <3> QED BY <3>1
  <2>2. ASSUME NEW r \in Repos, t \in r.tags
        PROVE  r.name \in UNION {Range(rows[j]) : j \in 1 .. n}
    <3>1. PICK i \in 1 .. n : r = rs[i]
      BY <1>3
    <3>2. r.name \in Range(rows[i])
      BY <1>7, <2>2, <3>1
    <3> QED BY <3>2
  <2> QED BY <2>1, <2>2
<1> QED BY <1>4, <1>8, <1>9

LEMMA RebuildIndexesKeeps ==
  ASSUME NEW Name, NEW Item, AreFiles(Name, Item), LoadInv(Name, Item), RebuildIndexes
  PROVE  LoadInv(Name, Item)'
<1>1. /\ disk \in Disks /\ phase = "index" /\ Collected(Name, Item) /\ HasJobs
      /\ conf \in Configuration(Name, Item)
  BY DEF LoadInv, RebuildIndexes, Collected, Started
<1>2. disk' = disk /\ conf' = conf /\ next' = next /\ failed' = failed /\ jobs' = jobs
  BY DEF RebuildIndexes
<1>3. CASE phase' = "panic"
  BY <1>1, <1>2, <1>3 DEF LoadInv, Accepted, Started
<1>4. CASE /\ IsInjective(NamesOf(conf.sec["repos"]))
           /\ lookup' = [n \in {r.name : r \in Repos} |-> Named(n)]
           /\ tags' = [t \in UNION {r.tags : r \in Repos} |-> Tagged(t)]
           /\ left' = DOMAIN conf.groups
           /\ phase' = "groups"
  <2>1. AsRead'
    BY <1>1, <1>2 DEF AsRead, Collected
  <2>2. Collected(Name, Item)'
    BY <1>1, <1>2, <1>4, <2>1 DEF Collected
  <2>3. Repos' = Repos /\ RepoNames' = RepoNames
    BY <1>2 DEF Repos, RepoNames
  <2>4. HasJobs'
    BY <1>1, <1>2, <1>4, <2>3 DEF HasJobs, ConcreteJobs
  <2>5. ASSUME NEW n \in RepoNames
        PROVE  lookup'[n] \in Repos /\ lookup'[n].name = n
    <3>1. \E r \in Repos : r.name = n
      BY DEF RepoNames
    <3>2. Named(n) \in Repos /\ Named(n).name = n
      BY <3>1 DEF Named
    <3>3. lookup'[n] = Named(n)
      BY <1>4 DEF RepoNames
    <3> QED BY <3>2, <3>3
  <2>6. DOMAIN lookup' = RepoNames
    BY <1>4 DEF RepoNames
  <2>7. /\ DOMAIN tags' = UNION {r.tags : r \in Repos}
        /\ \A t \in DOMAIN tags' :
             tags'[t] \in Seq(Name) /\ Range(tags'[t]) = {r.name : r \in {r \in Repos : t \in r.tags}}
    <3>1. conf.sec["repos"] \in Seq(Repository(Name))
      BY <1>1, Fields
    <3>2. ASSUME NEW t
          PROVE Tagged(t) \in Seq(Name) /\ Range(Tagged(t)) = {r.name : r \in {r \in Repos : t \in r.tags}}
      BY <3>1, TaggedAre
    <3> QED BY <1>4, <3>2
  <2>8. Indexed(Name)'
    BY <1>2, <1>4, <2>3, <2>5, <2>6, <2>7 DEF Indexed
  <2>9. Groups'
    BY <1>2, <1>4 DEF Groups
  <2> QED BY <1>1, <1>2, <1>4, <2>2, <2>3, <2>4, <2>5, <2>8, <2>9 DEF LoadInv, Accepted, Started
<1> QED BY <1>3, <1>4 DEF RebuildIndexes

LEMMA IndexTagGroupKeeps ==
  ASSUME NEW Name, NEW Item, AreFiles(Name, Item), LoadInv(Name, Item), IndexTagGroup
  PROVE  LoadInv(Name, Item)'
<1>1. /\ disk \in Disks /\ phase = "groups" /\ Collected(Name, Item) /\ HasJobs
      /\ Indexed(Name) /\ Groups /\ \A n \in RepoNames : lookup[n] \in Repos
  BY DEF LoadInv, IndexTagGroup, Started
<1>2. /\ disk' = disk /\ phase' = phase /\ conf' = conf /\ next' = next /\ failed' = failed
      /\ lookup' = lookup /\ jobs' = jobs
  BY DEF IndexTagGroup
<1>3. PICK g \in left : left' = left \ {g} /\ DOMAIN tags' = DOMAIN tags \cup {g}
  BY DEF IndexTagGroup
<1>4. g \in DOMAIN conf.groups
  BY <1>1, <1>3 DEF Groups
<1>5. AsRead'
  BY <1>1, <1>2 DEF AsRead, Collected
<1>6. Collected(Name, Item)'
  BY <1>1, <1>2, <1>5 DEF Collected
<1>7. Repos' = Repos /\ RepoNames' = RepoNames
  BY <1>2 DEF Repos, RepoNames
<1>8. HasJobs'
  BY <1>1, <1>2, <1>7 DEF HasJobs, ConcreteJobs
<1>9. Indexed(Name)'
  BY <1>1, <1>2, <1>4, <1>7 DEF Indexed
<1>10. Groups'
  BY <1>1, <1>2, <1>3 DEF Groups
<1> QED BY <1>1, <1>2, <1>6, <1>7, <1>8, <1>9, <1>10 DEF LoadInv, Accepted, Started

LEMMA ExpandSyntheticKeeps ==
  ASSUME NEW Name, NEW Item, AreFiles(Name, Item), LoadInv(Name, Item), ExpandSynthetic
  PROVE  LoadInv(Name, Item)'
<1>1. /\ disk \in Disks /\ phase = "groups" /\ Collected(Name, Item) /\ HasJobs /\ left = {}
      /\ Indexed(Name) /\ Groups /\ \A n \in RepoNames : lookup[n] \in Repos
  BY DEF LoadInv, ExpandSynthetic, Started
<1>2. /\ disk' = disk /\ phase' = "validate" /\ conf' = conf /\ next' = next /\ failed' = failed
      /\ lookup' = lookup /\ tags' = tags /\ left' = left
      /\ jobs' = jobs \cup TagJobs
  BY DEF ExpandSynthetic, Index, Batch, Live, TagJobs
<1>5. AsRead'
  BY <1>1, <1>2 DEF AsRead, Collected
<1>6. Collected(Name, Item)'
  BY <1>1, <1>2, <1>5 DEF Collected
<1>7. Repos' = Repos /\ RepoNames' = RepoNames
  BY <1>2 DEF Repos, RepoNames
<1>8. HasJobs'
  <2>1. jobs = ConcreteJobs
    BY <1>1 DEF HasJobs
  <2>2. ConcreteJobs' = ConcreteJobs
    BY <1>7 DEF ConcreteJobs
  <2>3. TagJobs' = TagJobs
    BY <1>2 DEF TagJobs, Live, Batch
  <2> QED BY <1>2, <2>1, <2>2, <2>3 DEF HasJobs
<1>9. Indexed(Name)'
  BY <1>1, <1>2, <1>7 DEF Indexed
<1>10. Groups'
  BY <1>1, <1>2 DEF Groups
<1> QED BY <1>1, <1>2, <1>6, <1>7, <1>8, <1>9, <1>10 DEF LoadInv, Accepted, Started

-----------------------------------------------------------------------------
(* What validation completes, and what is so of what it accepts.           *)

(* The same but for having been completed.                                 *)
Same(q, r) ==
  /\ q.name = r.name /\ q.tags = r.tags /\ q.remote = r.remote
  /\ q.fetch = r.fetch /\ q.sync = r.sync /\ q.disabled = r.disabled

Alike(Q, R) ==
  /\ \A q \in Q : \E r \in R : Same(q, r)
  /\ \A r \in R : \E q \in Q : Same(q, r)

IsCompleted(k, c) ==
  /\ DOMAIN k.sec["repos"] = DOMAIN c.sec["repos"]
  /\ \A i \in DOMAIN c.sec["repos"] : Same(k.sec["repos"][i], c.sec["repos"][i])
  /\ \A s \in Section \ {"repos"} : k.sec[s] = c.sec[s]
  /\ k.paths = c.paths /\ k.groups = c.groups

Complete(c) ==
  [c EXCEPT !.sec["repos"] = [i \in DOMAIN @ |-> [@[i] EXCEPT !.ready = TRUE]]]

LEMMA Completed ==
  ASSUME NEW Name, NEW Item, Repository(Name) \subseteq Item,
         NEW c \in Configuration(Name, Item), NEW k, k = Complete(c)
  PROVE  k \in Configuration(Name, Item) /\ IsCompleted(k, c)
<1> DEFINE rs == c.sec["repos"]
           cs == [i \in DOMAIN rs |-> [rs[i] EXCEPT !.ready = TRUE]]
           sec == [c.sec EXCEPT !["repos"] = cs]
<1>1. /\ c = [sec |-> c.sec, old |-> c.old, net |-> c.net, set |-> c.set,
              paths |-> c.paths, groups |-> c.groups]
      /\ c.sec \in [Section -> Seq(Item)] /\ c.old \in [Section -> Seq(Item)]
      /\ c.net \in Seq(Item) /\ c.paths \in Seq(File) /\ c.groups \in TagGroups(Name)
      /\ rs \in Seq(Repository(Name)) /\ c.old["repos"] \in Seq(Repository(Name))
  BY Fields
<1>2. c.set \in BOOLEAN
  BY Fields
<1>3. ASSUME NEW r \in Repository(Name), NEW q, q = [r EXCEPT !.ready = TRUE]
      PROVE  q \in Repository(Name) /\ Same(q, r)
  <2>1. /\ r.name \in Name /\ r.tags \in SUBSET Name
        /\ r = [name |-> r.name, tags |-> r.tags, fetch |-> r.fetch, sync |-> r.sync,
                disabled |-> r.disabled, remote |-> r.remote, home |-> r.home, ready |-> r.ready]
    BY DEF Repository
  <2>2. q = [name |-> r.name, tags |-> r.tags, fetch |-> r.fetch, sync |-> r.sync,
             disabled |-> r.disabled, remote |-> r.remote, home |-> r.home, ready |-> TRUE]
    BY <1>3, <2>1
  <2>3. q \in Repository(Name)
    BY <2>1, <2>2 DEF Repository
  <2> QED BY <2>2, <2>3 DEF Same
<1>4. k = [sec |-> sec, old |-> c.old, net |-> c.net, set |-> c.set,
           paths |-> c.paths, groups |-> c.groups]
  BY <1>1 DEF Complete
<1>5. \A i \in DOMAIN rs : rs[i] \in Repository(Name)
  BY <1>1
<1>6. \A i \in DOMAIN rs : cs[i] \in Repository(Name) /\ Same(cs[i], rs[i])
  BY <1>3, <1>5
<1>7. cs \in Seq(Repository(Name)) /\ DOMAIN cs = DOMAIN rs
  <2>1. DOMAIN rs = 1 .. Len(rs) /\ Len(rs) \in Nat
    BY <1>1
  <2>2. cs \in [1 .. Len(rs) -> Repository(Name)]
    BY <1>6, <2>1
  <2>3. cs \in Seq(Repository(Name))
    BY <2>1, <2>2, SeqDef
  <2> QED BY <2>3
<1> HIDE DEF cs
<1>8. cs \in Seq(Item)
  BY <1>7
<1>9. "repos" \in Section
  BY DEF Section
<1>10. /\ sec \in [Section -> Seq(Item)] /\ sec["repos"] = cs
       /\ \A s \in Section \ {"repos"} : sec[s] = c.sec[s]
  BY <1>1, <1>8, <1>9
<1> HIDE DEF sec
<1>11. /\ k.sec = sec /\ k.old = c.old /\ k.net = c.net /\ k.paths = c.paths /\ k.groups = c.groups
       /\ k = [sec |-> k.sec, old |-> k.old, net |-> k.net, set |-> k.set,
               paths |-> k.paths, groups |-> k.groups]
  BY <1>4
<1>12. k.set = c.set
  BY <1>4
<1>13. k \in Configuration(Name, Item)
  <2>1. k.set \in BOOLEAN
    BY <1>2, <1>12
  <2> QED BY <1>1, <1>7, <1>10, <1>11, <2>1, IsConfiguration
<1>14. IsCompleted(k, c)
  BY <1>6, <1>7, <1>10, <1>11 DEF IsCompleted
<1> QED BY <1>13, <1>14

LEMMA CompletedAlike ==
  ASSUME NEW Name, NEW Item, NEW c \in Configuration(Name, Item),
         NEW k \in Configuration(Name, Item), IsCompleted(k, c)
  PROVE  Alike(Range(k.sec["repos"]), Range(c.sec["repos"]))
BY DEF IsCompleted, Alike, Range

HaveCommands(rs, js) ==
  /\ \A r \in rs :
       /\ Active(r) <=> \E j \in js : j.group = "pull" /\ j.name = <<r.name>>
       /\ Active(r) /\ r.sync <=> \E j \in js : j.group = "update" /\ j.name = <<r.name>>
  /\ \A t \in UNION {r.tags : r \in rs} :
       (\E r \in rs : Active(r) /\ t \in r.tags) <=>
         \E j \in js : /\ j.name = <<"tag", t>>
                       /\ {q.name : q \in j.repos} = {q.name : q \in {q \in rs : t \in q.tags}}

LEMMA AlikeNames ==
  ASSUME NEW Q, NEW R, Alike(Q, R)
  PROVE  /\ {q.name : q \in Q} = {r.name : r \in R}
         /\ UNION {q.tags : q \in Q} = UNION {r.tags : r \in R}
         /\ \A t : {q.name : q \in {q \in Q : t \in q.tags}} = {r.name : r \in {r \in R : t \in r.tags}}
<1>1. \A q \in Q : \E r \in R : q.name = r.name /\ q.tags = r.tags
  BY DEF Alike, Same
<1>2. \A r \in R : \E q \in Q : q.name = r.name /\ q.tags = r.tags
  BY DEF Alike, Same
<1>3. {q.name : q \in Q} = {r.name : r \in R}
  BY <1>1, <1>2
<1>4. UNION {q.tags : q \in Q} = UNION {r.tags : r \in R}
  BY <1>1, <1>2
<1>5. ASSUME NEW t
      PROVE  {q.name : q \in {q \in Q : t \in q.tags}} = {r.name : r \in {r \in R : t \in r.tags}}
  BY <1>1, <1>2
<1> QED BY <1>3, <1>4, <1>5

LEMMA AlikeCommands ==
  ASSUME NEW Q, NEW R, NEW js, Alike(Q, R), HaveCommands(R, js)
  PROVE  HaveCommands(Q, js)
<1>1. ASSUME NEW q \in Q
      PROVE  /\ Active(q) <=> \E j \in js : j.group = "pull" /\ j.name = <<q.name>>
             /\ Active(q) /\ q.sync <=> \E j \in js : j.group = "update" /\ j.name = <<q.name>>
  <2>1. PICK r \in R : Same(q, r)
    BY DEF Alike
  <2>2. q.name = r.name /\ (Active(q) <=> Active(r)) /\ (q.sync <=> r.sync)
    BY <2>1 DEF Same, Active
  <2> QED BY <2>2 DEF HaveCommands
<1>2. ASSUME NEW t
      PROVE  (\E q \in Q : Active(q) /\ t \in q.tags) <=> (\E r \in R : Active(r) /\ t \in r.tags)
  <2>1. \A q, r : Same(q, r) => (Active(q) <=> Active(r)) /\ q.tags = r.tags
    BY DEF Same, Active
  <2> QED BY <2>1 DEF Alike
<1>3. ASSUME NEW t \in UNION {q.tags : q \in Q}
      PROVE  (\E q \in Q : Active(q) /\ t \in q.tags) <=>
               \E j \in js : /\ j.name = <<"tag", t>>
                             /\ {p.name : p \in j.repos} = {q.name : q \in {q \in Q : t \in q.tags}}
  <2> DEFINE A == {q.name : q \in {q \in Q : t \in q.tags}}
             B == {r.name : r \in {r \in R : t \in r.tags}}
  <2>0. \A u : {q.name : q \in {q \in Q : u \in q.tags}} = {r.name : r \in {r \in R : u \in r.tags}}
    BY AlikeNames
  <2>a. UNION {q.tags : q \in Q} = UNION {r.tags : r \in R}
    BY AlikeNames
  <2>1. A = B /\ t \in UNION {r.tags : r \in R}
    BY <2>0, <2>a
  <2>2. (\E r \in R : Active(r) /\ t \in r.tags) <=>
               \E j \in js : j.name = <<"tag", t>> /\ {p.name : p \in j.repos} = B
    BY <2>1 DEF HaveCommands
  <2> HIDE DEF A, B
  <2>3. (\E q \in Q : Active(q) /\ t \in q.tags) <=>
               \E j \in js : j.name = <<"tag", t>> /\ {p.name : p \in j.repos} = A
    BY <1>2, <2>1, <2>2
  <2> QED BY <2>3 DEF A
<1> QED BY <1>1, <1>3 DEF HaveCommands

(* Of the repositories of the index, no two have one name.                 *)
LEMMA OneOfAName ==
  ASSUME IsInjective(NamesOf(conf.sec["repos"])),
         NEW q \in Repos, NEW r \in Repos, q.name = r.name
  PROVE  q = r
<1> DEFINE rs == conf.sec["repos"]
<1>1. \E i \in DOMAIN rs : q = rs[i]
  BY DEF Repos, Range
<1>2. \E i \in DOMAIN rs : r = rs[i]
  BY DEF Repos, Range
<1>3. PICK i \in DOMAIN rs : q = rs[i]
  BY <1>1
<1>4. PICK k \in DOMAIN rs : r = rs[k]
  BY <1>2
<1> DEFINE ns == NamesOf(rs)
<1>5. DOMAIN ns = DOMAIN rs /\ \A j \in DOMAIN rs : ns[j] = rs[j].name
  BY DEF NamesOf
<1>6. \A a, b \in DOMAIN ns : ns[a] = ns[b] => a = b
  BY DEF IsInjective
<1> HIDE DEF ns, rs
<1>7. i = k
  BY <1>3, <1>4, <1>5, <1>6
<1> QED BY <1>3, <1>4, <1>7

LEMMA CommandsOfAll ==
  ASSUME NEW Name, Indexed(Name), HasJobs, phase = "validate", DOMAIN conf.groups = {},
         \A n \in RepoNames : lookup[n] \in Repos
  PROVE  HaveCommands(Repos, jobs)
<1> DEFINE Having(t) == {r \in Repos : t \in r.tags}
<1>1. \A q, r \in Repos : q.name = r.name => q = r
  BY OneOfAName DEF Indexed
<1>2. jobs = ConcreteJobs \cup TagJobs
  BY DEF HasJobs
<1>3. ASSUME NEW t \in DOMAIN tags
      PROVE  Batch(t) = Having(t)
  <2>1. Range(tags[t]) = {r.name : r \in Having(t)}
    BY DEF Indexed
  <2>2. \A r \in Repos : lookup[r.name] = r
    <3>1. \A r \in Repos : r.name \in RepoNames
      BY DEF RepoNames
    <3>2. \A n \in RepoNames : lookup[n].name = n
      BY DEF Indexed
    <3> QED BY <1>1, <3>1, <3>2
  <2>3. Batch(t) = {lookup[n] : n \in {r.name : r \in Having(t)}}
    BY <2>1 DEF Batch
  <2> QED BY <2>2, <2>3
<1>4. \A g, n, rs : Job(g, n, rs).group = g /\ Job(g, n, rs).name = n /\ Job(g, n, rs).repos = rs
  BY DEF Job
<1>5. ASSUME NEW j \in jobs
      PROVE  \/ \E r \in Repos : Active(r) /\ j = Job("pull", <<r.name>>, {r})
             \/ \E r \in Repos : Active(r) /\ r.sync /\ j = Job("update", <<r.name>>, {r})
             \/ \E g \in {"pull", "update"}, t \in Live : j = Job(g, <<"tag", t>>, Batch(t))
  <2>1. CASE j \in TagJobs
    <3>1. \E g \in {"pull", "update"}, t \in Live : j = Job(g, <<"tag", t>>, Batch(t))
      BY <2>1 DEF TagJobs
    <3> QED BY <3>1
  <2>2. CASE j \in {Job("pull", <<r.name>>, {r}) : r \in {r \in Repos : Active(r)}}
    BY <2>2
  <2>3. CASE j \in {Job("update", <<r.name>>, {r}) : r \in {r \in Repos : Active(r) /\ r.sync}}
    BY <2>3
  <2> QED BY <1>2, <2>1, <2>2, <2>3 DEF ConcreteJobs
<1>6. \A a, b, c : <<a>> # <<b, c>>
  <2> SUFFICES ASSUME NEW a, NEW b, NEW c PROVE <<a>> # <<b, c>>
    OBVIOUS
  <2>1. Len(<<a>>) = 1 /\ Len(<<b, c>>) = 2
    OBVIOUS
  <2> QED BY <2>1
<1>7. ASSUME NEW r \in Repos
      PROVE  Active(r) <=> \E j \in jobs : j.group = "pull" /\ j.name = <<r.name>>
  <2>1. ASSUME Active(r)
        PROVE  \E j \in jobs : j.group = "pull" /\ j.name = <<r.name>>
    <3>1. Job("pull", <<r.name>>, {r}) \in jobs
      BY <1>2, <2>1 DEF ConcreteJobs
    <3> QED BY <1>4, <3>1
  <2>2. ASSUME NEW j \in jobs, j.group = "pull", j.name = <<r.name>>
        PROVE  Active(r)
    <3>1. ASSUME NEW q \in Repos, Active(q), j.name = <<q.name>>
          PROVE  Active(r)
      <4>1. q.name = r.name
        BY <2>2, <3>1
      <4> QED BY <1>1, <3>1, <4>1
    <3>2. CASE \E q \in Repos : Active(q) /\ j = Job("pull", <<q.name>>, {q})
      BY <1>4, <3>1, <3>2
    <3>3. CASE \E q \in Repos : Active(q) /\ q.sync /\ j = Job("update", <<q.name>>, {q})
      BY <1>4, <2>2, <3>3
    <3>4. CASE \E g \in {"pull", "update"}, t \in Live : j = Job(g, <<"tag", t>>, Batch(t))
      BY <1>4, <1>6, <2>2, <3>4
    <3> QED BY <1>5, <3>2, <3>3, <3>4
  <2> QED BY <2>1, <2>2
<1>8. ASSUME NEW r \in Repos
      PROVE  Active(r) /\ r.sync <=> \E j \in jobs : j.group = "update" /\ j.name = <<r.name>>
  <2>1. ASSUME Active(r), r.sync
        PROVE  \E j \in jobs : j.group = "update" /\ j.name = <<r.name>>
    <3>1. Job("update", <<r.name>>, {r}) \in jobs
      BY <1>2, <2>1 DEF ConcreteJobs
    <3> QED BY <1>4, <3>1
  <2>2. ASSUME NEW j \in jobs, j.group = "update", j.name = <<r.name>>
        PROVE  Active(r) /\ r.sync
    <3>1. ASSUME NEW q \in Repos, Active(q) /\ q.sync, j.name = <<q.name>>
          PROVE  Active(r) /\ r.sync
      <4>1. q.name = r.name
        BY <2>2, <3>1
      <4> QED BY <1>1, <3>1, <4>1
    <3>2. CASE \E q \in Repos : Active(q) /\ j = Job("pull", <<q.name>>, {q})
      BY <1>4, <2>2, <3>2
    <3>3. CASE \E q \in Repos : Active(q) /\ q.sync /\ j = Job("update", <<q.name>>, {q})
      BY <1>4, <3>1, <3>3
    <3>4. CASE \E g \in {"pull", "update"}, t \in Live : j = Job(g, <<"tag", t>>, Batch(t))
      BY <1>4, <1>6, <2>2, <3>4
    <3> QED BY <1>5, <3>2, <3>3, <3>4
  <2> QED BY <2>1, <2>2
<1>9. ASSUME NEW t \in UNION {r.tags : r \in Repos}
      PROVE  (\E r \in Repos : Active(r) /\ t \in r.tags) <=>
               \E j \in jobs : /\ j.name = <<"tag", t>>
                               /\ {q.name : q \in j.repos} = {q.name : q \in Having(t)}
  <2>1. t \in DOMAIN tags
    BY DEF Indexed
  <2>2. ASSUME NEW r \in Repos, Active(r), t \in r.tags
        PROVE  \E j \in jobs : /\ j.name = <<"tag", t>>
                               /\ {q.name : q \in j.repos} = {q.name : q \in Having(t)}
    <3>1. t \in Live
      BY <1>3, <2>1, <2>2 DEF Live
    <3>2. Job("pull", <<"tag", t>>, Batch(t)) \in jobs
      BY <1>2, <3>1 DEF TagJobs
    <3> QED BY <1>3, <1>4, <2>1, <3>2
  <2>3. ASSUME NEW j \in jobs, j.name = <<"tag", t>>
        PROVE  \E r \in Repos : Active(r) /\ t \in r.tags
    <3>0. \A r \in Repos : j.name # <<r.name>>
      BY <1>6, <2>3
    <3>1. PICK g \in {"pull", "update"}, u \in Live : j = Job(g, <<"tag", u>>, Batch(u))
      <4>1. ASSUME NEW r \in Repos
            PROVE  j # Job("pull", <<r.name>>, {r}) /\ j # Job("update", <<r.name>>, {r})
        <5>1. j.name # <<r.name>>
          BY <3>0
        <5>2. /\ Job("pull", <<r.name>>, {r}).name = <<r.name>>
              /\ Job("update", <<r.name>>, {r}).name = <<r.name>>
          BY DEF Job
        <5> QED BY <5>1, <5>2
      <4> QED BY <1>5, <4>1
    <3>2. u = t
      BY <1>4, <2>3, <3>1
    <3> QED BY <1>3, <2>1, <3>1, <3>2 DEF Live
  <2> QED BY <2>2, <2>3
<1> QED BY <1>7, <1>8, <1>9 DEF HaveCommands

(* Counting items by their names.                                          *)
LEMMA CountIsOcc ==
  ASSUME NEW Item, NEW xs \in Seq(Item), NEW n
  PROVE  Count(xs, n) = Occ(xs, {x \in Item : x.name = n})
<1>1. {i \in DOMAIN xs : xs[i].name = n} = {i \in DOMAIN xs : xs[i] \in {x \in Item : x.name = n}}
  OBVIOUS
<1> QED BY <1>1 DEF Count, Occ

LEMMA BaseIs ==
  ASSUME NEW Name, NEW Item, AreFiles(Name, Item), disk \in Disks, PartsOf(disk[Main]) # <<>>
  PROVE  /\ Base = <<PartsOf(disk[Main])[1]>>
         /\ PartsOf(disk[Main])[1] \in Configuration(Name, Item)
<1> DEFINE C == Configuration(Name, Item)
           ps == PartsOf(disk[Main])
<1>1. ps \in Seq(C) /\ ps # <<>>
  BY DiskFiles, PartsAre
<1>2. Base = SubSeq(ps, 1, 1)
  BY DEF Base
<1> HIDE DEF ps, C
<1>3. Len(ps) \in Nat /\ 1 <= Len(ps) /\ ps[1] \in C
  BY <1>1, EmptySeq
<1>4. 1 \in 1 .. Len(ps) + 1 /\ 1 \in 0 .. Len(ps) /\ 1 \in 1 .. Len(ps)
  BY <1>3
<1> DEFINE v == SubSeq(ps, 1, 1)
           w == <<ps[1]>>
<1>5. v \in Seq(C) /\ Len(v) = 1 /\ v[1] = ps[1]
  BY <1>1, <1>3, <1>4, SubSeqProperties
<1>6. w \in Seq(C) /\ Len(w) = 1 /\ w[1] = ps[1]
  BY <1>3
<1> HIDE DEF v, w
<1>7. v = w
  <2>1. \A i \in 1 .. 1 : v[i] = w[i]
    BY <1>5, <1>6
  <2> QED BY <1>5, <1>6, <2>1, SeqEqual
<1> QED BY <1>2, <1>3, <1>7 DEF ps, v, w, C

(* All that the files hold.                                                *)
LEMMA AllPartsAre ==
  ASSUME conf.paths \in Seq(File)
  PROVE  AllParts = PartsTo(disk, conf.paths, Len(conf.paths) + 1)
<1>1. DOMAIN conf.paths = 1 .. (Len(conf.paths) + 1) - 1
  <2>1. DOMAIN conf.paths = 1 .. Len(conf.paths) /\ (Len(conf.paths) + 1) - 1 = Len(conf.paths)
    OBVIOUS
  <2> QED BY <2>1
<1> QED BY <1>1 DEF AllParts, PartsTo

(* The sections that are joined hold at the end what all files hold.       *)
LEMMA SectionsAre ==
  ASSUME NEW Name, NEW Item, Collected(Name, Item), Started, ~failed
  PROVE  /\ \A T : \A s \in Joined : Occ(conf.sec[s], T) = Occ(In(AllParts, s), T)
         /\ \A i \in DOMAIN conf.paths : IsLinked(disk[conf.paths[i]])
<1>1. /\ conf \in Configuration(Name, Item) /\ AsRead /\ next = Len(conf.paths) + 1
      /\ IsMigratedBase(conf, PartsOf(disk[Main])[1])
  BY DEF Collected, Started
<1>2. conf.paths \in Seq(File)
  BY <1>1, Fields
<1>3. AllParts = PartsTo(disk, conf.paths, next)
  BY <1>1, <1>2, AllPartsAre
<1>4. ASSUME NEW s \in Joined, NEW T
      PROVE  Occ(conf.sec[s], T) = Occ(In(AllParts, s), T)
  <2>1. Occ(conf.sec[s], T) + Occ(conf.old[s], T) = Occ(In(AllParts, s), T)
    BY <1>1, <1>3 DEF AsRead, Both
  <2>2. Occ(conf.old[s], T) = 0
    BY <1>1, OccEmpty DEF IsMigratedBase
  <2>3. conf.sec[s] \in Seq(Item)
    BY <1>1, Fields DEF Joined
  <2>4. Occ(conf.sec[s], T) \in Nat
    BY <2>3, OccFinite
  <2> QED BY <2>1, <2>2, <2>4
<1>5. \A i \in DOMAIN conf.paths : i \in 1 .. next - 1
  BY <1>1, <1>2
<1> QED BY <1>1, <1>4, <1>5 DEF AsRead

LEMMA CompletedCount ==
  ASSUME NEW k, NEW c, IsCompleted(k, c), NEW s \in Section, NEW n
  PROVE  Count(k.sec[s], n) = Count(c.sec[s], n) /\ Names(k.sec[s]) = Names(c.sec[s])
<1>1. CASE s = "repos"
  <2> DEFINE a == k.sec["repos"]
             b == c.sec["repos"]
  <2>1. DOMAIN a = DOMAIN b /\ \A i \in DOMAIN b : a[i].name = b[i].name
    BY DEF IsCompleted, Same
  <2> HIDE DEF a, b
  <2>2. {i \in DOMAIN a : a[i].name = n} = {i \in DOMAIN b : b[i].name = n}
    BY <2>1
  <2>3. Count(a, n) = Count(b, n)
    BY <2>2 DEF Count
  <2>4. Names(a) = Names(b)
    BY <2>1 DEF Names
  <2> QED BY <1>1, <2>3, <2>4 DEF a, b
<1>2. CASE s # "repos"
  BY <1>2 DEF IsCompleted
<1> QED BY <1>1, <1>2

(* What is counted where Migrate or Join have made it.                     *)
LEMMA JoinedCount ==
  ASSUME NEW Name, NEW Item, AreFiles(Name, Item), Collected(Name, Item), Started, ~failed,
         disk \in Disks, NEW s \in Joined, NEW n
  PROVE  Count(conf.sec[s], n) = Count(In(AllParts, s), n)
<1> DEFINE T == {x \in Item : x.name = n}
           xs == conf.sec[s]
           ys == In(AllParts, s)
<1>1. Occ(xs, T) = Occ(ys, T)
  BY SectionsAre
<1>2. conf \in Configuration(Name, Item) /\ s \in Section
  BY DEF Collected, Joined
<1>3. conf.paths \in Seq(File) /\ xs \in Seq(Item)
  BY <1>2, Fields
<1>4. AllParts \in Seq(Configuration(Name, Item))
  <2>1. AllParts = PartsTo(disk, conf.paths, Len(conf.paths) + 1)
    BY <1>3, AllPartsAre
  <2>2. Len(conf.paths) + 1 \in 1 .. Len(conf.paths) + 1
    BY <1>3
  <2> QED BY <1>3, <2>1, <2>2, PartsToAre
<1>5. ys \in Seq(Item)
  BY <1>2, <1>4, InOcc
<1> HIDE DEF xs, ys
<1>6. Count(xs, n) = Occ(xs, T) /\ Count(ys, n) = Occ(ys, T)
  BY <1>3, <1>5, CountIsOcc
<1> QED BY <1>1, <1>6 DEF xs, ys

LEMMA BaseCount ==
  ASSUME NEW Name, NEW Item, AreFiles(Name, Item), disk \in Disks, PartsOf(disk[Main]) # <<>>,
         IsMigratedBase(conf, PartsOf(disk[Main])[1]), NEW n
  PROVE  /\ Count(conf.sec["projects"], n) = Count(In(Base, "projects"), n)
         /\ Count(conf.sec["hosts"], n) = Count(In(Base, "hosts"), n) + Count(Base[1].net, n)
<1> DEFINE b == PartsOf(disk[Main])[1]
           T == {x \in Item : x.name = n}
<1>1. Base = <<b>> /\ b \in Configuration(Name, Item) /\ Base[1] = b
  BY BaseIs
<1> HIDE DEF b
<1>2. "projects" \in Section /\ "hosts" \in Section
  BY DEF Section
<1>3. In(Base, "projects") = Row(b, "projects") /\ In(Base, "hosts") = Row(b, "hosts")
  BY <1>1, <1>2, InOne
<1>4. /\ b.sec["projects"] \in Seq(Item) /\ b.old["projects"] \in Seq(Item)
      /\ b.sec["hosts"] \in Seq(Item) /\ b.old["hosts"] \in Seq(Item) /\ b.net \in Seq(Item)
  BY <1>1, <1>2, Fields
<1> DEFINE p == b.sec["projects"] \o b.old["projects"]
           h == b.sec["hosts"] \o b.old["hosts"]
           w == b.net
<1>5. p \in Seq(Item) /\ h \in Seq(Item) /\ w \in Seq(Item)
  BY <1>4, ConcatProperties
<1>6. Row(b, "projects") = p \o <<>> /\ Row(b, "hosts") = h \o w
  BY DEF Row
<1>7. conf.sec["projects"] = p /\ conf.sec["hosts"] = h \o (w \o w)
  BY DEF IsMigratedBase, b
<1> HIDE DEF p, h, T
<1>8. Row(b, "projects") = p
  BY <1>5, <1>6, ConcatEmptySeq
<1>9. Count(b.net, n) = Occ(w, T)
  BY <1>4, CountIsOcc DEF T
<1> HIDE DEF w
<1>10. w \o w \in Seq(Item) /\ h \o w \in Seq(Item)
  BY <1>5, ConcatProperties
<1> DEFINE ww == w \o w
           hw == h \o w
           hww == h \o ww
<1>11. Occ(ww, T) = Occ(w, T) + Occ(w, T)
  BY <1>5, OccConcat
<1>12. Occ(hw, T) = Occ(h, T) + Occ(w, T)
  BY <1>5, OccConcat
<1>13. ww \in Seq(Item) /\ hw \in Seq(Item)
  BY <1>10
<1> HIDE DEF ww, hw
<1>14. Occ(hww, T) = Occ(h, T) + Occ(ww, T) /\ hww \in Seq(Item)
  BY <1>5, <1>13, OccConcat, ConcatProperties
<1> HIDE DEF hww
<1>15. Count(hww, n) = Occ(hww, T) /\ Count(hw, n) = Occ(hw, T)
  BY <1>13, <1>14, CountIsOcc DEF T
<1>16. Occ(h, T) \in Nat /\ Occ(w, T) \in Nat
  BY <1>5, OccFinite
<1>17. Count(hww, n) = Count(hw, n) + Occ(w, T)
  BY <1>11, <1>12, <1>14, <1>15, <1>16
<1>18. Row(b, "hosts") = hw /\ conf.sec["hosts"] = hww
  BY <1>6, <1>7 DEF hw, hww, ww
<1> QED BY <1>1, <1>3, <1>7, <1>8, <1>9, <1>17, <1>18

LEMMA ValidatePartsKeeps ==
  ASSUME NEW Name, NEW Item, AreFiles(Name, Item), LoadInv(Name, Item), ValidateParts
  PROVE  LoadInv(Name, Item)'
<1> DEFINE C == Configuration(Name, Item)
           b == PartsOf(disk[Main])[1]
<1>1. /\ disk \in Disks /\ phase = "validate" /\ Collected(Name, Item) /\ HasJobs
      /\ Indexed(Name) /\ Groups /\ \A n \in RepoNames : lookup[n] \in Repos
  BY DEF LoadInv, ValidateParts, Started
<1>2. /\ disk' = disk /\ lookup' = lookup /\ tags' = tags /\ jobs' = jobs
      /\ conf' = Complete(conf)
  BY DEF ValidateParts, Index, Complete
<1>3. phase' \in {"rejected", "loaded"}
  BY DEF ValidateParts
<1>4. CASE phase' = "rejected"
  BY <1>1, <1>2, <1>4 DEF LoadInv, Accepted, Started
<1>5. CASE phase' = "loaded"
  <2>1. /\ ~failed
        /\ \A r \in Repos : ValidRepo(r)
        /\ ValidProjects(conf.sec["projects"])
        /\ ValidTagGroups
        /\ \A s \in Others : \A x \in Range(conf.sec[s]) : x.ok
    <3> DEFINE ok == /\ \A r \in Repos : ValidRepo(r)
                     /\ ValidProjects(conf.sec["projects"])
                     /\ ValidTagGroups
                     /\ \A s \in Others : \A x \in Range(conf.sec[s]) : x.ok
    <3>1. failed' = (failed \/ ~ok) /\ phase' = IF failed' THEN "rejected" ELSE "loaded"
      BY DEF ValidateParts
    <3> HIDE DEF ok
    <3>2. ~failed'
      BY <1>5, <3>1
    <3>3. ~failed /\ ok
      BY <3>1, <3>2
    <3> QED BY <3>3 DEF ok
  <2>2. /\ conf \in C /\ Started /\ PartsOf(disk[Main]) # <<>> /\ IsMigratedBase(conf, b)
        /\ next = Len(conf.paths) + 1
    BY <1>1 DEF Collected, Started
  <2>3. conf' \in C /\ IsCompleted(conf', conf)
    <3>1. Repository(Name) \subseteq Item
      BY DEF AreFiles
    <3> QED BY <1>2, <2>2, <3>1, Completed
  <2>4. Alike(Repos', Repos)
    BY <2>2, <2>3, CompletedAlike DEF Repos
  <2>5. DOMAIN conf.groups = {}
    <3> SUFFICES ASSUME NEW g \in DOMAIN conf.groups PROVE FALSE
      OBVIOUS
    <3>1. g \in DOMAIN tags
      BY <1>1 DEF Groups
    <3> QED BY <2>1, <3>1 DEF ValidTagGroups
  <2>6. /\ conf'.groups = conf.groups /\ conf'.paths = conf.paths
        /\ \A s \in Section \ {"repos"} : conf'.sec[s] = conf.sec[s]
    BY <2>3 DEF IsCompleted
  <2>7. /\ RepoNames' = RepoNames
        /\ UNION {q.tags : q \in Repos'} = UNION {q.tags : q \in Repos}
        /\ \A t : {q.name : q \in {q \in Repos' : t \in q.tags}} = {r.name : r \in {r \in Repos : t \in r.tags}}
    BY <2>4, AlikeNames DEF RepoNames
  <2>8. Indexed(Name)'
    <3>1. IsInjective(NamesOf(conf'.sec["repos"]))
      <4> DEFINE ks == conf'.sec["repos"]
                 cs == conf.sec["repos"]
      <4>1. DOMAIN ks = DOMAIN cs /\ \A i \in DOMAIN cs : ks[i].name = cs[i].name
        BY <2>3 DEF IsCompleted, Same
      <4> HIDE DEF ks, cs
      <4>2. NamesOf(ks) = NamesOf(cs)
        BY <4>1 DEF NamesOf
      <4> QED BY <1>1, <4>2 DEF ks, cs, Indexed
    <3>2. DOMAIN lookup' = RepoNames' /\ \A n \in RepoNames' : lookup'[n].name = n
      BY <1>1, <1>2, <2>7 DEF Indexed
    <3>3. /\ DOMAIN tags' = UNION {r.tags : r \in Repos'}
          /\ \A t \in DOMAIN tags' :
               tags'[t] \in Seq(Name) /\ Range(tags'[t]) = {r.name : r \in {r \in Repos' : t \in r.tags}}
      <4>1. /\ DOMAIN tags = UNION {r.tags : r \in Repos}
            /\ \A t \in DOMAIN tags :
                 tags[t] \in Seq(Name) /\ Range(tags[t]) = {r.name : r \in {r \in Repos : t \in r.tags}}
        BY <1>1, <2>5 DEF Indexed
      <4> QED BY <1>2, <2>7, <4>1
    <3> QED BY <3>1, <3>2, <3>3 DEF Indexed
  <2>9. AllParts' = AllParts /\ Base' = Base
    BY <1>2, <2>6 DEF AllParts, Base
  <2>10. ConfiguredOnce'
    <3>1. ASSUME NEW s \in Section \ {"projects", "hosts"}, NEW n
          PROVE  Count(conf'.sec[s], n) = Count(In(AllParts, s), n)
      <4>1. s \in Joined /\ s \in Section
        BY DEF Joined
      <4>2. Count(conf'.sec[s], n) = Count(conf.sec[s], n)
        BY <2>3, <4>1, CompletedCount
      <4>3. Count(conf.sec[s], n) = Count(In(AllParts, s), n)
        BY <1>1, <2>1, <2>2, <4>1, JoinedCount
      <4> QED BY <4>2, <4>3
    <3>2. conf'.sec["projects"] = conf.sec["projects"] /\ conf'.sec["hosts"] = conf.sec["hosts"]
      BY <2>6 DEF Section
    <3>3. ASSUME NEW n
          PROVE  /\ Count(conf.sec["projects"], n) = Count(In(Base, "projects"), n)
                 /\ Count(conf.sec["hosts"], n) = Count(In(Base, "hosts"), n) + Count(Base[1].net, n)
      BY <1>1, <2>2, BaseCount
    <3> QED BY <2>9, <3>1, <3>2, <3>3 DEF ConfiguredOnce
  <2>11. AcceptedIsValid'
    <3>1. \A i \in DOMAIN conf.paths : IsLinked(disk[conf.paths[i]])
      BY <1>1, <2>1, <2>2, SectionsAre
    <3>2. \A r \in Repos' : ValidRepo(r)
      BY <2>1, <2>4 DEF Alike, Same, ValidRepo
    <3>3. ValidProjects(conf'.sec["projects"])
      <4>1. conf'.sec["projects"] = conf.sec["projects"]
        BY <2>6 DEF Section
      <4> QED BY <2>1, <4>1
    <3>4. ASSUME NEW s \in Others, NEW x \in Range(In(AllParts, s))
          PROVE  x.ok
      <4> DEFINE ys == In(AllParts, s)
                 xs == conf.sec[s]
      <4>1. s \in Joined /\ s \in Section
        BY DEF Others, Joined, Section
      <4>2. conf.paths \in Seq(File) /\ xs \in Seq(Item)
        BY <2>2, <4>1, Fields
      <4>3. AllParts \in Seq(C)
        <5>1. AllParts = PartsTo(disk, conf.paths, Len(conf.paths) + 1)
          BY <4>2, AllPartsAre
        <5>2. Len(conf.paths) + 1 \in 1 .. Len(conf.paths) + 1
          BY <4>2
        <5> QED BY <1>1, <4>2, <5>1, <5>2, PartsToAre
      <4>4. ys \in Seq(Item)
        BY <4>1, <4>3, InOcc
      <4>5. Occ(xs, {x}) = Occ(ys, {x})
        BY <1>1, <2>1, <2>2, <4>1, SectionsAre
      <4>6. \E i \in DOMAIN ys : ys[i] = x
        BY <3>4 DEF Range
      <4>7. \A i \in DOMAIN xs : xs[i].ok
        BY <2>1, <3>4 DEF Range
      <4> HIDE DEF xs, ys
      <4>8. Occ(ys, {x}) # 0
        BY <4>4, <4>6, OccFinite
      <4>9. \E i \in DOMAIN xs : xs[i] = x
        BY <4>2, <4>5, <4>8, OccFinite
      <4> QED BY <4>7, <4>9
    <3> QED BY <1>2, <2>6, <2>9, <3>1, <3>2, <3>3, <3>4 DEF AcceptedIsValid, IsLinked
  <2>12. ActiveHaveCommands'
    <3>1. HaveCommands(Repos, jobs)
      BY <1>1, <2>5, CommandsOfAll
    <3>2. HaveCommands(Repos', jobs)
      BY <2>4, <3>1, AlikeCommands
    <3> QED BY <1>2, <3>2 DEF ActiveHaveCommands, HaveCommands
  <2> QED BY <1>1, <1>2, <1>5, <2>3, <2>5, <2>6, <2>8, <2>10, <2>11, <2>12
        DEF LoadInv, Accepted, Started
<1> QED BY <1>3, <1>4, <1>5

-----------------------------------------------------------------------------
(* The operations on repositories, which change nothing of all that.       *)

LEMMA OperationKeeps ==
  ASSUME NEW Name, NEW Item, LoadInv(Name, Item), phase = "loaded",
         phase' \in {"done", "error"}, UNCHANGED <<disk, conf, next, failed, jobs, Index>>,
         request'[1] \notin {"list", "publish"} =>
           request'[2] \in Seq(Name) /\ found' = FindAll(request'[2])
  PROVE  LoadInv(Name, Item)'
<1>1. /\ disk' = disk /\ conf' = conf /\ next' = next /\ failed' = failed /\ jobs' = jobs
      /\ lookup' = lookup /\ tags' = tags
  BY DEF Index
<1>2. /\ disk \in Disks /\ conf \in Configuration(Name, Item) /\ Indexed(Name)
      /\ DOMAIN conf.groups = {} /\ ConfiguredOnce /\ AcceptedIsValid /\ ActiveHaveCommands
      /\ Accepted /\ Accepted'
  BY DEF LoadInv, Accepted
<1>3. Repos' = Repos /\ RepoNames' = RepoNames
  BY <1>1 DEF Repos, RepoNames
<1>4. Indexed(Name)'
  BY <1>1, <1>2, <1>3 DEF Indexed
<1>5. AllParts' = AllParts /\ Base' = Base
  BY <1>1 DEF AllParts, Base
<1>6. ConfiguredOnce'
  BY <1>1, <1>2, <1>5 DEF ConfiguredOnce
<1>7. AcceptedIsValid'
  BY <1>1, <1>2, <1>3, <1>5 DEF AcceptedIsValid
<1>8. ActiveHaveCommands'
  BY <1>1, <1>2, <1>3 DEF ActiveHaveCommands
<1>9. \A ids : FindAll(ids)' = FindAll(ids)
  <2>1. \A id : LookUp(id)' = LookUp(id)
    BY <1>1 DEF LookUp
  <2> QED BY <2>1 DEF FindAll
<1> QED BY <1>1, <1>2, <1>4, <1>6, <1>7, <1>8, <1>9 DEF LoadInv, Started

-----------------------------------------------------------------------------
(* What FindAll finds.                                                     *)

Found == {lookup[n] : n \in RepoNames}

(* The names that an argument stands for.                                  *)
StandsFor(id) ==
  IF id \in RepoNames THEN {id}
  ELSE {r.name : r \in {r \in Repos : id \in r.tags}}

LEMMA LookedUp ==
  ASSUME NEW Name, Indexed(Name), DOMAIN conf.groups = {}, NEW id
  PROVE  LookUp(id) \in Seq(Found) /\ Names(LookUp(id)) = StandsFor(id)
<1>1. /\ DOMAIN lookup = RepoNames /\ \A n \in RepoNames : lookup[n].name = n
      /\ DOMAIN tags = UNION {r.tags : r \in Repos}
      /\ \A t \in DOMAIN tags :
           tags[t] \in Seq(Name) /\ Range(tags[t]) = {r.name : r \in {r \in Repos : t \in r.tags}}
  BY DEF Indexed
<1>2. CASE id \in RepoNames
  <2> DEFINE x == lookup[id]
  <2>1. LookUp(id) = <<x>> /\ x \in Found /\ x.name = id
    BY <1>1, <1>2 DEF LookUp, Found
  <2> HIDE DEF x
  <2>2. Names(<<x>>) = {x.name}
    BY DEF Names
  <2> QED BY <1>2, <2>1, <2>2 DEF StandsFor
<1>3. CASE id \notin RepoNames /\ id \in DOMAIN tags
  <2> DEFINE ns == tags[id]
             v == [i \in DOMAIN ns |-> lookup[ns[i]]]
  <2>1. LookUp(id) = v
    BY <1>1, <1>3 DEF LookUp
  <2>2. ns \in Seq(Name) /\ Range(ns) = {r.name : r \in {r \in Repos : id \in r.tags}}
    BY <1>1, <1>3
  <2>3. \A i \in DOMAIN ns : ns[i] \in RepoNames
    BY <2>2 DEF Range, RepoNames
  <2>4. \A i \in DOMAIN ns : v[i] \in Found /\ v[i].name = ns[i]
    BY <1>1, <2>3 DEF Found
  <2>5. v \in Seq(Found)
    <3>1. DOMAIN ns = 1 .. Len(ns) /\ Len(ns) \in Nat
      BY <2>2
    <3>2. v \in [1 .. Len(ns) -> Found]
      BY <2>4, <3>1
    <3> QED BY <3>1, <3>2, SeqDef
  <2>6. DOMAIN v = DOMAIN ns
    OBVIOUS
  <2>7. StandsFor(id) = Range(ns)
    BY <1>3, <2>2 DEF StandsFor
  <2> HIDE DEF v, ns
  <2>8. Names(v) = Range(ns)
    BY <2>4, <2>6 DEF Names, Range
  <2> QED BY <2>1, <2>5, <2>7, <2>8
<1>4. CASE id \notin RepoNames /\ id \notin DOMAIN tags
  <2>1. LookUp(id) = <<>>
    BY <1>1, <1>4 DEF LookUp
  <2>2. StandsFor(id) = {}
    BY <1>1, <1>4 DEF StandsFor
  <2>3. Names(<<>>) = {} /\ <<>> \in Seq(Found)
    BY DEF Names
  <2> QED BY <2>1, <2>2, <2>3
<1> QED BY <1>2, <1>3, <1>4

(* The first of every name remains, and only that.                         *)
LEMMA FindAllFinds ==
  ASSUME NEW Name, Indexed(Name), DOMAIN conf.groups = {}, NEW ids \in Seq(Name)
  PROVE  /\ IsInjective(NamesOf(FindAll(ids)))
         /\ Names(FindAll(ids)) = UNION {StandsFor(ids[i]) : i \in DOMAIN ids}
<1> DEFINE found1 == [i \in DOMAIN ids |-> LookUp(ids[i])]
           all == FlattenSeq(found1)
           Seen(i) == \E j \in 1 .. i - 1 : all[j].name = all[i].name
           rows == [i \in DOMAIN all |-> IF Seen(i) THEN <<>> ELSE <<all[i]>>]
           n == Len(all)
<1>1. FindAll(ids) = FlattenSeq(rows)
  BY DEF FindAll
<1>2. /\ DOMAIN ids = 1 .. Len(ids) /\ Len(ids) \in Nat
      /\ \A i \in DOMAIN ids : found1[i] \in Seq(Found) /\ Names(found1[i]) = StandsFor(ids[i])
  <2>1. \A id : LookUp(id) \in Seq(Found) /\ Names(LookUp(id)) = StandsFor(id)
    BY LookedUp
  <2> QED BY <2>1
<1>3. found1 \in Seq(Seq(Found)) /\ Len(found1) = Len(ids)
  <2>1. found1 \in [1 .. Len(ids) -> Seq(Found)]
    BY <1>2
  <2>2. found1 \in Seq(Seq(Found))
    BY <1>2, <2>1, SeqDef
  <2> QED BY <1>2, <2>1, <2>2
<1> HIDE DEF found1
<1>4. /\ all \in Seq(Found)
      /\ Range(all) = UNION {Range(found1[j]) : j \in 1 .. Len(found1)}
  BY <1>3, Flattened
<1> HIDE DEF all
<1>5. n \in Nat /\ DOMAIN all = 1 .. n /\ \A i \in 1 .. n : all[i] \in Found
  BY <1>4
<1>6. rows \in Seq(Seq(Found)) /\ Len(rows) = n
  <2>1. rows \in [1 .. n -> Seq(Found)]
    BY <1>5
  <2>2. rows \in Seq(Seq(Found))
    BY <1>5, <2>1, SeqDef
  <2> QED BY <1>5, <2>1, <2>2
<1>7. \A i \in 1 .. n : rows[i] = IF Seen(i) THEN <<>> ELSE <<all[i]>>
  BY <1>5
<1>8. \A i \in 1 .. n : Range(rows[i]) = IF Seen(i) THEN {} ELSE {all[i]}
  <2>1. Range(<<>>) = {} /\ \A x : Range(<<x>>) = {x}
    BY DEF Range
  <2> HIDE DEF rows
  <2> QED BY <1>7, <2>1
<1> HIDE DEF rows
<1>9. ASSUME NEW i \in 1 .. n
      PROVE  Fresh(Found, rows, i)
  <2>1. CASE Seen(i)
    BY <1>7, <2>1 DEF Fresh
  <2>2. CASE ~Seen(i)
    <3>1. rows[i] = <<all[i]>> /\ all[i] \in Found
      BY <1>5, <1>7, <2>2
    <3>2. ASSUME NEW j \in 1 .. i - 1, NEW y \in Range(rows[j])
          PROVE  y.name # all[i].name
      <4>1. j \in 1 .. n
        BY <1>5
      <4>2. y = all[j]
        BY <1>8, <3>2, <4>1
      <4> QED BY <2>2, <4>2
    <3> QED BY <3>1, <3>2 DEF Fresh
  <2> QED BY <2>1, <2>2
<1> HIDE DEF n
<1>10. IsInjective(NamesOf(FlattenSeq(rows)))
  BY <1>6, <1>9, FlattenFresh
<1>11. Range(FlattenSeq(rows)) = UNION {Range(rows[j]) : j \in 1 .. n}
  BY <1>6, Flattened
<1>12. \A xs : Names(xs) = {x.name : x \in Range(xs)}
  BY DEF Names, Range
<1>13. Names(FlattenSeq(rows)) = Names(all)
  <2>1. ASSUME NEW x \in Range(FlattenSeq(rows))
        PROVE  x \in Range(all)
    <3>1. PICK j \in 1 .. n : x \in Range(rows[j])
      BY <1>11
    <3>2. x = all[j]
      BY <1>8, <3>1
    <3> QED BY <1>5, <3>2 DEF Range
  <2>2. ASSUME NEW i \in 1 .. n
        PROVE  \E x \in Range(FlattenSeq(rows)) : x.name = all[i].name
    <3> DEFINE T == {j \in 1 .. n : all[j].name = all[i].name}
    <3>1. T \subseteq Nat /\ i \in T
      OBVIOUS
    <3> HIDE DEF T
    <3>2. PICK j \in T : \A y \in T : j <= y
      BY <3>1, Least
    <3>3. j \in 1 .. n /\ all[j].name = all[i].name
      BY <3>2 DEF T
    <3>4. ~Seen(j)
      <4> SUFFICES ASSUME NEW k \in 1 .. j - 1, all[k].name = all[j].name PROVE FALSE
        OBVIOUS
      <4>1. k \in 1 .. n /\ ~(j <= k)
        BY <1>5, <3>3
      <4>2. k \in T
        BY <3>3, <4>1 DEF T
      <4> QED BY <3>2, <4>1, <4>2
    <3>5. all[j] \in Range(rows[j])
      BY <1>8, <3>3, <3>4
    <3>6. all[j] \in Range(FlattenSeq(rows))
      BY <1>11, <3>3, <3>5
    <3> QED BY <3>3, <3>6
  <2>3. Range(all) = {all[i] : i \in 1 .. n}
    BY <1>5 DEF Range
  <2> DEFINE w == FlattenSeq(rows)
             A == {x.name : x \in Range(w)}
             B == {x.name : x \in Range(all)}
  <2>4. Names(w) = A /\ Names(all) = B
    BY <1>12
  <2> HIDE DEF w
  <2>5. A \subseteq B
    BY <2>1 DEF w
  <2>6. B \subseteq A
    BY <2>2, <2>3 DEF w
  <2> QED BY <2>4, <2>5, <2>6 DEF w
<1>14. Names(all) = UNION {StandsFor(ids[i]) : i \in DOMAIN ids}
  <2>1. \A i \in DOMAIN ids : StandsFor(ids[i]) = {x.name : x \in Range(found1[i])}
    BY <1>2, <1>12
  <2>2. Range(all) = UNION {Range(found1[i]) : i \in DOMAIN ids}
    BY <1>2, <1>3, <1>4
  <2> QED BY <1>12, <2>1, <2>2
<1> QED BY <1>1, <1>10, <1>13, <1>14

LEMMA FindInv ==
  ASSUME NEW Name, NEW Item, LoadInv(Name, Item)
  PROVE  FindsWhatIsConfigured
<1> SUFFICES ASSUME phase \in {"done", "error"}, request[1] \notin {"list", "publish"}
             PROVE  /\ IsInjective(NamesOf(found))
                    /\ Names(found) =
                         {r.name : r \in {r \in Repos :
                           \E i \in DOMAIN request[2] :
                             \/ r.name = request[2][i]
                             \/ /\ request[2][i] \in r.tags
                                /\ request[2][i] \notin {q.name : q \in Repos}}}
  BY DEF FindsWhatIsConfigured
<1> DEFINE ids == request[2]
<1>1. Indexed(Name) /\ DOMAIN conf.groups = {} /\ ids \in Seq(Name) /\ found = FindAll(ids)
  BY DEF LoadInv, Accepted
<1> HIDE DEF ids
<1>2. IsInjective(NamesOf(found)) /\ Names(found) = UNION {StandsFor(ids[i]) : i \in DOMAIN ids}
  BY <1>1, FindAllFinds
<1>3. ASSUME NEW id
      PROVE  StandsFor(id) = {r.name : r \in {r \in Repos : r.name = id \/ (id \in r.tags /\ id \notin RepoNames)}}
  BY DEF StandsFor, RepoNames
<1>4. UNION {StandsFor(ids[i]) : i \in DOMAIN ids} =
        {r.name : r \in {r \in Repos : \E i \in DOMAIN ids :
                     r.name = ids[i] \/ (ids[i] \in r.tags /\ ids[i] \notin RepoNames)}}
  BY <1>3
<1> QED BY <1>2, <1>4 DEF ids, RepoNames

-----------------------------------------------------------------------------
(* The operations step by step, and all steps.                             *)

LEMMA OperationsKeep ==
  ASSUME NEW Name, NEW Item, AreFiles(Name, Item), LoadInv(Name, Item),
         \/ \E ids \in Requests :
              \/ ListRepos(ids) \/ FetchRepos(ids) \/ CloneRepos(ids)
              \/ \E op \in {"update", "gc", "status"} : RunJobs(op, ids)
         \/ Publish
  PROVE  LoadInv(Name, Item)'
<1>1. Requests \subseteq Seq(Name)
  BY DEF AreFiles
<1>2. ASSUME NEW op, NEW ids, Operate(op, ids)
      PROVE  /\ phase = "loaded" /\ UNCHANGED <<disk, conf, next, failed, jobs, Index>>
             /\ request'[1] = op /\ request'[2] = ids
  BY <1>2 DEF Operate
<1>3. ASSUME NEW ids \in Requests, ListRepos(ids)
      PROVE  LoadInv(Name, Item)'
  <2>1. Operate("list", ids) /\ phase' = "done"
    BY <1>3 DEF ListRepos
  <2> QED BY <1>2, <2>1, OperationKeeps
<1>4. ASSUME NEW ids \in Requests, NEW op, Operate(op, ids), found' = FindAll(ids),
             phase' \in {"done", "error"}
      PROVE  LoadInv(Name, Item)'
  <2>1. ids \in Seq(Name)
    BY <1>1
  <2>2. /\ phase = "loaded" /\ UNCHANGED <<disk, conf, next, failed, jobs, Index>>
        /\ request'[1] = op /\ request'[2] = ids
    BY <1>2, <1>4
  <2> QED BY <1>4, <2>1, <2>2, OperationKeeps
<1>5. ASSUME NEW ids \in Requests, FetchRepos(ids)
      PROVE  LoadInv(Name, Item)'
  <2>1. Operate("fetch", ids) /\ found' = FindAll(ids) /\ phase' \in {"done", "error"}
    BY <1>5 DEF FetchRepos
  <2> QED BY <1>4, <2>1
<1>6. ASSUME NEW ids \in Requests, CloneRepos(ids)
      PROVE  LoadInv(Name, Item)'
  <2>1. Operate("clone", ids) /\ found' = FindAll(ids) /\ phase' \in {"done", "error"}
    BY <1>6 DEF CloneRepos
  <2> QED BY <1>4, <2>1
<1>7. ASSUME NEW ids \in Requests, NEW op \in {"update", "gc", "status"}, RunJobs(op, ids)
      PROVE  LoadInv(Name, Item)'
  <2>1. Operate(op, ids) /\ found' = FindAll(ids) /\ phase' \in {"done", "error"}
    BY <1>7 DEF RunJobs
  <2> QED BY <1>4, <2>1
<1>8. CASE Publish
  <2>1. Operate("publish", <<>>) /\ phase' = "error"
    BY <1>8 DEF Publish
  <2>2. /\ phase = "loaded" /\ UNCHANGED <<disk, conf, next, failed, jobs, Index>>
        /\ request'[1] = "publish"
    BY <1>2, <2>1
  <2> QED BY <2>1, <2>2, OperationKeeps
<1> QED BY <1>3, <1>5, <1>6, <1>7, <1>8

LEMMA StutterKeeps ==
  ASSUME NEW Name, NEW Item, LoadInv(Name, Item), UNCHANGED vars
  PROVE  LoadInv(Name, Item)'
<1>1. /\ disk' = disk /\ phase' = phase /\ conf' = conf /\ next' = next /\ failed' = failed
      /\ lookup' = lookup /\ tags' = tags /\ left' = left /\ jobs' = jobs
      /\ request' = request /\ found' = found
  BY DEF vars
<1>2. Repos' = Repos /\ RepoNames' = RepoNames /\ Accepted' = Accepted /\ Started' = Started
  BY <1>1 DEF Repos, RepoNames, Accepted, Started
<1>3. AllParts' = AllParts /\ Base' = Base
  BY <1>1 DEF AllParts, Base
<1>4. AsRead' = AsRead
  BY <1>1 DEF AsRead
<1>5. Collected(Name, Item)' = Collected(Name, Item)
  BY <1>1, <1>4 DEF Collected
<1>6. HasJobs' = HasJobs
  <2>1. ConcreteJobs' = ConcreteJobs
    BY <1>2 DEF ConcreteJobs
  <2>2. TagJobs' = TagJobs
    BY <1>1 DEF TagJobs, Live, Batch
  <2> QED BY <1>1, <2>1, <2>2 DEF HasJobs
<1>7. Indexed(Name)' = Indexed(Name) /\ Groups' = Groups
  BY <1>1, <1>2 DEF Indexed, Groups
<1>8. ConfiguredOnce' = ConfiguredOnce
  BY <1>1, <1>2, <1>3 DEF ConfiguredOnce
<1>9. AcceptedIsValid' = AcceptedIsValid /\ ActiveHaveCommands' = ActiveHaveCommands
  BY <1>1, <1>2, <1>3 DEF AcceptedIsValid, ActiveHaveCommands
<1>10. \A ids : FindAll(ids)' = FindAll(ids)
  <2>1. \A id : LookUp(id)' = LookUp(id)
    BY <1>1 DEF LookUp
  <2> QED BY <2>1 DEF FindAll
<1> QED BY <1>1, <1>2, <1>5, <1>6, <1>7, <1>8, <1>9, <1>10 DEF LoadInv

LEMMA InitLoads ==
  ASSUME NEW Name, NEW Item, Init
  PROVE  LoadInv(Name, Item)
BY DEF Init, LoadInv, Accepted, Started

LEMMA StepLoads ==
  ASSUME NEW Name, NEW Item, AreFiles(Name, Item), LoadInv(Name, Item), [Next]_vars
  PROVE  LoadInv(Name, Item)'
BY ReadMainKeeps, MigrateMainKeeps, LinkFileKeeps, ExpandConcreteKeeps, RebuildIndexesKeeps,
   IndexTagGroupKeeps, ExpandSyntheticKeeps, ValidatePartsKeeps, OperationsKeep, StutterKeeps
   DEF Next

(* The invariant.                                                          *)
THEOREM LoadInvariant ==
  ASSUME NEW Name, NEW Item, AreFiles(Name, Item)
  PROVE  Spec => []LoadInv(Name, Item)
<1>1. Init => LoadInv(Name, Item)
  BY InitLoads
<1>2. LoadInv(Name, Item) /\ [Next]_vars => LoadInv(Name, Item)'
  BY StepLoads
<1> QED BY <1>1, <1>2, PTL DEF Spec

LEMMA InvImplies ==
  ASSUME NEW Name, NEW Item, LoadInv(Name, Item)
  PROVE  ConfiguredOnce /\ AcceptedIsValid /\ ActiveHaveCommands
<1>1. CASE Accepted
  BY <1>1 DEF LoadInv
<1>2. CASE ~Accepted
  BY <1>2 DEF ConfiguredOnce, AcceptedIsValid, ActiveHaveCommands
<1> QED BY <1>1, <1>2

(* For all such files: an accepted configuration has every item as often   *)
(* as it was written, whatever the migrations and joins that it went       *)
(* through (conf.go).                                                      *)
THEOREM NothingIsLostOrDoubled ==
  ASSUME NEW Name, NEW Item, AreFiles(Name, Item)
  PROVE  Spec => []ConfiguredOnce
<1>1. LoadInv(Name, Item) => ConfiguredOnce
  BY InvImplies
<1> QED BY <1>1, LoadInvariant, PTL

(* For all such files: an error of any file or section, however early, is  *)
(* still known when the configuration is accepted or not.                  *)
THEOREM OnlyTheValidIsAccepted ==
  ASSUME NEW Name, NEW Item, AreFiles(Name, Item)
  PROVE  Spec => []AcceptedIsValid
<1>1. LoadInv(Name, Item) => AcceptedIsValid
  BY InvImplies
<1> QED BY <1>1, LoadInvariant, PTL

(* For all such files: the repositories that are active, and they alone,   *)
(* have commands of their own, and their tags a batch (repo/subexec.go).   *)
THEOREM CommandsForTheActive ==
  ASSUME NEW Name, NEW Item, AreFiles(Name, Item)
  PROVE  Spec => []ActiveHaveCommands
<1>1. LoadInv(Name, Item) => ActiveHaveCommands
  BY InvImplies
<1> QED BY <1>1, LoadInvariant, PTL

(* For all such files and all sequences of names: an operation finds all   *)
(* that its arguments name or tag, and each repository once                *)
(* (repo/conf.go).                                                         *)
THEOREM FindIsComplete ==
  ASSUME NEW Name, NEW Item, AreFiles(Name, Item)
  PROVE  Spec => []FindsWhatIsConfigured
<1>1. LoadInv(Name, Item) => FindsWhatIsConfigured
  BY FindInv
<1> QED BY <1>1, LoadInvariant, PTL
=============================================================================
