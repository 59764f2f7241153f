-------------------------- MODULE BuildOrderProofs --------------------------
(***************************************************************************)
(* GetBuildOrder is correct for every set of packages and every dependency *)
(* relation, and for what Collect makes of a module that compiles: proofs  *)
(* about BuildOrder and ModuleGraph.  The invariant of the loop is an      *)
(* operator of the loop's variables, because an iteration that closes a    *)
(* group does so before it looks at the queue.                             *)
(***************************************************************************)
EXTENDS ModuleGraph, FiniteSetTheorems, SequenceTheorems, TLAPS

Upto(od, n) == UNION {od[m] : m \in 1..(n - 1)}

LoopTypes(q, nx, sn, od, rn) ==
  /\ q \in Seq(Package) /\ od \in Seq(SUBSET Package)
  /\ nx \subseteq Package /\ sn \subseteq Package
  /\ rn \in Nat

(* Every package is in exactly one place.                                  *)
Split(q, nx, sn) ==
  /\ \A i, j \in DOMAIN q : q[i] = q[j] => i = j
  /\ \A i \in DOMAIN q : q[i] \notin sn \cup nx
  /\ sn \cap nx = {}
  /\ \A p \in Package : p \in sn \/ p \in nx \/ \E i \in DOMAIN q : q[i] = p

(* The closed groups are disjoint, in order, as early as possible, and     *)
(* after the first one not empty; together they are sn.                    *)
Groups(od, sn) ==
  /\ Len(od) >= 1
  /\ Upto(od, Len(od) + 1) = sn
  /\ \A m, n \in DOMAIN od : m # n => od[m] \cap od[n] = {}
  /\ \A n \in DOMAIN od : \A p \in od[n] : deps[p] \subseteq Upto(od, n)
  /\ \A n \in DOMAIN od : \A p \in od[n] :
       n > 1 => ~(deps[p] \subseteq Upto(od, n - 1))
  /\ \A n \in DOMAIN od : n > 1 => od[n] # {}
  /\ \A p \in Package : deps[p] = {} => p \in od[1]

(* What is not in a group yet could not have been in the last one.         *)
Late(sn, od) ==
  \A p \in Package \ sn : ~(deps[p] \subseteq Upto(od, Len(od)))

(* The group being collected is resolved, and the last rn packages of the  *)
(* queue are not: that is what runsSinceProgress counts.                   *)
Round(q, nx, sn, rn) ==
  /\ \A p \in nx : deps[p] \subseteq sn
  /\ \A i \in DOMAIN q : i > Len(q) - rn => ~(deps[q[i]] \subseteq sn)
  /\ nx # {} => rn <= Len(q)

Loop(q, nx, sn, od, rn) ==
  /\ LoopTypes(q, nx, sn, od, rn)
  /\ Split(q, nx, sn)
  /\ Groups(od, sn)
  /\ Late(sn, od)
  /\ Round(q, nx, sn, rn)

IInv ==
  /\ TypeOK
  /\ result # "order" => Loop(queue, next, seen, order, runs)
  /\ result = "order" =>
       Groups(order, seen \cup next) /\ (~cancelled => seen \cup next = Package)
  /\ GivesUpOnlyWhenStuck

-----------------------------------------------------------------------------
(* What appending a group does to the union of the groups before each.     *)
LEMMA UptoAppend ==
  ASSUME NEW od \in Seq(SUBSET Package), NEW g \in SUBSET Package
  PROVE  /\ Append(od, g) \in Seq(SUBSET Package)
         /\ Len(Append(od, g)) = Len(od) + 1
         /\ \A n \in 1..Len(od) : Append(od, g)[n] = od[n]
         /\ Append(od, g)[Len(od) + 1] = g
         /\ \A n \in 1..(Len(od) + 1) : Upto(Append(od, g), n) = Upto(od, n)
         /\ Upto(Append(od, g), Len(od) + 2) = Upto(od, Len(od) + 1) \cup g
<1>1. /\ Append(od, g) \in Seq(SUBSET Package)
      /\ Len(Append(od, g)) = Len(od) + 1
      /\ \A n \in 1..Len(od) : Append(od, g)[n] = od[n]
      /\ Append(od, g)[Len(od) + 1] = g
  BY AppendProperties
<1>2. Len(od) \in Nat
  BY LenProperties
<1>3. ASSUME NEW n \in 1..(Len(od) + 1)
      PROVE  Upto(Append(od, g), n) = Upto(od, n)
  <2>1. \A m \in 1..(n - 1) : Append(od, g)[m] = od[m]
    BY <1>1, <1>2
  <2>2. QED
    BY <2>1 DEF Upto
<1>4. Upto(Append(od, g), Len(od) + 2) = Upto(od, Len(od) + 1) \cup g
  <2>1. 1..(Len(od) + 2 - 1) = 1..(Len(od) + 1 - 1) \cup {Len(od) + 1}
    BY <1>2
  <2>2. \A m \in 1..(Len(od) + 1 - 1) : Append(od, g)[m] = od[m]
    BY <1>1, <1>2
  <2>3. QED
    BY <2>1, <2>2, <1>1 DEF Upto
<1>5. QED
  BY <1>1, <1>3, <1>4

(* Closing a group whose members are resolved keeps the groups in order.   *)
LEMMA GroupsAppend ==
  ASSUME NEW od \in Seq(SUBSET Package), NEW nx \in SUBSET Package,
         NEW sn \in SUBSET Package,
         Groups(od, sn), Late(sn, od), nx # {}, sn \cap nx = {},
         \A p \in nx : deps[p] \subseteq sn
  PROVE  Groups(Append(od, nx), sn \cup nx)
<1> DEFINE new == Append(od, nx)
<1> DEFINE k == Len(od)
<1>1. /\ k \in Nat /\ k >= 1
      /\ DOMAIN od = 1..k
      /\ Upto(od, k + 1) = sn
  BY LenProperties DEF Groups
<1>2. /\ new \in Seq(SUBSET Package)
      /\ Len(new) = k + 1 /\ DOMAIN new = 1..(k + 1)
      /\ \A n \in 1..k : new[n] = od[n]
      /\ new[k + 1] = nx
      /\ \A n \in 1..(k + 1) : Upto(new, n) = Upto(od, n)
      /\ Upto(new, k + 2) = sn \cup nx
  BY UptoAppend, <1>1, LenProperties
<1>3. \A n \in 1..k : od[n] \subseteq sn
  <2>1. \A n \in 1..k : n \in 1..(k + 1 - 1)
    BY <1>1
  <2>2. QED
    BY <2>1, <1>1 DEF Upto
<1> HIDE DEF new, k
<1>4. \A m, n \in DOMAIN new : m # n => new[m] \cap new[n] = {}
  <2> SUFFICES ASSUME NEW m \in DOMAIN new, NEW n \in DOMAIN new, m # n
               PROVE  new[m] \cap new[n] = {}
    OBVIOUS
  <2>1. CASE m \in 1..k /\ n \in 1..k
    BY <2>1, <1>1, <1>2 DEF Groups
  <2>2. CASE m = k + 1 /\ n \in 1..k
    BY <2>2, <1>2, <1>3
  <2>3. CASE m \in 1..k /\ n = k + 1
    BY <2>3, <1>2, <1>3
  <2>4. QED
    BY <2>1, <2>2, <2>3, <1>1, <1>2
<1>5. ASSUME NEW n \in DOMAIN new, NEW p \in new[n]
      PROVE  /\ deps[p] \subseteq Upto(new, n)
             /\ n > 1 => ~(deps[p] \subseteq Upto(new, n - 1))
  <2>1. CASE n \in 1..k
    <3>1. p \in od[n] /\ n \in DOMAIN od
      BY <2>1, <1>1, <1>2
    <3>2. /\ deps[p] \subseteq Upto(od, n)
          /\ n > 1 => ~(deps[p] \subseteq Upto(od, n - 1))
      BY <3>1 DEF Groups
    <3>3. n > 1 => n - 1 \in 1..(k + 1)
      BY <2>1, <1>1
    <3>4. QED
      BY <3>2, <3>3, <2>1, <1>1, <1>2
  <2>2. CASE n = k + 1
    <3>1. p \in nx /\ p \in Package \ sn
      BY <2>2, <1>2
    <3>2. deps[p] \subseteq Upto(od, k + 1)
      BY <3>1, <1>1
    <3>3. ~(deps[p] \subseteq Upto(od, k))
      BY <3>1 DEF Late, k
    <3>4. n - 1 = k /\ k \in 1..(k + 1) /\ k + 1 \in 1..(k + 1)
      BY <2>2, <1>1
    <3>5. QED
      BY <3>2, <3>3, <3>4, <2>2, <1>2
  <2>3. QED
    BY <2>1, <2>2, <1>1, <1>2
<1>6. \A n \in DOMAIN new : n > 1 => new[n] # {}
  <2> SUFFICES ASSUME NEW n \in DOMAIN new, n > 1
               PROVE  new[n] # {}
    OBVIOUS
  <2>1. CASE n \in 1..k
    BY <2>1, <1>1, <1>2 DEF Groups
  <2>2. CASE n = k + 1
    BY <2>2, <1>2
  <2>3. QED
    BY <2>1, <2>2, <1>1, <1>2
<1>7. \A p \in Package : deps[p] = {} => p \in new[1]
  <2>1. 1 \in 1..k
    BY <1>1
  <2>2. QED
    BY <2>1, <1>2 DEF Groups
<1>8. Upto(new, Len(new) + 1) = sn \cup nx /\ Len(new) >= 1
  <2>1. Len(new) + 1 = k + 2
    BY <1>1, <1>2
  <2>2. QED
    BY <2>1, <1>1, <1>2
<1>9. Groups(new, sn \cup nx)
  BY <1>4, <1>5, <1>6, <1>7, <1>8 DEF Groups
<1>10. QED
  BY <1>9 DEF new

(* Closing the group after a whole round: all of the queue is blocked.     *)
LEMMA CloseKeepsLoop ==
  ASSUME NEW q, NEW nx, NEW sn, NEW od, NEW rn,
         Loop(q, nx, sn, od, rn), rn = Len(q), nx # {}
  PROVE  Loop(q, {}, sn \cup nx, Append(od, nx), 0)
<1> USE DEF Loop
<1>1. LoopTypes(q, {}, sn \cup nx, Append(od, nx), 0)
  BY UptoAppend DEF LoopTypes
<1>2. Split(q, {}, sn \cup nx)
  BY DEF Split
<1>3. Groups(Append(od, nx), sn \cup nx)
  BY GroupsAppend DEF LoopTypes, Split, Round
<1>4. Late(sn \cup nx, Append(od, nx))
  <2>1. Len(od) \in Nat /\ Len(q) \in Nat /\ DOMAIN q = 1..Len(q)
    BY LenProperties DEF LoopTypes
  <2>2. /\ Len(Append(od, nx)) = Len(od) + 1
        /\ Len(od) + 1 \in 1..(Len(od) + 1)
        /\ Upto(Append(od, nx), Len(od) + 1) = Upto(od, Len(od) + 1)
    <3>1. Len(od) + 1 \in 1..(Len(od) + 1)
      BY <2>1
    <3>2. QED
      BY <3>1, UptoAppend DEF LoopTypes
  <2>3. Upto(od, Len(od) + 1) = sn
    BY DEF Groups
  <2>4. ASSUME NEW p \in Package \ (sn \cup nx)
        PROVE  ~(deps[p] \subseteq sn)
    <3>1. PICK i \in DOMAIN q : q[i] = p
      BY DEF Split
    <3>2. i > Len(q) - rn
      BY <2>1, <3>1
    <3>3. QED
      BY <3>1, <3>2 DEF Round
  <2>5. QED
    BY <2>2, <2>3, <2>4 DEF Late
<1>5. Round(q, {}, sn \cup nx, 0)
  <2>1. Len(q) \in Nat /\ DOMAIN q = 1..Len(q)
    BY LenProperties DEF LoopTypes
  <2>2. \A i \in DOMAIN q : ~(i > Len(q) - 0)
    BY <2>1
  <2>3. QED
    BY <2>2 DEF Round
<1>6. QED
  BY <1>1, <1>2, <1>3, <1>4, <1>5

(* The resolved head of the queue joins the group.                         *)
LEMMA ResolveKeepsLoop ==
  ASSUME NEW q, NEW nx, NEW sn, NEW od, NEW rn,
         Loop(q, nx, sn, od, rn), q # <<>>, deps[Head(q)] \subseteq sn
  PROVE  Loop(Tail(q), nx \cup {Head(q)}, sn, od, 0)
<1> USE DEF Loop
<1>1. /\ q \in Seq(Package) /\ Len(q) \in Nat /\ Len(q) > 0
      /\ DOMAIN q = 1..Len(q) /\ Head(q) = q[1] /\ Head(q) \in Package
      /\ Tail(q) \in Seq(Package) /\ Len(Tail(q)) = Len(q) - 1
      /\ DOMAIN Tail(q) = 1..(Len(q) - 1)
      /\ \A i \in 1..(Len(q) - 1) : Tail(q)[i] = q[i + 1]
  BY LenProperties, HeadTailProperties, EmptySeq DEF LoopTypes
<1>2. LoopTypes(Tail(q), nx \cup {Head(q)}, sn, od, 0)
  BY <1>1 DEF LoopTypes
<1>3. Split(Tail(q), nx \cup {Head(q)}, sn)
  <2>1. 1 \in DOMAIN q /\ \A i \in 1..(Len(q) - 1) : i + 1 \in DOMAIN q /\ i + 1 # 1
    BY <1>1
  <2>2. \A i, j \in 1..(Len(q) - 1) : Tail(q)[i] = Tail(q)[j] => i = j
    <3> SUFFICES ASSUME NEW i \in 1..(Len(q) - 1), NEW j \in 1..(Len(q) - 1),
                        Tail(q)[i] = Tail(q)[j]
                 PROVE  i = j
      OBVIOUS
    <3>1. i + 1 = j + 1
      BY <1>1, <2>1 DEF Split
    <3>2. QED
      BY <3>1
  <2>3. \A i \in 1..(Len(q) - 1) : Tail(q)[i] \notin sn \cup (nx \cup {Head(q)})
    BY <1>1, <2>1 DEF Split
  <2>4. sn \cap (nx \cup {Head(q)}) = {}
    BY <1>1, <2>1 DEF Split
  <2>5. ASSUME NEW p \in Package, p \notin sn, p \notin nx \cup {Head(q)}
        PROVE  \E i \in 1..(Len(q) - 1) : Tail(q)[i] = p
    <3>1. PICK i \in DOMAIN q : q[i] = p
      BY <2>5 DEF Split
    <3>2. i - 1 \in 1..(Len(q) - 1) /\ (i - 1) + 1 = i
      BY <3>1, <2>5, <1>1
    <3>3. QED
      BY <3>1, <3>2, <1>1
  <2>6. QED
    BY <1>1, <2>2, <2>3, <2>4, <2>5 DEF Split
<1>4. Round(Tail(q), nx \cup {Head(q)}, sn, 0)
  <2>1. \A i \in DOMAIN Tail(q) : ~(i > Len(Tail(q)) - 0)
    BY <1>1
  <2>2. \A p \in nx \cup {Head(q)} : deps[p] \subseteq sn
    BY DEF Round
  <2>3. 0 <= Len(Tail(q))
    BY <1>1
  <2>4. QED
    BY <2>1, <2>2, <2>3 DEF Round
<1>5. QED
  BY <1>2, <1>3, <1>4

(* The blocked head of the queue goes to its end.                          *)
LEMMA PostponeKeepsLoop ==
  ASSUME NEW q, NEW nx, NEW sn, NEW od, NEW rn,
         Loop(q, nx, sn, od, rn), q # <<>>, ~(deps[Head(q)] \subseteq sn),
         nx # {} => rn # Len(q)
  PROVE  Loop(Append(Tail(q), Head(q)), nx, sn, od, rn + 1)
<1> USE DEF Loop
<1> DEFINE t == Append(Tail(q), Head(q))
<1> DEFINE k == Len(q)
<1>1. /\ q \in Seq(Package) /\ k \in Nat /\ k > 0
      /\ DOMAIN q = 1..k /\ Head(q) = q[1] /\ Head(q) \in Package
      /\ Tail(q) \in Seq(Package) /\ Len(Tail(q)) = k - 1
      /\ \A i \in 1..(k - 1) : Tail(q)[i] = q[i + 1]
  BY LenProperties, HeadTailProperties, EmptySeq DEF LoopTypes
<1>2. /\ t \in Seq(Package) /\ Len(t) = k /\ DOMAIN t = 1..k
      /\ \A i \in 1..(k - 1) : t[i] = q[i + 1]
      /\ t[k] = q[1]
  <2>1. /\ t \in Seq(Package) /\ Len(t) = (k - 1) + 1
        /\ \A i \in 1..(k - 1) : t[i] = Tail(q)[i]
        /\ t[(k - 1) + 1] = Head(q)
    BY <1>1, AppendProperties
  <2>2. (k - 1) + 1 = k
    BY <1>1
  <2>3. QED
    BY <2>1, <2>2, <1>1, LenProperties
<1>3. rn \in Nat /\ (nx # {} => rn + 1 <= k)
  <2>1. rn \in Nat
    BY DEF LoopTypes
  <2>2. nx # {} => rn <= k /\ rn # k
    BY DEF Round
  <2>3. rn <= k /\ rn # k => rn + 1 <= k
    <3>1. k \in Nat
      BY <1>1
    <3> HIDE DEF k
    <3>2. QED
      BY <2>1, <3>1
  <2>4. ASSUME nx # {}
        PROVE  rn + 1 <= k
    BY <2>4, <2>2, <2>3
  <2>5. QED
    BY <2>1, <2>4
<1> HIDE DEF t, k
<1>4. LoopTypes(t, nx, sn, od, rn + 1)
  BY <1>2, <1>3 DEF LoopTypes
<1>5. ASSUME NEW i \in 1..k, i # k
      PROVE  i \in 1..(k - 1) /\ i + 1 \in 1..k /\ i + 1 # 1 /\ t[i] = q[i + 1]
  <2>1. i \in 1..(k - 1) /\ i + 1 \in 1..k /\ i + 1 # 1
    BY <1>1, <1>5
  <2>2. QED
    BY <2>1, <1>2
<1>6. Split(t, nx, sn)
  <2>0. \A x, y \in 1..k : q[x] = q[y] => x = y
    BY <1>1 DEF Split
  <2>1. \A i, j \in 1..k : t[i] = t[j] => i = j
    <3> SUFFICES ASSUME NEW i \in 1..k, NEW j \in 1..k, t[i] = t[j]
                 PROVE  i = j
      OBVIOUS
    <3>1. CASE i = k /\ j = k
      BY <3>1
    <3>2. CASE i # k /\ j # k
      <4>1. i + 1 \in 1..k /\ j + 1 \in 1..k /\ q[i + 1] = q[j + 1]
        BY <3>2, <1>2, <1>5
      <4>2. i + 1 = j + 1
        BY <4>1, <2>0
      <4>3. QED
        BY <4>2
    <3>3. CASE i = k /\ j # k
      <4>1. 1 \in 1..k /\ j + 1 \in 1..k /\ j + 1 # 1 /\ t[j] = q[j + 1]
        BY <3>3, <1>1, <1>5
      <4>2. t[j] = q[1]
        BY <3>3, <1>2
      <4>3. q[j + 1] = q[1]
        BY <4>1, <4>2
      <4>4. j + 1 = 1
        BY <4>1, <4>3, <2>0
      <4>5. QED
        BY <4>1, <4>4
    <3>4. CASE i # k /\ j = k
      <4>1. 1 \in 1..k /\ i + 1 \in 1..k /\ i + 1 # 1 /\ t[i] = q[i + 1]
        BY <3>4, <1>1, <1>5
      <4>2. t[i] = q[1]
        BY <3>4, <1>2
      <4>3. q[i + 1] = q[1]
        BY <4>1, <4>2
      <4>4. i + 1 = 1
        BY <4>1, <4>3, <2>0
      <4>5. QED
        BY <4>1, <4>4
    <3>5. QED
      BY <3>1, <3>2, <3>3, <3>4
  <2>2. \A i \in 1..k : t[i] \notin sn \cup nx
    <3>1. 1 \in 1..k
      BY <1>1
    <3>2. QED
      BY <3>1, <1>1, <1>2, <1>5 DEF Split
  <2>3. ASSUME NEW p \in Package, p \notin sn, p \notin nx
        PROVE  \E i \in 1..k : t[i] = p
    <3>1. PICK i \in 1..k : q[i] = p
      BY <2>3, <1>1 DEF Split
    <3>2. CASE i = 1
      BY <3>1, <3>2, <1>1, <1>2
    <3>3. CASE i # 1
      <4>1. i - 1 \in 1..(k - 1) /\ i - 1 \in 1..k /\ (i - 1) + 1 = i
        BY <3>3, <1>1
      <4>2. QED
        BY <4>1, <3>1, <1>2
    <3>4. QED
      BY <3>2, <3>3
  <2>4. QED
    BY <2>1, <2>2, <2>3, <1>2 DEF Split
<1>7. Round(t, nx, sn, rn + 1)
  <2>1. ASSUME NEW i \in 1..k, i > k - (rn + 1)
        PROVE  ~(deps[t[i]] \subseteq sn)
    <3>1. CASE i = k
      BY <3>1, <1>1, <1>2
    <3>2. CASE i # k
      <4>1. i \in 1..(k - 1) /\ i + 1 \in 1..k /\ i + 1 > k - rn
        BY <3>2, <2>1, <1>1, <1>3, <1>5
      <4>2. ~(deps[q[i + 1]] \subseteq sn)
        BY <4>1, <1>1 DEF Round, k
      <4>3. QED
        BY <4>1, <4>2, <1>2
    <3>3. QED
      BY <3>1, <3>2
  <2>2. QED
    BY <2>1, <1>2, <1>3 DEF Round
<1>8. Loop(t, nx, sn, od, rn + 1)
  BY <1>4, <1>6, <1>7
<1>9. QED
  BY <1>8 DEF t

-----------------------------------------------------------------------------
(* The closed groups together, and before each, in the words of the model. *)
LEMMA UptoIsBefore ==
  ASSUME TypeOK
  PROVE  /\ Ordered = Upto(order, Len(order) + 1)
         /\ \A n \in DOMAIN order : Before(n) = Upto(order, n)
         /\ \A n \in DOMAIN order : Before(n - 1) = Upto(order, n - 1)
<1>1. Len(order) \in Nat /\ DOMAIN order = 1..(Len(order) + 1 - 1)
  BY LenProperties DEF TypeOK
<1>2. QED
  BY <1>1 DEF Ordered, Before, Upto

(* A sequence of a finite set's elements without repetition has them all.  *)
LEMMA OrderingHasAll ==
  ASSUME NEW S, IsFiniteSet(S), NEW q \in SetToSeqs(S)
  PROVE  /\ q \in Seq(S)
         /\ \A i, j \in DOMAIN q : q[i] = q[j] => i = j
         /\ \A x \in S : \E i \in DOMAIN q : q[i] = x
<1> DEFINE k == Cardinality(S)
<1>1. k \in Nat
  BY FS_CardinalityType
<1>2. /\ q \in [1..k -> S]
      /\ \A i, j \in 1..k : i # j => q[i] # q[j]
  BY DEF SetToSeqs
<1>3. IsFiniteSet(1..k) /\ Cardinality(1..k) = k
  BY <1>1, FS_Interval
<1> HIDE DEF k
<1>4. q \in Injection(1..k, S)
  BY <1>2 DEF Injection, IsInjective
<1>5. q \in Surjection(1..k, S)
  BY <1>3, <1>4, FS_Injection DEF k
<1>6. q \in Seq(S)
  BY <1>1, <1>2, SeqDef
<1>7. QED
  BY <1>2, <1>5, <1>6 DEF Surjection

(* The invariant holds before the loop.                                    *)
LEMMA InitIInv ==
  ASSUME Init
  PROVE  IInv
<1> DEFINE free == {p \in Package : deps[p] = {}}
<1>1. /\ deps \in [Package -> SUBSET Name]
      /\ seen = free /\ order = <<free>> /\ queue \in SetToSeqs(Package \ free)
      /\ next = {} /\ runs = 0 /\ cancelled = FALSE /\ result = "none"
  BY DEF Init, Start
<1>2. free \subseteq Package /\ IsFiniteSet(Package \ free)
  BY PackageAssumption, FS_Subset
<1>3. /\ queue \in Seq(Package \ free)
      /\ \A i, j \in DOMAIN queue : queue[i] = queue[j] => i = j
      /\ \A p \in Package \ free : \E i \in DOMAIN queue : queue[i] = p
  BY <1>1, <1>2, OrderingHasAll
<1>4. /\ order \in Seq(SUBSET Package) /\ Len(order) = 1
      /\ DOMAIN order = 1..1 /\ order[1] = free
  BY <1>1, <1>2
<1>5. \A p \in Package : p \in free <=> deps[p] = {}
  OBVIOUS
<1> HIDE DEF free
<1>6. \A i \in DOMAIN queue : queue[i] \in Package \ free
  BY <1>3
<1>7. queue \in Seq(Package)
  <2>1. DOMAIN queue = 1..Len(queue) /\ Len(queue) \in Nat
    BY <1>3, LenProperties
  <2>2. queue \in [1..Len(queue) -> Package]
    BY <2>1, <1>3, <1>6, LenProperties
  <2>3. QED
    BY <2>1, <2>2, SeqDef
<1>8. Upto(order, 1) = {} /\ Upto(order, 1 + 1) = free
  <2>1. 1..(1 - 1) = {} /\ 1..(1 + 1 - 1) = {1}
    OBVIOUS
  <2>2. QED
    BY <2>1, <1>4 DEF Upto
<1>9. TypeOK
  BY <1>1, <1>2, <1>4, <1>7 DEF TypeOK
<1>10. Split(queue, next, seen)
  BY <1>1, <1>3, <1>6 DEF Split
<1>11. Groups(order, seen)
  <2>1. \A n \in DOMAIN order : n = 1
    BY <1>4
  <2>2. \A p \in order[1] : deps[p] = {}
    BY <1>2, <1>4, <1>5
  <2>3. QED
    BY <2>1, <2>2, <1>1, <1>4, <1>5, <1>8 DEF Groups
<1>12. Late(seen, order)
  <2>1. \A p \in Package \ free : deps[p] # {} /\ deps[p] \subseteq Name
    BY <1>1, <1>5
  <2>2. QED
    BY <2>1, <1>1, <1>4, <1>8 DEF Late
<1>13. Round(queue, next, seen, runs)
  <2>1. Len(queue) \in Nat /\ DOMAIN queue = 1..Len(queue)
    BY <1>7, LenProperties
  <2>2. \A i \in DOMAIN queue : ~(i > Len(queue) - 0)
    BY <2>1
  <2>3. QED
    BY <2>2, <1>1 DEF Round
<1>14. Loop(queue, next, seen, order, runs)
  BY <1>9, <1>10, <1>11, <1>12, <1>13 DEF Loop, LoopTypes, TypeOK
<1>15. QED
  BY <1>1, <1>9, <1>14 DEF IInv, GivesUpOnlyWhenStuck

(* The first thing an iteration does leaves the loop's invariant true, and *)
(* a round that is over has closed its group.                              *)
LEMMA CloseGroupLoop ==
  ASSUME IInv, Iterating, CloseGroup
  PROVE  /\ Loop(queue, Group, Seen, order', Runs)
         /\ Group # {} => Runs # Len(queue)
         /\ Len(queue) \in Nat /\ Len(queue) > 0
<1>1. Loop(queue, next, seen, order, runs)
  BY DEF IInv, Iterating
<1>2. Len(queue) \in Nat /\ Len(queue) > 0
  BY <1>1, LenProperties, EmptySeq DEF Iterating, Loop, LoopTypes
<1>3. CASE Full
  <2>1. /\ Group = {} /\ Seen = seen \cup next /\ Runs = 0
        /\ order' = Append(order, next)
    BY <1>3 DEF Group, Seen, Runs, CloseGroup
  <2>2. Loop(queue, {}, seen \cup next, Append(order, next), 0)
    BY <1>1, <1>3, CloseKeepsLoop DEF Full
  <2>3. QED
    BY <2>1, <2>2, <1>2
<1>4. CASE ~Full
  <2>1. Group = next /\ Seen = seen /\ Runs = runs /\ order' = order
    BY <1>4 DEF Group, Seen, Runs, CloseGroup
  <2>2. next # {} => runs # Len(queue)
    BY <1>4 DEF Full
  <2>3. QED
    BY <2>1, <2>2, <1>1, <1>2
<1>5. QED
  BY <1>3, <1>4

(* The invariant of the loop reads one variable, the dependencies, and no  *)
(* step of BuildOrder (tools/gadget/build_order.go) changes them after the *)
(* start: what holds of the new values holds in the new state.             *)
LEMMA FrameLoop ==
  ASSUME deps' = deps, Loop(queue', next', seen', order', runs')
  PROVE  Loop(queue, next, seen, order, runs)'
<1>1. /\ LoopTypes(queue, next, seen, order, runs)'
      /\ Split(queue, next, seen)'
  BY DEF Loop
<1>2. Groups(order, seen)'
  <2>1. Groups(order', seen')
    BY DEF Loop
  <2>2. QED
    BY <2>1 DEF Groups
<1>3. Late(seen, order)'
  <2>1. Late(seen', order')
    BY DEF Loop
  <2>2. QED
    BY <2>1 DEF Late
<1>4. Round(queue, next, seen, runs)'
  <2>1. Round(queue', next', seen', runs')
    BY DEF Loop
  <2>2. QED
    BY <2>1 DEF Round
<1>5. QED
  BY <1>1, <1>2, <1>3, <1>4 DEF Loop

(* Every iteration of the loop, its end and a cancellation keep it.        *)
LEMMA NextIInv ==
  ASSUME IInv, [Next]_vars
  PROVE  IInv'
<1>1. CASE Resolve
  <2>1. /\ Iterating /\ CloseGroup /\ deps[Head(queue)] \subseteq Seen
        /\ next' = Group \cup {Head(queue)} /\ queue' = Tail(queue)
        /\ seen' = Seen /\ runs' = 0
        /\ deps' = deps /\ cancelled' = cancelled /\ result' = result
        /\ result = "none" /\ queue # <<>>
    BY <1>1 DEF Resolve, CloseGroup, Iterating
  <2>2. Loop(queue, Group, Seen, order', Runs)
    BY <2>1, CloseGroupLoop
  <2>3. Loop(Tail(queue), Group \cup {Head(queue)}, Seen, order', 0)
    BY <2>1, <2>2, ResolveKeepsLoop
  <2>4. Loop(queue, next, seen, order, runs)'
    BY <2>1, <2>3, FrameLoop
  <2>5. TypeOK'
    BY <2>1, <2>4 DEF IInv, TypeOK, Loop, LoopTypes
  <2>6. QED
    BY <2>1, <2>4, <2>5 DEF IInv, GivesUpOnlyWhenStuck
<1>2. CASE Postpone
  <2>1. /\ Iterating /\ CloseGroup /\ ~(deps[Head(queue)] \subseteq Seen)
        /\ next' = Group /\ queue' = Append(Tail(queue), Head(queue))
        /\ seen' = Seen /\ runs' = Runs + 1
        /\ deps' = deps /\ cancelled' = cancelled /\ result' = result
        /\ result = "none" /\ queue # <<>>
    BY <1>2 DEF Postpone, CloseGroup, Iterating
  <2>2. /\ Loop(queue, Group, Seen, order', Runs)
        /\ Group # {} => Runs # Len(queue)
    BY <2>1, CloseGroupLoop
  <2>3. Loop(Append(Tail(queue), Head(queue)), Group, Seen, order', Runs + 1)
    BY <2>1, <2>2, PostponeKeepsLoop
  <2>4. Loop(queue, next, seen, order, runs)'
    BY <2>1, <2>3, FrameLoop
  <2>5. TypeOK'
    BY <2>1, <2>4 DEF IInv, TypeOK, Loop, LoopTypes
  <2>6. QED
    BY <2>1, <2>4, <2>5 DEF IInv, GivesUpOnlyWhenStuck
<1>3. CASE GiveUp
  <2>1. /\ Iterating /\ Runs >= Rounds * Len(queue)
        /\ result = "none" /\ result' = "irresolvable"
        /\ UNCHANGED <<deps, queue, next, seen, order, runs, cancelled>>
    BY <1>3 DEF GiveUp, Iterating
  <2>2. /\ Loop(queue, next, seen, order, runs)
        /\ Len(queue) \in Nat /\ Len(queue) > 0
        /\ DOMAIN queue = 1..Len(queue)
        /\ runs \in Nat /\ queue \in Seq(Package)
    BY <2>1, EmptySeq, LenProperties DEF IInv, Iterating, Loop, LoopTypes
  <2>3. runs > Len(queue)
    BY <2>1, <2>2 DEF Runs, Rounds
  <2>4. next = {}
    BY <2>2, <2>3 DEF Loop, Round
  <2>5. \A i \in DOMAIN queue : queue[i] \in Package /\ ~(deps[queue[i]] \subseteq seen)
    <3>1. \A i \in DOMAIN queue : i > Len(queue) - runs
      BY <2>2, <2>3
    <3>2. QED
      BY <3>1, <2>2 DEF Loop, Round
  <2>6. Stuck({queue[i] : i \in DOMAIN queue})
    <3> DEFINE S == {queue[i] : i \in DOMAIN queue}
    <3>1. S # {}
      <4>1. 1 \in DOMAIN queue
        BY <2>2
      <4>2. queue[1] \in S
        BY <4>1
      <4>3. QED
        BY <4>2
    <3>2. ASSUME NEW p \in S
          PROVE  deps[p] \cap (S \cup (Name \ Package)) # {}
      <4>1. PICK i \in DOMAIN queue : queue[i] = p
        OBVIOUS
      <4>2. p \in Package /\ ~(deps[p] \subseteq seen)
        BY <4>1, <2>5
      <4>3. PICK d \in deps[p] : d \notin seen
        BY <4>2
      <4>4. d \in Name
        BY <4>2, <4>3 DEF IInv, TypeOK
      <4>5. d \in Package => d \in S
        BY <4>3, <2>2, <2>4 DEF Loop, Split
      <4>6. QED
        BY <4>3, <4>4, <4>5
    <3>3. QED
      BY <3>1, <3>2 DEF Stuck
  <2>7. {queue[i] : i \in DOMAIN queue} \in SUBSET Package
    BY <2>5
  <2>8. GivesUpOnlyWhenStuck'
    BY <2>1, <2>6, <2>7 DEF GivesUpOnlyWhenStuck, Stuck
  <2>9. Loop(queue, next, seen, order, runs)'
    BY <2>1, <2>2, FrameLoop
  <2>10. TypeOK'
    BY <2>1 DEF IInv, TypeOK
  <2>11. QED
    BY <2>1, <2>8, <2>9, <2>10 DEF IInv
<1>4. CASE Finish
  <2>1. /\ result = "none" /\ result' = "order"
        /\ cancelled \/ queue = <<>>
        /\ order' = IF next = {} THEN order ELSE Append(order, next)
        /\ UNCHANGED <<deps, queue, next, seen, runs, cancelled>>
    BY <1>4 DEF Finish
  <2>2. Loop(queue, next, seen, order, runs)
    BY <2>1 DEF IInv
  <2>3. Groups(order', seen \cup next) /\ order' \in Seq(SUBSET Package)
    <3>1. CASE next = {}
      BY <3>1, <2>1, <2>2 DEF Loop, LoopTypes
    <3>2. CASE next # {}
      <4>1. order' = Append(order, next)
        BY <3>2, <2>1
      <4>2. Groups(Append(order, next), seen \cup next)
        BY <3>2, <2>2, GroupsAppend DEF Loop, LoopTypes, Split, Round
      <4>3. Append(order, next) \in Seq(SUBSET Package)
        BY <2>2, UptoAppend DEF Loop, LoopTypes
      <4>4. QED
        BY <4>1, <4>2, <4>3
    <3>3. QED
      BY <3>1, <3>2
  <2>4. Groups(order, seen \cup next)'
    BY <2>1, <2>3 DEF Groups
  <2>5. ~cancelled => seen \cup next = Package
    <3> SUFFICES ASSUME queue = <<>>
                 PROVE  seen \cup next = Package
      BY <2>1
    <3>1. DOMAIN queue = {}
      OBVIOUS
    <3>2. QED
      BY <3>1, <2>2 DEF Loop, LoopTypes, Split
  <2>6. TypeOK'
    BY <2>1, <2>3 DEF IInv, TypeOK
  <2>7. QED
    BY <2>1, <2>4, <2>5, <2>6 DEF IInv, GivesUpOnlyWhenStuck
<1>5. CASE Cancel
  <2>1. /\ result = "none" /\ cancelled' = TRUE
        /\ UNCHANGED <<deps, queue, next, seen, order, runs, result>>
    BY <1>5 DEF Cancel
  <2>2. Loop(queue, next, seen, order, runs)'
    BY <2>1, FrameLoop DEF IInv
  <2>3. QED
    BY <2>1, <2>2 DEF IInv, TypeOK, GivesUpOnlyWhenStuck
<1>6. CASE UNCHANGED vars
  <2>1. UNCHANGED <<deps, queue, next, seen, order, runs, cancelled, result>>
    BY <1>6 DEF vars
  <2>2. TypeOK' /\ GivesUpOnlyWhenStuck'
    BY <2>1 DEF IInv, TypeOK, GivesUpOnlyWhenStuck, Stuck
  <2>3. result # "order" => Loop(queue, next, seen, order, runs)'
    BY <2>1, FrameLoop DEF IInv
  <2>4. result = "order" => Groups(order, seen \cup next)'
    BY <2>1 DEF IInv, Groups, Upto
  <2>5. QED
    BY <2>1, <2>2, <2>3, <2>4 DEF IInv
<1>7. QED
  BY <1>1, <1>2, <1>3, <1>4, <1>5, <1>6 DEF Next

(* GetBuildOrder keeps the invariant of its loop.                          *)
THEOREM BuildOrderInvariant == Spec => []IInv
<1>1. Init => IInv
  BY InitIInv
<1>2. IInv /\ [Next]_vars => IInv'
  BY NextIInv
<1>3. QED
  BY <1>1, <1>2, PTL DEF Spec

(* The closed groups are right at every moment, not only at the end.       *)
LEMMA GroupsAlways ==
  ASSUME IInv
  PROVE  \E S \in SUBSET Package :
           /\ Groups(order, S)
           /\ result = "order" /\ ~cancelled => S = Package
<1>1. CASE result # "order"
  BY <1>1 DEF IInv, TypeOK, Loop
<1>2. CASE result = "order"
  BY <1>2 DEF IInv, TypeOK
<1>3. QED
  BY <1>1, <1>2

(* Every variable keeps its type.                                          *)
THEOREM BuildOrderTypes == Spec => []TypeOK
<1>1. IInv => TypeOK
  BY DEF IInv
<1>2. QED
  BY <1>1, BuildOrderInvariant, PTL

(* All a package depends on is in groups before its own.                   *)
THEOREM OrderIsCorrect == Spec => []DependenciesFirst
<1>1. IInv => DependenciesFirst
  <2> SUFFICES ASSUME IInv
               PROVE  DependenciesFirst
    OBVIOUS
  <2>1. PICK S \in SUBSET Package : Groups(order, S)
    BY GroupsAlways
  <2>2. \A n \in DOMAIN order : Before(n) = Upto(order, n)
    BY UptoIsBefore DEF IInv
  <2>3. QED
    BY <2>1, <2>2 DEF DependenciesFirst, Groups
<1>2. QED
  BY <1>1, BuildOrderInvariant, PTL

(* A returned order has every package, and none twice.                     *)
THEOREM OrderIsComplete == Spec => []EveryPackageOnce
<1>1. IInv => EveryPackageOnce
  <2> SUFFICES ASSUME IInv
               PROVE  EveryPackageOnce
    OBVIOUS
  <2>1. PICK S \in SUBSET Package :
          /\ Groups(order, S)
          /\ result = "order" /\ ~cancelled => S = Package
    BY GroupsAlways
  <2>2. Ordered = Upto(order, Len(order) + 1)
    BY UptoIsBefore DEF IInv
  <2>3. QED
    BY <2>1, <2>2 DEF EveryPackageOnce, Groups
<1>2. QED
  BY <1>1, BuildOrderInvariant, PTL

(* No package could have been a group earlier.                             *)
THEOREM OrderIsEarliest == Spec => []AsEarlyAsPossible
<1>1. IInv => AsEarlyAsPossible
  <2> SUFFICES ASSUME IInv
               PROVE  AsEarlyAsPossible
    OBVIOUS
  <2>1. PICK S \in SUBSET Package : Groups(order, S)
    BY GroupsAlways
  <2>2. \A n \in DOMAIN order : Before(n - 1) = Upto(order, n - 1)
    BY UptoIsBefore DEF IInv
  <2>3. QED
    BY <2>1, <2>2 DEF AsEarlyAsPossible, Groups
<1>2. QED
  BY <1>1, BuildOrderInvariant, PTL

(* A returned order has no empty group: were the first one empty, the      *)
(* packages of the second would depend on nothing, and be in the first.    *)
THEOREM OrderHasNoEmptyGroup == Spec => []NoEmptyGroup
<1>1. IInv => NoEmptyGroup
  <2> SUFFICES ASSUME IInv, result = "order", ~cancelled
               PROVE  \A n \in DOMAIN order : order[n] # {}
    BY DEF NoEmptyGroup
  <2>1. Groups(order, Package)
    BY GroupsAlways
  <2>2. /\ Len(order) \in Nat /\ Len(order) >= 1
        /\ DOMAIN order = 1..Len(order)
    BY <2>1, LenProperties DEF IInv, TypeOK, Groups
  <2>3. order[1] # {}
    <3> SUFFICES ASSUME order[1] = {}
                 PROVE  FALSE
      OBVIOUS
    <3>1. Upto(order, 2) = {}
      <4>1. \A m \in 1..(2 - 1) : order[m] = {}
        OBVIOUS
      <4>2. QED
        BY <4>1 DEF Upto
    <3>2. PICK m \in 1..(Len(order) + 1 - 1) : order[m] # {}
      <4>1. Upto(order, Len(order) + 1) # {}
        BY <2>1, PackageAssumption DEF Groups
      <4>2. QED
        BY <4>1 DEF Upto
    <3>3. 2 \in 1..Len(order)
      <4>1. m \in 1..Len(order) /\ m # 1
        BY <2>2, <3>2
      <4>2. QED
        BY <4>1, <2>2
    <3>4. PICK p \in order[2] : TRUE
      BY <2>1, <2>2, <3>3 DEF Groups
    <3>5. p \in Package /\ deps[p] \subseteq Upto(order, 2)
      BY <2>1, <2>2, <3>3, <3>4 DEF Groups, IInv, TypeOK
    <3>6. deps[p] = {}
      BY <3>1, <3>5
    <3>7. QED
      BY <2>1, <3>5, <3>6 DEF Groups
  <2>4. \A n \in DOMAIN order : n = 1 \/ n > 1
    BY <2>2
  <2>5. QED
    BY <2>1, <2>3, <2>4 DEF Groups
<1>2. QED
  BY <1>1, BuildOrderInvariant, PTL

(* Ten rounds without progress are given up only when no order exists.     *)
THEOREM GivingUpIsJustified == Spec => []GivesUpOnlyWhenStuck
<1>1. IInv => GivesUpOnlyWhenStuck
  BY DEF IInv
<1>2. QED
  BY <1>1, BuildOrderInvariant, PTL

-----------------------------------------------------------------------------
(* What Collect computes from imports without cycles has no cycles either, *)
(* for modules of any size: module ModuleGraph.                            *)

(* What Collect computed stays as it was.                                  *)
Collected ==
  /\ imports \in ImportGraph
  /\ deps = [p \in Package |-> Dependencies(imports, p)]

(* Each dependency is the end of a path of three imports.                  *)
LEMMA ThreeImports ==
  ASSUME Collected, NEW p \in Package, NEW s \in deps[p]
  PROVE  \E d, e \in Name : /\ d \in ToSet(imports[p])
                            /\ e \in ToSet(imports[d])
                            /\ s \in ToSet(imports[e])
                            /\ s \in Name
<1>1. imports \in [Name -> Seq(Name)] /\ p \in Name
  BY ImportAssumption, PackageAssumption DEF Collected
<1>2. \A n \in Name : ToSet(imports[n]) \subseteq Name
  BY <1>1, LenProperties DEF ToSet
<1>3. imports[p] # <<>> /\ imports[p] \in Seq(Name)
  BY <1>1 DEF Collected, Dependencies
<1>4. Last(imports[p]) \in ToSet(imports[p])
  BY <1>3, LenProperties, EmptySeq DEF Last, ToSet
<1>5. PICK e \in ToSet(imports[Last(imports[p])]) : s \in ToSet(imports[e])
  BY <1>3 DEF Collected, Dependencies
<1>6. QED
  BY <1>1, <1>2, <1>4, <1>5

(* What Collect hands to GetBuildOrder, as the next lemmas use it.         *)
LEMMA CollectCollected ==
  ASSUME Collect
  PROVE  Collected /\ deps \in [Package -> SUBSET Name]
<1>1. Collected
  BY DEF Collect, Collected
<1>2. \A p \in Package : deps[p] \subseteq Name
  BY <1>1, ThreeImports
<1>3. QED
  BY <1>1, <1>2 DEF Collected

(* Packages that all depend on one another would import one another.       *)
LEMMA NoStuckCycle ==
  ASSUME Collected, NEW S \in SUBSET Package, Stuck(S),
         \A p \in Package : deps[p] \cap (Name \ Package) = {}
  PROVE  FALSE
<1> DEFINE second == {e \in Name : ToSet(imports[e]) \cap S # {}}
<1> DEFINE first == {d \in Name : ToSet(imports[d]) \cap second # {}}
<1> DEFINE T == S \cup first \cup second
<1>1. T \in SUBSET Name /\ T # {}
  BY PackageAssumption DEF Stuck
<1>2. PICK x \in T : ToSet(imports[x]) \cap T = {}
  <2>1. Acyclic(imports)
    BY ImportAssumption DEF Collected
  <2> HIDE DEF T
  <2>2. QED
    BY <1>1, <2>1 DEF Acyclic
<1>3. x \in S
  BY <1>2
<1>4. PICK s \in S : s \in deps[x]
  BY <1>3 DEF Stuck
<1>5. PICK d \in Name, e \in Name :
        d \in ToSet(imports[x]) /\ e \in ToSet(imports[d]) /\ s \in ToSet(imports[e])
  BY <1>3, <1>4, ThreeImports
<1>6. d \in T
  BY <1>4, <1>5
<1>7. QED
  BY <1>2, <1>5, <1>6

(* GetBuildOrder gives up only on names that were not loaded.              *)
THEOREM LoadedModulesResolve == ModuleSpec => []GivesUpOnlyWhenNotLoaded
<1>1. ModuleInit => IInv /\ Collected
  BY CollectCollected, InitIInv DEF ModuleInit, Init
<1>2. IInv /\ Collected /\ [Next /\ UNCHANGED imports]_moduleVars
        => IInv' /\ Collected'
  <2> SUFFICES ASSUME IInv, Collected, [Next /\ UNCHANGED imports]_moduleVars
               PROVE  IInv' /\ Collected'
    OBVIOUS
  <2>1. [Next]_vars
    BY DEF moduleVars
  <2>2. IInv'
    BY <2>1, NextIInv
  <2>3. deps' = deps /\ imports' = imports
    BY DEF moduleVars, vars, Next, Resolve, Postpone, GiveUp, Finish, Cancel
  <2>4. Collected'
    BY <2>3 DEF Collected, Dependencies
  <2>5. QED
    BY <2>2, <2>4
<1>3. IInv /\ Collected => GivesUpOnlyWhenNotLoaded
  <2> SUFFICES ASSUME IInv, Collected, result = "irresolvable",
                      \A p \in Package : deps[p] \cap (Name \ Package) = {}
               PROVE  FALSE
    BY DEF GivesUpOnlyWhenNotLoaded
  <2>1. PICK S \in SUBSET Package : Stuck(S)
    BY DEF IInv, GivesUpOnlyWhenStuck
  <2>2. QED
    BY <2>1, NoStuckCycle
<1>4. QED
  BY <1>1, <1>2, <1>3, PTL DEF ModuleSpec

=============================================================================
