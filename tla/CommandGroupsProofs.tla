------------------------ MODULE CommandGroupsProofs ------------------------
(***************************************************************************)
(* Proofs about CommandGroups, for every configuration (AreConfigured) and *)
(* whatever room append leaves behind a slice.                             *)
(*                                                                         *)
(* Types says that slices fit their arrays.  No step writes a cell that    *)
(* was never written into the reach of a slice (Keeps), so what fitted     *)
(* fits on.  Indexed says what the index of names holds, OrderInv which    *)
(* groups are sorted, and ContentInv where the commands are that were      *)
(* configured for each name: with the groups as they were read (AsRead),   *)
(* with their copies (Copied), and with the groups that are still to be    *)
(* merged or kept (Complete), of which those that share an array have no   *)
(* room in it (SafelyShared).                                              *)
(***************************************************************************)
EXTENDS CommandGroups, FiniteSetTheorems, SequenceTheorems, TLAPS

(* Commands that are configured have numbers, from one.                    *)
Command(Word) == [id : Nat, name : Seq(Word), rank : Int]
Used(Word) == {c \in Command(Word) : c.id # 0}

ReadGroup(Word) ==
  [cat : Seq(Word), name : Seq(Word), prefix : Seq(Word),
   aliases : Seq(Seq(Word)), commands : Seq(Used(Word)),
   menu : Seq(Used(Word)), here : BOOLEAN, hint : Int]

AreConfigured(Word) == \A groups \in Configured : groups \in Seq(ReadGroup(Word))

Array(Word) == Seq(Command(Word))

AnySlice == [arr : Nat, len : Nat]

Group(Word) ==
  [cat : Seq(Word), name : Seq(Word), prefix : Seq(Word),
   aliases : Seq(Seq(Word)), menu : Seq(Used(Word)), here : BOOLEAN,
   hint : Int, cmds : AnySlice]

(* A slice is within its array, and its cells are in use.                  *)
Fits(h, s) ==
  /\ s \in AnySlice /\ s.arr \in 1 .. Len(h) /\ s.len <= Len(h[s.arr])
  /\ \A k \in 1 .. s.len : h[s.arr][k].id # 0

(* What fits in h fits in what h becomes.                                  *)
Keeps(h, h2) ==
  /\ Len(h) <= Len(h2)
  /\ \A a \in 1 .. Len(h) :
       /\ Len(h2[a]) = Len(h[a])
       /\ \A k \in 1 .. Len(h[a]) : h[a][k].id # 0 => h2[a][k].id # 0

Types(Word) ==
  /\ phase \in {"validate", "expand", "merge", "sort", "done"}
  /\ at \in Nat \ {0} /\ merged \in BOOLEAN
  /\ heap \in Seq(Array(Word))
  /\ conf \in Seq(Group(Word)) /\ expanded \in Seq(Group(Word))
  /\ \A i \in DOMAIN conf : Fits(heap, conf[i].cmds)
  /\ \A i \in DOMAIN expanded : Fits(heap, expanded[i].cmds)

(* A name is in the index once a group of that name has been reached.      *)
Indexed ==
  /\ phase \in {"validate", "expand"} => index = <<>> /\ ~merged
  /\ phase \in {"merge", "sort"} =>
       \A k \in DOMAIN index : index[k] \in DOMAIN conf /\ Key(conf[index[k]]) = k
  /\ phase = "merge" =>
       /\ \A k \in DOMAIN index : index[k] < at
       /\ \A i \in DOMAIN conf : i < at =>
            Key(conf[i]) \in DOMAIN index /\ (~merged => index[Key(conf[i])] = i)

-----------------------------------------------------------------------------
(* Slices.                                                                 *)

LEMMA KeepsFit ==
  ASSUME NEW h, NEW h2, NEW s, Fits(h, s), Keeps(h, h2), Len(h) \in Nat, Len(h2) \in Nat,
         \A a \in 1 .. Len(h) : Len(h[a]) \in Nat
  PROVE  Fits(h2, s)
<1> DEFINE a == s.arr
<1>1. s \in AnySlice /\ s.len \in Nat /\ a \in 1 .. Len(h) /\ s.len <= Len(h[a])
      /\ \A k \in 1 .. s.len : h[a][k].id # 0
  BY DEF Fits, AnySlice
<1>2. Len(h) <= Len(h2) /\ Len(h2[a]) = Len(h[a])
      /\ \A k \in 1 .. Len(h[a]) : h[a][k].id # 0 => h2[a][k].id # 0
  BY <1>1 DEF Keeps
<1>3. a \in 1 .. Len(h2) /\ s.len <= Len(h2[a])
  BY <1>1, <1>2
<1>4. \A k \in 1 .. s.len : k \in 1 .. Len(h[a])
  BY <1>1
<1>5. \A k \in 1 .. s.len : h2[a][k].id # 0
  BY <1>1, <1>2, <1>4
<1> QED BY <1>1, <1>3, <1>5 DEF Fits

(* What writing commands into an array comes to.                           *)
Overwritten(Word, h, s, from, cmds, h2) ==
  /\ h2 \in Seq(Array(Word)) /\ Keeps(h, h2) /\ Len(h2) = Len(h)
  /\ \A a \in 1 .. Len(h) : a # s.arr => h2[a] = h[a]
  /\ Len(h2[s.arr]) = Len(h[s.arr])
  /\ \A k \in 1 .. Len(h[s.arr]) :
       h2[s.arr][k] = IF k \in from + 1 .. from + Len(cmds) THEN cmds[k - from]
                                                           ELSE h[s.arr][k]

LEMMA OverwriteFits ==
  ASSUME NEW Word, NEW h \in Seq(Array(Word)), NEW s, Fits(h, s),
         NEW from \in Nat, NEW cmds \in Seq(Used(Word)), from + Len(cmds) <= Len(h[s.arr]), from <= s.len
  PROVE  Overwritten(Word, h, s, from, cmds, Overwrite(h, s, from, cmds))
<1> DEFINE a == s.arr
           cells == [k \in 1 .. Len(h[a]) |->
                      IF k \in from + 1 .. from + Len(cmds) THEN cmds[k - from] ELSE h[a][k]]
           h2 == Overwrite(h, s, from, cmds)
<1>1. a \in 1 .. Len(h) /\ Len(h) \in Nat /\ DOMAIN h = 1 .. Len(h)
  BY DEF Fits
<1>2. h[a] \in Array(Word)
  BY <1>1
<1>3. DOMAIN h[a] = 1 .. Len(h[a]) /\ Len(h[a]) \in Nat
  BY <1>2 DEF Array
<1>4. h2 = [h EXCEPT ![a] = cells]
  BY <1>1, <1>3 DEF Overwrite
<1>5. \A k \in 1 .. Len(h[a]) : cells[k] \in Command(Word)
  <2> SUFFICES ASSUME NEW k \in 1 .. Len(h[a])
               PROVE  cells[k] \in Command(Word)
    OBVIOUS
  <2>1. CASE k \in from + 1 .. from + Len(cmds)
    <3>1. k - from \in 1 .. Len(cmds)
      BY <2>1, <1>3
    <3> QED BY <2>1, <3>1 DEF Used
  <2>2. CASE k \notin from + 1 .. from + Len(cmds)
    BY <2>2, <1>2, <1>3 DEF Array
  <2> QED BY <2>1, <2>2
<1>6. cells \in Array(Word) /\ Len(cells) = Len(h[a]) /\ DOMAIN cells = 1 .. Len(h[a])
  <2>1. cells \in [1 .. Len(h[a]) -> Command(Word)]
    BY <1>5
  <2>2. cells \in Seq(Command(Word))
    BY <1>3, <2>1, SeqDef
  <2> QED BY <1>3, <2>1, <2>2 DEF Array
<1>7. \A k \in from + 1 .. from + Len(cmds) : k \in 1 .. Len(h[a]) => cells[k] = cmds[k - from] /\ cells[k].id # 0
  <2> SUFFICES ASSUME NEW k \in from + 1 .. from + Len(cmds), k \in 1 .. Len(h[a])
               PROVE  cells[k] = cmds[k - from] /\ cells[k].id # 0
    OBVIOUS
  <2>1. k - from \in 1 .. Len(cmds)
    BY <1>3
  <2> QED BY <2>1 DEF Used
<1>8. \A k \in 1 .. Len(h[a]) :
        cells[k] = IF k \in from + 1 .. from + Len(cmds) THEN cmds[k - from] ELSE h[a][k]
  OBVIOUS
<1> HIDE DEF cells, h2
<1>9. h2 \in Seq(Array(Word)) /\ Len(h2) = Len(h) /\ h2[a] = cells
  BY <1>1, <1>4, <1>6
<1>10. \A b \in 1 .. Len(h) : b # a => h2[b] = h[b]
  BY <1>1, <1>4
<1>11. Keeps(h, h2)
  <2> SUFFICES ASSUME NEW b \in 1 .. Len(h)
               PROVE  /\ Len(h2[b]) = Len(h[b])
                      /\ \A k \in 1 .. Len(h[b]) : h[b][k].id # 0 => h2[b][k].id # 0
    BY <1>1, <1>9 DEF Keeps
  <2>1. CASE b = a
    <3>1. \A k \in 1 .. Len(h[a]) : h[a][k].id # 0 => cells[k].id # 0
      BY <1>7, <1>8
    <3> QED BY <1>6, <1>9, <2>1, <3>1
  <2>2. CASE b # a
    BY <1>10, <2>2
  <2> QED BY <2>1, <2>2
<1>12. Overwritten(Word, h, s, from, cmds, h2)
  BY <1>1, <1>6, <1>8, <1>9, <1>10, <1>11 DEF Overwritten
<1> QED BY <1>12 DEF h2

(* The commands of a slice.                                                *)
LEMMA InSlice ==
  ASSUME NEW Word, NEW h \in Seq(Array(Word)), NEW s, Fits(h, s)
  PROVE  /\ In(h, s) \in Seq(Used(Word)) /\ Len(In(h, s)) = s.len
         /\ \A k \in 1 .. s.len : In(h, s)[k] = h[s.arr][k]
<1>1. h[s.arr] \in Array(Word) /\ s.len \in Nat /\ s.len <= Len(h[s.arr])
  BY DEF Fits, AnySlice
<1>2. DOMAIN h[s.arr] = 1 .. Len(h[s.arr]) /\ Len(h[s.arr]) \in Nat
  BY <1>1 DEF Array
<1>3. Len(In(h, s)) = s.len /\ DOMAIN In(h, s) = 1 .. s.len
  BY <1>1, <1>2 DEF In, Array
<1>4. \A k \in 1 .. s.len : In(h, s)[k] = h[s.arr][k]
  BY <1>1, <1>2 DEF In, Array
<1>5. \A k \in 1 .. s.len : h[s.arr][k] \in Used(Word)
  BY <1>1, <1>2 DEF Fits, Used, Array
<1>6. In(h, s) \in Seq(Command(Word))
  BY <1>1, <1>2 DEF In, Array
<1>7. In(h, s) \in Seq(Used(Word))
  BY <1>3, <1>4, <1>5, <1>6 DEF Used
<1> QED BY <1>3, <1>4, <1>7

(* Appending moves no array, and returns a slice that fits and that has    *)
(* what was appended after what was there.                                 *)
LEMMA AppendedFits ==
  ASSUME NEW Word, NEW h \in Seq(Array(Word)), NEW s, Fits(h, s),
         NEW cmds \in Seq(Used(Word)), NEW r \in Appended(h, s, cmds), Slack \in Nat
  PROVE  /\ r.heap \in Seq(Array(Word)) /\ Keeps(h, r.heap)
         /\ Fits(r.heap, r.slice)
         /\ In(r.heap, r.slice) = In(h, s) \o cmds
         /\ \/ /\ r.slice.arr = s.arr /\ Len(r.heap) = Len(h) /\ s.len + Len(cmds) <= Len(h[s.arr])
               /\ r.slice.len = s.len + Len(cmds)
               /\ \A k \in 1 .. s.len : r.heap[s.arr][k] = h[s.arr][k]
            \/ r.slice.arr = Len(h) + 1 /\ r.heap[s.arr] = h[s.arr]
         /\ \A a \in 1 .. Len(h) : a # r.slice.arr => r.heap[a] = h[a]
<1> DEFINE n == s.len + Len(cmds)
<1>1. /\ s.arr \in 1 .. Len(h) /\ s.len \in Nat /\ s.arr \in Nat /\ Len(h) \in Nat
      /\ Len(cmds) \in Nat /\ h[s.arr] \in Array(Word)
  BY DEF Fits, AnySlice
<1>2. Len(h[s.arr]) \in Nat
  BY <1>1 DEF Array
<1>3. /\ In(h, s) \in Seq(Used(Word)) /\ Len(In(h, s)) = s.len
      /\ \A k \in 1 .. s.len : In(h, s)[k] = h[s.arr][k]
  BY InSlice
<1>a. s \in AnySlice
  BY DEF Fits
<1>b. DOMAIN cmds = 1 .. Len(cmds)
  OBVIOUS
<1>c. \A k \in 1 .. Len(cmds) : cmds[k] \in Used(Word)
  OBVIOUS
<1>4. CASE n <= Len(h[s.arr])
  <2> DEFINE h2 == Overwrite(h, s, s.len, cmds)
             t == [s EXCEPT !.len = n]
  <2>1. r = [heap |-> h2, slice |-> t]
    BY <1>4 DEF Appended
  <2>2. /\ h2 \in Seq(Array(Word)) /\ Keeps(h, h2) /\ Len(h2) = Len(h)
        /\ \A a \in 1 .. Len(h) : a # s.arr => h2[a] = h[a]
        /\ Len(h2[s.arr]) = Len(h[s.arr])
        /\ \A k \in 1 .. Len(h[s.arr]) :
             h2[s.arr][k] = IF k \in s.len + 1 .. s.len + Len(cmds) THEN cmds[k - s.len]
                                                                 ELSE h[s.arr][k]
    <3>1. s.len \in Nat /\ s.len + Len(cmds) <= Len(h[s.arr])
      BY <1>1, <1>4
    <3>2. Overwritten(Word, h, s, s.len, cmds, h2)
      BY <3>1, OverwriteFits
    <3> QED BY <3>2 DEF Overwritten
  <2> HIDE DEF h2
  <2>3. t \in AnySlice /\ t.arr = s.arr /\ t.len = n
    BY <1>1, <1>a DEF AnySlice
  <2> HIDE DEF t
  <2>4. \A k \in 1 .. s.len : h2[s.arr][k] = h[s.arr][k]
    <3> SUFFICES ASSUME NEW k \in 1 .. s.len
                 PROVE  h2[s.arr][k] = h[s.arr][k]
      OBVIOUS
    <3>1. k \in 1 .. Len(h[s.arr]) /\ k \notin s.len + 1 .. s.len + Len(cmds)
      BY <1>1, <1>2, <1>4
    <3> QED BY <2>2, <3>1
  <2>5. \A k \in 1 .. n : k > s.len => k - s.len \in 1 .. Len(cmds) /\ h2[s.arr][k] = cmds[k - s.len]
    <3> SUFFICES ASSUME NEW k \in 1 .. n, k > s.len
                 PROVE  k - s.len \in 1 .. Len(cmds) /\ h2[s.arr][k] = cmds[k - s.len]
      OBVIOUS
    <3>1. /\ k \in 1 .. Len(h[s.arr]) /\ k \in s.len + 1 .. s.len + Len(cmds)
          /\ k - s.len \in 1 .. Len(cmds)
      BY <1>1, <1>2, <1>4
    <3> QED BY <2>2, <3>1
  <2>6. \A k \in 1 .. n : h2[s.arr][k].id # 0
    <3> SUFFICES ASSUME NEW k \in 1 .. n
                 PROVE  h2[s.arr][k].id # 0
      OBVIOUS
    <3>1. CASE k <= s.len
      BY <3>1, <1>1, <2>4 DEF Fits
    <3>2. CASE k > s.len
      BY <3>2, <1>1, <1>c, <2>5 DEF Used
    <3> QED BY <3>1, <3>2, <1>1
  <2>7. Fits(h2, t)
    BY <1>1, <1>4, <2>2, <2>3, <2>6 DEF Fits
  <2>8. /\ In(h2, t) \in Seq(Used(Word)) /\ Len(In(h2, t)) = n
        /\ \A k \in 1 .. n : In(h2, t)[k] = h2[s.arr][k]
    BY <2>2, <2>3, <2>7, InSlice
  <2>9. In(h2, t) = In(h, s) \o cmds
    <3>1. Len(In(h, s) \o cmds) = n /\ In(h, s) \o cmds \in Seq(Used(Word))
      <4> DEFINE a == In(h, s)
      <4>1. a \in Seq(Used(Word)) /\ Len(a) = s.len
        BY <1>3
      <4> HIDE DEF a
      <4>2. a \o cmds \in Seq(Used(Word)) /\ Len(a \o cmds) = Len(a) + Len(cmds)
        BY <4>1, ConcatProperties
      <4> QED BY <4>1, <4>2 DEF a
    <3>2. \A k \in 1 .. n : (In(h, s) \o cmds)[k] = IF k <= s.len THEN In(h, s)[k] ELSE cmds[k - s.len]
      BY <1>1, <1>3, ConcatProperties
    <3> DEFINE u == In(h, s) \o cmds
               v == In(h2, t)
    <3>3. \A k \in 1 .. n : v[k] = u[k]
      <4> SUFFICES ASSUME NEW k \in 1 .. n
                   PROVE  v[k] = u[k]
        OBVIOUS
      <4>1. u[k] = IF k <= s.len THEN In(h, s)[k] ELSE cmds[k - s.len]
        BY <3>2
      <4>2. v[k] = h2[s.arr][k]
        BY <2>8
      <4>3. k \in Nat /\ (k <= s.len => k \in 1 .. s.len) /\ (~(k <= s.len) => k > s.len)
        BY <1>1
      <4> HIDE DEF u, v
      <4>4. CASE k <= s.len
        BY <4>1, <4>2, <4>3, <4>4, <1>3, <2>4
      <4>5. CASE ~(k <= s.len)
        BY <4>1, <4>2, <4>3, <4>5, <2>5
      <4> QED BY <4>4, <4>5
    <3>4. u \in Seq(Used(Word)) /\ v \in Seq(Used(Word)) /\ Len(v) = n /\ Len(u) = n
      BY <3>1, <2>8
    <3> HIDE DEF u, v
    <3>5. u = v
      BY <3>3, <3>4, SeqEqual
    <3> QED BY <3>5 DEF u, v
  <2> QED BY <1>4, <2>1, <2>2, <2>3, <2>4, <2>7, <2>9
<1>5. CASE ~(n <= Len(h[s.arr]))
  <2>1. PICK room \in 0 .. Slack :
          r = [heap  |-> Append(h, In(h, s) \o cmds \o [k \in 1 .. room |-> Free]),
               slice |-> [arr |-> Len(h) + 1, len |-> n]]
    BY <1>5 DEF Appended
  <2> DEFINE free == [k \in 1 .. room |-> Free]
             cells == In(h, s) \o cmds \o free
             h2 == Append(h, cells)
             t == [arr |-> Len(h) + 1, len |-> n]
  <2>2. Free \in Command(Word)
    BY DEF Free, Command
  <2>3. free \in Seq(Command(Word)) /\ Len(free) = room
    BY <2>2
  <2>4. In(h, s) \o cmds \in Seq(Used(Word)) /\ Len(In(h, s) \o cmds) = n
    BY <1>3, ConcatProperties
  <2>5. In(h, s) \o cmds \in Seq(Command(Word))
    <3>1. Used(Word) \subseteq Command(Word)
      BY DEF Used
    <3> QED BY <2>4, <3>1, SeqMonotonic
  <2> HIDE DEF free
  <2>6. /\ cells \in Array(Word) /\ Len(cells) = n + room
        /\ \A k \in 1 .. n : cells[k] = (In(h, s) \o cmds)[k]
    <3> DEFINE u == In(h, s) \o cmds
    <3>1. n \in Nat /\ room \in Nat
      BY <1>1
    <3>2. u \in Seq(Command(Word)) /\ Len(u) = n
      BY <2>4, <2>5
    <3>a. n + room = Len(u) + Len(free)
      BY <2>3, <3>2
    <3> HIDE DEF u, n
    <3>3. /\ u \o free \in Seq(Command(Word)) /\ Len(u \o free) = n + room
          /\ \A k \in 1 .. n + room : (u \o free)[k] = IF k <= n THEN u[k] ELSE free[k - n]
      BY <2>3, <3>2, <3>a, ConcatProperties
    <3>4. \A k \in 1 .. n : (u \o free)[k] = u[k]
      BY <3>1, <3>3
    <3> QED BY <3>3, <3>4 DEF u, Array
  <2> HIDE DEF cells
  <2>7. h2 \in Seq(Array(Word)) /\ Len(h2) = Len(h) + 1 /\ h2[Len(h) + 1] = cells
        /\ \A a \in 1 .. Len(h) : h2[a] = h[a]
    BY <2>6
  <2> HIDE DEF h2
  <2>8. t \in AnySlice /\ t.arr = Len(h) + 1 /\ t.len = n
    BY <1>1 DEF AnySlice
  <2> HIDE DEF t
  <2>9. \A k \in 1 .. n : cells[k] \in Used(Word)
    <3>1. \A k \in 1 .. n : (In(h, s) \o cmds)[k] \in Used(Word)
      BY <2>4, ElementOfSeq
    <3> QED BY <2>6, <3>1
  <2>10. Fits(h2, t)
    BY <1>1, <2>6, <2>7, <2>8, <2>9 DEF Fits, Used
  <2>11. Keeps(h, h2)
    BY <1>1, <2>7 DEF Keeps
  <2>12. /\ In(h2, t) \in Seq(Used(Word)) /\ Len(In(h2, t)) = n
         /\ \A k \in 1 .. n : In(h2, t)[k] = cells[k]
    BY <2>7, <2>8, <2>10, InSlice
  <2>13. In(h2, t) = In(h, s) \o cmds
    <3> DEFINE u == In(h, s) \o cmds
               v == In(h2, t)
    <3>1. u \in Seq(Used(Word)) /\ v \in Seq(Used(Word)) /\ Len(v) = n /\ Len(u) = n
          /\ \A k \in 1 .. n : v[k] = u[k]
      BY <2>4, <2>6, <2>12
    <3> HIDE DEF u, v
    <3>2. u = v
      BY <3>1, SeqEqual
    <3> QED BY <3>2 DEF u, v
  <2>14. r.heap = h2 /\ r.slice = t
    BY <2>1 DEF h2, t, cells, free
  <2> QED BY <1>1, <2>7, <2>8, <2>10, <2>11, <2>13, <2>14
<1> QED BY <1>4, <1>5

-----------------------------------------------------------------------------
(* Orders.                                                                 *)

(* Each element of a finite set that is totally ordered has a position in  *)
(* it, and each position has an element.                                   *)
LEMMA Positions ==
  ASSUME NEW D, IsFiniteSet(D), NEW R,
         \A i \in D : <<i, i>> \in R,
         \A i, j \in D : <<i, j>> \in R \/ <<j, i>> \in R,
         \A i, j \in D : <<i, j>> \in R /\ <<j, i>> \in R => i = j,
         \A i, j, k \in D : <<i, j>> \in R /\ <<j, k>> \in R => <<i, k>> \in R
  PROVE  LET Position(k) == Cardinality({j \in D : <<j, k>> \in R})
         IN  /\ \A p \in 1 .. Cardinality(D) : \E k \in D : Position(k) = p
             /\ \A k \in D : Position(k) \in 1 .. Cardinality(D)
             /\ \A j, k \in D : <<j, k>> \in R <=> Position(j) <= Position(k)
<1> DEFINE Below(k) == {j \in D : <<j, k>> \in R}
           position == [k \in D |-> Cardinality(Below(k))]
           n == Cardinality(D)
<1>1. n \in Nat
  BY FS_CardinalityType
<1>2. \A k \in D : IsFiniteSet(Below(k)) /\ Cardinality(Below(k)) \in Nat /\ Cardinality(Below(k)) <= n
  <2> SUFFICES ASSUME NEW k \in D
               PROVE  /\ IsFiniteSet(Below(k)) /\ Cardinality(Below(k)) \in Nat
                      /\ Cardinality(Below(k)) <= n
    OBVIOUS
  <2>1. Below(k) \in SUBSET D
    OBVIOUS
  <2>2. IsFiniteSet(Below(k)) /\ Cardinality(Below(k)) <= n
    BY <2>1, FS_Subset
  <2> QED BY <2>2, FS_CardinalityType
<1>3. \A k \in D : Cardinality(Below(k)) # 0
  <2> SUFFICES ASSUME NEW k \in D
               PROVE  Cardinality(Below(k)) # 0
    OBVIOUS
  <2>1. k \in Below(k)
    OBVIOUS
  <2> QED BY <1>2, <2>1, FS_EmptySet
<1>4. \A j, k \in D : <<j, k>> \in R => Below(j) \subseteq Below(k)
  OBVIOUS
<1>5. \A j, k \in D : <<j, k>> \in R => Cardinality(Below(j)) <= Cardinality(Below(k))
  <2> SUFFICES ASSUME NEW j \in D, NEW k \in D, <<j, k>> \in R
               PROVE  Cardinality(Below(j)) <= Cardinality(Below(k))
    OBVIOUS
  <2>1. Below(j) \in SUBSET Below(k) /\ IsFiniteSet(Below(k))
    BY <1>2, <1>4
  <2> QED BY <2>1, FS_Subset
<1>6. \A j, k \in D : <<j, k>> \in R /\ j # k => Cardinality(Below(j)) # Cardinality(Below(k))
  <2> SUFFICES ASSUME NEW j \in D, NEW k \in D, <<j, k>> \in R, j # k
               PROVE  Cardinality(Below(j)) # Cardinality(Below(k))
    OBVIOUS
  <2>1. Below(j) \in SUBSET Below(k) /\ IsFiniteSet(Below(k))
    BY <1>2, <1>4
  <2>2. k \in Below(k) /\ k \notin Below(j)
    OBVIOUS
  <2>3. Below(k) # Below(j)
    BY <2>2
  <2> QED BY <2>1, <2>3, FS_Subset
<1>7. \A j, k \in D : <<j, k>> \in R <=> Cardinality(Below(j)) <= Cardinality(Below(k))
  <2> SUFFICES ASSUME NEW j \in D, NEW k \in D
               PROVE  <<j, k>> \in R <=> Cardinality(Below(j)) <= Cardinality(Below(k))
    OBVIOUS
  <2>1. CASE <<j, k>> \in R
    BY <2>1, <1>5
  <2>2. CASE <<j, k>> \notin R
    <3>1. <<k, j>> \in R /\ k # j
      BY <2>2
    <3>2. /\ Cardinality(Below(k)) <= Cardinality(Below(j))
          /\ Cardinality(Below(k)) # Cardinality(Below(j))
      BY <1>5, <1>6, <3>1
    <3>3. Cardinality(Below(k)) \in Nat /\ Cardinality(Below(j)) \in Nat
      BY <1>2
    <3> HIDE DEF Below
    <3> QED BY <2>2, <3>2, <3>3
  <2> QED BY <2>1, <2>2
<1>8. \A k \in D : Cardinality(Below(k)) \in 1 .. n
  BY <1>1, <1>2, <1>3
<1>9. \A j, k \in D : Cardinality(Below(j)) = Cardinality(Below(k)) => j = k
  <2> HIDE DEF Below
  <2> QED BY <1>6
<1> HIDE DEF Below
<1>10. position \in Injection(D, 1 .. n)
  BY <1>8, <1>9 DEF Injection, IsInjective
<1>11. IsFiniteSet(1 .. n) /\ Cardinality(1 .. n) = n
  BY <1>1, FS_Interval
<1>12. position \in Surjection(D, 1 .. n)
  <2> HIDE DEF position
  <2> QED BY <1>10, <1>11, FS_Injection
<1>13. \A p \in 1 .. n : \E k \in D : Cardinality(Below(k)) = p
  BY <1>12 DEF Surjection
<1> QED BY <1>7, <1>8, <1>13 DEF Below

InOrder(cmds) ==
  \A j, k \in DOMAIN cmds : j < k => cmds[j].rank <= cmds[k].rank

(* What is sorted is in order, has the same commands, and is not sorted    *)
(* any further.                                                            *)
LEMMA SortedIsSorted ==
  ASSUME NEW Word, NEW cmds \in Seq(Used(Word))
  PROVE  LET sorted == SortedCommands(cmds)
         IN  /\ sorted \in Seq(Used(Word)) /\ Len(sorted) = Len(cmds)
             /\ Ids(sorted) = Ids(cmds)
             /\ InOrder(sorted)
             /\ InOrder(cmds) => sorted = cmds
<1> DEFINE D == 1 .. Len(cmds)
           Before(j, k) == cmds[j].rank < cmds[k].rank \/ (cmds[j].rank = cmds[k].rank /\ j <= k)
           Position(k) == Cardinality({j \in D : Before(j, k)})
           at_(p) == CHOOSE k \in D : Position(k) = p
           R == {e \in D \X D : Before(e[1], e[2])}
           sorted == [p \in D |-> cmds[at_(p)]]
<1>1. DOMAIN cmds = D /\ Len(cmds) \in Nat
  OBVIOUS
<1>2. \A k \in D : cmds[k] \in Used(Word) /\ cmds[k].rank \in Int
  BY DEF Used, Command
<1>3. SortedCommands(cmds) = sorted
  BY <1>1 DEF SortedCommands
<1>4. \A j, k \in D : <<j, k>> \in R <=> Before(j, k)
  OBVIOUS
<1>5. IsFiniteSet(D) /\ Cardinality(D) = Len(cmds)
  BY <1>1, FS_Interval
<1>6. /\ \A i \in D : Before(i, i)
      /\ \A i, j \in D : Before(i, j) \/ Before(j, i)
      /\ \A i, j \in D : Before(i, j) /\ Before(j, i) => i = j
      /\ \A i, j, k \in D : Before(i, j) /\ Before(j, k) => Before(i, k)
  BY <1>1, <1>2
<1>7. \A k \in D : Position(k) = Cardinality({j \in D : <<j, k>> \in R})
  BY <1>4
<1> HIDE DEF R
<1>8. /\ \A p \in D : \E k \in D : Position(k) = p
      /\ \A k \in D : Position(k) \in D
      /\ \A j, k \in D : Before(j, k) <=> Position(j) <= Position(k)
  <2> HIDE DEF Before, Position
  <2> DEFINE Q(k) == Cardinality({j \in D : <<j, k>> \in R})
  <2>1. /\ \A i \in D : <<i, i>> \in R
        /\ \A i, j \in D : <<i, j>> \in R \/ <<j, i>> \in R
        /\ \A i, j \in D : <<i, j>> \in R /\ <<j, i>> \in R => i = j
        /\ \A i, j, k \in D : <<i, j>> \in R /\ <<j, k>> \in R => <<i, k>> \in R
    BY <1>4, <1>6
  <2> HIDE DEF D
  <2>2. /\ \A p \in 1 .. Cardinality(D) : \E k \in D : Q(k) = p
        /\ \A k \in D : Q(k) \in 1 .. Cardinality(D)
        /\ \A j, k \in D : <<j, k>> \in R <=> Q(j) <= Q(k)
    BY <1>5, <2>1, Positions
  <2>3. 1 .. Cardinality(D) = D
    BY <1>5 DEF D
  <2> HIDE DEF Q
  <2>4. \A k \in D : Position(k) = Q(k)
    BY <1>7 DEF Q
  <2> QED BY <1>4, <2>2, <2>3, <2>4
<1> HIDE DEF Position
<1>9. \A p \in D : at_(p) \in D /\ Position(at_(p)) = p
  BY <1>8
<1>10. \A j, k \in D : Position(j) = Position(k) => j = k
  <2> SUFFICES ASSUME NEW j \in D, NEW k \in D, Position(j) = Position(k)
               PROVE  j = k
    OBVIOUS
  <2>1. Position(j) <= Position(k) /\ Position(k) <= Position(j)
    BY <1>8
  <2>2. Before(j, k) /\ Before(k, j)
    BY <1>8, <2>1
  <2> QED BY <1>6, <2>2
<1>11. \A k \in D : at_(Position(k)) = k
  BY <1>8, <1>9, <1>10
<1> HIDE DEF at_
<1>12. \A p \in D : sorted[p] = cmds[at_(p)]
  OBVIOUS
<1>13. sorted \in Seq(Used(Word)) /\ Len(sorted) = Len(cmds) /\ DOMAIN sorted = D
  <2>1. sorted \in [D -> Used(Word)]
    BY <1>2, <1>9
  <2>2. sorted \in Seq(Used(Word))
    BY <1>1, <2>1, SeqDef
  <2> QED BY <1>1, <2>1, <2>2
<1> HIDE DEF sorted
<1>14. Ids(sorted) = Ids(cmds)
  <2>1. \A p \in D : \E k \in D : sorted[p].id = cmds[k].id
    BY <1>9, <1>12
  <2>2. \A k \in D : \E p \in D : sorted[p].id = cmds[k].id
    BY <1>8, <1>11, <1>12
  <2>3. Ids(sorted) = {sorted[p].id : p \in D} /\ Ids(cmds) = {cmds[k].id : k \in D}
    BY <1>1, <1>13 DEF Ids
  <2> HIDE DEF D
  <2>4. Ids(sorted) \subseteq Ids(cmds)
    BY <2>1, <2>3
  <2>5. Ids(cmds) \subseteq Ids(sorted)
    BY <2>2, <2>3
  <2> QED BY <2>4, <2>5
<1>15. InOrder(sorted)
  <2> SUFFICES ASSUME NEW p \in D, NEW q \in D, p < q
               PROVE  sorted[p].rank <= sorted[q].rank
    BY <1>13 DEF InOrder
  <2>1. Position(at_(p)) <= Position(at_(q)) /\ at_(p) \in D /\ at_(q) \in D
    BY <1>1, <1>9
  <2>2. Before(at_(p), at_(q))
    BY <1>8, <2>1
  <2> QED BY <1>2, <1>12, <2>1, <2>2
<1>16. ASSUME InOrder(cmds)
       PROVE  sorted = cmds
  <2>1. \A j, k \in D : Before(j, k) <=> j <= k
    <3>1. \A j, k \in D : j < k => cmds[j].rank <= cmds[k].rank
      BY <1>1, <1>16 DEF InOrder
    <3> QED BY <1>1, <1>2, <3>1
  <2>2. \A k \in D : Position(k) = k
    <3> SUFFICES ASSUME NEW k \in D
                 PROVE  Position(k) = k
      OBVIOUS
    <3>1. {j \in D : Before(j, k)} = 1 .. k
      BY <1>1, <2>1
    <3>2. Cardinality(1 .. k) = k
      BY <1>1, FS_Interval
    <3> HIDE DEF Before
    <3> QED BY <3>1, <3>2 DEF Position
  <2>3. \A p \in D : sorted[p] = cmds[p]
    BY <1>11, <1>12, <2>2
  <2> QED BY <1>13, <2>3, SeqEqual
<1> QED BY <1>3, <1>13, <1>14, <1>15, <1>16

-----------------------------------------------------------------------------
(* Types.                                                                  *)

LEMMA InitTypes ==
  ASSUME NEW Word, AreConfigured(Word), Init
  PROVE  Types(Word)
<1>1. given \in Seq(ReadGroup(Word))
  BY DEF Init, AreConfigured
<1>2. DOMAIN given = 1 .. Len(given) /\ Len(given) \in Nat
  BY <1>1
<1>3. \A i \in 1 .. Len(given) : given[i] \in ReadGroup(Word)
  BY <1>1
<1>4. Used(Word) \subseteq Command(Word)
  BY DEF Used
<1>5. \A i \in 1 .. Len(given) :
        /\ given[i].commands \in Seq(Used(Word)) /\ Len(given[i].commands) \in Nat
        /\ given[i].commands \in Array(Word)
  <2> SUFFICES ASSUME NEW i \in 1 .. Len(given)
               PROVE  /\ given[i].commands \in Seq(Used(Word)) /\ Len(given[i].commands) \in Nat
                      /\ given[i].commands \in Array(Word)
    OBVIOUS
  <2>1. given[i].commands \in Seq(Used(Word))
    BY <1>3 DEF ReadGroup
  <2>2. given[i].commands \in Seq(Command(Word))
    BY <1>4, <2>1, SeqMonotonic
  <2> QED BY <2>1, <2>2 DEF Array
<1>6. heap = [i \in 1 .. Len(given) |-> given[i].commands]
  BY <1>2 DEF Init
<1>7. heap \in Seq(Array(Word)) /\ Len(heap) = Len(given)
      /\ \A i \in 1 .. Len(given) : heap[i] = given[i].commands
  <2>1. heap \in [1 .. Len(given) -> Array(Word)]
    BY <1>5, <1>6
  <2>2. heap \in Seq(Array(Word))
    BY <1>2, <2>1, SeqDef
  <2> QED BY <1>2, <1>6, <2>1, <2>2
<1> DEFINE slice(i) == [arr |-> i, len |-> Len(given[i].commands)]
           group(i) == [cat |-> given[i].cat, name |-> given[i].name,
                        prefix |-> given[i].prefix, aliases |-> given[i].aliases,
                        menu |-> given[i].menu, here |-> given[i].here,
                        hint |-> given[i].hint, cmds |-> slice(i)]
<1>8. conf = [i \in 1 .. Len(given) |-> group(i)]
  BY <1>2 DEF Init
<1>9. \A i \in 1 .. Len(given) : group(i) \in Group(Word) /\ Fits(heap, group(i).cmds)
  <2> SUFFICES ASSUME NEW i \in 1 .. Len(given)
               PROVE  group(i) \in Group(Word) /\ Fits(heap, group(i).cmds)
    OBVIOUS
  <2>1. /\ i \in Nat /\ slice(i) \in AnySlice /\ slice(i).arr = i
        /\ slice(i).len = Len(given[i].commands)
    BY <1>2, <1>5 DEF AnySlice
  <2>2. group(i).cmds = slice(i)
    OBVIOUS
  <2> HIDE DEF slice
  <2>3. group(i) \in Group(Word)
    BY <1>3, <2>1 DEF Group, ReadGroup
  <2>4. \A k \in 1 .. Len(given[i].commands) : given[i].commands[k] \in Used(Word)
    BY <1>5
  <2>5. Fits(heap, slice(i))
    BY <1>5, <1>7, <2>1, <2>4 DEF Fits, Used
  <2> QED BY <2>2, <2>3, <2>5
<1> HIDE DEF group
<1>10. conf \in Seq(Group(Word)) /\ DOMAIN conf = 1 .. Len(given)
       /\ \A i \in DOMAIN conf : Fits(heap, conf[i].cmds)
  <2>1. conf \in [1 .. Len(given) -> Group(Word)]
    BY <1>8, <1>9
  <2>2. conf \in Seq(Group(Word))
    BY <1>2, <2>1, SeqDef
  <2> QED BY <1>8, <1>9, <2>1, <2>2
<1>11. expanded \in Seq(Group(Word)) /\ \A i \in DOMAIN expanded : Fits(heap, expanded[i].cmds)
  BY DEF Init
<1>12. /\ phase \in {"validate", "expand", "merge", "sort", "done"}
       /\ at \in Nat \ {0} /\ merged \in BOOLEAN
  <2>1. phase = "validate" /\ at = 1 /\ merged = FALSE
    BY DEF Init
  <2>2. merged \in BOOLEAN
    BY <2>1, Zenon
  <2>3. phase \in {"validate", "expand", "merge", "sort", "done"}
    BY <2>1
  <2>4. at \in Nat \ {0}
    BY <2>1
  <2> QED BY <2>2, <2>3, <2>4
<1>13. heap \in Seq(Array(Word)) /\ conf \in Seq(Group(Word))
  BY <1>7, <1>10
<1>14. \A i \in DOMAIN conf : Fits(heap, conf[i].cmds)
  BY <1>10
<1> HIDE DEF slice
<1> QED BY <1>11, <1>12, <1>13, <1>14 DEF Types

(* A heap that keeps what it had is one for the same slices.               *)
LEMMA StillFits ==
  ASSUME NEW Word, NEW h \in Seq(Array(Word)), NEW h2 \in Seq(Array(Word)),
         Keeps(h, h2), NEW s, Fits(h, s)
  PROVE  Fits(h2, s)
<1>1. Len(h) \in Nat /\ Len(h2) \in Nat /\ DOMAIN h = 1 .. Len(h)
  OBVIOUS
<1>2. \A a \in 1 .. Len(h) : h[a] \in Array(Word)
  OBVIOUS
<1>3. \A a \in 1 .. Len(h) : Len(h[a]) \in Nat
  BY <1>2 DEF Array
<1> QED BY <1>1, <1>3, KeepsFit

(* What a step that replaces the group at i, and writes to the heap, must  *)
(* see to.                                                                 *)
LEMMA ReplacedGroup ==
  ASSUME NEW Word, Types(Word), NEW h2 \in Seq(Array(Word)), Keeps(heap, h2),
         NEW i \in DOMAIN conf, NEW g \in Group(Word), Fits(h2, g.cmds)
  PROVE  LET c2 == [conf EXCEPT ![i] = g]
         IN  /\ c2 \in Seq(Group(Word)) /\ DOMAIN c2 = DOMAIN conf /\ Len(c2) = Len(conf)
             /\ c2[i] = g /\ \A j \in DOMAIN conf : j # i => c2[j] = conf[j]
             /\ \A j \in DOMAIN c2 : Fits(h2, c2[j].cmds)
             /\ \A j \in DOMAIN expanded : Fits(h2, expanded[j].cmds)
<1>1. DOMAIN conf = 1 .. Len(conf) /\ conf \in Seq(Group(Word)) /\ heap \in Seq(Array(Word))
  BY DEF Types
<1> DEFINE c2 == [conf EXCEPT ![i] = g]
<1>2. c2 \in Seq(Group(Word)) /\ Len(c2) = Len(conf) /\ DOMAIN c2 = DOMAIN conf
  BY <1>1
<1>3. c2[i] = g /\ \A j \in DOMAIN conf : j # i => c2[j] = conf[j]
  BY <1>1
<1> HIDE DEF c2
<1>4. \A s : Fits(heap, s) => Fits(h2, s)
  BY <1>1, StillFits
<1>5. \A j \in DOMAIN conf : Fits(h2, conf[j].cmds)
  BY <1>4 DEF Types
<1>6. \A j \in DOMAIN c2 : Fits(h2, c2[j].cmds)
  BY <1>2, <1>3, <1>5
<1>7. \A j \in DOMAIN expanded : Fits(h2, expanded[j].cmds)
  BY <1>4 DEF Types
<1> QED BY <1>2, <1>3, <1>6, <1>7 DEF c2

(* What Validate does to the group at i, as far as slices go.              *)
LEMMA SelectionAdded ==
  ASSUME NEW Word, Types(Word), Slack \in Nat, AddSelection
  PROVE  \E r \in Appended(heap, conf[at].cmds, <<Head(conf[at].menu)>>) :
           LET g == [conf[at] EXCEPT !.cmds = r.slice, !.menu = Tail(conf[at].menu)]
           IN  /\ at \in DOMAIN conf /\ conf[at] \in Group(Word)
               /\ Fits(heap, conf[at].cmds)
               /\ <<Head(conf[at].menu)>> \in Seq(Used(Word))
               /\ heap' = r.heap /\ heap' \in Seq(Array(Word)) /\ Keeps(heap, heap')
               /\ g \in Group(Word) /\ Fits(heap', g.cmds)
               /\ conf' = [conf EXCEPT ![at] = g]
<1>1. /\ DOMAIN conf = 1 .. Len(conf) /\ conf \in Seq(Group(Word))
      /\ heap \in Seq(Array(Word)) /\ at \in Nat \ {0}
  BY DEF Types
<1>2. at \in DOMAIN conf
  BY <1>1 DEF AddSelection
<1> DEFINE g == conf[at]
<1>3. g \in Group(Word) /\ Fits(heap, g.cmds)
  BY <1>1, <1>2 DEF Types
<1>4. g.menu \in Seq(Used(Word)) /\ g.menu # <<>>
  BY <1>3 DEF Group, AddSelection
<1>5. /\ Head(g.menu) \in Used(Word) /\ Tail(g.menu) \in Seq(Used(Word))
      /\ <<Head(g.menu)>> \in Seq(Used(Word))
  BY <1>4
<1>6. PICK r \in Appended(heap, g.cmds, <<Head(g.menu)>>) :
        heap' = r.heap /\ conf' = [conf EXCEPT ![at].cmds = r.slice, ![at].menu = Tail(@)]
  BY DEF AddSelection
<1>7. r.heap \in Seq(Array(Word)) /\ Keeps(heap, r.heap) /\ Fits(r.heap, r.slice)
  BY <1>1, <1>3, <1>5, AppendedFits
<1> DEFINE h == [g EXCEPT !.cmds = r.slice, !.menu = Tail(g.menu)]
<1>8. conf' = [conf EXCEPT ![at] = h]
  BY <1>1, <1>2, <1>3, <1>6 DEF Group
<1>9. r.slice \in AnySlice
  BY <1>7 DEF Fits
<1>10. h \in Group(Word) /\ h.cmds = r.slice
  BY <1>3, <1>5, <1>9 DEF Group
<1> QED BY <1>2, <1>3, <1>5, <1>6, <1>7, <1>8, <1>10

LEMMA RotatedGroup ==
  ASSUME NEW Word, NEW g \in Group(Word)
  PROVE  /\ Rotated(g) \in Group(Word)
         /\ Rotated(g).cmds = g.cmds /\ Rotated(g).aliases = g.aliases
         /\ Rotated(g).menu = g.menu /\ Rotated(g).here = g.here
  BY DEF Rotated, Group

(* The commands of a group with its prefix before their names.             *)
Prefixed(Word, g, cmds) == [k \in DOMAIN cmds |-> [cmds[k] EXCEPT !.name = g.prefix \o @]]

LEMMA PrefixedCommands ==
  ASSUME NEW Word, NEW g \in Group(Word), NEW cmds \in Seq(Used(Word))
  PROVE  LET named == Prefixed(Word, g, cmds)
         IN  /\ named \in Seq(Used(Word)) /\ Len(named) = Len(cmds)
             /\ \A k \in 1 .. Len(cmds) : named[k].id = cmds[k].id
<1>1. DOMAIN cmds = 1 .. Len(cmds) /\ Len(cmds) \in Nat
  OBVIOUS
<1> DEFINE named == Prefixed(Word, g, cmds)
           p(c) == [c EXCEPT !.name = g.prefix \o @]
<1>2. \A c \in Used(Word) : p(c) \in Used(Word) /\ p(c).id = c.id
  <2>1. g.prefix \in Seq(Word)
    BY DEF Group
  <2>2. \A c \in Used(Word) : g.prefix \o c.name \in Seq(Word)
    BY <2>1 DEF Used, Command
  <2> QED BY <2>2 DEF Used, Command
<1>3. \A k \in 1 .. Len(cmds) : cmds[k] \in Used(Word)
  OBVIOUS
<1>4. named = [k \in 1 .. Len(cmds) |-> p(cmds[k])]
  BY <1>1 DEF Prefixed
<1> HIDE DEF p, named
<1>5. /\ named \in [1 .. Len(cmds) -> Used(Word)]
      /\ \A k \in 1 .. Len(cmds) : named[k] = p(cmds[k])
  BY <1>2, <1>3, <1>4
<1>6. named \in Seq(Used(Word)) /\ Len(named) = Len(cmds)
  BY <1>1, <1>5, SeqDef
<1> QED BY <1>2, <1>3, <1>5, <1>6 DEF named

LEMMA GroupValidated ==
  ASSUME NEW Word, Types(Word), ValidateGroup
  PROVE  LET g == Rotated(conf[at])
             named == Prefixed(Word, g, In(heap, g.cmds))
         IN  /\ at \in DOMAIN conf /\ conf[at] \in Group(Word) /\ g \in Group(Word)
             /\ g.cmds = conf[at].cmds /\ Fits(heap, g.cmds)
             /\ named \in Seq(Used(Word)) /\ Len(named) = g.cmds.len
             /\ heap' = Overwrite(heap, g.cmds, 0, named)
             /\ heap' \in Seq(Array(Word)) /\ Keeps(heap, heap')
             /\ Fits(heap', g.cmds)
             /\ conf' = [conf EXCEPT ![at] = g]
<1>1. /\ DOMAIN conf = 1 .. Len(conf) /\ conf \in Seq(Group(Word))
      /\ heap \in Seq(Array(Word)) /\ at \in Nat \ {0}
  BY DEF Types
<1>2. at \in DOMAIN conf
  BY <1>1 DEF ValidateGroup
<1> DEFINE g == Rotated(conf[at])
           named == Prefixed(Word, g, In(heap, g.cmds))
<1>3. conf[at] \in Group(Word) /\ Fits(heap, conf[at].cmds)
  BY <1>1, <1>2 DEF Types
<1>4. g \in Group(Word) /\ g.cmds = conf[at].cmds
  BY <1>3, RotatedGroup
<1>5. conf' = [conf EXCEPT ![at] = g]
  BY DEF ValidateGroup
<1>6. heap' = Overwrite(heap, g.cmds, 0, named)
  BY DEF ValidateGroup, Prefixed
<1> HIDE DEF g
<1>7. In(heap, g.cmds) \in Seq(Used(Word)) /\ Len(In(heap, g.cmds)) = g.cmds.len
  BY <1>1, <1>3, <1>4, InSlice
<1>8. named \in Seq(Used(Word)) /\ Len(named) = g.cmds.len
  BY <1>4, <1>7, PrefixedCommands
<1>9. g.cmds.len \in Nat /\ g.cmds.len <= Len(heap[g.cmds.arr])
  BY <1>3, <1>4 DEF Fits, AnySlice
<1> HIDE DEF named
<1>10. heap' \in Seq(Array(Word)) /\ Keeps(heap, heap')
  <2>1. 0 + Len(named) <= Len(heap[g.cmds.arr]) /\ 0 <= g.cmds.len
    BY <1>8, <1>9
  <2> QED BY <1>1, <1>3, <1>4, <1>6, <1>8, <2>1, OverwriteFits DEF Overwritten
<1>11. Fits(heap', g.cmds)
  BY <1>1, <1>3, <1>4, <1>10, StillFits
<1> QED BY <1>2, <1>3, <1>4, <1>5, <1>6, <1>8, <1>10, <1>11 DEF g, named

LEMMA GroupsMerged ==
  ASSUME NEW Word, Types(Word), Slack \in Nat, NEW t \in DOMAIN conf, at \in DOMAIN conf,
         NEW r \in DoMerge(conf[t], conf[at])
  PROVE  LET g == conf[t]
             o == conf[at]
             first == g.hint >= o.hint
             into == IF first THEN g.cmds ELSE o.cmds
             from == IF first THEN o.cmds ELSE g.cmds
         IN  \E a \in Appended(heap, into, In(heap, from)) :
               /\ Fits(heap, into) /\ Fits(heap, from) /\ In(heap, from) \in Seq(Used(Word))
               /\ r.heap = a.heap /\ r.group.cmds = a.slice
               /\ r.heap \in Seq(Array(Word)) /\ Keeps(heap, r.heap)
               /\ r.group \in Group(Word) /\ Fits(r.heap, r.group.cmds)
               /\ r.group.cat = g.cat /\ r.group.name = g.name
<1>1. DOMAIN conf = 1 .. Len(conf) /\ conf \in Seq(Group(Word)) /\ heap \in Seq(Array(Word))
  BY DEF Types
<1> DEFINE g == conf[t]
           o == conf[at]
           first == g.hint >= o.hint
           into == IF first THEN g.cmds ELSE o.cmds
           from == IF first THEN o.cmds ELSE g.cmds
           hint == IF Magnitude(g.hint) >= Magnitude(o.hint) THEN g.hint ELSE o.hint
           Merged(a) == [heap |-> a.heap,
                         group |-> [g EXCEPT !.aliases = <<>>, !.cmds = a.slice, !.hint = hint]]
<1>2. g \in Group(Word) /\ o \in Group(Word) /\ Fits(heap, g.cmds) /\ Fits(heap, o.cmds)
  BY <1>1 DEF Types
<1>3. hint \in Int
  BY <1>2 DEF Group
<1>4. r \in {Merged(a) : a \in Appended(heap, into, In(heap, from))}
  BY DEF DoMerge
<1>5. PICK a \in Appended(heap, into, In(heap, from)) : r = Merged(a)
  BY <1>4
<1> HIDE DEF hint
<1>6. Fits(heap, into) /\ Fits(heap, from)
  BY <1>2
<1>7. In(heap, from) \in Seq(Used(Word))
  BY <1>1, <1>6, InSlice
<1> HIDE DEF into, from
<1>8. a.heap \in Seq(Array(Word)) /\ Keeps(heap, a.heap) /\ Fits(a.heap, a.slice)
  BY <1>1, <1>6, <1>7, AppendedFits
<1>9. a.slice \in AnySlice
  BY <1>8 DEF Fits
<1>10. r.heap = a.heap /\ r.group = [g EXCEPT !.aliases = <<>>, !.cmds = a.slice, !.hint = hint]
  BY <1>5
<1>11. <<>> \in Seq(Seq(Word))
  OBVIOUS
<1>12. /\ r.group \in Group(Word) /\ r.group.cmds = a.slice
       /\ r.group.cat = g.cat /\ r.group.name = g.name
  BY <1>2, <1>3, <1>9, <1>10, <1>11 DEF Group
<1>13. /\ Fits(heap, into) /\ Fits(heap, from) /\ In(heap, from) \in Seq(Used(Word))
       /\ r.heap = a.heap /\ r.group.cmds = a.slice
       /\ r.heap \in Seq(Array(Word)) /\ Keeps(heap, r.heap)
       /\ r.group \in Group(Word) /\ Fits(r.heap, r.group.cmds)
       /\ r.group.cat = g.cat /\ r.group.name = g.name
  BY <1>6, <1>7, <1>8, <1>10, <1>12
<1> QED BY <1>13 DEF into, from

LEMMA GroupSorted ==
  ASSUME NEW Word, Types(Word), SortGroup, at \in Firsts
  PROVE  LET s == conf[at].cmds
             sorted == SortedCommands(In(heap, s))
         IN  /\ at \in DOMAIN conf /\ Fits(heap, s) /\ In(heap, s) \in Seq(Used(Word))
             /\ sorted \in Seq(Used(Word)) /\ Len(sorted) = s.len
             /\ heap' = Overwrite(heap, s, 0, sorted)
             /\ heap' \in Seq(Array(Word)) /\ Keeps(heap, heap')
<1>1. /\ DOMAIN conf = 1 .. Len(conf) /\ conf \in Seq(Group(Word))
      /\ heap \in Seq(Array(Word)) /\ at \in Nat \ {0}
  BY DEF Types
<1>2. at \in DOMAIN conf
  BY <1>1 DEF SortGroup
<1> DEFINE s == conf[at].cmds
           sorted == SortedCommands(In(heap, s))
<1>3. Fits(heap, s)
  BY <1>2 DEF Types
<1>4. heap' = Overwrite(heap, s, 0, sorted)
  BY DEF SortGroup
<1> HIDE DEF s
<1>5. In(heap, s) \in Seq(Used(Word)) /\ Len(In(heap, s)) = s.len
  BY <1>1, <1>3, InSlice
<1>6. sorted \in Seq(Used(Word)) /\ Len(sorted) = s.len
  BY <1>5, SortedIsSorted
<1>7. s.len \in Nat /\ s.len <= Len(heap[s.arr])
  BY <1>3 DEF Fits, AnySlice
<1> HIDE DEF sorted
<1>8. heap' \in Seq(Array(Word)) /\ Keeps(heap, heap')
  <2>1. 0 + Len(sorted) <= Len(heap[s.arr]) /\ 0 <= s.len
    BY <1>6, <1>7
  <2> QED BY <1>1, <1>3, <1>4, <1>6, <2>1, OverwriteFits DEF Overwritten
<1> QED BY <1>2, <1>3, <1>4, <1>5, <1>6, <1>8 DEF s, sorted

(* The groups that are kept, one for each position.                        *)
LEMMA KeptGroups ==
  ASSUME NEW n \in Nat, Firsts \subseteq 1 .. n
  PROVE  LET Kept(i) == Cardinality({j \in Firsts : j <= i})
             kept(p) == CHOOSE i \in Firsts : Kept(i) = p
         IN  /\ Cardinality(Firsts) \in Nat
             /\ \A p \in 1 .. Cardinality(Firsts) : kept(p) \in Firsts /\ Kept(kept(p)) = p
             /\ \A i \in Firsts : Kept(i) \in 1 .. Cardinality(Firsts) /\ kept(Kept(i)) = i
<1> DEFINE D == Firsts
           R == {e \in D \X D : e[1] <= e[2]}
           Kept(i) == Cardinality({j \in D : j <= i})
           Q(k) == Cardinality({j \in D : <<j, k>> \in R})
           kept(p) == CHOOSE i \in D : Kept(i) = p
<1>1. IsFiniteSet(D)
  <2>1. IsFiniteSet(1 .. n)
    BY FS_Interval
  <2> QED BY <2>1, FS_Subset
<1>2. \A i, j \in D : <<i, j>> \in R <=> i <= j
  OBVIOUS
<1>3. \A k \in D : Kept(k) = Q(k)
  BY <1>2
<1>4. \A i \in D : i \in Nat
  OBVIOUS
<1> HIDE DEF R, D
<1>5. /\ \A i \in D : <<i, i>> \in R
      /\ \A i, j \in D : <<i, j>> \in R \/ <<j, i>> \in R
      /\ \A i, j \in D : <<i, j>> \in R /\ <<j, i>> \in R => i = j
      /\ \A i, j, k \in D : <<i, j>> \in R /\ <<j, k>> \in R => <<i, k>> \in R
  BY <1>2, <1>4
<1>6. /\ \A p \in 1 .. Cardinality(D) : \E k \in D : Q(k) = p
      /\ \A k \in D : Q(k) \in 1 .. Cardinality(D)
      /\ \A j, k \in D : <<j, k>> \in R <=> Q(j) <= Q(k)
  BY <1>1, <1>5, Positions
<1>7. Cardinality(D) \in Nat
  BY <1>1, FS_CardinalityType
<1> HIDE DEF Q, Kept
<1>8. \A p \in 1 .. Cardinality(D) : kept(p) \in D /\ Kept(kept(p)) = p
  BY <1>3, <1>6
<1>9. \A j, k \in D : Kept(j) = Kept(k) => j = k
  <2> SUFFICES ASSUME NEW j \in D, NEW k \in D, Kept(j) = Kept(k)
               PROVE  j = k
    OBVIOUS
  <2>1. Q(j) = Q(k) /\ Q(j) \in Nat
    BY <1>3, <1>6, <1>7
  <2>2. Q(j) <= Q(k) /\ Q(k) <= Q(j)
    BY <2>1
  <2>3. j <= k /\ k <= j
    BY <1>2, <1>6, <2>2
  <2> QED BY <1>4, <2>3
<1>10. \A i \in D : Kept(i) \in 1 .. Cardinality(D) /\ kept(Kept(i)) = i
  BY <1>3, <1>6, <1>8, <1>9
<1> QED BY <1>7, <1>8, <1>10 DEF Kept, D

(* Groups of its aliases are added after a group, with its commands.       *)
LEMMA AliasGroup ==
  ASSUME NEW Word, NEW g \in Group(Word), NEW a \in Seq(Word)
  PROVE  /\ Alias(g, a) \in Group(Word) /\ Alias(g, a).cmds = g.cmds
         /\ Alias(g, a).cat = g.cat /\ Alias(g, a).name = a
<1>1. <<>> \in Seq(Seq(Word))
  OBVIOUS
<1> QED BY <1>1 DEF Alias, Group

WithAliases(e, g) == e \o <<g>> \o [k \in DOMAIN g.aliases |-> Alias(g, g.aliases[k])]

(* What e2 has after e are g and its aliases.                              *)
Expansion(e, g, e2) ==
  /\ Len(e2) = Len(e) + 1 + Len(g.aliases) /\ DOMAIN e2 = 1 .. Len(e2)
  /\ \A i \in 1 .. Len(e) : e2[i] = e[i]
  /\ e2[Len(e) + 1] = g
  /\ \A k \in 1 .. Len(g.aliases) : e2[Len(e) + 1 + k] = Alias(g, g.aliases[k])
  /\ \A i \in DOMAIN e2 :
       \/ i \in DOMAIN e /\ e2[i] = e[i]
       \/ /\ i > Len(e) /\ e2[i].cmds = g.cmds /\ e2[i].cat = g.cat
          /\ \/ i = Len(e) + 1 /\ e2[i].name = g.name
             \/ i - Len(e) - 1 \in DOMAIN g.aliases /\ e2[i].name = g.aliases[i - Len(e) - 1]

LEMMA AliasesExpanded ==
  ASSUME NEW Word, NEW e \in Seq(Group(Word)), NEW g \in Group(Word)
  PROVE  WithAliases(e, g) \in Seq(Group(Word)) /\ Expansion(e, g, WithAliases(e, g))
<1> DEFINE copies == [k \in DOMAIN g.aliases |-> Alias(g, g.aliases[k])]
           n == Len(e)
           m == Len(g.aliases)
           left == e \o <<g>>
           e2 == left \o copies
<1>1. g.aliases \in Seq(Seq(Word))
  BY DEF Group
<1>2. DOMAIN g.aliases = 1 .. m /\ m \in Nat /\ n \in Nat /\ DOMAIN e = 1 .. n
  BY <1>1
<1>3. \A k \in 1 .. m : g.aliases[k] \in Seq(Word)
  BY <1>1
<1>4. \A k \in 1 .. m : LET h == Alias(g, g.aliases[k])
                       IN  /\ h \in Group(Word) /\ h.cmds = g.cmds
                           /\ h.cat = g.cat /\ h.name = g.aliases[k]
  BY <1>3, AliasGroup
<1>5. /\ copies \in Seq(Group(Word)) /\ Len(copies) = m
      /\ \A k \in 1 .. m : copies[k] = Alias(g, g.aliases[k])
  <2>1. copies \in [1 .. m -> Group(Word)]
    BY <1>2, <1>4
  <2>2. copies \in Seq(Group(Word)) /\ Len(copies) = m
    BY <1>2, <2>1, SeqDef
  <2> QED BY <1>2, <2>2
<1>6. <<g>> \in Seq(Group(Word)) /\ Len(<<g>>) = 1 /\ <<g>>[1] = g
  OBVIOUS
<1>7. /\ left \in Seq(Group(Word)) /\ Len(left) = n + 1
      /\ \A i \in 1 .. n + 1 : left[i] = IF i <= n THEN e[i] ELSE <<g>>[i - n]
  BY <1>6, ConcatProperties
<1>8. left[n + 1] = g /\ \A i \in 1 .. n : left[i] = e[i]
  BY <1>2, <1>6, <1>7
<1> HIDE DEF left, copies
<1>9. /\ e2 \in Seq(Group(Word)) /\ Len(e2) = Len(left) + Len(copies)
      /\ \A i \in 1 .. Len(left) + Len(copies) :
           e2[i] = IF i <= Len(left) THEN left[i] ELSE copies[i - Len(left)]
  <2>1. left \in Seq(Group(Word)) /\ copies \in Seq(Group(Word))
    BY <1>5, <1>7
  <2> QED BY <2>1, ConcatProperties
<1> HIDE DEF e2, m, n
<1>10. e2 \in Seq(Group(Word)) /\ Len(e2) = n + 1 + m /\ DOMAIN e2 = 1 .. n + 1 + m
  BY <1>2, <1>5, <1>7, <1>9
<1>11. \A i \in 1 .. n + 1 : e2[i] = left[i]
  BY <1>2, <1>5, <1>7, <1>9
<1>12. \A i \in 1 .. n : e2[i] = e[i]
  BY <1>2, <1>8, <1>11
<1>13. e2[n + 1] = g
  BY <1>2, <1>8, <1>11
<1>14. \A k \in 1 .. m : e2[n + 1 + k] = Alias(g, g.aliases[k])
  <2>1. \A k \in 1 .. m, j \in Nat : j = n + 1 + k => e2[j] = Alias(g, g.aliases[k])
    <3> SUFFICES ASSUME NEW k \in 1 .. m, NEW j \in Nat, j = n + 1 + k
                 PROVE  e2[j] = Alias(g, g.aliases[k])
      OBVIOUS
    <3>1. j \in 1 .. Len(left) + Len(copies) /\ ~(j <= Len(left)) /\ j - Len(left) = k
      BY <1>2, <1>5, <1>7
    <3>2. e2[j] = copies[k]
      BY <1>9, <3>1
    <3> QED BY <1>5, <3>2
  <2> QED BY <1>2, <2>1
<1>15. \A i \in DOMAIN e2 :
         \/ i \in DOMAIN e /\ e2[i] = e[i]
         \/ /\ i > n /\ e2[i].cmds = g.cmds /\ e2[i].cat = g.cat
            /\ \/ i = n + 1 /\ e2[i].name = g.name
               \/ i - n - 1 \in DOMAIN g.aliases /\ e2[i].name = g.aliases[i - n - 1]
  <2> SUFFICES ASSUME NEW i \in 1 .. n + 1 + m
               PROVE  \/ i \in DOMAIN e /\ e2[i] = e[i]
                      \/ /\ i > n /\ e2[i].cmds = g.cmds /\ e2[i].cat = g.cat
                         /\ \/ i = n + 1 /\ e2[i].name = g.name
                            \/ i - n - 1 \in DOMAIN g.aliases /\ e2[i].name = g.aliases[i - n - 1]
    BY <1>10
  <2>1. CASE i <= n
    BY <1>2, <1>12, <2>1
  <2>2. CASE i = n + 1
    BY <1>2, <1>13, <2>2
  <2>3. CASE i > n + 1
    <3>1. i - n - 1 \in 1 .. m /\ n + 1 + (i - n - 1) = i
      BY <1>2, <2>3
    <3>2. e2[i] = Alias(g, g.aliases[i - n - 1])
      BY <1>14, <3>1
    <3>3. e2[i].cmds = g.cmds /\ e2[i].cat = g.cat /\ e2[i].name = g.aliases[i - n - 1]
      BY <1>4, <3>1, <3>2
    <3> QED BY <1>2, <2>3, <3>1, <3>3
  <2> QED BY <1>2, <2>1, <2>2, <2>3
<1>16. e2 = WithAliases(e, g)
  BY DEF e2, left, copies, WithAliases
<1> QED BY <1>10, <1>12, <1>13, <1>14, <1>15, <1>16 DEF n, m, Expansion

LEMMA StepTypes ==
  ASSUME NEW Word, Types(Word), Indexed, Slack \in Nat, [Next]_vars
  PROVE  Types(Word)'
<1>1. DOMAIN conf = 1 .. Len(conf) /\ Len(conf) \in Nat /\ conf \in Seq(Group(Word))
      /\ heap \in Seq(Array(Word)) /\ at \in Nat \ {0} /\ merged \in BOOLEAN
      /\ expanded \in Seq(Group(Word)) /\ DOMAIN expanded = 1 .. Len(expanded)
      /\ phase \in {"validate", "expand", "merge", "sort", "done"}
  BY DEF Types
<1>2. /\ \A i \in DOMAIN conf : Fits(heap, conf[i].cmds)
      /\ \A i \in DOMAIN expanded : Fits(heap, expanded[i].cmds)
  BY DEF Types
<1>3. at + 1 \in Nat \ {0}
  BY <1>1
<1>4. ASSUME AddSelection
      PROVE  Types(Word)'
  <2>1. PICK r \in Appended(heap, conf[at].cmds, <<Head(conf[at].menu)>>) :
          LET g == [conf[at] EXCEPT !.cmds = r.slice, !.menu = Tail(conf[at].menu)]
          IN  /\ at \in DOMAIN conf
              /\ heap' \in Seq(Array(Word)) /\ Keeps(heap, heap')
              /\ g \in Group(Word) /\ Fits(heap', g.cmds)
              /\ conf' = [conf EXCEPT ![at] = g]
    BY <1>4, SelectionAdded
  <2> DEFINE g == [conf[at] EXCEPT !.cmds = r.slice, !.menu = Tail(conf[at].menu)]
  <2>2. /\ at \in DOMAIN conf
        /\ heap' \in Seq(Array(Word)) /\ Keeps(heap, heap')
        /\ g \in Group(Word) /\ Fits(heap', g.cmds)
        /\ conf' = [conf EXCEPT ![at] = g]
    BY <2>1
  <2> HIDE DEF g
  <2>3. /\ conf' \in Seq(Group(Word)) /\ \A j \in DOMAIN conf' : Fits(heap', conf'[j].cmds)
        /\ \A j \in DOMAIN expanded : Fits(heap', expanded[j].cmds)
    BY <2>2, ReplacedGroup
  <2>4. UNCHANGED <<phase, at, expanded, merged>>
    BY <1>4 DEF AddSelection
  <2> QED BY <1>1, <2>2, <2>3, <2>4 DEF Types
<1>5. ASSUME ValidateGroup
      PROVE  Types(Word)'
  <2> DEFINE g == Rotated(conf[at])
  <2>1. /\ at \in DOMAIN conf
        /\ heap' \in Seq(Array(Word)) /\ Keeps(heap, heap')
        /\ g \in Group(Word) /\ Fits(heap', g.cmds)
        /\ conf' = [conf EXCEPT ![at] = g]
    BY <1>5, GroupValidated
  <2> HIDE DEF g
  <2>2. /\ conf' \in Seq(Group(Word)) /\ \A j \in DOMAIN conf' : Fits(heap', conf'[j].cmds)
        /\ \A j \in DOMAIN expanded : Fits(heap', expanded[j].cmds)
    BY <2>1, ReplacedGroup
  <2>3. UNCHANGED <<phase, expanded, merged>> /\ at' = at + 1
    BY <1>5 DEF ValidateGroup
  <2> QED BY <1>1, <1>3, <2>1, <2>2, <2>3 DEF Types
<1>6. ASSUME StartExpand
      PROVE  Types(Word)'
  <2>1. phase' = "expand" /\ at' = 1 /\ UNCHANGED <<conf, expanded, merged, heap>>
    BY <1>6 DEF StartExpand
  <2> QED BY <1>1, <1>2, <2>1 DEF Types
<1>7. ASSUME ExpandAliases
      PROVE  Types(Word)'
  <2> DEFINE g == conf[at]
  <2>1. at \in DOMAIN conf
    BY <1>1, <1>7 DEF ExpandAliases
  <2>2. g \in Group(Word) /\ Fits(heap, g.cmds)
    BY <1>1, <1>2, <2>1
  <2>3. expanded' = expanded \/ expanded' = WithAliases(expanded, g)
    BY <1>7 DEF ExpandAliases, WithAliases
  <2> HIDE DEF g
  <2>4. /\ expanded' \in Seq(Group(Word))
        /\ \A i \in DOMAIN expanded' : Fits(heap, expanded'[i].cmds)
    <3>1. CASE expanded' = expanded
      BY <1>1, <1>2, <3>1
    <3>2. CASE expanded' = WithAliases(expanded, g)
      <4>1. expanded' \in Seq(Group(Word)) /\ Expansion(expanded, g, expanded')
        BY <1>1, <2>2, <3>2, AliasesExpanded
      <4>2. \A i \in DOMAIN expanded' : Fits(heap, expanded'[i].cmds)
        BY <1>2, <2>2, <4>1 DEF Expansion
      <4> QED BY <4>1, <4>2
    <3> QED BY <2>3, <3>1, <3>2
  <2>9. UNCHANGED <<phase, conf, heap, merged>> /\ at' = at + 1
    BY <1>7 DEF ExpandAliases
  <2> QED BY <1>1, <1>2, <1>3, <2>4, <2>9 DEF Types
<1>8. ASSUME StartMerge
      PROVE  Types(Word)'
  <2>1. /\ conf' = expanded /\ expanded' = <<>> /\ phase' = "merge" /\ at' = 1
        /\ UNCHANGED <<merged, heap>>
    BY <1>8 DEF StartMerge
  <2> QED BY <1>1, <1>2, <2>1 DEF Types
<1>9. ASSUME FirstOfItsName
      PROVE  Types(Word)'
  <2>1. at' = at + 1 /\ UNCHANGED <<phase, conf, expanded, merged, heap>>
    BY <1>9 DEF FirstOfItsName
  <2> QED BY <1>1, <1>2, <1>3, <2>1 DEF Types
<1>10. ASSUME MergeGroup
       PROVE  Types(Word)'
  <2> DEFINE t == index[Key(conf[at])]
  <2>1. at \in DOMAIN conf /\ phase = "merge" /\ Key(conf[at]) \in DOMAIN index
    BY <1>1, <1>10 DEF MergeGroup
  <2>2. t \in DOMAIN conf
    BY <2>1 DEF Indexed
  <2>3. /\ heap' \in Seq(Array(Word)) /\ conf' \in Seq(Group(Word))
        /\ \A j \in DOMAIN conf' : Fits(heap', conf'[j].cmds)
        /\ \A j \in DOMAIN expanded : Fits(heap', expanded[j].cmds)
    <3>1. CASE UNCHANGED <<heap, conf>>
      BY <1>1, <1>2, <3>1
    <3>2. CASE \E r \in DoMerge(conf[t], conf[at]) : heap' = r.heap /\ conf' = [conf EXCEPT ![t] = r.group]
      <4> HIDE DEF t
      <4>1. PICK r \in DoMerge(conf[t], conf[at]) : heap' = r.heap /\ conf' = [conf EXCEPT ![t] = r.group]
        BY <3>2
      <4>2. /\ r.heap \in Seq(Array(Word)) /\ Keeps(heap, r.heap)
            /\ r.group \in Group(Word) /\ Fits(r.heap, r.group.cmds)
        BY <2>1, <2>2, GroupsMerged
      <4> QED BY <2>2, <4>1, <4>2, ReplacedGroup
    <3> QED BY <1>10, <3>1, <3>2 DEF MergeGroup
  <2>4. UNCHANGED <<phase, expanded>> /\ merged' = TRUE /\ at' = at + 1
    BY <1>10 DEF MergeGroup
  <2> QED BY <1>1, <1>3, <2>3, <2>4 DEF Types
<1>11. ASSUME EndMerge
       PROVE  Types(Word)'
  <2>1. phase' \in {"sort", "done"} /\ at' = 1 /\ UNCHANGED <<conf, expanded, merged, heap>>
    BY <1>11 DEF EndMerge
  <2> QED BY <1>1, <1>2, <2>1 DEF Types
<1>12. ASSUME SortGroup
       PROVE  Types(Word)'
  <2>1. UNCHANGED <<phase, conf, expanded, merged>> /\ at' = at + 1
    BY <1>12 DEF SortGroup
  <2>2. heap' \in Seq(Array(Word)) /\ \A s : Fits(heap, s) => Fits(heap', s)
    <3>1. CASE at \in Firsts
      <4>1. heap' \in Seq(Array(Word)) /\ Keeps(heap, heap')
        BY <1>12, <3>1, GroupSorted
      <4> QED BY <1>1, <4>1, StillFits
    <3>2. CASE at \notin Firsts
      BY <1>1, <1>12, <3>2 DEF SortGroup
    <3> QED BY <3>1, <3>2
  <2> QED BY <1>1, <1>2, <1>3, <2>1, <2>2 DEF Types
<1>13. ASSUME Finish
       PROVE  Types(Word)'
  <2> DEFINE Kept(i) == Cardinality({j \in Firsts : j <= i})
             kept(p) == CHOOSE i \in Firsts : Kept(i) = p
             n == Cardinality(Firsts)
  <2>1. /\ conf' = [p \in 1 .. n |-> conf[kept(p)]] /\ phase' = "done"
        /\ UNCHANGED <<at, expanded, merged, heap>>
    BY <1>13 DEF Finish
  <2>2. Firsts \subseteq 1 .. Len(conf)
    <3>1. phase = "sort"
      BY <1>13 DEF Finish
    <3> QED BY <1>1, <3>1 DEF Firsts, Indexed
  <2>3. n \in Nat /\ \A p \in 1 .. n : kept(p) \in Firsts
    BY <1>1, <2>2, KeptGroups
  <2> HIDE DEF kept, n
  <2>4. \A p \in 1 .. n : conf[kept(p)] \in Group(Word) /\ Fits(heap, conf[kept(p)].cmds)
    <3> HIDE DEF Kept
    <3>1. \A p \in 1 .. n : kept(p) \in 1 .. Len(conf)
      BY <2>2, <2>3
    <3> QED BY <1>1, <1>2, <3>1
  <2>5. /\ conf' \in [1 .. n -> Group(Word)] /\ DOMAIN conf' = 1 .. n
        /\ \A p \in 1 .. n : conf'[p] = conf[kept(p)]
    BY <2>1, <2>4
  <2>6. conf' \in Seq(Group(Word))
    BY <2>3, <2>5, SeqDef
  <2>7. \A p \in DOMAIN conf' : Fits(heap', conf'[p].cmds)
    BY <2>1, <2>4, <2>5
  <2> QED BY <1>1, <1>2, <2>1, <2>6, <2>7 DEF Types
<1>14. ASSUME UNCHANGED vars
       PROVE  Types(Word)'
  BY <1>14 DEF Types, vars
<1> QED BY <1>4, <1>5, <1>6, <1>7, <1>8, <1>9, <1>10, <1>11, <1>12, <1>13, <1>14 DEF Next

-----------------------------------------------------------------------------
(* The index.                                                              *)

(* Merging gives no group another name.                                    *)
LEMMA MergeKeepsNames ==
  ASSUME NEW Word, Types(Word), Indexed, Slack \in Nat, MergeGroup
  PROVE  /\ at \in DOMAIN conf /\ phase = "merge"
         /\ Key(conf[at]) \in DOMAIN index /\ index[Key(conf[at])] \in DOMAIN conf
         /\ DOMAIN conf' = DOMAIN conf
         /\ \A i \in DOMAIN conf : conf'[i].cat = conf[i].cat /\ conf'[i].name = conf[i].name
         /\ \A i \in DOMAIN conf : Key(conf'[i]) = Key(conf[i])
<1> DEFINE t == index[Key(conf[at])]
<1>1. DOMAIN conf = 1 .. Len(conf) /\ Len(conf) \in Nat /\ at \in Nat \ {0}
  BY DEF Types
<1>2. at \in DOMAIN conf /\ phase = "merge" /\ Key(conf[at]) \in DOMAIN index
  BY <1>1 DEF MergeGroup
<1>3. t \in DOMAIN conf
  BY <1>2 DEF Indexed
<1>4. /\ DOMAIN conf' = DOMAIN conf
      /\ \A i \in DOMAIN conf : conf'[i].cat = conf[i].cat /\ conf'[i].name = conf[i].name
  <2>1. CASE UNCHANGED <<heap, conf>>
    BY <2>1
  <2>2. CASE \E r \in DoMerge(conf[t], conf[at]) : heap' = r.heap /\ conf' = [conf EXCEPT ![t] = r.group]
    <3> HIDE DEF t
    <3>1. PICK r \in DoMerge(conf[t], conf[at]) : conf' = [conf EXCEPT ![t] = r.group]
      BY <2>2
    <3>2. r.group.cat = conf[t].cat /\ r.group.name = conf[t].name
      BY <1>2, <1>3, GroupsMerged
    <3> QED BY <1>3, <3>1, <3>2
  <2> QED BY <2>1, <2>2 DEF MergeGroup
<1>5. \A i \in DOMAIN conf : Key(conf'[i]) = Key(conf[i])
  BY <1>4 DEF Key
<1> QED BY <1>2, <1>3, <1>4, <1>5

NamesInv == Indexed /\ NamesAreUnique

LEMMA StepNames ==
  ASSUME NEW Word, Types(Word), Types(Word)', NamesInv, Slack \in Nat, [Next]_vars
  PROVE  NamesInv'
<1>1. /\ DOMAIN conf = 1 .. Len(conf) /\ Len(conf) \in Nat /\ at \in Nat \ {0}
      /\ merged \in BOOLEAN
      /\ DOMAIN expanded = 1 .. Len(expanded) /\ Len(expanded) \in Nat
  BY DEF Types
<1>2. Indexed
  BY DEF NamesInv
<1>3. ASSUME AddSelection \/ ValidateGroup \/ StartExpand \/ ExpandAliases
      PROVE  NamesInv'
  <2>1. /\ phase \in {"validate", "expand"} /\ phase' \in {"validate", "expand"}
        /\ UNCHANGED <<index, merged>>
    BY <1>3 DEF AddSelection, ValidateGroup, StartExpand, ExpandAliases
  <2> QED BY <1>2, <2>1 DEF NamesInv, Indexed, NamesAreUnique
<1>4. ASSUME StartMerge
      PROVE  NamesInv'
  <2>1. /\ phase = "expand" /\ phase' = "merge" /\ at' = 1 /\ conf' = expanded
        /\ UNCHANGED <<index, merged>>
    BY <1>4 DEF StartMerge
  <2>2. index' = <<>> /\ DOMAIN index' = {}
    BY <1>2, <2>1 DEF Indexed
  <2>3. \A i \in DOMAIN conf' : ~(i < at')
    BY <1>1, <2>1
  <2> QED BY <2>1, <2>2, <2>3 DEF NamesInv, Indexed, NamesAreUnique
<1>5. ASSUME FirstOfItsName
      PROVE  NamesInv'
  <2> DEFINE key == Key(conf[at])
  <2>1. /\ phase = "merge" /\ key \notin DOMAIN index /\ at \in DOMAIN conf
        /\ index' = [k \in DOMAIN index \cup {key} |-> IF k \in DOMAIN index THEN index[k] ELSE at]
        /\ at' = at + 1 /\ UNCHANGED <<phase, conf, merged>>
    BY <1>1, <1>5 DEF FirstOfItsName
  <2>2. /\ \A k \in DOMAIN index : index[k] \in DOMAIN conf /\ Key(conf[index[k]]) = k /\ index[k] < at
        /\ \A i \in DOMAIN conf : i < at =>
            Key(conf[i]) \in DOMAIN index /\ (~merged => index[Key(conf[i])] = i)
    BY <1>2, <2>1 DEF Indexed
  <2>a. key = Key(conf[at])
    OBVIOUS
  <2> HIDE DEF key
  <2>3. /\ DOMAIN index' = DOMAIN index \cup {key} /\ index'[key] = at
        /\ \A k \in DOMAIN index : index'[k] = index[k]
    BY <2>1
  <2>4. \A k \in DOMAIN index' : index'[k] \in DOMAIN conf /\ Key(conf[index'[k]]) = k /\ index'[k] < at + 1
    BY <1>1, <2>1, <2>2, <2>3, <2>a
  <2>5. \A i \in DOMAIN conf : i < at + 1 => i < at \/ i = at
    BY <1>1
  <2>6. \A i \in DOMAIN conf : i < at + 1 =>
          Key(conf[i]) \in DOMAIN index' /\ (~merged => index'[Key(conf[i])] = i)
    <3> SUFFICES ASSUME NEW i \in DOMAIN conf, i < at \/ i = at
                 PROVE  Key(conf[i]) \in DOMAIN index' /\ (~merged => index'[Key(conf[i])] = i)
      BY <2>5
    <3>1. CASE i < at
      BY <2>2, <2>3, <3>1
    <3>2. CASE i = at
      BY <2>3, <2>a, <3>2
    <3> QED BY <3>1, <3>2
  <2>7. phase' = "merge" /\ at' = at + 1 /\ conf' = conf /\ merged' = merged
    BY <2>1
  <2> QED BY <2>4, <2>6, <2>7 DEF NamesInv, Indexed, NamesAreUnique
<1>6. ASSUME MergeGroup
      PROVE  NamesInv'
  <2>1. /\ at \in DOMAIN conf /\ phase = "merge"
        /\ Key(conf[at]) \in DOMAIN index /\ index[Key(conf[at])] \in DOMAIN conf
        /\ DOMAIN conf' = DOMAIN conf
        /\ \A i \in DOMAIN conf : Key(conf'[i]) = Key(conf[i])
    BY <1>2, <1>6, MergeKeepsNames
  <2>2. merged' = TRUE /\ at' = at + 1 /\ UNCHANGED <<phase, index>>
    BY <1>6 DEF MergeGroup
  <2>3. /\ \A k \in DOMAIN index : index[k] \in DOMAIN conf /\ Key(conf[index[k]]) = k /\ index[k] < at
        /\ \A i \in DOMAIN conf : i < at => Key(conf[i]) \in DOMAIN index
    BY <1>2, <2>1 DEF Indexed
  <2>4. \A k \in DOMAIN index : index[k] \in DOMAIN conf' /\ Key(conf'[index[k]]) = k /\ index[k] < at + 1
    BY <1>1, <2>1, <2>3
  <2>5. \A i \in DOMAIN conf : i < at + 1 => i < at \/ i = at
    BY <1>1
  <2>6. \A i \in DOMAIN conf' : i < at + 1 => Key(conf'[i]) \in DOMAIN index
    BY <2>1, <2>3, <2>5
  <2> QED BY <2>1, <2>2, <2>4, <2>6 DEF NamesInv, Indexed, NamesAreUnique
<1>7. ASSUME EndMerge
      PROVE  NamesInv'
  <2>1. /\ phase = "merge" /\ at > Len(conf) /\ phase' = IF merged THEN "sort" ELSE "done"
        /\ UNCHANGED <<conf, index, merged>>
    BY <1>7 DEF EndMerge
  <2>2. \A k \in DOMAIN index : index[k] \in DOMAIN conf /\ Key(conf[index[k]]) = k
    BY <1>2, <2>1 DEF Indexed
  <2>3. CASE merged
    <3>1. phase' = "sort"
      BY <2>1, <2>3
    <3> QED BY <2>1, <2>2, <3>1 DEF NamesInv, Indexed, NamesAreUnique
  <2>4. CASE ~merged
    <3>1. phase' = "done"
      BY <2>1, <2>4
    <3>2. \A i \in DOMAIN conf : i < at
      BY <1>1, <2>1
    <3>3. \A i \in DOMAIN conf : index[Key(conf[i])] = i
      BY <1>2, <2>1, <2>4, <3>2 DEF Indexed
    <3>4. \A i, j \in DOMAIN conf : Key(conf[i]) = Key(conf[j]) => i = j
      BY <3>3
    <3> QED BY <2>1, <3>1, <3>4 DEF NamesInv, Indexed, NamesAreUnique
  <2> QED BY <2>3, <2>4
<1>8. ASSUME SortGroup
      PROVE  NamesInv'
  <2>1. phase = "sort" /\ UNCHANGED <<phase, conf, index, merged>>
    BY <1>8 DEF SortGroup
  <2> QED BY <1>2, <2>1 DEF NamesInv, Indexed, NamesAreUnique
<1>9. ASSUME Finish
      PROVE  NamesInv'
  <2> DEFINE Kept(i) == Cardinality({j \in Firsts : j <= i})
             kept(p) == CHOOSE i \in Firsts : Kept(i) = p
             n == Cardinality(Firsts)
  <2>1. phase = "sort" /\ phase' = "done" /\ conf' = [p \in 1 .. n |-> conf[kept(p)]]
    BY <1>9 DEF Finish
  <2>2. \A k \in DOMAIN index : index[k] \in DOMAIN conf /\ Key(conf[index[k]]) = k
    BY <1>2, <2>1 DEF Indexed
  <2>3. Firsts \subseteq 1 .. Len(conf)
    BY <1>1, <2>2 DEF Firsts
  <2>4. n \in Nat /\ \A p \in 1 .. n : kept(p) \in Firsts /\ Kept(kept(p)) = p
    BY <1>1, <2>3, KeptGroups
  <2>5. \A i, j \in Firsts : Key(conf[i]) = Key(conf[j]) => i = j
    BY <2>2 DEF Firsts
  <2> HIDE DEF Kept, n
  <2>6. \A p, q \in 1 .. n : Key(conf[kept(p)]) = Key(conf[kept(q)]) => p = q
    <3> SUFFICES ASSUME NEW p \in 1 .. n, NEW q \in 1 .. n, Key(conf[kept(p)]) = Key(conf[kept(q)])
                 PROVE  p = q
      OBVIOUS
    <3>1. kept(p) = kept(q)
      BY <2>4, <2>5
    <3> QED BY <2>4, <3>1
  <2> HIDE DEF kept
  <2>7. DOMAIN conf' = 1 .. n /\ \A p \in 1 .. n : conf'[p] = conf[kept(p)]
    BY <2>1
  <2>8. \A p, q \in DOMAIN conf' : Key(conf'[p]) = Key(conf'[q]) => p = q
    BY <2>6, <2>7
  <2> QED BY <2>1, <2>8 DEF NamesInv, Indexed, NamesAreUnique
<1>10. ASSUME UNCHANGED vars
       PROVE  NamesInv'
  BY <1>10 DEF vars, NamesInv, Indexed, NamesAreUnique, Key
<1> QED BY <1>3, <1>4, <1>5, <1>6, <1>7, <1>8, <1>9, <1>10 DEF Next, NamesInv

(* At any time the slices of the groups are within their arrays, and have  *)
(* no cell that was never written.                                         *)
THEOREM GroupsInvariant ==
  ASSUME NEW Word, AreConfigured(Word)
  PROVE  Spec => [](Types(Word) /\ NamesInv)
<1>1. Slack \in Nat
  BY GroupsAssumption
<1>2. Init => Types(Word) /\ NamesInv
  <2> SUFFICES ASSUME Init
               PROVE  Types(Word) /\ NamesInv
    OBVIOUS
  <2>1. phase = "validate" /\ index = <<>> /\ merged = FALSE
    BY DEF Init
  <2>2. NamesInv
    BY <2>1 DEF NamesInv, Indexed, NamesAreUnique
  <2> QED BY <2>2, InitTypes
<1>3. Types(Word) /\ NamesInv /\ [Next]_vars => Types(Word)' /\ NamesInv'
  <2> SUFFICES ASSUME Types(Word), NamesInv, [Next]_vars
               PROVE  Types(Word)' /\ NamesInv'
    OBVIOUS
  <2>1. Indexed
    BY DEF NamesInv
  <2>2. Types(Word)'
    BY <1>1, <2>1, StepTypes
  <2> QED BY <1>1, <2>2, StepNames
<1> QED BY <1>2, <1>3, PTL DEF Spec

THEOREM SlicesStayInArrays ==
  ASSUME NEW Word, AreConfigured(Word)
  PROVE  Spec => []TypeOK
<1>1. Types(Word) /\ NamesInv => TypeOK
  <2> SUFFICES ASSUME Types(Word), NamesInv
               PROVE  TypeOK
    OBVIOUS
  <2>1. /\ phase \in {"validate", "expand", "merge", "sort", "done"}
        /\ at \in Nat /\ merged \in BOOLEAN
    BY DEF Types
  <2>2. ASSUME NEW i \in DOMAIN conf
        PROVE  /\ conf[i].cmds \in Slice
               /\ conf[i].cmds.len <= Len(heap[conf[i].cmds.arr])
               /\ \A k \in 1 .. conf[i].cmds.len : In(heap, conf[i].cmds)[k] # Free
    <3> DEFINE s == conf[i].cmds
    <3>1. Fits(heap, s) /\ heap \in Seq(Array(Word))
      BY DEF Types
    <3> HIDE DEF s
    <3>2. s \in Slice /\ s.len <= Len(heap[s.arr])
      BY <3>1 DEF Fits, AnySlice, Slice
    <3>3. \A k \in 1 .. s.len : In(heap, s)[k].id # 0
      BY <3>1, InSlice DEF Fits
    <3>4. Free.id = 0
      BY DEF Free
    <3>5. \A k \in 1 .. s.len : In(heap, s)[k] # Free
      BY <3>3, <3>4
    <3> QED BY <3>2, <3>5 DEF s
  <2>3. \A k \in DOMAIN index : index[k] \in DOMAIN conf \/ phase = "done"
    BY <2>1 DEF NamesInv, Indexed
  <2> QED BY <2>1, <2>2, <2>3 DEF TypeOK
<1>2. Spec => [](Types(Word) /\ NamesInv)
  BY GroupsInvariant
<1> QED BY <1>1, <1>2, PTL

(* No two groups that menus offer have the same category and name, however *)
(* names were written, rotated or given as aliases.                        *)
THEOREM GroupsHaveNamesOfTheirOwn ==
  ASSUME NEW Word, AreConfigured(Word)
  PROVE  Spec => []NamesAreUnique
<1>1. Types(Word) /\ NamesInv => NamesAreUnique
  BY DEF NamesInv
<1>2. Spec => [](Types(Word) /\ NamesInv)
  BY GroupsInvariant
<1> QED BY <1>1, <1>2, PTL

-----------------------------------------------------------------------------
(* Order.                                                                  *)

(* What sorting the slice s in place makes of it and of another slice u.   *)
LEMMA SortedInPlace ==
  ASSUME NEW Word, NEW h \in Seq(Array(Word)), NEW s, Fits(h, s), NEW u, Fits(h, u)
  PROVE  LET h2 == Overwrite(h, s, 0, SortedCommands(In(h, s)))
         IN  /\ h2 \in Seq(Array(Word)) /\ Fits(h2, s) /\ Fits(h2, u)
             /\ In(h2, s) = SortedCommands(In(h, s))
             /\ u.arr # s.arr => In(h2, u) = In(h, u)
             /\ u.arr = s.arr /\ u.len = s.len => In(h2, u) = In(h2, s)
             /\ InOrder(In(h, u)) => InOrder(In(h2, u))
             /\ \A a \in 1 .. Len(h) : Len(h2[a]) = Len(h[a])
<1> DEFINE sorted == SortedCommands(In(h, s))
           h2 == Overwrite(h, s, 0, sorted)
<1>1. In(h, s) \in Seq(Used(Word)) /\ Len(In(h, s)) = s.len
      /\ \A k \in 1 .. s.len : In(h, s)[k] = h[s.arr][k]
  BY InSlice
<1>2. /\ sorted \in Seq(Used(Word)) /\ Len(sorted) = s.len /\ InOrder(sorted)
      /\ InOrder(In(h, s)) => sorted = In(h, s)
  BY <1>1, SortedIsSorted
<1>3. /\ s.len \in Nat /\ s.len <= Len(h[s.arr]) /\ s.arr \in 1 .. Len(h)
      /\ u.len \in Nat /\ u.len <= Len(h[u.arr]) /\ u.arr \in 1 .. Len(h)
      /\ h[s.arr] \in Array(Word)
  BY DEF Fits, AnySlice
<1>4. Len(h[s.arr]) \in Nat
  BY <1>3 DEF Array
<1> HIDE DEF sorted
<1>5. /\ h2 \in Seq(Array(Word)) /\ Keeps(h, h2) /\ Len(h2) = Len(h)
      /\ \A a \in 1 .. Len(h) : a # s.arr => h2[a] = h[a]
      /\ Len(h2[s.arr]) = Len(h[s.arr])
      /\ \A k \in 1 .. Len(h[s.arr]) :
           h2[s.arr][k] = IF k \in 0 + 1 .. 0 + Len(sorted) THEN sorted[k - 0] ELSE h[s.arr][k]
  <2>1. 0 + Len(sorted) <= Len(h[s.arr]) /\ 0 <= s.len /\ 0 \in Nat
    BY <1>2, <1>3
  <2> QED BY <1>2, <2>1, OverwriteFits DEF Overwritten
<1>6. \A k \in 1 .. s.len : h2[s.arr][k] = sorted[k]
  <2> SUFFICES ASSUME NEW k \in 1 .. s.len
               PROVE  h2[s.arr][k] = sorted[k]
    OBVIOUS
  <2>1. k \in 1 .. Len(h[s.arr]) /\ k \in 0 + 1 .. 0 + Len(sorted) /\ k - 0 = k
    BY <1>2, <1>3, <1>4
  <2> QED BY <1>5, <2>1
<1>7. \A k \in 1 .. Len(h[s.arr]) : k > s.len => h2[s.arr][k] = h[s.arr][k]
  BY <1>2, <1>3, <1>4, <1>5
<1> HIDE DEF h2
<1>8. Fits(h2, s) /\ Fits(h2, u)
  BY <1>5, StillFits
<1>9. In(h2, s) = sorted
  <2>1. In(h2, s) \in Seq(Used(Word)) /\ Len(In(h2, s)) = s.len
        /\ \A k \in 1 .. s.len : In(h2, s)[k] = h2[s.arr][k]
    BY <1>5, <1>8, InSlice
  <2> DEFINE v == In(h2, s)
  <2>2. v \in Seq(Used(Word)) /\ Len(v) = Len(sorted) /\ \A k \in 1 .. Len(v) : v[k] = sorted[k]
    BY <1>2, <1>6, <2>1
  <2> HIDE DEF v
  <2>3. v = sorted
    BY <1>2, <2>2, SeqEqual
  <2> QED BY <2>3 DEF v
<1>10. In(h, u) \in Seq(Used(Word)) /\ Len(In(h, u)) = u.len
       /\ \A k \in 1 .. u.len : In(h, u)[k] = h[u.arr][k]
  BY InSlice
<1>11. In(h2, u) \in Seq(Used(Word)) /\ Len(In(h2, u)) = u.len
       /\ \A k \in 1 .. u.len : In(h2, u)[k] = h2[u.arr][k]
  BY <1>5, <1>8, InSlice
<1>12. u.arr # s.arr => In(h2, u) = In(h, u)
  BY <1>3, <1>5 DEF In
<1>13. u.arr = s.arr /\ u.len = s.len => In(h2, u) = In(h2, s)
  BY DEF In
<1>14. ASSUME InOrder(In(h, u))
       PROVE  InOrder(In(h2, u))
  <2>1. CASE u.arr # s.arr
    BY <1>12, <1>14, <2>1
  <2>2. CASE u.arr = s.arr /\ u.len <= s.len
    <3>1. \A k \in 1 .. u.len : k \in 1 .. s.len /\ In(h2, u)[k] = sorted[k]
      BY <1>3, <1>6, <1>11, <2>2
    <3>2. \A j, k \in 1 .. s.len : j < k => sorted[j].rank <= sorted[k].rank
      BY <1>2, <1>3 DEF InOrder
    <3>3. DOMAIN In(h2, u) = 1 .. u.len
      BY <1>11
    <3> QED BY <3>1, <3>2, <3>3 DEF InOrder
  <2>3. CASE u.arr = s.arr /\ u.len > s.len
    <3>1. \A k \in 1 .. s.len : k \in 1 .. u.len /\ In(h, s)[k] = In(h, u)[k]
      BY <1>1, <1>3, <1>10, <2>3
    <3>2. \A j, k \in 1 .. u.len : j < k => In(h, u)[j].rank <= In(h, u)[k].rank
      BY <1>10, <1>14 DEF InOrder
    <3>3. DOMAIN In(h, s) = 1 .. s.len
      BY <1>1
    <3>4. InOrder(In(h, s))
      BY <3>1, <3>2, <3>3 DEF InOrder
    <3>5. sorted = In(h, s)
      BY <1>2, <3>4
    <3>6. \A k \in 1 .. u.len : In(h2, u)[k] = In(h, u)[k]
      <4> SUFFICES ASSUME NEW k \in 1 .. u.len
                   PROVE  In(h2, u)[k] = In(h, u)[k]
        OBVIOUS
      <4>1. k \in 1 .. Len(h[s.arr]) /\ (k > s.len \/ k \in 1 .. s.len)
        BY <1>3, <1>4, <2>3
      <4>2. h2[s.arr][k] = h[s.arr][k]
        BY <1>1, <1>6, <1>7, <3>5, <4>1
      <4> QED BY <1>10, <1>11, <2>3, <4>2
    <3>7. In(h2, u) = In(h, u)
      <4> DEFINE v == In(h2, u)
                 w == In(h, u)
      <4>1. v \in Seq(Used(Word)) /\ w \in Seq(Used(Word)) /\ Len(v) = Len(w)
            /\ \A k \in 1 .. Len(v) : v[k] = w[k]
        BY <1>10, <1>11, <3>6
      <4> HIDE DEF v, w
      <4>2. v = w
        BY <4>1, SeqEqual
      <4> QED BY <4>2 DEF v, w
    <3> QED BY <1>14, <3>7
  <2> QED BY <1>3, <2>1, <2>2, <2>3
<1>15. \A a \in 1 .. Len(h) : Len(h2[a]) = Len(h[a])
  BY <1>5
<1> QED BY <1>5, <1>8, <1>9, <1>12, <1>13, <1>14, <1>15 DEF h2, sorted

(* The groups that have been sorted, and are kept, are in order: sorting   *)
(* what shares an array with them leaves them so.                          *)
OrderInv ==
  /\ phase = "sort" => \A i \in Firsts : i < at => InOrder(In(heap, conf[i].cmds))
  /\ CommandsInOrder

LEMMA StepOrder ==
  ASSUME NEW Word, Types(Word), NamesInv, OrderInv, Slack \in Nat, [Next]_vars
  PROVE  OrderInv'
<1>1. DOMAIN conf = 1 .. Len(conf) /\ Len(conf) \in Nat /\ at \in Nat \ {0}
      /\ heap \in Seq(Array(Word))
      /\ \A i \in DOMAIN conf : Fits(heap, conf[i].cmds)
  BY DEF Types
<1>2. phase = "sort" => \A i \in Firsts : i \in DOMAIN conf
  BY DEF NamesInv, Indexed, Firsts
<1>3. ASSUME \/ AddSelection \/ ValidateGroup \/ StartExpand \/ ExpandAliases
             \/ StartMerge \/ FirstOfItsName \/ MergeGroup
      PROVE  OrderInv'
  <2>1. phase' \in {"validate", "expand", "merge"}
    BY <1>3 DEF AddSelection, ValidateGroup, StartExpand, ExpandAliases, StartMerge,
                FirstOfItsName, MergeGroup
  <2> QED BY <2>1 DEF OrderInv, CommandsInOrder
<1>4. ASSUME EndMerge
      PROVE  OrderInv'
  <2>1. /\ phase = "merge" /\ phase' = IF merged THEN "sort" ELSE "done"
        /\ at' = 1 /\ UNCHANGED <<conf, index, merged>>
    BY <1>4 DEF EndMerge
  <2>2. CASE merged
    <3>1. phase' = "sort" /\ Firsts' = Firsts
      BY <2>1, <2>2 DEF Firsts
    <3>2. \A i \in Firsts : i \in 1 .. Len(conf)
      BY <1>1, <2>1 DEF NamesInv, Indexed, Firsts
    <3>3. \A i \in Firsts : ~(i < 1)
      BY <1>1, <3>2
    <3> QED BY <2>1, <3>1, <3>3 DEF OrderInv, CommandsInOrder
  <2>3. CASE ~merged
    <3>1. phase' = "done" /\ ~merged'
      BY <2>1, <2>3
    <3> QED BY <3>1 DEF OrderInv, CommandsInOrder
  <2> QED BY <2>2, <2>3
<1>5. ASSUME SortGroup
      PROVE  OrderInv'
  <2>1. /\ phase = "sort" /\ at \in DOMAIN conf /\ at' = at + 1
        /\ UNCHANGED <<phase, conf, index, merged>>
    BY <1>1, <1>5 DEF SortGroup
  <2>2. Firsts' = Firsts
    BY <2>1 DEF Firsts
  <2>3. \A i \in Firsts : i < at => InOrder(In(heap, conf[i].cmds))
    BY <2>1 DEF OrderInv
  <2>4. \A i \in Firsts : i < at + 1 => InOrder(In(heap', conf[i].cmds))
    <3> SUFFICES ASSUME NEW i \in Firsts, i < at + 1
                 PROVE  InOrder(In(heap', conf[i].cmds))
      OBVIOUS
    <3>1. i \in DOMAIN conf /\ Fits(heap, conf[i].cmds) /\ Fits(heap, conf[at].cmds)
      BY <1>1, <1>2, <2>1
    <3>2. i < at \/ i = at
      BY <1>1, <3>1
    <3>3. CASE at \in Firsts
      <4>1. heap' = Overwrite(heap, conf[at].cmds, 0, SortedCommands(In(heap, conf[at].cmds)))
        BY <1>5, <3>3 DEF SortGroup
      <4>2. CASE i < at
        BY <1>1, <2>3, <3>1, <4>1, <4>2, SortedInPlace
      <4>3. CASE i = at
        <5>1. In(heap, conf[at].cmds) \in Seq(Used(Word))
          BY <1>1, <3>1, InSlice
        <5>2. InOrder(SortedCommands(In(heap, conf[at].cmds)))
          BY <5>1, SortedIsSorted
        <5>3. In(heap', conf[at].cmds) = SortedCommands(In(heap, conf[at].cmds))
          BY <1>1, <3>1, <4>1, SortedInPlace
        <5> QED BY <4>3, <5>2, <5>3
      <4> QED BY <3>2, <4>2, <4>3
    <3>4. CASE at \notin Firsts
      <4>1. heap' = heap /\ i < at
        BY <1>5, <3>2, <3>4 DEF SortGroup
      <4> QED BY <2>3, <4>1
    <3> QED BY <3>3, <3>4
  <2> QED BY <2>1, <2>2, <2>4 DEF OrderInv, CommandsInOrder
<1>6. ASSUME Finish
      PROVE  OrderInv'
  <2> DEFINE Kept(i) == Cardinality({j \in Firsts : j <= i})
             kept(p) == CHOOSE i \in Firsts : Kept(i) = p
             n == Cardinality(Firsts)
  <2>1. /\ phase = "sort" /\ phase' = "done" /\ conf' = [p \in 1 .. n |-> conf[kept(p)]]
        /\ at > Len(conf) /\ heap' = heap
    BY <1>6 DEF Finish
  <2>2. Firsts \subseteq 1 .. Len(conf)
    BY <1>1, <1>2, <2>1
  <2>3. n \in Nat /\ \A p \in 1 .. n : kept(p) \in Firsts
    BY <1>1, <2>2, KeptGroups
  <2> HIDE DEF kept, n
  <2>4. \A i \in Firsts : i < at
    BY <1>1, <2>1, <2>2
  <2>5. \A p \in 1 .. n : InOrder(In(heap, conf[kept(p)].cmds))
    BY <2>1, <2>3, <2>4 DEF OrderInv
  <2>6. DOMAIN conf' = 1 .. n /\ \A p \in 1 .. n : conf'[p] = conf[kept(p)]
    BY <2>1
  <2>7. \A p \in DOMAIN conf' : InOrder(In(heap', conf'[p].cmds))
    BY <2>1, <2>5, <2>6
  <2> QED BY <2>1, <2>7 DEF OrderInv, CommandsInOrder, InOrder
<1>7. ASSUME UNCHANGED vars
      PROVE  OrderInv'
  <2>1. UNCHANGED <<phase, at, conf, heap, merged>> /\ Firsts' = Firsts
    BY <1>7 DEF vars, Firsts
  <2>2. phase = "sort" => \A i \in Firsts : i < at => InOrder(In(heap, conf[i].cmds))
    BY DEF OrderInv
  <2>3. phase' = "sort" => \A i \in Firsts' : i < at' => InOrder(In(heap', conf'[i].cmds))
    BY <2>1, <2>2, Zenon
  <2>4. CommandsInOrder'
    BY <2>1, Zenon DEF OrderInv, CommandsInOrder
  <2> QED BY <2>3, <2>4 DEF OrderInv
<1> QED BY <1>3, <1>4, <1>5, <1>6, <1>7 DEF Next

(* When anything was merged the commands of every group are in order, also *)
(* where two groups share an array that is sorted for each of them.        *)
THEOREM CommandsAreInOrder ==
  ASSUME NEW Word, AreConfigured(Word)
  PROVE  Spec => []CommandsInOrder
<1>1. Slack \in Nat
  BY GroupsAssumption
<1>2. Init => OrderInv
  BY DEF Init, OrderInv, CommandsInOrder
<1>3. Types(Word) /\ NamesInv /\ OrderInv /\ [Next]_vars => OrderInv'
  BY <1>1, StepOrder
<1>4. OrderInv => CommandsInOrder
  BY DEF OrderInv
<1>5. Spec => [](Types(Word) /\ NamesInv)
  BY GroupsInvariant
<1> QED BY <1>2, <1>3, <1>4, <1>5, PTL DEF Spec

-----------------------------------------------------------------------------
(* What is configured.                                                     *)

CommandsOf(i) == Ids(given[i].commands) \cup Ids(given[i].menu)

Held(i) == Ids(In(heap, conf[i].cmds))

Full(s) == s.len = Len(heap[s.arr])

Validated == IF phase = "validate" THEN at ELSE Len(conf) + 1

(* The groups are those that were read, each with an array of its own:     *)
(* those before Validated are validated.                                   *)
AsRead ==
  /\ DOMAIN conf = DOMAIN given
  /\ \A i \in DOMAIN conf :
       LET g == IF i < Validated THEN Rotated(given[i]) ELSE given[i]
       IN  /\ conf[i].cat = g.cat /\ conf[i].name = g.name /\ conf[i].prefix = g.prefix
           /\ conf[i].aliases = given[i].aliases /\ conf[i].here = given[i].here
           /\ Held(i) \cup Ids(conf[i].menu) = CommandsOf(i)
           /\ i < Validated => conf[i].menu = <<>>
           /\ given[i].menu = <<>> => conf[i].menu = <<>> /\ Full(conf[i].cmds)
  /\ \A i, j \in DOMAIN conf : conf[i].cmds.arr = conf[j].cmds.arr => i = j

(* The copies that were made are one for each key of a group, and share    *)
(* its commands.                                                           *)
Copied ==
  /\ \A n \in DOMAIN expanded :
       \E o \in DOMAIN given :
         /\ o < at /\ Key(expanded[n]) \in Keys(o)
         /\ expanded[n].cat = Rotated(given[o]).cat /\ expanded[n].cmds = conf[o].cmds
  /\ \A o \in DOMAIN given : o < at => \A k \in Keys(o) :
       \E n \in DOMAIN expanded : Key(expanded[n]) = k /\ expanded[n].cmds = conf[o].cmds
  /\ \A n, m \in DOMAIN expanded :
       n # m /\ expanded[n].cmds.arr = expanded[m].cmds.arr =>
         \E o \in DOMAIN given :
           /\ o < at /\ given[o].aliases # <<>>
           /\ expanded[n].cmds = conf[o].cmds /\ expanded[m].cmds = conf[o].cmds
           /\ Key(expanded[n]) \in Keys(o) /\ Key(expanded[m]) \in Keys(o)

(* The groups that are to be kept, or still to be merged.                  *)
Live == IF phase = "merge" THEN Firsts \cup {i \in DOMAIN conf : i >= at} ELSE Firsts

(* Groups have a name and category of some group that was read.            *)
Originals ==
  \A i \in DOMAIN conf :
    \E o \in DOMAIN given : Key(conf[i]) \in Keys(o) /\ conf[i].cat = Rotated(given[o]).cat

(* Of live groups that share an array, none is appended to in place, or    *)
(* all are of an exposed group.                                            *)
SafelyShared ==
  \A i, j \in Live :
    i # j /\ conf[i].cmds.arr = conf[j].cmds.arr =>
      \/ Full(conf[i].cmds) /\ Full(conf[j].cmds)
      \/ Exposed(Key(conf[i])) /\ Exposed(Key(conf[j]))

(* The commands for a name are those of the live groups of that name.      *)
Offered(k) == UNION {Held(i) : i \in {i \in Live : Key(conf[i]) = k}}

Complete ==
  \A k \in UNION {Keys(i) : i \in DOMAIN given} :
    Ambiguous(k) \/ Exposed(k) \/ ConfiguredFor(k) = Offered(k)

ContentInv(Word) ==
  /\ given \in Seq(ReadGroup(Word))
  /\ phase = "validate" => expanded = <<>>
  /\ phase \in {"validate", "expand"} => AsRead
  /\ phase = "expand" => Copied
  /\ phase \in {"merge", "sort"} => Originals /\ SafelyShared /\ Complete
  /\ ExactlyConfigured

LEMMA IdsConcat ==
  ASSUME NEW S, NEW a \in Seq(S), NEW b \in Seq(S)
  PROVE  Ids(a \o b) = Ids(a) \cup Ids(b)
<1>1. /\ DOMAIN a = 1 .. Len(a) /\ DOMAIN b = 1 .. Len(b) /\ Len(a) \in Nat /\ Len(b) \in Nat
      /\ DOMAIN (a \o b) = 1 .. Len(a) + Len(b)
  OBVIOUS
<1>2. \A i \in 1 .. Len(a) + Len(b) : (a \o b)[i] = IF i <= Len(a) THEN a[i] ELSE b[i - Len(a)]
  BY ConcatProperties
<1>3. ASSUME NEW x \in Ids(a \o b)
      PROVE  x \in Ids(a) \cup Ids(b)
  <2>1. PICK i \in 1 .. Len(a) + Len(b) : x = (a \o b)[i].id
    BY <1>1 DEF Ids
  <2>2. CASE i <= Len(a)
    <3>1. i \in 1 .. Len(a) /\ x = a[i].id
      BY <1>1, <1>2, <2>1, <2>2
    <3> QED BY <1>1, <3>1 DEF Ids
  <2>3. CASE ~(i <= Len(a))
    <3>1. i - Len(a) \in 1 .. Len(b) /\ x = b[i - Len(a)].id
      BY <1>1, <1>2, <2>1, <2>3
    <3> QED BY <1>1, <3>1 DEF Ids
  <2> QED BY <2>2, <2>3
<1>4. ASSUME NEW x \in Ids(a)
      PROVE  x \in Ids(a \o b)
  <2>1. PICK i \in 1 .. Len(a) : x = a[i].id
    BY <1>1 DEF Ids
  <2>2. i \in 1 .. Len(a) + Len(b) /\ (a \o b)[i] = a[i]
    BY <1>1, <1>2
  <2> QED BY <1>1, <2>1, <2>2 DEF Ids
<1>5. ASSUME NEW x \in Ids(b)
      PROVE  x \in Ids(a \o b)
  <2>1. PICK i \in 1 .. Len(b) : x = b[i].id
    BY <1>1 DEF Ids
  <2> DEFINE j == Len(a) + i
  <2>2. j \in 1 .. Len(a) + Len(b) /\ ~(j <= Len(a)) /\ j - Len(a) = i
    BY <1>1
  <2> HIDE DEF j
  <2>3. (a \o b)[j] = b[i]
    BY <1>2, <2>2
  <2> QED BY <1>1, <2>1, <2>2, <2>3 DEF Ids
<1> QED BY <1>3, <1>4, <1>5

(* A slice that is written over.                                           *)
LEMMA WrittenInPlace ==
  ASSUME NEW Word, NEW h \in Seq(Array(Word)), NEW s, Fits(h, s),
         NEW cmds \in Seq(Used(Word)), Len(cmds) = s.len
  PROVE  LET h2 == Overwrite(h, s, 0, cmds)
         IN  /\ In(h2, s) = cmds
             /\ \A a \in 1 .. Len(h) : Len(h2[a]) = Len(h[a])
             /\ \A u : Fits(h, u) /\ u.arr # s.arr => In(h2, u) = In(h, u)
<1> DEFINE h2 == Overwrite(h, s, 0, cmds)
<1>1. /\ s.len \in Nat /\ s.len <= Len(h[s.arr]) /\ s.arr \in 1 .. Len(h)
      /\ h[s.arr] \in Array(Word)
  BY DEF Fits, AnySlice
<1>2. Len(h[s.arr]) \in Nat
  BY <1>1 DEF Array
<1>3. /\ h2 \in Seq(Array(Word)) /\ Keeps(h, h2) /\ Len(h2) = Len(h)
      /\ \A a \in 1 .. Len(h) : a # s.arr => h2[a] = h[a]
      /\ Len(h2[s.arr]) = Len(h[s.arr])
      /\ \A k \in 1 .. Len(h[s.arr]) :
           h2[s.arr][k] = IF k \in 0 + 1 .. 0 + Len(cmds) THEN cmds[k - 0] ELSE h[s.arr][k]
  <2>1. 0 + Len(cmds) <= Len(h[s.arr]) /\ 0 <= s.len /\ 0 \in Nat
    BY <1>1
  <2> QED BY <2>1, OverwriteFits DEF Overwritten
<1>4. \A k \in 1 .. s.len : h2[s.arr][k] = cmds[k]
  <2> SUFFICES ASSUME NEW k \in 1 .. s.len
               PROVE  h2[s.arr][k] = cmds[k]
    OBVIOUS
  <2>1. k \in 1 .. Len(h[s.arr]) /\ k \in 0 + 1 .. 0 + Len(cmds) /\ k - 0 = k
    BY <1>1, <1>2
  <2> QED BY <1>3, <2>1
<1> HIDE DEF h2
<1>5. Fits(h2, s)
  BY <1>3, StillFits
<1>6. In(h2, s) = cmds
  <2> DEFINE v == In(h2, s)
  <2>1. v \in Seq(Used(Word)) /\ Len(v) = Len(cmds) /\ \A k \in 1 .. Len(v) : v[k] = cmds[k]
    BY <1>3, <1>4, <1>5, InSlice
  <2> HIDE DEF v
  <2>2. v = cmds
    BY <2>1, SeqEqual
  <2> QED BY <2>2 DEF v
<1>7. \A u : Fits(h, u) /\ u.arr # s.arr => In(h2, u) = In(h, u)
  BY <1>3 DEF In, Fits
<1> QED BY <1>3, <1>6, <1>7 DEF h2

(* What appending to s leaves of other slices: all of those in other       *)
(* arrays, and of those that have no room.                                 *)
LEMMA AppendedKeeps ==
  ASSUME NEW Word, NEW h \in Seq(Array(Word)), NEW s, Fits(h, s), NEW u, Fits(h, u),
         NEW cmds \in Seq(Used(Word)), NEW r \in Appended(h, s, cmds), Slack \in Nat,
         u.arr # s.arr \/ u.len <= s.len
  PROVE  In(r.heap, u) = In(h, u) /\ Len(r.heap[u.arr]) = Len(h[u.arr])
<1>1. /\ r.heap \in Seq(Array(Word)) /\ Keeps(h, r.heap)
      /\ \/ /\ r.slice.arr = s.arr /\ Len(r.heap) = Len(h) /\ s.len + Len(cmds) <= Len(h[s.arr])
            /\ r.slice.len = s.len + Len(cmds)
            /\ \A k \in 1 .. s.len : r.heap[s.arr][k] = h[s.arr][k]
         \/ r.slice.arr = Len(h) + 1 /\ r.heap[s.arr] = h[s.arr]
      /\ \A a \in 1 .. Len(h) : a # r.slice.arr => r.heap[a] = h[a]
  BY AppendedFits
<1>2. /\ u.arr \in 1 .. Len(h) /\ s.arr \in 1 .. Len(h) /\ Len(h) \in Nat
      /\ u.len \in Nat /\ s.len \in Nat
  BY DEF Fits, AnySlice
<1>3. Len(r.heap[u.arr]) = Len(h[u.arr])
  BY <1>1, <1>2 DEF Keeps
<1>4. CASE r.heap[u.arr] = h[u.arr]
  BY <1>3, <1>4 DEF In
<1>5. CASE r.heap[u.arr] # h[u.arr]
  <2>1. u.arr = s.arr /\ \A k \in 1 .. s.len : r.heap[s.arr][k] = h[s.arr][k]
    BY <1>1, <1>2, <1>5
  <2>2. \A k \in 1 .. u.len : r.heap[u.arr][k] = h[u.arr][k]
    BY <1>2, <2>1
  <2>3. Fits(r.heap, u)
    BY <1>1, StillFits
  <2> DEFINE v == In(r.heap, u)
             w == In(h, u)
  <2>4. v \in Seq(Used(Word)) /\ w \in Seq(Used(Word)) /\ Len(v) = u.len /\ Len(w) = u.len
        /\ \A k \in 1 .. u.len : v[k] = r.heap[u.arr][k] /\ w[k] = h[u.arr][k]
    BY <1>1, <2>3, InSlice
  <2> HIDE DEF v, w
  <2>5. Len(v) = Len(w) /\ \A k \in 1 .. Len(v) : v[k] = w[k]
    BY <2>2, <2>4
  <2>6. v = w
    BY <2>4, <2>5, SeqEqual
  <2> QED BY <1>3, <2>6 DEF v, w
<1> QED BY <1>4, <1>5

LEMMA HeldAfterAppend ==
  ASSUME NEW Word, NEW h \in Seq(Array(Word)), NEW s, Fits(h, s),
         NEW cmds \in Seq(Used(Word)), NEW r \in Appended(h, s, cmds), Slack \in Nat
  PROVE  Ids(In(r.heap, r.slice)) = Ids(In(h, s)) \cup Ids(cmds)
<1>1. In(r.heap, r.slice) = In(h, s) \o cmds
  BY AppendedFits
<1>2. In(h, s) \in Seq(Used(Word))
  BY InSlice
<1> QED BY <1>1, <1>2, IdsConcat

(* What Keys, For and so on mean depends on what was read only.            *)
LEMMA GivenStays ==
  ASSUME given' = given
  PROVE  /\ \A i : Keys(i)' = Keys(i) /\ CommandsOf(i)' = CommandsOf(i)
         /\ \A k : (Exposed(k)' <=> Exposed(k)) /\ (Ambiguous(k)' <=> Ambiguous(k))
         /\ \A k : ConfiguredFor(k)' = ConfiguredFor(k)
<1>1. \A i : Keys(i)' = Keys(i)
  BY DEF Keys
<1>2. \A k : For(k)' = For(k)
  BY <1>1 DEF For
<1>3. \A k : Exposed(k)' <=> Exposed(k)
  BY <1>2 DEF Exposed
<1>4. \A k : Ambiguous(k)' <=> Ambiguous(k)
  BY <1>2 DEF Ambiguous
<1>5. \A k : ConfiguredFor(k)' = ConfiguredFor(k)
  <2> SUFFICES ASSUME NEW k
               PROVE  ConfiguredFor(k)' = ConfiguredFor(k)
    OBVIOUS
  <2>1. ConfiguredFor(k)' = UNION {Ids(given'[i].commands \o given'[i].menu) : i \in For(k)'}
    BY DEF ConfiguredFor
  <2>2. For(k)' = For(k)
    BY <1>2
  <2> QED BY <2>1, <2>2 DEF ConfiguredFor
<1>6. \A i : CommandsOf(i)' = CommandsOf(i)
  BY DEF CommandsOf, Ids
<1> QED BY <1>1, <1>3, <1>4, <1>5, <1>6

LEMMA ConfiguredCommands ==
  ASSUME NEW Word, given \in Seq(ReadGroup(Word)), NEW k
  PROVE  ConfiguredFor(k) = UNION {CommandsOf(i) : i \in For(k)}
<1>1. \A i \in DOMAIN given : given[i].commands \in Seq(Used(Word)) /\ given[i].menu \in Seq(Used(Word))
  <2>1. \A i \in DOMAIN given : given[i] \in ReadGroup(Word)
    OBVIOUS
  <2> QED BY <2>1 DEF ReadGroup
<1>2. \A i \in DOMAIN given : Ids(given[i].commands \o given[i].menu) = CommandsOf(i)
  BY <1>1, IdsConcat DEF CommandsOf
<1>3. For(k) \subseteq DOMAIN given
  BY DEF For
<1>4. {Ids(given[i].commands \o given[i].menu) : i \in For(k)} = {CommandsOf(i) : i \in For(k)}
  BY <1>2, <1>3
<1> QED BY <1>4 DEF ConfiguredFor

-----------------------------------------------------------------------------
(* Validation keeps the commands of each group.                            *)

LEMMA SelectionKeepsAsRead ==
  ASSUME NEW Word, Types(Word), Slack \in Nat, AsRead, phase = "validate", AddSelection
  PROVE  AsRead'
<1> DEFINE g == conf[at]
           sel == <<Head(g.menu)>>
<1>1. PICK r \in Appended(heap, g.cmds, sel) :
        LET g2 == [g EXCEPT !.cmds = r.slice, !.menu = Tail(g.menu)]
        IN  /\ at \in DOMAIN conf /\ g \in Group(Word) /\ Fits(heap, g.cmds)
            /\ sel \in Seq(Used(Word)) /\ heap' = r.heap
            /\ heap' \in Seq(Array(Word)) /\ Keeps(heap, heap')
            /\ g2 \in Group(Word) /\ Fits(heap', g2.cmds)
            /\ conf' = [conf EXCEPT ![at] = g2]
  BY SelectionAdded
<1> DEFINE g2 == [g EXCEPT !.cmds = r.slice, !.menu = Tail(g.menu)]
<1>2. /\ at \in DOMAIN conf /\ g \in Group(Word) /\ Fits(heap, g.cmds)
      /\ sel \in Seq(Used(Word)) /\ heap' = r.heap
      /\ heap' \in Seq(Array(Word)) /\ Keeps(heap, heap')
      /\ g2 \in Group(Word)
      /\ conf' = [conf EXCEPT ![at] = g2]
  BY <1>1
<1>3. /\ g2.cat = g.cat /\ g2.name = g.name /\ g2.prefix = g.prefix /\ g2.aliases = g.aliases
      /\ g2.here = g.here /\ g2.cmds = r.slice /\ g2.menu = Tail(g.menu)
  BY <1>2 DEF Group
<1>4. g.menu \in Seq(Used(Word)) /\ g.menu # <<>>
  BY <1>2 DEF Group, AddSelection
<1>5. Ids(g.menu) = Ids(sel) \cup Ids(Tail(g.menu))
  <2>1. Tail(g.menu) \in Seq(Used(Word)) /\ sel \in Seq(Used(Word))
    BY <1>2, <1>4
  <2>2. g.menu = sel \o Tail(g.menu)
    BY <1>4
  <2> DEFINE t == Tail(g.menu)
  <2>3. t \in Seq(Used(Word)) /\ g.menu = sel \o t
    BY <2>1, <2>2
  <2> HIDE DEF t, sel
  <2>4. Ids(sel \o t) = Ids(sel) \cup Ids(t)
    BY <2>1, <2>3, IdsConcat
  <2> QED BY <2>3, <2>4 DEF t
<1> DEFINE c2 == [conf EXCEPT ![at] = g2]
<1> HIDE DEF g2
<1>6. /\ DOMAIN conf' = DOMAIN conf /\ conf'[at] = g2
      /\ \A i \in DOMAIN conf : i # at => conf'[i] = conf[i]
  BY <1>2
<1> HIDE DEF sel
<1>7. Ids(In(heap', conf'[at].cmds)) \cup Ids(conf'[at].menu) = Held(at) \cup Ids(g.menu)
  <2>1. Ids(In(r.heap, r.slice)) = Ids(In(heap, g.cmds)) \cup Ids(sel)
    BY <1>2, HeldAfterAppend DEF Types
  <2> QED BY <1>2, <1>3, <1>5, <1>6, <2>1 DEF Held
<1>8. \A i \in DOMAIN conf : i # at =>
        /\ conf[i].cmds.arr # g.cmds.arr /\ Fits(heap, conf[i].cmds)
        /\ Held(i)' = Held(i) /\ (Full(conf[i].cmds)' <=> Full(conf[i].cmds))
        /\ conf'[i] = conf[i]
  <2> SUFFICES ASSUME NEW i \in DOMAIN conf, i # at
               PROVE  /\ conf[i].cmds.arr # g.cmds.arr /\ Fits(heap, conf[i].cmds)
                      /\ Held(i)' = Held(i) /\ (Full(conf[i].cmds)' <=> Full(conf[i].cmds))
                      /\ conf'[i] = conf[i]
    OBVIOUS
  <2>1. conf[i].cmds.arr # g.cmds.arr /\ Fits(heap, conf[i].cmds)
    BY <1>2 DEF AsRead, Types
  <2>2. /\ In(heap', conf[i].cmds) = In(heap, conf[i].cmds)
        /\ Len(heap'[conf[i].cmds.arr]) = Len(heap[conf[i].cmds.arr])
    <3>1. heap \in Seq(Array(Word))
      BY DEF Types
    <3> DEFINE u == conf[i].cmds
               s == g.cmds
    <3>2. Fits(heap, u) /\ Fits(heap, s) /\ u.arr # s.arr /\ r \in Appended(heap, s, sel)
      BY <1>2, <2>1
    <3> HIDE DEF u, s
    <3>3. In(r.heap, u) = In(heap, u) /\ Len(r.heap[u.arr]) = Len(heap[u.arr])
      BY <1>2, <3>1, <3>2, AppendedKeeps
    <3> QED BY <1>2, <3>3 DEF u
  <2> QED BY <1>6, <2>1, <2>2 DEF Held, Full
<1>9. phase' = phase /\ at' = at /\ given' = given
  BY DEF AddSelection
<1>10. \A i, j \in DOMAIN conf' : conf'[i].cmds.arr = conf'[j].cmds.arr => i = j
  <2>1. r.slice.arr = g.cmds.arr \/ r.slice.arr = Len(heap) + 1
    BY <1>2, AppendedFits DEF Types
  <2>2. \A i \in DOMAIN conf : i # at => conf[i].cmds.arr # r.slice.arr
    BY <1>8, <2>1 DEF Fits, Types
  <2>3. conf'[at].cmds.arr = r.slice.arr
    BY <1>3, <1>6
  <2> QED BY <1>6, <2>2, <2>3 DEF AsRead
<1>11. Validated = at /\ Validated' = at
  BY <1>9 DEF Validated
<1>12. given[at].menu # <<>> /\ ~(at < at)
  <2>1. at \in Nat
    BY DEF Types
  <2> QED BY <1>2, <1>4, <2>1 DEF AsRead
<1> DEFINE T(i) == IF i < at THEN Rotated(given[i]) ELSE given[i]
<1>13. \A i \in DOMAIN conf :
         /\ conf[i].cat = T(i).cat /\ conf[i].name = T(i).name /\ conf[i].prefix = T(i).prefix
         /\ conf[i].aliases = given[i].aliases /\ conf[i].here = given[i].here
         /\ Held(i) \cup Ids(conf[i].menu) = CommandsOf(i)
         /\ i < at => conf[i].menu = <<>>
         /\ given[i].menu = <<>> => conf[i].menu = <<>> /\ Full(conf[i].cmds)
  BY <1>11 DEF AsRead
<1> HIDE DEF T
<1>14. \A i \in DOMAIN conf' :
         /\ conf'[i].cat = T(i).cat /\ conf'[i].name = T(i).name /\ conf'[i].prefix = T(i).prefix
         /\ conf'[i].aliases = given[i].aliases /\ conf'[i].here = given[i].here
         /\ Held(i)' \cup Ids(conf'[i].menu) = CommandsOf(i)
         /\ i < at => conf'[i].menu = <<>>
         /\ given[i].menu = <<>> => conf'[i].menu = <<>> /\ conf'[i].cmds.len = Len(heap'[conf'[i].cmds.arr])
  <2> SUFFICES ASSUME NEW i \in DOMAIN conf
               PROVE  /\ conf'[i].cat = T(i).cat /\ conf'[i].name = T(i).name
                      /\ conf'[i].prefix = T(i).prefix
                      /\ conf'[i].aliases = given[i].aliases /\ conf'[i].here = given[i].here
                      /\ Held(i)' \cup Ids(conf'[i].menu) = CommandsOf(i)
                      /\ i < at => conf'[i].menu = <<>>
                      /\ given[i].menu = <<>> => conf'[i].menu = <<>> /\ conf'[i].cmds.len = Len(heap'[conf'[i].cmds.arr])
    BY <1>6
  <2>1. CASE i = at
    <3>1. Held(i)' = Ids(In(heap', conf'[i].cmds))
      BY DEF Held
    <3>2. Held(i)' \cup Ids(conf'[i].menu) = CommandsOf(i)
      BY <1>7, <1>13, <2>1, <3>1
    <3> QED BY <1>3, <1>6, <1>12, <1>13, <2>1, <3>2
  <2>2. CASE i # at
    <3>1. conf'[i] = conf[i] /\ Held(i)' = Held(i) /\ (Full(conf[i].cmds)' <=> Full(conf[i].cmds))
      BY <1>8, <2>2
    <3> QED BY <1>13, <3>1 DEF Full
  <2> QED BY <2>1, <2>2
<1>15. \A i : CommandsOf(i)' = CommandsOf(i)
  BY <1>9, GivenStays
<1>16. DOMAIN conf' = DOMAIN given
  BY <1>6 DEF AsRead
<1> QED BY <1>9, <1>10, <1>11, <1>14, <1>15, <1>16 DEF AsRead, T, Full

(* A group that is rotated has the name that its reading has when rotated. *)
LEMMA SameRotation ==
  ASSUME NEW Word, NEW g \in Group(Word), NEW h \in ReadGroup(Word),
         g.cat = h.cat, g.name = h.name, g.prefix = h.prefix
  PROVE  /\ Rotated(g).cat = Rotated(h).cat /\ Rotated(g).name = Rotated(h).name
         /\ Rotated(g).prefix = Rotated(h).prefix
         /\ Rotated(h).aliases = h.aliases /\ Rotated(h).here = h.here
<1>1. CASE g.cat = <<>> /\ g.name # <<>> /\ g.prefix # <<>>
  BY <1>1 DEF Rotated, Group, ReadGroup
<1>2. CASE ~(g.cat = <<>> /\ g.name # <<>> /\ g.prefix # <<>>) /\ g.name = <<>> /\ g.prefix # <<>>
  BY <1>2 DEF Rotated, Group, ReadGroup
<1>3. CASE ~(g.cat = <<>> /\ g.name # <<>> /\ g.prefix # <<>>) /\ ~(g.name = <<>> /\ g.prefix # <<>>)
  BY <1>3 DEF Rotated, Group, ReadGroup
<1> QED BY <1>1, <1>2, <1>3

LEMMA ValidationKeepsAsRead ==
  ASSUME NEW Word, Types(Word), given \in Seq(ReadGroup(Word)), AsRead, phase = "validate",
         ValidateGroup
  PROVE  AsRead'
<1> DEFINE g == conf[at]
           g2 == Rotated(g)
           named == Prefixed(Word, g2, In(heap, g2.cmds))
<1>1. /\ at \in DOMAIN conf /\ g \in Group(Word) /\ g2 \in Group(Word)
      /\ g2.cmds = g.cmds /\ Fits(heap, g2.cmds)
      /\ named \in Seq(Used(Word)) /\ Len(named) = g2.cmds.len
      /\ heap' = Overwrite(heap, g2.cmds, 0, named)
      /\ conf' = [conf EXCEPT ![at] = g2]
  BY GroupValidated
<1>2. /\ heap \in Seq(Array(Word)) /\ at \in Nat \ {0} /\ DOMAIN conf = 1 .. Len(conf)
      /\ Len(conf) \in Nat
  BY DEF Types
<1>3. g.menu = <<>> /\ phase' = phase /\ at' = at + 1 /\ given' = given
  BY DEF ValidateGroup
<1>4. g2.aliases = g.aliases /\ g2.menu = g.menu /\ g2.here = g.here
  BY <1>1, RotatedGroup
<1>5. given[at] \in ReadGroup(Word)
  <2>1. at \in DOMAIN given
    BY <1>1 DEF AsRead
  <2> QED BY <2>1
<1>6. Validated = at /\ Validated' = at + 1
  BY <1>3 DEF Validated
<1>7. g.cat = given[at].cat /\ g.name = given[at].name /\ g.prefix = given[at].prefix
  <2>1. ~(at < at)
    BY <1>2
  <2> QED BY <1>1, <1>6, <2>1 DEF AsRead
<1>8. LET t == Rotated(given[at])
      IN  g2.cat = t.cat /\ g2.name = t.name /\ g2.prefix = t.prefix
  BY <1>1, <1>5, <1>7, SameRotation
<1>9. Ids(In(heap', g2.cmds)) = Ids(In(heap, g2.cmds))
  <2>1. In(heap', g2.cmds) = named
    BY <1>1, <1>2, WrittenInPlace
  <2> DEFINE cmds == In(heap, g2.cmds)
  <2>2. cmds \in Seq(Used(Word))
    BY <1>1, <1>2, InSlice
  <2> HIDE DEF cmds, g2
  <2>3. /\ Prefixed(Word, g2, cmds) \in Seq(Used(Word))
        /\ Len(Prefixed(Word, g2, cmds)) = Len(cmds)
        /\ \A k \in 1 .. Len(cmds) : Prefixed(Word, g2, cmds)[k].id = cmds[k].id
    BY <1>1, <2>2, PrefixedCommands
  <2>4. DOMAIN cmds = 1 .. Len(cmds) /\ DOMAIN Prefixed(Word, g2, cmds) = 1 .. Len(cmds)
    BY <2>2, <2>3
  <2>5. Ids(Prefixed(Word, g2, cmds)) = Ids(cmds)
    BY <2>3, <2>4 DEF Ids
  <2> QED BY <2>1, <2>5 DEF cmds
<1>10. \A a \in 1 .. Len(heap) : Len(heap'[a]) = Len(heap[a])
  BY <1>1, <1>2, WrittenInPlace
<1>11. \A u : Fits(heap, u) /\ u.arr # g2.cmds.arr => In(heap', u) = In(heap, u)
  BY <1>1, <1>2, WrittenInPlace
<1> HIDE DEF g2, named
<1>12. /\ DOMAIN conf' = DOMAIN conf /\ conf'[at] = g2
       /\ \A i \in DOMAIN conf : i # at => conf'[i] = conf[i]
  BY <1>1
<1>13. \A i \in DOMAIN conf :
         conf'[i].cmds = conf[i].cmds /\ conf'[i].menu = conf[i].menu
         /\ conf'[i].aliases = conf[i].aliases /\ conf'[i].here = conf[i].here
  BY <1>1, <1>4, <1>12
<1>14. \A i \in DOMAIN conf : Fits(heap, conf[i].cmds) /\ conf[i].cmds.arr \in 1 .. Len(heap)
  BY DEF Types, Fits
<1>15. \A i \in DOMAIN conf : Held(i)' = Held(i) /\ (Full(conf[i].cmds)' <=> Full(conf[i].cmds))
  <2> SUFFICES ASSUME NEW i \in DOMAIN conf
               PROVE  Held(i)' = Held(i) /\ (Full(conf[i].cmds)' <=> Full(conf[i].cmds))
    OBVIOUS
  <2>1. Held(i)' = Ids(In(heap', conf[i].cmds)) /\ Held(i) = Ids(In(heap, conf[i].cmds))
    BY <1>13 DEF Held
  <2>2. Ids(In(heap', conf[i].cmds)) = Ids(In(heap, conf[i].cmds))
    <3>1. CASE i = at
      BY <1>1, <1>9, <3>1
    <3>2. CASE i # at
      <4>1. conf[i].cmds.arr # g2.cmds.arr
        BY <1>1, <3>2 DEF AsRead
      <4> QED BY <1>11, <1>14, <4>1
    <3> QED BY <3>1, <3>2
  <2>4. Len(heap'[conf[i].cmds.arr]) = Len(heap[conf[i].cmds.arr])
    BY <1>10, <1>14
  <2>5. conf'[i].cmds = conf[i].cmds
    BY <1>13
  <2>6. Held(i)' = Held(i)
    BY <2>1, <2>2
  <2>7. Full(conf[i].cmds)' <=> Full(conf[i].cmds)
    BY <2>4, <2>5 DEF Full
  <2> QED BY <2>6, <2>7
<1>16. \A i \in DOMAIN conf :
         LET t == IF i < at + 1 THEN Rotated(given[i]) ELSE given[i]
         IN  conf'[i].cat = t.cat /\ conf'[i].name = t.name /\ conf'[i].prefix = t.prefix
  <2> SUFFICES ASSUME NEW i \in DOMAIN conf
               PROVE  LET t == IF i < at + 1 THEN Rotated(given[i]) ELSE given[i]
                      IN  conf'[i].cat = t.cat /\ conf'[i].name = t.name /\ conf'[i].prefix = t.prefix
    OBVIOUS
  <2>1. CASE i = at
    <3>1. i < at + 1
      BY <1>2, <2>1
    <3> QED BY <1>8, <1>12, <2>1, <3>1
  <2>2. CASE i # at
    <3>1. (i < at + 1) <=> (i < at)
      BY <1>2, <2>2
    <3>2. LET t == IF i < at THEN Rotated(given[i]) ELSE given[i]
          IN  conf[i].cat = t.cat /\ conf[i].name = t.name /\ conf[i].prefix = t.prefix
      BY <1>6 DEF AsRead
    <3> QED BY <1>12, <2>2, <3>1, <3>2
  <2> QED BY <2>1, <2>2
<1>17. \A i \in DOMAIN conf :
         /\ conf[i].aliases = given[i].aliases /\ conf[i].here = given[i].here
         /\ Held(i) \cup Ids(conf[i].menu) = CommandsOf(i)
         /\ i < at => conf[i].menu = <<>>
         /\ given[i].menu = <<>> => conf[i].menu = <<>> /\ Full(conf[i].cmds)
  BY <1>6 DEF AsRead
<1>18. \A i \in DOMAIN conf' :
         /\ conf'[i].aliases = given'[i].aliases /\ conf'[i].here = given'[i].here
         /\ Held(i)' \cup Ids(conf'[i].menu) = CommandsOf(i)
         /\ i < at + 1 => conf'[i].menu = <<>>
         /\ given'[i].menu = <<>> => conf'[i].menu = <<>> /\ Full(conf[i].cmds)'
  <2> SUFFICES ASSUME NEW i \in DOMAIN conf
               PROVE  /\ conf'[i].aliases = given[i].aliases /\ conf'[i].here = given[i].here
                      /\ Held(i)' \cup Ids(conf'[i].menu) = CommandsOf(i)
                      /\ i < at + 1 => conf'[i].menu = <<>>
                      /\ given[i].menu = <<>> => conf'[i].menu = <<>> /\ Full(conf[i].cmds)'
    BY <1>3, <1>12
  <2>1. i < at + 1 => i < at \/ i = at
    BY <1>2
  <2>2. i < at + 1 => conf[i].menu = <<>>
    BY <1>3, <1>17, <2>1
  <2> QED BY <1>13, <1>15, <1>17, <2>2
<1>19. \A i : CommandsOf(i)' = CommandsOf(i)
  BY <1>3, GivenStays
<1>20. DOMAIN conf' = DOMAIN given'
       /\ \A i, j \in DOMAIN conf' : conf'[i].cmds.arr = conf'[j].cmds.arr => i = j
  BY <1>3, <1>12, <1>13 DEF AsRead
<1> QED BY <1>3, <1>6, <1>12, <1>16, <1>18, <1>19, <1>20 DEF AsRead

-----------------------------------------------------------------------------
(* Copies.                                                                 *)

LEMMA ExpandKeepsCopied ==
  ASSUME NEW Word, Types(Word), given \in Seq(ReadGroup(Word)), AsRead, Copied,
         phase = "expand", ExpandAliases
  PROVE  Copied'
<1> DEFINE g == conf[at]
           t == Rotated(given[at])
<1>1. /\ at \in Nat \ {0} /\ DOMAIN conf = 1 .. Len(conf) /\ Len(conf) \in Nat
      /\ conf \in Seq(Group(Word)) /\ expanded \in Seq(Group(Word))
      /\ DOMAIN expanded = 1 .. Len(expanded) /\ Len(expanded) \in Nat
  BY DEF Types
<1>2. at \in DOMAIN conf /\ at \in DOMAIN given
  BY <1>1 DEF ExpandAliases, AsRead
<1>3. at' = at + 1 /\ UNCHANGED <<phase, conf, heap, given>>
  BY DEF ExpandAliases
<1>4. g \in Group(Word) /\ given[at] \in ReadGroup(Word)
  BY <1>1, <1>2
<1>5. /\ g.cat = t.cat /\ g.name = t.name /\ g.aliases = given[at].aliases
      /\ g.here = given[at].here
  <2>1. at < Validated
    BY <1>1, <1>2 DEF Validated
  <2> QED BY <1>2, <2>1 DEF AsRead
<1>6. t.aliases = given[at].aliases /\ t.here = given[at].here
  BY <1>4 DEF Rotated, ReadGroup
<1>7. Keys(at) = IF Skipped(g) THEN {} ELSE {Key(g)} \cup {g.cat \o g.aliases[a] : a \in DOMAIN g.aliases}
  BY <1>5, <1>6 DEF Keys, Skipped, Key
<1>8. \A i : Keys(i)' = Keys(i)
  BY <1>3, GivenStays
<1>9. \A o \in DOMAIN given : o < at + 1 <=> (o < at \/ o = at)
  BY <1>1 DEF AsRead
<1>10. CASE Skipped(g)
  <2>1. expanded' = expanded
    BY <1>10 DEF ExpandAliases
  <2>2. Keys(at) = {}
    BY <1>7, <1>10
  <2> QED BY <1>3, <1>8, <1>9, <2>1, <2>2 DEF Copied
<1>11. CASE ~Skipped(g)
  <2> DEFINE e2 == WithAliases(expanded, g)
             n == Len(expanded)
  <2>1. expanded' = e2
    BY <1>11 DEF ExpandAliases, WithAliases
  <2>2. e2 \in Seq(Group(Word)) /\ Expansion(expanded, g, e2)
    BY <1>1, <1>4, AliasesExpanded
  <2> HIDE DEF e2, t
  <2>3. DOMAIN g.aliases = 1 .. Len(g.aliases) /\ Len(g.aliases) \in Nat
    BY <1>4 DEF Group
  <2> HIDE DEF g
  <2>4. \A i \in DOMAIN e2 :
          \/ i \in DOMAIN expanded /\ e2[i] = expanded[i]
          \/ i > n /\ e2[i].cmds = g.cmds /\ e2[i].cat = g.cat /\ Key(e2[i]) \in Keys(at)
    BY <1>7, <1>11, <2>2 DEF Expansion, Key
  <2> DEFINE m == Len(g.aliases)
  <2>a. /\ DOMAIN e2 = 1 .. n + 1 + m
        /\ \A i \in 1 .. n : e2[i] = expanded[i]
        /\ e2[n + 1] = g
        /\ \A k \in 1 .. m : e2[n + 1 + k] = Alias(g, g.aliases[k])
    BY <2>2 DEF Expansion
  <2>b. DOMAIN expanded = 1 .. n /\ n \in Nat /\ m \in Nat /\ DOMAIN g.aliases = 1 .. m
    BY <1>1, <2>3
  <2> HIDE DEF n, m
  <2>c. /\ n + 1 \in 1 .. n + 1 + m
        /\ \A i \in 1 .. n : i \in 1 .. n + 1 + m
        /\ \A k \in 1 .. m : n + 1 + k \in 1 .. n + 1 + m
    BY <2>b
  <2>5. \A i \in DOMAIN expanded : i \in DOMAIN e2 /\ e2[i] = expanded[i]
    BY <2>a, <2>b, <2>c
  <2>6. \A k \in Keys(at) : \E i \in DOMAIN e2 : Key(e2[i]) = k /\ e2[i].cmds = g.cmds
    <3> SUFFICES ASSUME NEW k \in Keys(at)
                 PROVE  \E i \in DOMAIN e2 : Key(e2[i]) = k /\ e2[i].cmds = g.cmds
      OBVIOUS
    <3>1. CASE k = Key(g)
      <4>1. n + 1 \in DOMAIN e2 /\ e2[n + 1] = g
        BY <2>a, <2>c
      <4> QED BY <3>1, <4>1
    <3>2. CASE \E a \in DOMAIN g.aliases : k = g.cat \o g.aliases[a]
      <4>1. PICK a \in DOMAIN g.aliases : k = g.cat \o g.aliases[a]
        BY <3>2
      <4>2. n + 1 + a \in DOMAIN e2 /\ e2[n + 1 + a] = Alias(g, g.aliases[a])
        BY <2>a, <2>b, <2>c
      <4>3. g.aliases[a] \in Seq(Word)
        BY <1>4 DEF Group
      <4>4. Alias(g, g.aliases[a]).cmds = g.cmds /\ Key(Alias(g, g.aliases[a])) = k
        BY <1>4, <4>1, <4>3, AliasGroup DEF Key
      <4>5. Key(e2[n + 1 + a]) = k /\ e2[n + 1 + a].cmds = g.cmds
        BY <4>2, <4>4
      <4> QED BY <4>2, <4>5, Zenon
    <3> QED BY <1>7, <1>11, <3>1, <3>2
  <2>7. \A i \in DOMAIN e2 : \E o \in DOMAIN given :
          /\ o < at + 1 /\ Key(e2[i]) \in Keys(o)
          /\ e2[i].cat = Rotated(given[o]).cat /\ e2[i].cmds = conf[o].cmds
    <3> SUFFICES ASSUME NEW i \in DOMAIN e2
                 PROVE  \E o \in DOMAIN given :
                          /\ o < at + 1 /\ Key(e2[i]) \in Keys(o)
                          /\ e2[i].cat = Rotated(given[o]).cat /\ e2[i].cmds = conf[o].cmds
      OBVIOUS
    <3>1. CASE i \in DOMAIN expanded /\ e2[i] = expanded[i]
      <4>1. PICK o \in DOMAIN given :
              /\ o < at /\ Key(expanded[i]) \in Keys(o)
              /\ expanded[i].cat = Rotated(given[o]).cat /\ expanded[i].cmds = conf[o].cmds
        BY <3>1 DEF Copied
      <4> QED BY <1>9, <3>1, <4>1
    <3>2. CASE i > n /\ e2[i].cmds = g.cmds /\ e2[i].cat = g.cat /\ Key(e2[i]) \in Keys(at)
      <4>1. /\ at < at + 1 /\ Key(e2[i]) \in Keys(at)
            /\ e2[i].cat = Rotated(given[at]).cat /\ e2[i].cmds = conf[at].cmds
        BY <1>1, <1>5, <3>2 DEF g, t
      <4> QED BY <1>2, <4>1
    <3> QED BY <2>4, <3>1, <3>2
  <2>8. \A o \in DOMAIN given : o < at + 1 => \A k \in Keys(o) :
          \E i \in DOMAIN e2 : Key(e2[i]) = k /\ e2[i].cmds = conf[o].cmds
    <3> SUFFICES ASSUME NEW o \in DOMAIN given, o < at + 1, NEW k \in Keys(o)
                 PROVE  \E i \in DOMAIN e2 : Key(e2[i]) = k /\ e2[i].cmds = conf[o].cmds
      OBVIOUS
    <3>1. CASE o < at
      <4>1. PICK i \in DOMAIN expanded : Key(expanded[i]) = k /\ expanded[i].cmds = conf[o].cmds
        BY <3>1 DEF Copied
      <4> QED BY <2>5, <4>1
    <3>2. CASE o = at
      BY <2>6, <3>2 DEF g
    <3> QED BY <1>9, <3>1, <3>2
  <2>9. \A i, j \in DOMAIN e2 : i # j /\ e2[i].cmds.arr = e2[j].cmds.arr =>
          \E o \in DOMAIN given :
            /\ o < at + 1 /\ given[o].aliases # <<>>
            /\ e2[i].cmds = conf[o].cmds /\ e2[j].cmds = conf[o].cmds
            /\ Key(e2[i]) \in Keys(o) /\ Key(e2[j]) \in Keys(o)
    <3> SUFFICES ASSUME NEW i \in DOMAIN e2, NEW j \in DOMAIN e2, i # j,
                        e2[i].cmds.arr = e2[j].cmds.arr
                 PROVE  \E o \in DOMAIN given :
                          /\ o < at + 1 /\ given[o].aliases # <<>>
                          /\ e2[i].cmds = conf[o].cmds /\ e2[j].cmds = conf[o].cmds
                          /\ Key(e2[i]) \in Keys(o) /\ Key(e2[j]) \in Keys(o)
      OBVIOUS
    <3> DEFINE Old(q) == q \in DOMAIN expanded /\ e2[q] = expanded[q]
               New(q) == q > n /\ e2[q].cmds = g.cmds /\ Key(e2[q]) \in Keys(at)
    <3>1. (Old(i) \/ New(i)) /\ (Old(j) \/ New(j))
      BY <2>4
    <3>2. CASE Old(i) /\ Old(j)
      <4>1. PICK o \in DOMAIN given :
              /\ o < at /\ given[o].aliases # <<>>
              /\ expanded[i].cmds = conf[o].cmds /\ expanded[j].cmds = conf[o].cmds
              /\ Key(expanded[i]) \in Keys(o) /\ Key(expanded[j]) \in Keys(o)
        BY <3>2 DEF Copied
      <4> QED BY <1>9, <3>2, <4>1
    <3>3. ~(Old(i) /\ New(j)) /\ ~(Old(j) /\ New(i))
      <4>1. \A q \in DOMAIN expanded : expanded[q].cmds.arr # conf[at].cmds.arr
        <5> SUFFICES ASSUME NEW q \in DOMAIN expanded
                     PROVE  expanded[q].cmds.arr # conf[at].cmds.arr
          OBVIOUS
        <5>1. PICK o \in DOMAIN given : o < at /\ expanded[q].cmds = conf[o].cmds
          BY DEF Copied
        <5>2. o # at /\ o \in DOMAIN conf
          BY <1>1, <5>1 DEF AsRead
        <5> QED BY <1>2, <5>1, <5>2 DEF AsRead
      <4> QED BY <4>1 DEF g
    <3>4. CASE New(i) /\ New(j)
      <4>1. given[at].aliases # <<>>
        <5>1. SUFFICES ASSUME given[at].aliases = <<>>
                       PROVE  FALSE
          OBVIOUS
        <5>2. Len(g.aliases) = 0
          BY <1>5, <5>1
        <5>3. i \in 1 .. n + 1 /\ j \in 1 .. n + 1
          BY <2>a, <2>b, <5>2 DEF m
        <5> QED BY <2>b, <3>4, <5>3
      <4>2. e2[i].cmds = conf[at].cmds /\ e2[j].cmds = conf[at].cmds
        BY <3>4 DEF g
      <4> QED BY <1>2, <1>9, <3>4, <4>1, <4>2
    <3> QED BY <3>1, <3>2, <3>3, <3>4
  <2> QED BY <1>3, <1>8, <2>1, <2>7, <2>8, <2>9 DEF Copied
<1> QED BY <1>10, <1>11

-----------------------------------------------------------------------------
(* What merging and sorting make of what is offered.                       *)

LEMMA MergeStarts ==
  ASSUME NEW Word, Types(Word), given \in Seq(ReadGroup(Word)), AsRead, Copied, Indexed,
         phase = "expand", StartMerge
  PROVE  Originals' /\ SafelyShared' /\ Complete'
<1>1. /\ phase' = "merge" /\ at' = 1 /\ conf' = expanded /\ heap' = heap /\ given' = given
      /\ index' = <<>> /\ at > Len(conf)
  BY DEF StartMerge, Indexed
<1>2. /\ at \in Nat /\ DOMAIN conf = 1 .. Len(conf) /\ Len(conf) \in Nat
      /\ DOMAIN expanded = 1 .. Len(expanded) /\ Len(expanded) \in Nat
  BY DEF Types
<1>3. Live' = DOMAIN expanded
  <2>1. Firsts' = {}
    BY <1>1 DEF Firsts
  <2>2. \A i \in DOMAIN expanded : i >= 1
    BY <1>2
  <2> QED BY <1>1, <2>1, <2>2 DEF Live
<1>4. \A o \in DOMAIN given : o < at /\ o \in DOMAIN conf
  BY <1>1, <1>2 DEF AsRead
<1>5. \A o \in DOMAIN given : Held(o) = CommandsOf(o) /\ (given[o].menu = <<>> => Full(conf[o].cmds))
  <2> SUFFICES ASSUME NEW o \in DOMAIN given
               PROVE  Held(o) = CommandsOf(o) /\ (given[o].menu = <<>> => Full(conf[o].cmds))
    OBVIOUS
  <2>1. o < Validated
    BY <1>2, <1>4 DEF Validated
  <2>2. /\ Held(o) \cup Ids(conf[o].menu) = CommandsOf(o) /\ conf[o].menu = <<>>
        /\ given[o].menu = <<>> => Full(conf[o].cmds)
    BY <1>4, <2>1 DEF AsRead
  <2>3. Ids(conf[o].menu) = {}
    BY <2>2 DEF Ids
  <2> QED BY <2>2, <2>3
<1>6. /\ \A i : Keys(i)' = Keys(i)
      /\ \A k : (Exposed(k)' <=> Exposed(k)) /\ (Ambiguous(k)' <=> Ambiguous(k))
      /\ \A k : ConfiguredFor(k)' = ConfiguredFor(k)
  BY <1>1, GivenStays
<1>7. Originals'
  BY <1>1, <1>6 DEF Originals, Copied
<1>8. SafelyShared'
  <2> SUFFICES ASSUME NEW i \in DOMAIN expanded, NEW j \in DOMAIN expanded, i # j,
                      expanded[i].cmds.arr = expanded[j].cmds.arr
               PROVE  \/ Full(expanded[i].cmds) /\ Full(expanded[j].cmds)
                      \/ Exposed(Key(expanded[i])) /\ Exposed(Key(expanded[j]))
    BY <1>1, <1>3, <1>6 DEF SafelyShared, Full
  <2>1. PICK o \in DOMAIN given :
          /\ given[o].aliases # <<>>
          /\ expanded[i].cmds = conf[o].cmds /\ expanded[j].cmds = conf[o].cmds
          /\ Key(expanded[i]) \in Keys(o) /\ Key(expanded[j]) \in Keys(o)
    BY DEF Copied
  <2>2. CASE given[o].menu = <<>>
    BY <1>5, <2>1, <2>2
  <2>3. CASE given[o].menu # <<>>
    BY <2>1, <2>3 DEF Exposed, For
  <2> QED BY <2>2, <2>3
<1>9. ASSUME NEW k
      PROVE  ConfiguredFor(k)' = Offered(k)'
  <2>1. ConfiguredFor(k)' = UNION {CommandsOf(o) : o \in For(k)}
    BY <1>6, ConfiguredCommands
  <2>2. Offered(k)' = UNION {Ids(In(heap, expanded[n].cmds)) : n \in {n \in DOMAIN expanded : Key(expanded[n]) = k}}
    BY <1>1, <1>3 DEF Offered, Held
  <2>3. ASSUME NEW o \in For(k)
        PROVE  \E n \in DOMAIN expanded : Key(expanded[n]) = k /\ Ids(In(heap, expanded[n].cmds)) = CommandsOf(o)
    <3>1. o \in DOMAIN given /\ k \in Keys(o)
      BY DEF For
    <3>2. PICK n \in DOMAIN expanded : Key(expanded[n]) = k /\ expanded[n].cmds = conf[o].cmds
      BY <1>4, <3>1 DEF Copied
    <3> QED BY <1>5, <3>1, <3>2 DEF Held
  <2>4. ASSUME NEW n \in DOMAIN expanded, Key(expanded[n]) = k
        PROVE  \E o \in For(k) : Ids(In(heap, expanded[n].cmds)) = CommandsOf(o)
    <3>1. PICK o \in DOMAIN given : Key(expanded[n]) \in Keys(o) /\ expanded[n].cmds = conf[o].cmds
      BY DEF Copied
    <3>2. o \in For(k)
      BY <2>4, <3>1 DEF For
    <3> QED BY <1>5, <3>1, <3>2 DEF Held
  <2> QED BY <2>1, <2>2, <2>3, <2>4
<1>10. Complete'
  BY <1>9 DEF Complete
<1> QED BY <1>7, <1>8, <1>10

(* What is offered under the names that matter stays.                      *)
LEMMA CompleteStays ==
  ASSUME given' = given, Complete,
         \A k : ~Ambiguous(k) /\ ~Exposed(k) => Offered(k)' = Offered(k)
  PROVE  Complete'
<1>1. /\ \A i : Keys(i)' = Keys(i)
      /\ \A k : (Exposed(k)' <=> Exposed(k)) /\ (Ambiguous(k)' <=> Ambiguous(k))
      /\ \A k : ConfiguredFor(k)' = ConfiguredFor(k)
  BY GivenStays
<1>2. SUFFICES ASSUME NEW i \in DOMAIN given, NEW k \in Keys(i)
               PROVE  Ambiguous(k)' \/ Exposed(k)' \/ ConfiguredFor(k)' = Offered(k)'
  BY <1>1 DEF Complete
<1>3. Ambiguous(k) \/ Exposed(k) \/ ConfiguredFor(k) = Offered(k)
  BY <1>2 DEF Complete
<1> QED BY <1>1, <1>3

LEMMA SameContent ==
  ASSUME UNCHANGED <<given, conf, heap>>, Live' = Live, Originals, SafelyShared, Complete
  PROVE  Originals' /\ SafelyShared' /\ Complete'
<1>1. /\ \A i : Keys(i)' = Keys(i)
      /\ \A k : (Exposed(k)' <=> Exposed(k)) /\ (Ambiguous(k)' <=> Ambiguous(k))
      /\ \A k : ConfiguredFor(k)' = ConfiguredFor(k)
  BY GivenStays
<1>2. Originals'
  BY <1>1 DEF Originals
<1>3. SafelyShared'
  BY <1>1 DEF SafelyShared, Full
<1>4. \A k : Offered(k)' = Offered(k)
  BY DEF Offered, Held
<1> QED BY <1>2, <1>3, <1>4, CompleteStays

LEMMA FirstKeepsContent ==
  ASSUME NEW Word, Types(Word), Indexed, Originals, SafelyShared, Complete, FirstOfItsName
  PROVE  Originals' /\ SafelyShared' /\ Complete'
<1>1. /\ phase = "merge" /\ phase' = "merge" /\ at <= Len(conf) /\ at' = at + 1
      /\ UNCHANGED <<given, conf, heap>>
      /\ Key(conf[at]) \notin DOMAIN index
      /\ index' = [k \in DOMAIN index \cup {Key(conf[at])} |->
                    IF k \in DOMAIN index THEN index[k] ELSE at]
  BY DEF FirstOfItsName
<1>2. at \in Nat \ {0} /\ DOMAIN conf = 1 .. Len(conf) /\ Len(conf) \in Nat
  BY DEF Types
<1>3. Firsts' = Firsts \cup {at}
  BY <1>1 DEF Firsts
<1>4. {i \in DOMAIN conf : i >= at} = {at} \cup {i \in DOMAIN conf : i >= at + 1}
  BY <1>1, <1>2
<1>5. Live' = Live
  BY <1>1, <1>3, <1>4 DEF Live
<1> QED BY <1>1, <1>5, SameContent

(* A group that is merged into the first of its name is not live any more. *)
LEMMA MergedLives ==
  ASSUME NEW Word, Types(Word), Indexed, Slack \in Nat, MergeGroup
  PROVE  LET t == index[Key(conf[at])]
         IN  /\ at \in DOMAIN conf /\ t \in DOMAIN conf /\ t # at
             /\ Key(conf[t]) = Key(conf[at])
             /\ at \in Live /\ t \in Live /\ Live \subseteq DOMAIN conf
             /\ Live' = Live \ {at}
<1> DEFINE t == index[Key(conf[at])]
<1>1. /\ phase = "merge" /\ phase' = "merge" /\ at <= Len(conf) /\ at' = at + 1
      /\ index' = index /\ Key(conf[at]) \in DOMAIN index
  BY DEF MergeGroup
<1>2. at \in Nat \ {0} /\ DOMAIN conf = 1 .. Len(conf) /\ Len(conf) \in Nat
  BY DEF Types
<1>3. /\ at \in DOMAIN conf /\ DOMAIN conf' = DOMAIN conf
  BY MergeKeepsNames
<1>4. \A k \in DOMAIN index : index[k] \in DOMAIN conf /\ Key(conf[index[k]]) = k /\ index[k] < at
  BY <1>1 DEF Indexed
<1>5. at \notin Firsts /\ Firsts \subseteq DOMAIN conf
  BY <1>2, <1>4 DEF Firsts
<1>6. Firsts' = Firsts
  BY <1>1 DEF Firsts
<1>7. {i \in DOMAIN conf : i >= at + 1} = {i \in DOMAIN conf : i >= at} \ {at}
  BY <1>2
<1>8. Live' = Live \ {at}
  BY <1>1, <1>3, <1>5, <1>6, <1>7 DEF Live
<1>9. t \in Firsts /\ t # at /\ t \in DOMAIN conf /\ Key(conf[t]) = Key(conf[at])
  BY <1>1, <1>2, <1>4 DEF Firsts
<1>10. at \in Live /\ t \in Live /\ Live \subseteq DOMAIN conf
  BY <1>1, <1>2, <1>3, <1>5, <1>9 DEF Live
<1> QED BY <1>3, <1>8, <1>9, <1>10

(* Groups that are not merged, although they have one name, have two       *)
(* categories: what was configured for the name is lost.                   *)
LEMMA UnmergedKeepsContent ==
  ASSUME NEW Word, Types(Word), Indexed, Slack \in Nat, Originals, SafelyShared, Complete,
         MergeGroup, UNCHANGED <<heap, conf>>,
         ~Mergeable(conf[index[Key(conf[at])]], conf[at])
  PROVE  Originals' /\ SafelyShared' /\ Complete'
<1> DEFINE t == index[Key(conf[at])]
           n == Key(conf[at])
<1>1. /\ at \in DOMAIN conf /\ t \in DOMAIN conf /\ t # at
      /\ Key(conf[t]) = n
      /\ at \in Live /\ t \in Live /\ Live \subseteq DOMAIN conf
      /\ Live' = Live \ {at}
  BY MergedLives
<1>2. given' = given
  BY DEF MergeGroup
<1>3. /\ \A i : Keys(i)' = Keys(i)
      /\ \A k : (Exposed(k)' <=> Exposed(k)) /\ (Ambiguous(k)' <=> Ambiguous(k))
  BY <1>2, GivenStays
<1>4. conf[t] \in Group(Word) /\ conf[at] \in Group(Word)
  BY <1>1 DEF Types
<1>5. conf[t].cat # conf[at].cat
  <2> SUFFICES ASSUME conf[t].cat = conf[at].cat, conf[t].cat = <<>>, conf[t].name # conf[at].name
               PROVE  FALSE
    BY DEF Mergeable
  <2>1. conf[t].name \in Seq(Word) /\ conf[at].name \in Seq(Word)
    BY <1>4 DEF Group
  <2>2. Key(conf[t]) = conf[t].name /\ Key(conf[at]) = conf[at].name
    BY <2>1 DEF Key
  <2> QED BY <1>1, <2>2
<1>6. Ambiguous(n)
  <2> HIDE DEF t, n
  <2>1. PICK o \in DOMAIN given : Key(conf[t]) \in Keys(o) /\ conf[t].cat = Rotated(given[o]).cat
    BY <1>1 DEF Originals
  <2>2. PICK p \in DOMAIN given : Key(conf[at]) \in Keys(p) /\ conf[at].cat = Rotated(given[p]).cat
    BY <1>1 DEF Originals
  <2>3. o \in For(n) /\ p \in For(n)
    BY <1>1, <2>1, <2>2 DEF For, n
  <2> QED BY <1>5, <2>1, <2>2, <2>3 DEF Ambiguous
<1>7. Originals'
  BY <1>2, <1>3 DEF Originals
<1> HIDE DEF t
<1>8. SafelyShared'
  BY <1>1, <1>3 DEF SafelyShared, Full
<1>9. ASSUME NEW k, ~Ambiguous(k)
      PROVE  Offered(k)' = Offered(k)
  <2>1. {i \in Live' : Key(conf'[i]) = k} = {i \in Live : Key(conf[i]) = k}
    BY <1>1, <1>6, <1>9
  <2>2. \A i : Held(i)' = Held(i)
    BY DEF Held
  <2> QED BY <2>1, <2>2 DEF Offered
<1>10. Complete'
  BY <1>2, <1>9, CompleteStays
<1> QED BY <1>7, <1>8, <1>10

LEMMA MergingEnds ==
  ASSUME NEW Word, Types(Word), Indexed, Originals, SafelyShared, Complete, EndMerge
  PROVE  /\ Originals' /\ SafelyShared' /\ Complete'
         /\ ~merged => Firsts = DOMAIN conf
<1>1. /\ phase = "merge" /\ phase' = (IF merged THEN "sort" ELSE "done") /\ at > Len(conf)
      /\ UNCHANGED <<given, conf, heap, index>>
  BY DEF EndMerge
<1>2. at \in Nat \ {0} /\ DOMAIN conf = 1 .. Len(conf) /\ Len(conf) \in Nat
  BY DEF Types
<1>3. {i \in DOMAIN conf : i >= at} = {}
  BY <1>1, <1>2
<1>4. phase' # "merge" /\ Firsts' = Firsts
  BY <1>1 DEF Firsts
<1>5. Live' = Live
  BY <1>1, <1>3, <1>4 DEF Live
<1>6. ASSUME ~merged
      PROVE  Firsts = DOMAIN conf
  <2>1. \A i \in DOMAIN conf : Key(conf[i]) \in DOMAIN index /\ index[Key(conf[i])] = i
    BY <1>1, <1>2, <1>6 DEF Indexed
  <2>2. \A k \in DOMAIN index : index[k] \in DOMAIN conf
    BY <1>1 DEF Indexed
  <2> QED BY <2>1, <2>2 DEF Firsts
<1> QED BY <1>1, <1>5, <1>6, SameContent

Merges(t) ==
  \E r \in DoMerge(conf[t], conf[at]) :
    heap' = r.heap /\ conf' = [conf EXCEPT ![t] = r.group]

(* What merging the group at into the group t does to the slices of the    *)
(* other groups: the slice of one of the two, x, is appended to.           *)
LEMMA MergedSlices ==
  ASSUME NEW Word, Types(Word), Indexed, Slack \in Nat, SafelyShared, MergeGroup,
         NEW t, t = index[Key(conf[at])], Merges(t)
  PROVE  /\ Held(t)' = Held(t) \cup Held(at)
         /\ \A i \in Live' : i # t =>
              /\ conf'[i] = conf[i]
              /\ Full(conf[i].cmds)' <=> Full(conf[i].cmds)
              /\ ~Exposed(Key(conf[i])) => Held(i)' = Held(i)
              /\ conf'[i].cmds.arr = conf'[t].cmds.arr =>
                   \/ Full(conf[i].cmds)' /\ Full(conf[t].cmds)'
                   \/ Exposed(Key(conf[i])) /\ Exposed(Key(conf[t]))
<1> DEFINE x == IF conf[t].hint >= conf[at].hint THEN t ELSE at
           y == IF conf[t].hint >= conf[at].hint THEN at ELSE t
           s == conf[x].cmds
           cmds == In(heap, conf[y].cmds)
<1>1. /\ at \in DOMAIN conf /\ t \in DOMAIN conf /\ t # at
      /\ Key(conf[t]) = Key(conf[at])
      /\ at \in Live /\ t \in Live /\ Live \subseteq DOMAIN conf
      /\ Live' = Live \ {at}
  BY MergedLives
<1>2. PICK r \in DoMerge(conf[t], conf[at]) : heap' = r.heap /\ conf' = [conf EXCEPT ![t] = r.group]
  BY DEF Merges
<1>3. PICK a \in Appended(heap, s, cmds) :
        /\ Fits(heap, s) /\ cmds \in Seq(Used(Word))
        /\ r.heap = a.heap /\ r.group.cmds = a.slice
  <2> DEFINE first == conf[t].hint >= conf[at].hint
             into == IF first THEN conf[t].cmds ELSE conf[at].cmds
             from == IF first THEN conf[at].cmds ELSE conf[t].cmds
  <2>1. \E a \in Appended(heap, into, In(heap, from)) :
          /\ Fits(heap, into) /\ In(heap, from) \in Seq(Used(Word))
          /\ r.heap = a.heap /\ r.group.cmds = a.slice
    BY <1>1, GroupsMerged
  <2>2. into = s /\ from = conf[y].cmds
    OBVIOUS
  <2> QED BY <2>1, <2>2
<1>4. x \in DOMAIN conf /\ x \in Live /\ Key(conf[x]) = Key(conf[t]) /\ {x, y} = {t, at}
  BY <1>1
<1>5. /\ heap \in Seq(Array(Word)) /\ Len(heap) \in Nat
      /\ \A i \in DOMAIN conf : Fits(heap, conf[i].cmds)
  BY DEF Types
<1> HIDE DEF x, y
<1>6. /\ heap' = a.heap /\ conf'[t].cmds = a.slice
      /\ \A i \in DOMAIN conf : i # t => conf'[i] = conf[i]
  BY <1>1, <1>2, <1>3 DEF Types
<1>7. Held(t)' = Held(t) \cup Held(at)
  <2>1. Held(t)' = Ids(In(a.heap, a.slice))
    BY <1>6 DEF Held
  <2>2. Ids(In(a.heap, a.slice)) = Ids(In(heap, s)) \cup Ids(cmds)
    BY <1>3, <1>5, HeldAfterAppend
  <2>3. Ids(In(a.heap, a.slice)) = Held(x) \cup Held(y)
    BY <2>2 DEF Held
  <2> QED BY <1>4, <2>1, <2>3
<1> HIDE DEF cmds
<1>8. /\ a.heap \in Seq(Array(Word)) /\ Keeps(heap, a.heap) /\ Fits(a.heap, a.slice)
      /\ \/ /\ a.slice.arr = s.arr /\ s.len + Len(cmds) <= Len(heap[s.arr])
            /\ a.slice.len = s.len + Len(cmds)
         \/ a.slice.arr = Len(heap) + 1
  BY <1>3, <1>5, AppendedFits
<1>9. Len(cmds) \in Nat
  BY <1>3
<1> HIDE DEF s
<1>10. ASSUME NEW i \in Live', i # t
       PROVE  /\ i \in Live /\ i \in DOMAIN conf /\ conf'[i] = conf[i] /\ i # x
              /\ conf[i].cmds.arr \in 1 .. Len(heap) /\ conf[i].cmds.len \in Nat
              /\ s.arr \in 1 .. Len(heap) /\ s.len \in Nat
              /\ heap[s.arr] \in Array(Word) /\ Len(heap[s.arr]) \in Nat
              /\ Full(conf[i].cmds)' <=> Full(conf[i].cmds)
  <2>1. i \in Live /\ i \in DOMAIN conf /\ i # at
    BY <1>1, <1>10
  <2>2. conf'[i] = conf[i] /\ i # x
    BY <1>4, <1>6, <1>10, <2>1
  <2>3. /\ conf[i].cmds.arr \in 1 .. Len(heap) /\ conf[i].cmds.len \in Nat
        /\ s.arr \in 1 .. Len(heap) /\ s.len \in Nat
    BY <1>3, <1>5, <2>1 DEF Fits, AnySlice
  <2>4. heap[s.arr] \in Array(Word)
    BY <1>5, <2>3
  <2>5. Len(heap[s.arr]) \in Nat
    BY <2>4 DEF Array
  <2>6. Len(heap'[conf[i].cmds.arr]) = Len(heap[conf[i].cmds.arr])
    BY <1>6, <1>8, <2>3 DEF Keeps
  <2>7. Full(conf[i].cmds)' <=> Full(conf[i].cmds)
    BY <2>2, <2>6 DEF Full
  <2> QED BY <2>1, <2>2, <2>3, <2>4, <2>5, <2>7
<1>11. ASSUME NEW i \in Live', i # t, conf[i].cmds.arr = s.arr
       PROVE  \/ Full(conf[i].cmds) /\ s.len = Len(heap[s.arr])
              \/ Exposed(Key(conf[i])) /\ Exposed(Key(conf[t]))
  BY <1>4, <1>10, <1>11 DEF SafelyShared, Full, s
<1>12. ASSUME NEW i \in Live', i # t, ~Exposed(Key(conf[i]))
       PROVE  Held(i)' = Held(i)
  <2>1. conf[i].cmds.arr # s.arr \/ conf[i].cmds.len <= s.len
    BY <1>10, <1>11, <1>12 DEF Full
  <2>2. Fits(heap, conf[i].cmds)
    BY <1>5, <1>10, <1>12
  <2>3. In(heap', conf[i].cmds) = In(heap, conf[i].cmds)
    BY <1>3, <1>5, <1>6, <2>1, <2>2, AppendedKeeps
  <2> QED BY <1>10, <1>12, <2>3 DEF Held
<1>13. ASSUME NEW i \in Live', i # t, conf'[i].cmds.arr = conf'[t].cmds.arr
       PROVE  \/ Full(conf[i].cmds)' /\ Full(conf[t].cmds)'
              \/ Exposed(Key(conf[i])) /\ Exposed(Key(conf[t]))
  <2>1. conf[i].cmds.arr = a.slice.arr
    BY <1>6, <1>10, <1>13
  <2>2. a.slice.arr # Len(heap) + 1
    BY <1>5, <1>10, <1>13, <2>1
  <2>3. /\ conf[i].cmds.arr = s.arr /\ a.slice.arr = s.arr
        /\ s.len + Len(cmds) <= Len(heap[s.arr]) /\ a.slice.len = s.len + Len(cmds)
    BY <1>8, <2>1, <2>2
  <2>4. CASE Full(conf[i].cmds) /\ s.len = Len(heap[s.arr])
    <3>1. a.slice.len = Len(heap[a.slice.arr])
      BY <1>9, <1>10, <1>13, <2>3, <2>4
    <3>2. Len(a.heap[a.slice.arr]) = Len(heap[a.slice.arr])
      BY <1>8, <1>10, <1>13, <2>3 DEF Keeps
    <3>3. Full(conf[t].cmds)'
      BY <1>6, <3>1, <3>2 DEF Full
    <3> QED BY <1>10, <1>13, <2>4, <3>3
  <2> QED BY <1>11, <1>13, <2>3, <2>4
<1> QED BY <1>7, <1>10, <1>12, <1>13

LEMMA MergeKeepsContent ==
  ASSUME NEW Word, Types(Word), Indexed, Slack \in Nat, Originals, SafelyShared, Complete,
         MergeGroup
  PROVE  Originals' /\ SafelyShared' /\ Complete'
<1>a. PICK t : t = index[Key(conf[at])]
  OBVIOUS
<1>1. CASE UNCHANGED <<heap, conf>> /\ ~Mergeable(conf[t], conf[at])
  BY <1>a, <1>1, UnmergedKeepsContent
<1>2. CASE Merges(t)
  <2>1. /\ at \in DOMAIN conf /\ t \in DOMAIN conf /\ t # at
        /\ Key(conf[t]) = Key(conf[at])
        /\ at \in Live /\ t \in Live /\ Live \subseteq DOMAIN conf
        /\ Live' = Live \ {at}
    BY <1>a, MergedLives
  <2>2. /\ Held(t)' = Held(t) \cup Held(at)
        /\ \A i \in Live' : i # t =>
             /\ conf'[i] = conf[i]
             /\ Full(conf[i].cmds)' <=> Full(conf[i].cmds)
             /\ ~Exposed(Key(conf[i])) => Held(i)' = Held(i)
             /\ conf'[i].cmds.arr = conf'[t].cmds.arr =>
                  \/ Full(conf[i].cmds)' /\ Full(conf[t].cmds)'
                  \/ Exposed(Key(conf[i])) /\ Exposed(Key(conf[t]))
    BY <1>a, <1>2, MergedSlices
  <2>3. given' = given
    BY DEF MergeGroup
  <2>4. /\ \A i : Keys(i)' = Keys(i)
        /\ \A k : (Exposed(k)' <=> Exposed(k)) /\ (Ambiguous(k)' <=> Ambiguous(k))
    BY <2>3, GivenStays
  <2>5. /\ DOMAIN conf' = DOMAIN conf
        /\ \A i \in DOMAIN conf : conf'[i].cat = conf[i].cat /\ Key(conf'[i]) = Key(conf[i])
    BY MergeKeepsNames
  <2>6. Originals'
    BY <2>3, <2>4, <2>5 DEF Originals
  <2>7. SafelyShared'
    <3> SUFFICES ASSUME NEW i \in Live', NEW j \in Live', i # j,
                        conf'[i].cmds.arr = conf'[j].cmds.arr
                 PROVE  \/ Full(conf[i].cmds)' /\ Full(conf[j].cmds)'
                        \/ Exposed(Key(conf[i])) /\ Exposed(Key(conf[j]))
      BY <2>1, <2>4, <2>5 DEF SafelyShared
    <3>1. CASE i # t /\ j # t
      <4>1. \/ Full(conf[i].cmds) /\ Full(conf[j].cmds)
            \/ Exposed(Key(conf[i])) /\ Exposed(Key(conf[j]))
        BY <2>1, <2>2, <3>1 DEF SafelyShared
      <4> QED BY <2>2, <3>1, <4>1
    <3>2. CASE i # t /\ j = t
      BY <2>2, <3>2
    <3>3. CASE i = t /\ j # t
      BY <2>2, <3>3
    <3> QED BY <3>1, <3>2, <3>3
  <2>8. ASSUME NEW k, ~Exposed(k)
        PROVE  Offered(k)' = Offered(k)
    <3>1. Offered(k)' = UNION {Held(i)' : i \in {i \in Live' : Key(conf[i]) = k}}
      <4>1. {i \in Live' : Key(conf'[i]) = k} = {i \in Live' : Key(conf[i]) = k}
        BY <2>1, <2>5
      <4> QED BY <4>1 DEF Offered
    <3>2. \A i \in Live' : Key(conf[i]) = k /\ i # t => Held(i)' = Held(i)
      BY <2>2, <2>8
    <3>3. ASSUME NEW z \in Offered(k)'
          PROVE  z \in Offered(k)
      <4>1. PICK i \in Live' : Key(conf[i]) = k /\ z \in Held(i)'
        BY <3>1
      <4>2. CASE i # t
        BY <2>1, <3>2, <4>1, <4>2 DEF Offered
      <4>3. CASE i = t
        <5>1. z \in Held(t) \/ z \in Held(at)
          BY <2>2, <4>1, <4>3
        <5> QED BY <2>1, <4>1, <4>3, <5>1 DEF Offered
      <4> QED BY <4>2, <4>3
    <3>4. ASSUME NEW z \in Offered(k)
          PROVE  z \in Offered(k)'
      <4>1. PICK i \in Live : Key(conf[i]) = k /\ z \in Held(i)
        BY DEF Offered
      <4>2. CASE i # t /\ i # at
        BY <2>1, <3>1, <3>2, <4>1, <4>2
      <4>3. CASE i = t \/ i = at
        <5>1. z \in Held(t)' /\ t \in Live' /\ Key(conf[t]) = k
          BY <2>1, <2>2, <4>1, <4>3
        <5> QED BY <3>1, <5>1
      <4> QED BY <4>2, <4>3
    <3> QED BY <3>3, <3>4
  <2>9. Complete'
    BY <2>3, <2>8, CompleteStays
  <2> QED BY <2>6, <2>7, <2>9
<1> QED BY <1>a, <1>1, <1>2 DEF MergeGroup, Merges

LEMMA SortKeepsContent ==
  ASSUME NEW Word, Types(Word), Indexed, Slack \in Nat, Originals, SafelyShared, Complete,
         SortGroup
  PROVE  Originals' /\ SafelyShared' /\ Complete'
<1>1. /\ phase = "sort" /\ phase' = "sort" /\ at \in DOMAIN conf
      /\ UNCHANGED <<given, conf, index>>
  BY DEF SortGroup, Types
<1>2. Live = Firsts /\ Firsts' = Firsts /\ Live' = Live
  BY <1>1 DEF Live, Firsts
<1>3. Live \subseteq DOMAIN conf
  BY <1>1, <1>2 DEF Indexed, Firsts
<1>4. CASE at \notin Firsts
  <2>1. heap' = heap
    BY <1>4 DEF SortGroup
  <2> QED BY <1>1, <1>2, <2>1, SameContent
<1>5. CASE at \in Firsts
  <2>1. PICK a : a = at
    OBVIOUS
  <2> DEFINE s == conf[a].cmds
             h2 == Overwrite(heap, s, 0, SortedCommands(In(heap, s)))
  <2>2. heap' = h2
    BY <1>5, <2>1 DEF SortGroup
  <2>3. /\ heap \in Seq(Array(Word)) /\ a \in Live /\ Fits(heap, s)
        /\ \A i \in Live : Fits(heap, conf[i].cmds)
    BY <1>1, <1>2, <1>3, <1>5, <2>1 DEF Types
  <2>4. ASSUME NEW i \in Live
        PROVE  LET u == conf[i].cmds
               IN  /\ In(h2, s) = SortedCommands(In(heap, s))
                   /\ u.arr # s.arr => In(h2, u) = In(heap, u)
                   /\ u.arr = s.arr /\ u.len = s.len => In(h2, u) = In(h2, s)
                   /\ \A b \in 1 .. Len(heap) : Len(h2[b]) = Len(heap[b])
    BY <2>3, SortedInPlace
  <2>5. Ids(SortedCommands(In(heap, s))) = Ids(In(heap, s))
    <3>1. In(heap, s) \in Seq(Used(Word))
      BY <2>3, InSlice
    <3> QED BY <3>1, SortedIsSorted
  <2> HIDE DEF h2
  <2>6. \A i \in Live : Full(conf[i].cmds)' <=> Full(conf[i].cmds)
    BY <1>1, <2>2, <2>3, <2>4 DEF Full, Fits
  <2>7. ASSUME NEW i \in Live, ~Exposed(Key(conf[i]))
        PROVE  Held(i)' = Held(i)
    <3>1. Held(i)' = Ids(In(h2, conf[i].cmds))
      BY <1>1, <2>2 DEF Held
    <3>2. CASE conf[i].cmds.arr # s.arr
      BY <2>4, <3>1, <3>2 DEF Held
    <3>3. CASE conf[i].cmds.arr = s.arr
      <4>1. i = a \/ (Full(conf[i].cmds) /\ Full(s))
        BY <2>3, <2>7, <3>3 DEF SafelyShared
      <4>2. conf[i].cmds.len = s.len
        BY <3>3, <4>1 DEF Full
      <4>3. In(h2, conf[i].cmds) = SortedCommands(In(heap, s))
        BY <2>4, <3>3, <4>2
      <4>4. In(heap, conf[i].cmds) = In(heap, s)
        BY <3>3, <4>2 DEF In
      <4> QED BY <2>5, <3>1, <4>3, <4>4 DEF Held
    <3> QED BY <3>2, <3>3
  <2>8. /\ \A i : Keys(i)' = Keys(i)
        /\ \A k : (Exposed(k)' <=> Exposed(k)) /\ (Ambiguous(k)' <=> Ambiguous(k))
    BY <1>1, GivenStays
  <2>9. Originals'
    BY <1>1, <2>8 DEF Originals
  <2>10. SafelyShared'
    BY <1>1, <1>2, <2>6, <2>8 DEF SafelyShared
  <2>11. ASSUME NEW k, ~Exposed(k)
         PROVE  Offered(k)' = Offered(k)
    <3>1. {i \in Live' : Key(conf'[i]) = k} = {i \in Live : Key(conf[i]) = k}
      BY <1>1, <1>2
    <3>2. \A i \in {i \in Live : Key(conf[i]) = k} : Held(i)' = Held(i)
      BY <2>7, <2>11
    <3> QED BY <3>1, <3>2 DEF Offered
  <2>12. Complete'
    BY <1>1, <2>11, CompleteStays
  <2> QED BY <2>9, <2>10, <2>12
<1> QED BY <1>4, <1>5

(* What is offered for a name is what its one group has.                   *)
LEMMA OfferedIsConfigured ==
  ASSUME Complete, given' = given,
         \A k : Offered(k) = UNION {Held(p)' : p \in {p \in DOMAIN conf' : Key(conf'[p]) = k}}
  PROVE  ExactlyConfigured'
<1>1. /\ \A i : Keys(i)' = Keys(i)
      /\ \A k : (Exposed(k)' <=> Exposed(k)) /\ (Ambiguous(k)' <=> Ambiguous(k))
      /\ \A k : ConfiguredFor(k)' = ConfiguredFor(k)
  BY GivenStays
<1>2. SUFFICES ASSUME NEW i \in DOMAIN given, NEW k \in Keys(i)
               PROVE  \/ Ambiguous(k)' \/ Exposed(k)'
                      \/ ConfiguredFor(k)' =
                           UNION {Ids(In(heap', conf'[p].cmds)) :
                                    p \in {p \in DOMAIN conf' : Key(conf'[p]) = k}}
  BY <1>1 DEF ExactlyConfigured
<1>3. Ambiguous(k) \/ Exposed(k) \/ ConfiguredFor(k) = Offered(k)
  BY <1>2 DEF Complete
<1>4. Offered(k) = UNION {Held(p)' : p \in {p \in DOMAIN conf' : Key(conf'[p]) = k}}
  OBVIOUS
<1>5. \A p : Held(p)' = Ids(In(heap', conf'[p].cmds))
  BY DEF Held
<1> QED BY <1>1, <1>3, <1>4, <1>5

LEMMA FinishKeepsContent ==
  ASSUME NEW Word, Types(Word), Indexed, Complete, Finish
  PROVE  ExactlyConfigured'
<1> DEFINE Kept(i) == Cardinality({j \in Firsts : j <= i})
           kept(p) == CHOOSE i \in Firsts : Kept(i) = p
           n == Cardinality(Firsts)
<1>1. /\ phase = "sort" /\ conf' = [p \in 1 .. n |-> conf[kept(p)]]
      /\ UNCHANGED <<given, heap>>
  BY DEF Finish
<1>2. Live = Firsts
  BY <1>1 DEF Live
<1>3. Firsts \subseteq 1 .. Len(conf) /\ Len(conf) \in Nat
  BY <1>1 DEF Indexed, Firsts, Types
<1>4. /\ \A p \in 1 .. n : kept(p) \in Firsts
      /\ \A i \in Firsts : Kept(i) \in 1 .. n /\ kept(Kept(i)) = i
  BY <1>3, KeptGroups
<1> HIDE DEF n, kept, Kept
<1>5. DOMAIN conf' = 1 .. n /\ \A p \in 1 .. n : conf'[p] = conf[kept(p)]
  BY <1>1
<1>6. \A p \in 1 .. n : Held(p)' = Held(kept(p))
  BY <1>1, <1>5 DEF Held
<1>7. ASSUME NEW k
      PROVE  Offered(k) = UNION {Held(p)' : p \in {p \in DOMAIN conf' : Key(conf'[p]) = k}}
  <2>1. ASSUME NEW z \in Offered(k)
        PROVE  \E p \in DOMAIN conf' : Key(conf'[p]) = k /\ z \in Held(p)'
    <3>1. PICK i \in Firsts : Key(conf[i]) = k /\ z \in Held(i)
      BY <1>2 DEF Offered
    <3>2. PICK p \in 1 .. n : kept(p) = i
      BY <1>4, <3>1
    <3>3. Held(p)' = Held(i) /\ conf'[p] = conf[i]
      BY <1>5, <1>6, <3>2
    <3> QED BY <1>5, <3>1, <3>2, <3>3
  <2>2. ASSUME NEW p \in DOMAIN conf', Key(conf'[p]) = k, NEW z \in Held(p)'
        PROVE  z \in Offered(k)
    <3>1. kept(p) \in Live /\ Key(conf[kept(p)]) = k /\ z \in Held(kept(p))
      BY <1>2, <1>4, <1>5, <1>6, <2>2
    <3> QED BY <3>1 DEF Offered
  <2> QED BY <2>1, <2>2
<1> QED BY <1>1, <1>7, OfferedIsConfigured

-----------------------------------------------------------------------------
(* The content of the groups, from their reading to their being offered.   *)

LEMMA InitAsRead ==
  ASSUME NEW Word, AreConfigured(Word), Init
  PROVE  given \in Seq(ReadGroup(Word)) /\ AsRead
<1>1. given \in Seq(ReadGroup(Word)) /\ Types(Word)
  BY InitTypes DEF Init, AreConfigured
<1>2. /\ DOMAIN conf = DOMAIN given /\ Validated = 1
      /\ \A i \in DOMAIN given : i \in Nat /\ ~(i < 1)
  BY <1>1 DEF Init, Validated
<1>3. ASSUME NEW i \in DOMAIN given
      PROVE  /\ conf[i].cat = given[i].cat /\ conf[i].name = given[i].name
             /\ conf[i].prefix = given[i].prefix /\ conf[i].menu = given[i].menu
             /\ conf[i].aliases = given[i].aliases /\ conf[i].here = given[i].here
             /\ conf[i].cmds.arr = i /\ conf[i].cmds.len = Len(given[i].commands)
             /\ heap[i] = given[i].commands
  BY DEF Init
<1>4. ASSUME NEW i \in DOMAIN given
      PROVE  In(heap, conf[i].cmds) = given[i].commands /\ Full(conf[i].cmds)
  <2> DEFINE v == In(heap, conf[i].cmds)
             w == given[i].commands
  <2>1. heap \in Seq(Array(Word)) /\ Fits(heap, conf[i].cmds)
    BY <1>1, <1>2 DEF Types
  <2>2. v \in Seq(Used(Word)) /\ Len(v) = Len(w) /\ \A k \in 1 .. Len(v) : v[k] = w[k]
    BY <1>3, <2>1, InSlice
  <2>3. given[i] \in ReadGroup(Word)
    BY <1>1
  <2>4. w \in Seq(Used(Word))
    BY <2>3 DEF ReadGroup
  <2> HIDE DEF v, w
  <2>5. v = w
    BY <2>2, <2>4, SeqEqual
  <2> QED BY <1>3, <2>5 DEF v, w, Full
<1>5. \A i \in DOMAIN given : Held(i) \cup Ids(conf[i].menu) = CommandsOf(i)
  BY <1>3, <1>4 DEF Held, CommandsOf
<1>6. \A i, j \in DOMAIN conf : conf[i].cmds.arr = conf[j].cmds.arr => i = j
  BY <1>2, <1>3
<1> QED BY <1>1, <1>2, <1>3, <1>4, <1>5, <1>6 DEF AsRead

LEMMA AsReadStays ==
  ASSUME UNCHANGED <<conf, heap, given>>, AsRead,
         \A i \in DOMAIN conf : i < Validated' <=> i < Validated
  PROVE  AsRead'
<1>1. \A i : CommandsOf(i)' = CommandsOf(i)
  BY GivenStays
<1>2. \A i : Held(i)' = Held(i)
  BY DEF Held
<1>3. \A i : Full(conf[i].cmds)' <=> Full(conf[i].cmds)
  BY DEF Full
<1> DEFINE T(i) == IF i < Validated THEN Rotated(given[i]) ELSE given[i]
           U(i) == IF i < Validated' THEN Rotated(given[i]) ELSE given[i]
<1>4. \A i \in DOMAIN conf : T(i) = U(i)
  OBVIOUS
<1>5. \A i \in DOMAIN conf :
        /\ conf[i].cat = T(i).cat /\ conf[i].name = T(i).name /\ conf[i].prefix = T(i).prefix
        /\ conf[i].aliases = given[i].aliases /\ conf[i].here = given[i].here
        /\ Held(i) \cup Ids(conf[i].menu) = CommandsOf(i)
        /\ i < Validated => conf[i].menu = <<>>
        /\ given[i].menu = <<>> => conf[i].menu = <<>> /\ Full(conf[i].cmds)
  BY DEF AsRead
<1> HIDE DEF T, U
<1>6. \A i \in DOMAIN conf' :
        /\ conf'[i].cat = U(i).cat /\ conf'[i].name = U(i).name /\ conf'[i].prefix = U(i).prefix
        /\ conf'[i].aliases = given'[i].aliases /\ conf'[i].here = given'[i].here
        /\ Held(i)' \cup Ids(conf'[i].menu) = CommandsOf(i)'
        /\ i < Validated' => conf'[i].menu = <<>>
        /\ given'[i].menu = <<>> => conf'[i].menu = <<>> /\ Full(conf[i].cmds)'
  BY <1>1, <1>2, <1>3, <1>4, <1>5
<1>7. /\ DOMAIN conf' = DOMAIN given'
      /\ \A i, j \in DOMAIN conf' : conf'[i].cmds.arr = conf'[j].cmds.arr => i = j
  BY DEF AsRead
<1> QED BY <1>6, <1>7 DEF AsRead, U

LEMMA StepContent ==
  ASSUME NEW Word, Types(Word), Indexed, ContentInv(Word), Slack \in Nat, [Next]_vars
  PROVE  ContentInv(Word)'
<1>1. /\ given \in Seq(ReadGroup(Word))
      /\ phase = "validate" => expanded = <<>>
      /\ phase \in {"validate", "expand"} => AsRead
      /\ phase = "expand" => Copied
      /\ phase \in {"merge", "sort"} => Originals /\ SafelyShared /\ Complete
  BY DEF ContentInv
<1>2. at \in Nat \ {0} /\ DOMAIN conf = 1 .. Len(conf) /\ Len(conf) \in Nat
  BY DEF Types
<1>3. ASSUME AddSelection
      PROVE  ContentInv(Word)'
  <2>1. phase = "validate" /\ UNCHANGED <<phase, expanded, given>>
    BY <1>3 DEF AddSelection
  <2>2. AsRead'
    BY <1>1, <1>3, <2>1, SelectionKeepsAsRead
  <2> QED BY <1>1, <2>1, <2>2 DEF ContentInv, ExactlyConfigured
<1>4. ASSUME ValidateGroup
      PROVE  ContentInv(Word)'
  <2>1. phase = "validate" /\ UNCHANGED <<phase, expanded, given>>
    BY <1>4 DEF ValidateGroup
  <2>2. AsRead'
    BY <1>1, <1>4, <2>1, ValidationKeepsAsRead
  <2> QED BY <1>1, <2>1, <2>2 DEF ContentInv, ExactlyConfigured
<1>5. ASSUME StartExpand
      PROVE  ContentInv(Word)'
  <2>1. /\ phase = "validate" /\ phase' = "expand" /\ at > Len(conf) /\ at' = 1
        /\ UNCHANGED <<conf, expanded, heap, given>>
    BY <1>5 DEF StartExpand
  <2>2. \A i \in DOMAIN conf : i < Validated' <=> i < Validated
    BY <1>2, <2>1 DEF Validated
  <2>3. AsRead'
    BY <1>1, <2>1, <2>2, AsReadStays
  <2>4. \A o \in DOMAIN given : ~(o < 1)
    BY <1>1
  <2>5. Copied'
    BY <1>1, <2>1, <2>4 DEF Copied
  <2> QED BY <1>1, <2>1, <2>3, <2>5 DEF ContentInv, ExactlyConfigured
<1>6. ASSUME ExpandAliases
      PROVE  ContentInv(Word)'
  <2>1. phase = "expand" /\ UNCHANGED <<phase, conf, heap, given>>
    BY <1>6 DEF ExpandAliases
  <2>2. Validated' = Validated
    BY <2>1 DEF Validated
  <2>3. AsRead'
    BY <1>1, <2>1, <2>2, AsReadStays
  <2>4. Copied'
    BY <1>1, <1>6, <2>1, ExpandKeepsCopied
  <2> QED BY <1>1, <2>1, <2>3, <2>4 DEF ContentInv, ExactlyConfigured
<1>7. ASSUME StartMerge
      PROVE  ContentInv(Word)'
  <2>1. phase = "expand" /\ phase' = "merge" /\ given' = given
    BY <1>7 DEF StartMerge
  <2>2. Originals' /\ SafelyShared' /\ Complete'
    BY <1>1, <1>7, <2>1, MergeStarts
  <2> QED BY <1>1, <2>1, <2>2 DEF ContentInv, ExactlyConfigured
<1>8. ASSUME FirstOfItsName
      PROVE  ContentInv(Word)'
  <2>1. phase = "merge" /\ UNCHANGED <<phase, given>>
    BY <1>8 DEF FirstOfItsName
  <2>2. Originals' /\ SafelyShared' /\ Complete'
    BY <1>1, <1>8, <2>1, FirstKeepsContent
  <2> QED BY <1>1, <2>1, <2>2 DEF ContentInv, ExactlyConfigured
<1>9. ASSUME MergeGroup
      PROVE  ContentInv(Word)'
  <2>1. phase = "merge" /\ UNCHANGED <<phase, given>>
    BY <1>9 DEF MergeGroup
  <2>2. Originals' /\ SafelyShared' /\ Complete'
    BY <1>1, <1>9, <2>1, MergeKeepsContent
  <2> QED BY <1>1, <2>1, <2>2 DEF ContentInv, ExactlyConfigured
<1>10. ASSUME EndMerge
       PROVE  ContentInv(Word)'
  <2>1. /\ phase = "merge" /\ phase' = (IF merged THEN "sort" ELSE "done") /\ at > Len(conf)
        /\ UNCHANGED <<given, conf, heap>>
    BY <1>10 DEF EndMerge
  <2>2. /\ Originals' /\ SafelyShared' /\ Complete'
        /\ ~merged => Firsts = DOMAIN conf
    BY <1>1, <1>10, <2>1, MergingEnds
  <2>3. CASE merged
    BY <1>1, <2>1, <2>2, <2>3 DEF ContentInv, ExactlyConfigured
  <2>4. CASE ~merged
    <3>1. Live = DOMAIN conf
      BY <2>1, <2>2, <2>4 DEF Live
    <3>2. \A k : Offered(k) = UNION {Held(p)' : p \in {p \in DOMAIN conf' : Key(conf'[p]) = k}}
      BY <2>1, <3>1 DEF Offered, Held
    <3>3. ExactlyConfigured'
      BY <1>1, <2>1, <3>2, OfferedIsConfigured
    <3>4. phase' = "done"
      BY <2>1, <2>4
    <3> QED BY <1>1, <2>1, <3>3, <3>4 DEF ContentInv
  <2> QED BY <2>3, <2>4
<1>11. ASSUME SortGroup
       PROVE  ContentInv(Word)'
  <2>1. phase = "sort" /\ UNCHANGED <<phase, given>>
    BY <1>11 DEF SortGroup
  <2>2. Originals' /\ SafelyShared' /\ Complete'
    BY <1>1, <1>11, <2>1, SortKeepsContent
  <2> QED BY <1>1, <2>1, <2>2 DEF ContentInv, ExactlyConfigured
<1>12. ASSUME Finish
       PROVE  ContentInv(Word)'
  <2>1. phase = "sort" /\ phase' = "done" /\ given' = given
    BY <1>12 DEF Finish
  <2>2. ExactlyConfigured'
    BY <1>1, <1>12, <2>1, FinishKeepsContent
  <2> QED BY <1>1, <2>1, <2>2 DEF ContentInv
<1>13. ASSUME UNCHANGED vars
       PROVE  ContentInv(Word)'
  <2>1. UNCHANGED <<phase, at, conf, expanded, index, merged, heap, given>>
    BY <1>13 DEF vars
  <2>2. Validated' = Validated /\ Live' = Live
    BY <2>1 DEF Validated, Live, Firsts
  <2>3. phase \in {"validate", "expand"} => AsRead'
    BY <1>1, <2>1, <2>2, AsReadStays
  <2>4. phase = "expand" => Copied'
    <3>1. \A i : Keys(i)' = Keys(i)
      BY <2>1, GivenStays
    <3> QED BY <1>1, <2>1, <3>1 DEF Copied
  <2>5. phase \in {"merge", "sort"} => Originals' /\ SafelyShared' /\ Complete'
    BY <1>1, <2>1, <2>2, SameContent
  <2>6. ExactlyConfigured'
    <3>1. ExactlyConfigured
      BY DEF ContentInv
    <3>2. /\ \A i : Keys(i)' = Keys(i)
          /\ \A k : (Exposed(k)' <=> Exposed(k)) /\ (Ambiguous(k)' <=> Ambiguous(k))
          /\ \A k : ConfiguredFor(k)' = ConfiguredFor(k)
      BY <2>1, GivenStays
    <3> QED BY <2>1, <3>1, <3>2 DEF ExactlyConfigured
  <2> QED BY <1>1, <2>1, <2>3, <2>4, <2>5, <2>6 DEF ContentInv
<1> QED BY <1>3, <1>4, <1>5, <1>6, <1>7, <1>8, <1>9, <1>10, <1>11, <1>12, <1>13 DEF Next

(* Under every name there are the commands that were configured for it,    *)
(* none lost and none of others, although copies of a group share arrays   *)
(* that are appended to and sorted in place: for every configuration and   *)
(* whatever room append leaves, but for the names that ExactlyConfigured   *)
(* excepts.                                                                *)
THEOREM EveryNameHasItsCommands ==
  ASSUME NEW Word, AreConfigured(Word)
  PROVE  Spec => []ExactlyConfigured
<1>1. Slack \in Nat
  BY GroupsAssumption
<1>2. Init => ContentInv(Word)
  <2> SUFFICES ASSUME Init
               PROVE  ContentInv(Word)
    OBVIOUS
  <2>1. phase = "validate" /\ expanded = <<>>
    BY DEF Init
  <2> QED BY <2>1, InitAsRead DEF ContentInv, ExactlyConfigured
<1>3. Types(Word) /\ NamesInv /\ ContentInv(Word) /\ [Next]_vars => ContentInv(Word)'
  BY <1>1, StepContent DEF NamesInv
<1>4. ContentInv(Word) => ExactlyConfigured
  BY DEF ContentInv
<1>5. Spec => [](Types(Word) /\ NamesInv)
  BY GroupsInvariant
<1> QED BY <1>2, <1>3, <1>4, <1>5, PTL DEF Spec
=============================================================================
