------------------------- MODULE CommandMenuProofs -------------------------
(***************************************************************************)
(* Proofs about CommandMenu, for every configuration and every selection:  *)
(* that menus and the tree run what was picked and nothing else            *)
(* (RunsOnlyWhatWasPicked), and that each entry of a menu leads on         *)
(* (EntriesLeadOn).  Both follow from MenuInv.                             *)
(***************************************************************************)
EXTENDS CommandMenu, FiniteSetTheorems, SequenceTheorems, WellFoundedInduction,
        TLAPS

(* Commands and groups as they are configured: of a group's aliases there  *)
(* are finitely many.                                                      *)
Listed(Word) == [id : Nat, name : Seq(Word)]

Group(Word) ==
  [cat : Seq(Word), name : Seq(Word), aliases : SUBSET Seq(Word), cmds : Seq(Listed(Word))]

AreConfigured(Word) ==
  \A groups \in Configured :
    /\ groups \in Seq(Group(Word))
    /\ \A i \in DOMAIN groups : IsFiniteSet(groups[i].aliases)

-----------------------------------------------------------------------------
(* Sets of numbers have a least one.                                       *)
LEMMA Least ==
  ASSUME NEW T, T \subseteq Nat, T # {}
  PROVE  \E x \in T : \A y \in T : x <= y
<1> DEFINE R == OpToRel(<, Nat)
<1>1. IsWellFoundedOn(R, Nat)
  BY NatLessThanWellFounded
<1>2. \A x, y \in Nat : <<y, x>> \in R <=> y < x
  BY DEF OpToRel
<1> HIDE DEF R
<1>3. PICK x \in T : \A y \in T : ~(<<y, x>> \in R)
  BY <1>1, WFMin
<1>4. ASSUME NEW y \in T
      PROVE  x <= y
  <2>1. x \in Nat /\ y \in Nat
    OBVIOUS
  <2>2. ~(y < x)
    BY <1>2, <1>3, <2>1
  <2> QED BY <2>1, <2>2
<1> QED BY <1>4

(* The maximum of a bounded set of numbers is one of them.                 *)
LEMMA MaxExists ==
  ASSUME NEW n \in Nat, NEW T, T \subseteq 1 .. n, T # {}
  PROVE  /\ Max(T) \in T
         /\ \A y \in T : y <= Max(T)
<1> DEFINE Gaps == {n - x : x \in T}
<1>1. Gaps \subseteq Nat /\ Gaps # {}
  <2>1. \A x \in T : x \in 1 .. n /\ n - x \in Nat
    OBVIOUS
  <2> QED BY <2>1
<1> HIDE DEF Gaps
<1>2. PICK g \in Gaps : \A y \in Gaps : g <= y
  BY <1>1, Least
<1> USE DEF Gaps
<1>3. PICK x \in T : g = n - x
  BY <1>2
<1>4. \A y \in T : x >= y
  <2> SUFFICES ASSUME NEW y \in T PROVE x >= y
    OBVIOUS
  <2>1. n - y \in Gaps
    OBVIOUS
  <2>2. n - x <= n - y
    BY <1>2, <1>3, <2>1
  <2> QED BY <2>2
<1> HIDE DEF Gaps
<1>5. \E z \in T : \A y \in T : z >= y
  BY <1>4
<1>6. Max(T) \in T /\ \A y \in T : Max(T) >= y
  BY <1>5 DEF Max
<1> QED BY <1>6

-----------------------------------------------------------------------------
(* What FlattenSeq computes: f[i] joins the first i of the sequences.      *)

Concats(ss, f, n) ==
  f = [i \in 1 .. n |-> IF i = 1 THEN ss[i] ELSE f[i - 1] \o ss[i]]

LEMMA ConcatsExist ==
  ASSUME NEW ss, NEW n \in Nat, n # 0
  PROVE  \E f : Concats(ss, f, n)
<1> DEFINE T == {m \in Nat : m # 0 /\ ~ \E f : Concats(ss, f, m)}
<1>1. T = {}
  <2> SUFFICES ASSUME T # {} PROVE FALSE
    OBVIOUS
  <2>1. T \subseteq Nat
    OBVIOUS
  <2> HIDE DEF T
  <2>2. PICK m \in T : \A y \in T : m <= y
    BY <2>1, Least
  <2> USE DEF T
  <2>3. m \in Nat /\ m # 0 /\ ~ \E f : Concats(ss, f, m)
    BY <2>2
  <2>4. CASE m = 1
    <3>1. Concats(ss, [i \in 1 .. 1 |-> ss[i]], 1)
      BY DEF Concats
    <3> QED BY <2>3, <2>4, <3>1
  <2>5. CASE m # 1
    <3>1. m - 1 \in Nat /\ m - 1 # 0 /\ ~(m <= m - 1)
      BY <2>3, <2>5
    <3>2. m - 1 \notin T
      BY <2>2, <3>1
    <3>3. PICK f : Concats(ss, f, m - 1)
      BY <3>1, <3>2
    <3> DEFINE g == [i \in 1 .. m |-> IF i = m THEN f[m - 1] \o ss[m] ELSE f[i]]
    <3>4. ASSUME NEW i \in 1 .. m
          PROVE  g[i] = IF i = 1 THEN ss[i] ELSE g[i - 1] \o ss[i]
      <4>1. CASE i = m
        <5>1. i - 1 \in 1 .. m /\ i - 1 # m
          BY <2>3, <2>5, <4>1
        <5> QED BY <2>5, <4>1, <5>1
      <4>2. CASE i # m
        <5>1. i \in 1 .. m - 1 /\ i \in 1 .. m /\ (i # 1 => i - 1 \in 1 .. m /\ i - 1 # m)
          BY <2>3, <4>2
        <5>2. f[i] = IF i = 1 THEN ss[i] ELSE f[i - 1] \o ss[i]
          BY <3>3, <5>1 DEF Concats
        <5> QED BY <4>2, <5>1, <5>2
      <4> QED BY <4>1, <4>2
    <3>5. g = [i \in 1 .. m |-> IF i = 1 THEN ss[i] ELSE g[i - 1] \o ss[i]]
      BY <3>4
    <3> HIDE DEF g
    <3> QED BY <2>3, <3>5 DEF Concats
  <2> QED BY <2>4, <2>5
<1> QED BY <1>1

Joins(S, ss, f, i) ==
  /\ f[i] \in Seq(S)
  /\ Range(f[i]) = UNION {Range(ss[j]) : j \in 1 .. i}

LEMMA ConcatsAre ==
  ASSUME NEW S, NEW ss \in Seq(Seq(S)), NEW f, Concats(ss, f, Len(ss))
  PROVE  \A i \in 1 .. Len(ss) : Joins(S, ss, f, i)
<1> DEFINE Good(i) == Joins(S, ss, f, i)
           T == {i \in 1 .. Len(ss) : ~Good(i)}
<1> SUFFICES T = {}
  OBVIOUS
<1> SUFFICES ASSUME T # {} PROVE FALSE
  OBVIOUS
<1>1. T \subseteq Nat /\ Len(ss) \in Nat /\ \A i \in 1 .. Len(ss) : ss[i] \in Seq(S)
  OBVIOUS
<1> HIDE DEF T
<1>2. PICK i \in T : \A y \in T : i <= y
  BY <1>1, Least
<1> USE DEF T
<1>3. i \in 1 .. Len(ss) /\ ~Good(i) /\ ss[i] \in Seq(S)
  BY <1>1, <1>2
<1>4. f[i] = IF i = 1 THEN ss[i] ELSE f[i - 1] \o ss[i]
  BY <1>3 DEF Concats
<1>5. CASE i = 1
  <2>1. 1 .. 1 = {1}
    OBVIOUS
  <2>2. UNION {Range(ss[j]) : j \in {1}} = Range(ss[1])
    OBVIOUS
  <2>3. f[i] = ss[1]
    BY <1>4, <1>5
  <2> QED BY <1>3, <1>5, <2>1, <2>2, <2>3 DEF Joins
<1>6. CASE i # 1
  <2>1. i - 1 \in 1 .. Len(ss) /\ ~(i <= i - 1) /\ 1 .. i = (1 .. i - 1) \cup {i}
    BY <1>1, <1>3, <1>6
  <2>2. Good(i - 1)
    BY <1>2, <2>1
  <2> DEFINE u == f[i - 1]
             v == ss[i]
  <2>3. u \in Seq(S) /\ v \in Seq(S) /\ f[i] = u \o v
    BY <1>3, <1>4, <1>6, <2>2 DEF Joins
  <2>4. Range(u) = UNION {Range(ss[j]) : j \in 1 .. i - 1}
    BY <2>2 DEF Joins
  <2> HIDE DEF u
  <2>5. u \o v \in Seq(S) /\ Range(u \o v) = Range(u) \cup Range(v)
    BY <2>3, RangeConcatenation
  <2>6. UNION {Range(ss[j]) : j \in 1 .. i} =
          (UNION {Range(ss[j]) : j \in 1 .. i - 1}) \cup Range(v)
    BY <2>1
  <2> QED BY <1>3, <2>3, <2>4, <2>5, <2>6 DEF Joins
<1> QED BY <1>5, <1>6

(* Whatever is in one of the sequences is in the flat one, nothing else.   *)
LEMMA Flattened ==
  ASSUME NEW S, NEW ss \in Seq(Seq(S))
  PROVE  /\ FlattenSeq(ss) \in Seq(S)
         /\ Range(FlattenSeq(ss)) = UNION {Range(ss[j]) : j \in 1 .. Len(ss)}
<1> DEFINE n == Len(ss)
<1>1. n \in Nat
  OBVIOUS
<1>2. CASE n = 0
  <2>1. ss = <<>> /\ FlattenSeq(ss) = ss /\ 1 .. n = {}
    BY <1>2, EmptySeq DEF FlattenSeq
  <2>2. Range(<<>>) = {}
    BY DEF Range
  <2>3. UNION {Range(ss[j]) : j \in {}} = {} /\ <<>> \in Seq(S)
    OBVIOUS
  <2> QED BY <2>1, <2>2, <2>3
<1>3. CASE n # 0
  <2> DEFINE f == CHOOSE f : f = [i \in 1 .. n |-> IF i = 1 THEN ss[i] ELSE f[i - 1] \o ss[i]]
  <2>1. FlattenSeq(ss) = f[n]
    BY <1>3 DEF FlattenSeq
  <2>2. Concats(ss, f, n)
    <3>1. \E g : g = [i \in 1 .. n |-> IF i = 1 THEN ss[i] ELSE g[i - 1] \o ss[i]]
      BY <1>1, <1>3, ConcatsExist DEF Concats
    <3>2. f = [i \in 1 .. n |-> IF i = 1 THEN ss[i] ELSE f[i - 1] \o ss[i]]
      BY <3>1, Zenon
    <3> HIDE DEF f
    <3> QED BY <3>2 DEF Concats
  <2> HIDE DEF f
  <2>3. Concats(ss, f, Len(ss)) /\ n \in 1 .. Len(ss)
    BY <1>1, <1>3, <2>2
  <2>4. Joins(S, ss, f, n)
    BY <2>3, ConcatsAre
  <2> QED BY <2>1, <2>4 DEF Joins
<1> QED BY <1>2, <1>3

-----------------------------------------------------------------------------
(* What is exported.                                                       *)

Export(i, j) ==
  [name |-> Key(conf[i]) \o conf[i].cmds[j].name, id |-> conf[i].cmds[j].id]

LEMMA GroupTypes ==
  ASSUME NEW Word, AreConfigured(Word), conf \in Configured
  PROVE  /\ DOMAIN conf = 1 .. Len(conf) /\ Len(conf) \in Nat
         /\ \A i \in DOMAIN conf :
              /\ Key(conf[i]) \in Seq(Word) /\ conf[i].aliases \in SUBSET Seq(Word)
              /\ IsFiniteSet(conf[i].aliases)
              /\ conf[i].cmds \in Seq(Listed(Word))
              /\ DOMAIN conf[i].cmds = 1 .. Len(conf[i].cmds) /\ Len(conf[i].cmds) \in Nat
              /\ \A j \in DOMAIN conf[i].cmds :
                   /\ conf[i].cmds[j] \in Listed(Word)
                   /\ Export(i, j) \in Listed(Word)
<1>1. conf \in Seq(Group(Word)) /\ \A i \in DOMAIN conf : IsFiniteSet(conf[i].aliases)
  BY DEF AreConfigured
<1>2. DOMAIN conf = 1 .. Len(conf) /\ Len(conf) \in Nat
  BY <1>1
<1>3. ASSUME NEW i \in DOMAIN conf
      PROVE  /\ Key(conf[i]) \in Seq(Word) /\ conf[i].aliases \in SUBSET Seq(Word)
             /\ IsFiniteSet(conf[i].aliases)
             /\ conf[i].cmds \in Seq(Listed(Word))
             /\ DOMAIN conf[i].cmds = 1 .. Len(conf[i].cmds) /\ Len(conf[i].cmds) \in Nat
             /\ \A j \in DOMAIN conf[i].cmds :
                  /\ conf[i].cmds[j] \in Listed(Word)
                  /\ Export(i, j) \in Listed(Word)
  <2>1. conf[i] \in Group(Word)
    BY <1>1, <1>2
  <2>2. /\ conf[i].cat \in Seq(Word) /\ conf[i].name \in Seq(Word)
        /\ conf[i].aliases \in SUBSET Seq(Word) /\ conf[i].cmds \in Seq(Listed(Word))
    BY <2>1 DEF Group
  <2>3. Key(conf[i]) \in Seq(Word)
    BY <2>2, ConcatProperties DEF Key
  <2>4. DOMAIN conf[i].cmds = 1 .. Len(conf[i].cmds) /\ Len(conf[i].cmds) \in Nat
    BY <2>2
  <2>5. ASSUME NEW j \in DOMAIN conf[i].cmds
        PROVE  conf[i].cmds[j] \in Listed(Word) /\ Export(i, j) \in Listed(Word)
    <3>1. conf[i].cmds[j] \in Listed(Word)
      BY <2>2, <2>4
    <3>2. conf[i].cmds[j].name \in Seq(Word) /\ conf[i].cmds[j].id \in Nat
      BY <3>1 DEF Listed
    <3>3. Key(conf[i]) \o conf[i].cmds[j].name \in Seq(Word)
      BY <2>3, <3>2, ConcatProperties
    <3> QED BY <3>1, <3>2, <3>3 DEF Export, Listed
  <2> QED BY <1>1, <2>2, <2>3, <2>4, <2>5
<1> QED BY <1>2, <1>3

(* The exported commands are those of the groups.                          *)
LEMMA Exported ==
  ASSUME NEW Word, AreConfigured(Word), conf \in Configured
  PROVE  /\ AllCommands \in Seq(Listed(Word))
         /\ DOMAIN AllCommands = 1 .. Len(AllCommands) /\ Len(AllCommands) \in Nat
         /\ \A i \in DOMAIN conf : \A j \in DOMAIN conf[i].cmds :
              Export(i, j) \in Range(AllCommands)
         /\ \A c \in Range(AllCommands) : \E i \in DOMAIN conf : \E j \in DOMAIN conf[i].cmds :
              c = Export(i, j)
<1> DEFINE row(i) == [j \in DOMAIN conf[i].cmds |->
                        [name |-> Key(conf[i]) \o conf[i].cmds[j].name,
                         id   |-> conf[i].cmds[j].id]]
           rows == [i \in DOMAIN conf |-> row(i)]
<1>1. \A i \in DOMAIN conf :
        row(i) \in Seq(Listed(Word)) /\ Range(row(i)) = {Export(i, j) : j \in DOMAIN conf[i].cmds}
  <2> SUFFICES ASSUME NEW i \in DOMAIN conf
               PROVE  /\ row(i) \in Seq(Listed(Word))
                      /\ Range(row(i)) = {Export(i, j) : j \in DOMAIN conf[i].cmds}
    OBVIOUS
  <2>1. /\ DOMAIN conf[i].cmds = 1 .. Len(conf[i].cmds) /\ Len(conf[i].cmds) \in Nat
        /\ \A j \in DOMAIN conf[i].cmds : Export(i, j) \in Listed(Word)
    BY GroupTypes
  <2>2. row(i) = [j \in DOMAIN conf[i].cmds |-> Export(i, j)]
    BY DEF Export
  <2> HIDE DEF row
  <2>3. row(i) \in [1 .. Len(conf[i].cmds) -> Listed(Word)]
    BY <2>1, <2>2
  <2>4. row(i) \in Seq(Listed(Word))
    BY <2>1, <2>3, SeqDef
  <2> QED BY <2>2, <2>4 DEF Range
<1>2. DOMAIN conf = 1 .. Len(conf) /\ Len(conf) \in Nat
  BY GroupTypes
<1> HIDE DEF row
<1>3. rows \in Seq(Seq(Listed(Word))) /\ Len(rows) = Len(conf)
  <2>1. rows \in [1 .. Len(conf) -> Seq(Listed(Word))]
    BY <1>1, <1>2
  <2>2. rows \in Seq(Seq(Listed(Word)))
    BY <1>2, <2>1, SeqDef
  <2> QED BY <1>2, <2>1, <2>2
<1>4. AllCommands = FlattenSeq(rows)
  BY DEF AllCommands, row
<1>5. \A i \in DOMAIN conf : rows[i] = row(i)
  OBVIOUS
<1> HIDE DEF rows
<1>6. /\ AllCommands \in Seq(Listed(Word))
      /\ Range(AllCommands) = UNION {Range(rows[i]) : i \in 1 .. Len(rows)}
  BY <1>3, <1>4, Flattened
<1>7. \A i \in DOMAIN conf : Range(rows[i]) = {Export(i, j) : j \in DOMAIN conf[i].cmds}
  BY <1>1, <1>5
<1>8. ASSUME NEW i \in DOMAIN conf, NEW j \in DOMAIN conf[i].cmds
      PROVE  Export(i, j) \in Range(AllCommands)
  <2>1. Export(i, j) \in Range(rows[i]) /\ i \in 1 .. Len(rows)
    BY <1>2, <1>3, <1>7
  <2> QED BY <1>6, <2>1
<1>9. ASSUME NEW c \in Range(AllCommands)
      PROVE  \E i \in DOMAIN conf : \E j \in DOMAIN conf[i].cmds : c = Export(i, j)
  <2>1. PICK i \in 1 .. Len(rows) : c \in Range(rows[i])
    BY <1>6
  <2>2. i \in DOMAIN conf
    BY <1>2, <1>3
  <2> QED BY <1>7, <2>1, <2>2
<1>10. DOMAIN AllCommands = 1 .. Len(AllCommands) /\ Len(AllCommands) \in Nat
  BY <1>6
<1> QED BY <1>6, <1>8, <1>9, <1>10

(* Named commands: finitely many, and only one if it is at most one.       *)
LEMMA NamedCommands ==
  ASSUME NEW Word, AreConfigured(Word), conf \in Configured
  PROVE  /\ \A c \in Range(AllCommands) : \E i \in Named(c.name) : AllCommands[i] = c
         /\ \A n : \A i \in Named(n) :
              i \in DOMAIN AllCommands /\ i \in Nat /\ AllCommands[i] \in Range(AllCommands)
         /\ \A n : Cardinality(Named(n)) <= 1 => \A i, j \in Named(n) : i = j
<1>1. DOMAIN AllCommands = 1 .. Len(AllCommands) /\ Len(AllCommands) \in Nat
  BY Exported
<1>2. ASSUME NEW c \in Range(AllCommands)
      PROVE  \E i \in Named(c.name) : AllCommands[i] = c
  BY DEF Range, Named
<1>3. ASSUME NEW n, NEW i \in Named(n)
      PROVE  i \in DOMAIN AllCommands /\ i \in Nat /\ AllCommands[i] \in Range(AllCommands)
  BY <1>1 DEF Range, Named
<1>4. ASSUME NEW n, Cardinality(Named(n)) <= 1, NEW i \in Named(n), NEW j \in Named(n), i # j
      PROVE  FALSE
  <2>1. IsFiniteSet(1 .. Len(AllCommands))
    BY <1>1, FS_Interval
  <2>2. Named(n) \subseteq 1 .. Len(AllCommands)
    BY <1>1 DEF Named
  <2>3. IsFiniteSet(Named(n))
    BY <2>1, <2>2, FS_Subset
  <2>4. IsFiniteSet({i}) /\ Cardinality({i}) = 1 /\ IsFiniteSet({i, j}) /\ Cardinality({i, j}) = 2
    <3>1. IsFiniteSet({i}) /\ Cardinality({i}) = 1
      BY FS_Singleton
    <3>2. j \notin {i} /\ {i} \cup {j} = {i, j}
      BY <1>4
    <3>3. IsFiniteSet({i} \cup {j}) /\ Cardinality({i} \cup {j}) = Cardinality({i}) + 1
      BY <3>1, <3>2, FS_AddElement
    <3> QED BY <3>1, <3>2, <3>3
  <2>5. {i, j} \subseteq Named(n)
    OBVIOUS
  <2>6. Cardinality({i, j}) <= Cardinality(Named(n)) /\ Cardinality(Named(n)) \in Nat
    BY <2>3, <2>5, FS_Subset, FS_CardinalityType
  <2> QED BY <1>4, <2>4, <2>6
<1> QED BY <1>2, <1>3, <1>4

(* The group that a key leads to.                                          *)
LEMMA KeysLead ==
  ASSUME NEW Word, AreConfigured(Word), conf \in Configured, NEW k \in GroupKeys
  PROVE  /\ Max(Owners(k)) \in DOMAIN conf
         /\ GroupAt(k) = conf[Max(Owners(k))]
<1>1. DOMAIN conf = 1 .. Len(conf) /\ Len(conf) \in Nat
  BY GroupTypes
<1>2. Owners(k) \subseteq 1 .. Len(conf) /\ Owners(k) # {}
  BY <1>1 DEF Owners, GroupKeys
<1>3. Max(Owners(k)) \in Owners(k)
  BY <1>1, <1>2, MaxExists
<1> QED BY <1>1, <1>2, <1>3 DEF GroupAt

-----------------------------------------------------------------------------
(* What arguments are resolved to.                                         *)

LEMMA Kinds ==
  /\ \A k, es : Menu(k, es).kind = "menu" /\ Menu(k, es).key = k /\ Menu(k, es).entries = es
  /\ \A is : Commands(is).kind = "run" /\ Commands(is).run = is
  /\ Refused.kind = "error"
  /\ \A names : Filtered(names).kind \in {"run", "error"}
BY DEF Menu, Commands, Refused, Filtered

LEMMA ResolvedMenu ==
  ASSUME NEW names, NEW r, r = ResolveCommands(names), r.kind = "menu"
  PROVE  \/ r.entries = CommandEntries
         \/ \E ks \in SUBSET GroupKeys : r.entries = GroupEntries(ks)
         \/ r.key \in GroupKeys /\ r.entries = EntriesOf(r.key)
<1>1. CASE Len(names) = 0
  BY <1>1, Kinds DEF ResolveCommands
<1>2. CASE Len(names) = 1
  <2>1. r = ResolveOne(names[1])
    BY <1>2 DEF ResolveCommands
  <2> QED BY <2>1, Kinds DEF ResolveOne
<1>3. CASE Len(names) # 0 /\ Len(names) # 1
  <2>1. r = ResolveMany(names)
    BY <1>3 DEF ResolveCommands
  <2> DEFINE ks == Range(names) \cap GroupKeys
  <2>2. ks \in SUBSET GroupKeys
    OBVIOUS
  <2>3. r.entries = GroupEntries(ks)
    BY <2>1, Kinds DEF ResolveMany
  <2> QED BY <2>2, <2>3
<1> QED BY <1>1, <1>2, <1>3

LEMMA ResolvedRun ==
  ASSUME NEW S, NEW names \in Seq(S), names # <<>>,
         NEW r, r = ResolveCommands(names), r.kind = "run"
  PROVE  /\ r.run = Matches(names)
         /\ \A n \in Range(names) : n \notin GroupKeys /\ Named(n) # {}
<1>1. Len(names) \in Nat /\ Len(names) # 0
  BY EmptySeq
<1>2. CASE Len(names) = 1
  <2> DEFINE n == names[1]
  <2>1. r = ResolveOne(n)
    BY <1>2 DEF ResolveCommands
  <2>2. Range(names) = {n} /\ Range(<<n>>) = {n}
    BY <1>2 DEF Range
  <2> HIDE DEF n
  <2>3. n \notin GroupKeys /\ r = Filtered(<<n>>)
    BY <2>1, Kinds DEF ResolveOne
  <2>4. Filterable(<<n>>) /\ r = Commands(Matches(<<n>>))
    BY <2>3, Kinds DEF Filtered, Refused
  <2>5. Named(n) # {}
    BY <2>2, <2>4 DEF Filterable
  <2>6. Matches(<<n>>) = Matches(names)
    BY <2>2 DEF Matches
  <2> QED BY <2>2, <2>3, <2>4, <2>5, <2>6, Kinds
<1>3. CASE Len(names) # 1
  <2>1. r = ResolveMany(names)
    BY <1>1, <1>3 DEF ResolveCommands
  <2>2. Range(names) \cap GroupKeys = {} /\ r = Filtered(names)
    BY <2>1, Kinds DEF ResolveMany
  <2>3. Filterable(names) /\ r = Commands(Matches(names))
    BY <2>2, Kinds DEF Filtered, Refused
  <2> QED BY <2>2, <2>3, Kinds DEF Filterable
<1> QED BY <1>2, <1>3

(* An entry leads to a group, or stands for the command of its name.       *)
IsEntry(e) ==
  \/ e.name \in GroupKeys
  \/ /\ Named(e.name) # {}
     /\ Cardinality(Named(e.name)) <= 1 => e.ids = Ids(Named(e.name))

LEMMA MenusHaveEntries ==
  ASSUME NEW Word, AreConfigured(Word), conf \in Configured,
         NEW names, NEW r, r = ResolveCommands(names), r.kind = "menu",
         ~Borrowed(r.key), NEW e \in r.entries
  PROVE  IsEntry(e)
<1>1. CASE r.entries = CommandEntries
  <2>1. PICK c \in Range(AllCommands) : e = [name |-> c.name, ids |-> Ids(Named(c.name))]
    BY <1>1 DEF CommandEntries
  <2>2. Named(c.name) # {}
    BY NamedCommands
  <2> QED BY <2>1, <2>2 DEF IsEntry
<1>2. CASE \E ks \in SUBSET GroupKeys : r.entries = GroupEntries(ks)
  BY <1>2 DEF GroupEntries, IsEntry
<1>3. CASE r.key \in GroupKeys /\ r.entries = EntriesOf(r.key)
  <2> DEFINE k == r.key
             o == Max(Owners(k))
             cmds == GroupAt(k).cmds
  <2>1. o \in DOMAIN conf /\ GroupAt(k) = conf[o] /\ Key(conf[o]) = k
    BY <1>3, KeysLead DEF Borrowed
  <2>2. PICK c \in Range(cmds) :
          e = [name |-> k \o c.name, ids |-> {d.id : d \in {d \in Range(cmds) : d.name = c.name}}]
    BY <1>3 DEF EntriesOf
  <2>a. cmds = conf[o].cmds
    BY <2>1
  <2> DEFINE n == k \o c.name
  <2>3. ASSUME NEW d \in Range(cmds), d.name = c.name
        PROVE  \E i \in Named(n) : AllCommands[i].id = d.id
    <3>1. PICK j \in DOMAIN conf[o].cmds : d = conf[o].cmds[j]
      BY <2>a DEF Range
    <3>2. Export(o, j) \in Range(AllCommands) /\ Export(o, j).name = n /\ Export(o, j).id = d.id
      BY <2>1, <2>3, <3>1, Exported DEF Export
    <3> HIDE DEF n, k, o, cmds
    <3>3. PICK i \in Named(Export(o, j).name) : AllCommands[i] = Export(o, j)
      BY <3>2, NamedCommands
    <3> QED BY <3>2, <3>3
  <2> HIDE DEF k, o, cmds, n
  <2>4. PICK i \in Named(n) : AllCommands[i].id = c.id
    BY <2>3
  <2>5. ASSUME Cardinality(Named(n)) <= 1
        PROVE  e.ids = Ids(Named(n))
    <3>1. \A j \in Named(n) : j = i
      BY <2>5, NamedCommands
    <3>2. Ids(Named(n)) = {c.id}
      BY <2>4, <3>1 DEF Ids
    <3>3. \A d \in Range(cmds) : d.name = c.name => d.id = c.id
      BY <2>3, <2>4, <3>1
    <3>4. e.ids = {d.id : d \in {d \in Range(cmds) : d.name = c.name}}
      BY <2>2
    <3>5. e.ids = {c.id}
      BY <3>3, <3>4
    <3> QED BY <3>2, <3>5
  <2>6. e.name = n
    BY <2>2 DEF n
  <2> QED BY <2>4, <2>5, <2>6 DEF IsEntry
<1> QED BY <1>1, <1>2, <1>3, ResolvedMenu

(* What an entry's name resolves to.                                       *)
LEMMA EntriesLead ==
  ASSUME NEW Word, AreConfigured(Word), conf \in Configured,
         NEW n, n \in GroupKeys \/ Named(n) # {},
         NEW r, r = ResolveCommands(<<n>>)
  PROVE  \/ r.kind = "run"
         \/ r.kind = "menu" /\ r.entries # {}
         \/ n \in GroupKeys /\ GroupAt(n).cmds = <<>>
<1>1. r = ResolveOne(n)
  <2>1. Len(<<n>>) = 1 /\ <<n>>[1] = n
    OBVIOUS
  <2> QED BY <2>1 DEF ResolveCommands
<1>2. n \in GroupKeys => \/ GroupAt(n).cmds = <<>>
                         \/ Range(AllCommands) # {} /\ Range(GroupAt(n).cmds) # {}
  <2> SUFFICES ASSUME n \in GroupKeys, GroupAt(n).cmds # <<>>
               PROVE  Range(AllCommands) # {} /\ Range(GroupAt(n).cmds) # {}
    OBVIOUS
  <2>1. PICK o \in DOMAIN conf : GroupAt(n) = conf[o]
    BY KeysLead
  <2>2. conf[o].cmds \in Seq(Listed(Word)) /\ conf[o].cmds # <<>>
    BY <2>1, GroupTypes
  <2>3. 1 \in DOMAIN conf[o].cmds
    BY <2>2, EmptySeq
  <2>4. Export(o, 1) \in Range(AllCommands)
    BY <2>3, Exported
  <2> QED BY <2>1, <2>3, <2>4 DEF Range
<1>3. Named(n) # {} => Range(AllCommands) # {}
  BY NamedCommands
<1>4. CASE n \in AllWords
  <2>1. r = Menu(<<>>, CommandEntries)
    BY <1>1, <1>4 DEF ResolveOne
  <2>2. r.kind = "menu" /\ r.entries = CommandEntries
    BY <2>1, Kinds
  <2>3. Range(AllCommands) # {} => CommandEntries # {}
    BY DEF CommandEntries
  <2> QED BY <1>2, <1>3, <2>2, <2>3
<1>5. CASE n \notin AllWords /\ n \in GroupWords
  <2>1. r.kind = "menu" /\ r.entries = GroupEntries(GroupKeys)
    BY <1>1, <1>5, Kinds DEF ResolveOne
  <2>2. GroupKeys # {}
    <3> SUFFICES ASSUME Named(n) # {} PROVE GroupKeys # {}
      OBVIOUS
    <3>1. PICK i \in DOMAIN conf : TRUE
      BY <1>3, Exported
    <3>2. Key(conf[i]) \in GroupKeys
      BY DEF GroupKeys
    <3> QED BY <3>2
  <2> QED BY <2>1, <2>2 DEF GroupEntries
<1>6. CASE n \notin AllWords /\ n \notin GroupWords /\ n \in GroupKeys
  <2>1. r.kind = "menu" /\ r.entries = EntriesOf(n)
    BY <1>1, <1>6, Kinds DEF ResolveOne
  <2>2. Range(GroupAt(n).cmds) # {} => EntriesOf(n) # {}
    BY DEF EntriesOf
  <2> QED BY <1>2, <1>6, <2>1, <2>2
<1>7. CASE n \notin AllWords /\ n \notin GroupWords /\ n \notin GroupKeys
  <2>1. r = Filtered(<<n>>)
    BY <1>1, <1>7 DEF ResolveOne
  <2>2. Filterable(<<n>>)
    <3>1. Range(<<n>>) = {n} /\ <<n>> # <<>> /\ IsInjective(<<n>>)
      BY DEF Range, IsInjective
    <3> QED BY <1>7, <3>1 DEF Filterable
  <2> QED BY <2>1, <2>2, Kinds DEF Filtered
<1> QED BY <1>4, <1>5, <1>6, <1>7

-----------------------------------------------------------------------------
(* Menus are finite, so that a selection can be put in an order.           *)

LEMMA ImageIsFinite ==
  ASSUME NEW S, IsFiniteSet(S), NEW R, NEW f \in [S -> R], \A y \in R : \E x \in S : y = f[x]
  PROVE  IsFiniteSet(R)
<1>1. f \in Surjection(S, R)
  BY DEF Surjection
<1> QED BY <1>1, FS_Surjection

(* A sequence of a finite set's elements without repetition has them all.  *)
LEMMA OrderingHasAll ==
  ASSUME NEW S, IsFiniteSet(S), NEW q \in SetToSeqs(S)
  PROVE  q \in Seq(S) /\ Range(q) = S
<1> DEFINE k == Cardinality(S)
<1>1. k \in Nat
  BY FS_CardinalityType
<1>2. /\ q \in [1 .. k -> S]
      /\ \A i, j \in 1 .. k : i # j => q[i] # q[j]
  BY DEF SetToSeqs
<1>3. IsFiniteSet(1 .. k) /\ Cardinality(1 .. k) = k
  BY <1>1, FS_Interval
<1> HIDE DEF k
<1>4. q \in Injection(1 .. k, S)
  BY <1>2 DEF Injection, IsInjective
<1>5. q \in Surjection(1 .. k, S)
  BY <1>3, <1>4, FS_Injection DEF k
<1>6. q \in Seq(S)
  BY <1>1, <1>2, SeqDef
<1>7. \A x \in S : \E i \in DOMAIN q : q[i] = x
  BY <1>2, <1>5 DEF Surjection
<1> QED BY <1>2, <1>6, <1>7 DEF Range

LEMMA SequenceIsFinite ==
  ASSUME NEW S, NEW q \in Seq(S)
  PROVE  IsFiniteSet(Range(q))
<1>1. Len(q) \in Nat /\ DOMAIN q = 1 .. Len(q) /\ q \in [1 .. Len(q) -> S]
  OBVIOUS
<1>2. IsFiniteSet(1 .. Len(q))
  BY <1>1, FS_Interval
<1>3. q \in [1 .. Len(q) -> Range(q)] /\ \A y \in Range(q) : \E i \in 1 .. Len(q) : y = q[i]
  BY <1>1 DEF Range
<1> QED BY <1>2, <1>3, ImageIsFinite

LEMMA MenusAreFinite ==
  ASSUME NEW Word, AreConfigured(Word), conf \in Configured,
         NEW names, NEW r, r = ResolveCommands(names), r.kind = "menu"
  PROVE  IsFiniteSet(r.entries)
<1>1. IsFiniteSet(CommandEntries)
  <2> DEFINE f == [c \in Range(AllCommands) |-> [name |-> c.name, ids |-> Ids(Named(c.name))]]
  <2>1. IsFiniteSet(Range(AllCommands))
    BY Exported, SequenceIsFinite
  <2>2. f \in [Range(AllCommands) -> CommandEntries]
    BY DEF CommandEntries
  <2>3. \A e \in CommandEntries : \E c \in Range(AllCommands) : e = f[c]
    BY DEF CommandEntries
  <2> HIDE DEF f
  <2> QED BY <2>1, <2>2, <2>3, ImageIsFinite
<1>2. IsFiniteSet(GroupKeys)
  <2> DEFINE KeysOf(i) == {Key(conf[i])} \cup conf[i].aliases
             f == [i \in DOMAIN conf |-> KeysOf(i)]
             T == {KeysOf(i) : i \in DOMAIN conf}
  <2>1. IsFiniteSet(DOMAIN conf)
    BY GroupTypes, FS_Interval
  <2>2. f \in [DOMAIN conf -> T]
    OBVIOUS
  <2>3. IsFiniteSet(T)
    <3>1. \A t \in T : \E i \in DOMAIN conf : t = f[i]
      OBVIOUS
    <3> HIDE DEF f, T
    <3> QED BY <2>1, <2>2, <3>1, ImageIsFinite
  <2>4. \A i \in DOMAIN conf : IsFiniteSet(KeysOf(i))
    <3> SUFFICES ASSUME NEW i \in DOMAIN conf PROVE IsFiniteSet(KeysOf(i))
      OBVIOUS
    <3>1. IsFiniteSet(conf[i].aliases) /\ IsFiniteSet({Key(conf[i])})
      BY GroupTypes, FS_Singleton
    <3> QED BY <3>1, FS_Union
  <2>5. \A t \in T : IsFiniteSet(t)
    BY <2>4
  <2>6. GroupKeys = UNION T
    BY DEF GroupKeys
  <2> HIDE DEF T
  <2> QED BY <2>3, <2>5, <2>6, FS_UNION
<1>3. ASSUME NEW ks \in SUBSET GroupKeys
      PROVE  IsFiniteSet(GroupEntries(ks))
  <2> DEFINE f == [k \in ks |-> [name |-> k, ids |-> {}]]
  <2>1. IsFiniteSet(ks)
    BY <1>2, FS_Subset
  <2>2. f \in [ks -> GroupEntries(ks)]
    BY DEF GroupEntries
  <2>3. \A e \in GroupEntries(ks) : \E k \in ks : e = f[k]
    BY DEF GroupEntries
  <2> HIDE DEF f
  <2> QED BY <2>1, <2>2, <2>3, ImageIsFinite
<1>4. ASSUME NEW k \in GroupKeys
      PROVE  IsFiniteSet(EntriesOf(k))
  <2> DEFINE cmds == Range(GroupAt(k).cmds)
             f == [c \in cmds |-> [name |-> k \o c.name,
                                   ids  |-> {d.id : d \in {d \in cmds : d.name = c.name}}]]
  <2>1. IsFiniteSet(cmds)
    <3>1. GroupAt(k).cmds \in Seq(Listed(Word))
      BY KeysLead, GroupTypes
    <3> QED BY <3>1, SequenceIsFinite
  <2>2. \A e \in EntriesOf(k) : \E c \in cmds : e = f[c]
    BY DEF EntriesOf
  <2>3. f \in [cmds -> EntriesOf(k)]
    BY DEF EntriesOf
  <2> HIDE DEF f, cmds
  <2> QED BY <2>1, <2>2, <2>3, ImageIsFinite
<1> QED BY <1>1, <1>3, <1>4, ResolvedMenu

-----------------------------------------------------------------------------
(* The tree.                                                               *)

IsNode(e) == e.name \in Paths /\ e.ids = Ids(Named(e.name))

(* A node has a command, or leads to others.                               *)
LEMMA NodesLead ==
  ASSUME NEW Word, AreConfigured(Word), conf \in Configured, NEW p \in Paths
  PROVE  NodeCommand(p) # {} \/ Children(p) # {}
<1>1. PICK c \in Range(AllCommands) : \E n \in 0 .. Len(c.name) : p = SubSeq(c.name, 1, n)
  BY DEF Paths
<1>2. PICK n \in 0 .. Len(c.name) : p = SubSeq(c.name, 1, n)
  BY <1>1
<1> DEFINE w == c.name
<1>3. w \in Seq(Word) /\ Len(w) \in Nat
  <2>1. c \in Listed(Word)
    BY Exported, RangeOfSeq
  <2> QED BY <2>1 DEF Listed
<1> HIDE DEF w
<1>4. n \in Nat /\ n <= Len(w) /\ p = SubSeq(w, 1, n)
  BY <1>2, <1>3 DEF w
<1>5. CASE n = Len(w)
  <2>1. p = w
    BY <1>3, <1>4, <1>5
  <2>2. Named(p) # {}
    BY <2>1, NamedCommands DEF w
  <2> QED BY <2>2 DEF NodeCommand
<1>6. CASE n # Len(w)
  <2> DEFINE q == SubSeq(w, 1, n + 1)
  <2>1. n + 1 \in 0 .. Len(w)
    BY <1>3, <1>4, <1>6
  <2>2. q \in Paths
    BY <2>1 DEF Paths, w
  <2>3. Len(q) = n + 1 /\ Len(p) = n /\ q \in Seq(Word) /\ p \in Seq(Word)
    BY <1>3, <1>4, <2>1
  <2>4. \A i \in 1 .. n : q[i] = w[i] /\ p[i] = w[i]
    BY <1>3, <1>4, <2>1
  <2> HIDE DEF q
  <2>5. Front(q) = p
    <3> DEFINE f == Front(q)
    <3>1. f = SubSeq(q, 1, n)
      BY <1>4, <2>3 DEF Front
    <3>2. f \in Seq(Word) /\ Len(f) = n /\ \A i \in 1 .. n : f[i] = q[i]
      BY <1>4, <2>3, <3>1
    <3> HIDE DEF f
    <3>3. f = p
      BY <2>3, <2>4, <3>2, SeqEqual
    <3> QED BY <3>3 DEF f
  <2> QED BY <2>2, <2>3, <2>5 DEF Children
<1> QED BY <1>5, <1>6

(* Where at most one command has the name, it is the node's.               *)
LEMMA NodesHaveCommands ==
  ASSUME NEW Word, AreConfigured(Word), conf \in Configured,
         NEW p, Cardinality(Named(p)) <= 1
  PROVE  NodeCommand(p) = Named(p)
<1>1. CASE Named(p) = {}
  BY <1>1 DEF NodeCommand
<1>2. CASE Named(p) # {}
  <2>1. PICK i \in Named(p) : \A j \in Named(p) : j = i
    BY <1>2, NamedCommands
  <2>2. Named(p) \subseteq 1 .. Len(AllCommands) /\ Len(AllCommands) \in Nat
    BY Exported DEF Named
  <2>3. Max(Named(p)) = i
    BY <1>2, <2>1, <2>2, MaxExists
  <2> QED BY <1>2, <2>1, <2>3 DEF NodeCommand
<1> QED BY <1>1, <1>2

-----------------------------------------------------------------------------
(* The invariant.                                                          *)

Menus == {"dmenu", "fuzzy"}

Searches == {"dmenu search", "fuzzy search"}

NamesOf(es) == {e.name : e \in es}

(* In menus and in the tree, what is offered and picked stands for what it *)
(* is called; a selection is the arguments that are resolved next, and has *)
(* run nothing until it is resolved.                                       *)
MenuInv ==
  /\ conf \in Configured
  /\ via \notin Menus \cup Searches => picked = {}
  /\ via \in Menus =>
       /\ phase \in {"resolve", "menu"} => ran = {}
       /\ phase = "menu" => /\ IsFiniteSet(offered)
                            /\ Borrowed(group) \/ \A e \in offered : IsEntry(e)
       /\ phase = "resolve" /\ picked # {} =>
            /\ op \in Seq(NamesOf(picked)) /\ Range(op) = NamesOf(picked)
            /\ Borrowed(group) \/ \A e \in picked : IsEntry(e)
  /\ via \in Searches =>
       /\ \A e \in picked : IsNode(e)
       /\ phase = "menu" => \A e \in offered : IsNode(e)
  /\ via = "dmenu search" => \A e, f \in picked : e = f
  /\ via = "fuzzy search" /\ phase = "resolve" => picked = {}
  /\ RunsWhatWasPicked

(* The views of a configuration stay as they are.                          *)
LEMMA SameViews ==
  ASSUME conf' = conf
  PROVE  /\ \A n : Named(n)' = Named(n)
         /\ \A is : Ids(is)' = Ids(is)
         /\ GroupKeys' = GroupKeys /\ Paths' = Paths
         /\ \A k : Borrowed(k)' <=> Borrowed(k)
         /\ \A e : IsEntry(e)' <=> IsEntry(e)
         /\ \A e : IsNode(e)' <=> IsNode(e)
<1>1. AllCommands' = AllCommands
  BY DEF AllCommands, Key
<1>2. \A n : Named(n)' = Named(n)
  BY <1>1 DEF Named
<1>3. \A is : Ids(is)' = Ids(is)
  BY <1>1 DEF Ids
<1>4. GroupKeys' = GroupKeys
  BY DEF GroupKeys, Key
<1>5. Paths' = Paths
  BY <1>1 DEF Paths
<1>6. \A k : Borrowed(k)' <=> Borrowed(k)
  BY <1>4 DEF Borrowed, GroupAt, Owners, Key
<1> QED BY <1>2, <1>3, <1>4, <1>5, <1>6 DEF IsEntry, IsNode

(* Resolving the names of entries that stand for one command each.         *)
LEMMA MatchesArePicked ==
  ASSUME NEW Word, AreConfigured(Word), conf \in Configured,
         NEW names, NEW es, Range(names) = NamesOf(es),
         \A e \in es : e.ids = Ids(Named(e.name)) /\ Cardinality(Named(e.name)) <= 1
  PROVE  Ids(Matches(names)) = UNION {e.ids : e \in es}
<1>1. ASSUME NEW x \in Ids(Matches(names))
      PROVE  \E e \in es : x \in e.ids
  <2>1. PICK i \in Matches(names) : x = AllCommands[i].id
    BY DEF Ids
  <2>2. i \in DOMAIN AllCommands /\ AllCommands[i].name \in NamesOf(es)
    BY DEF Matches
  <2>3. PICK e \in es : AllCommands[i].name = e.name
    BY <2>2 DEF NamesOf
  <2>4. i \in Named(e.name)
    BY <2>2, <2>3 DEF Named
  <2>5. x \in Ids(Named(e.name))
    BY <2>1, <2>4 DEF Ids
  <2> QED BY <2>5
<1>2. ASSUME NEW e \in es, NEW x \in e.ids
      PROVE  x \in Ids(Matches(names))
  <2>1. PICK i \in Named(e.name) : x = AllCommands[i].id
    BY DEF Ids
  <2>2. i \in DOMAIN AllCommands /\ i \in Nat /\ AllCommands[i].name = e.name
    BY NamedCommands DEF Named
  <2>3. \A j \in Named(e.name) : i <= j
    BY <2>2, NamedCommands
  <2>4. e.name \in Range(names)
    BY DEF NamesOf
  <2>5. i \in Matches(names)
    BY <2>2, <2>3, <2>4 DEF Matches
  <2> QED BY <2>1, <2>5 DEF Ids
<1> QED BY <1>1, <1>2

(* Running the commands of nodes, likewise.                                *)
LEMMA NodesArePicked ==
  ASSUME NEW Word, AreConfigured(Word), conf \in Configured, NEW es,
         \A e \in es : e.ids = Ids(Named(e.name)) /\ Cardinality(Named(e.name)) <= 1
  PROVE  Ids(UNION {NodeCommand(p) : p \in NamesOf(es)}) = UNION {e.ids : e \in es}
<1>1. \A e \in es : NodeCommand(e.name) = Named(e.name)
  BY NodesHaveCommands
<1>2. ASSUME NEW x \in Ids(UNION {NodeCommand(p) : p \in NamesOf(es)})
      PROVE  \E e \in es : x \in e.ids
  <2>1. PICK i \in UNION {NodeCommand(p) : p \in NamesOf(es)} : x = AllCommands[i].id
    BY DEF Ids
  <2>2. PICK e \in es : i \in NodeCommand(e.name)
    BY <2>1 DEF NamesOf
  <2>3. x \in Ids(Named(e.name))
    BY <1>1, <2>1, <2>2 DEF Ids
  <2> QED BY <2>3
<1>3. ASSUME NEW e \in es, NEW x \in e.ids
      PROVE  x \in Ids(UNION {NodeCommand(p) : p \in NamesOf(es)})
  <2>1. PICK i \in Named(e.name) : x = AllCommands[i].id
    BY DEF Ids
  <2>2. i \in UNION {NodeCommand(p) : p \in NamesOf(es)}
    BY <1>1, <2>1 DEF NamesOf
  <2> QED BY <2>1, <2>2 DEF Ids
<1> QED BY <1>2, <1>3

(* What is said of a picture of the session after a step.                  *)
LEMMA EndsQuietly ==
  ASSUME MenuInv, conf' = conf, via' = via, group' = group, picked' = picked, ran' = ran,
         phase' = "ended", phase # "resolve" \/ ran = {} \/ picked = {}
  PROVE  MenuInv'
<1>1. RunsWhatWasPicked'
  <2>1. CASE ran = {} \/ picked = {}
    BY <2>1 DEF RunsWhatWasPicked
  <2>2. CASE ran # {} /\ picked # {}
    BY <2>2, SameViews DEF MenuInv, RunsWhatWasPicked
  <2> QED BY <2>1, <2>2
<1>2. \A e \in picked : via \in Searches => IsNode(e)'
  BY SameViews DEF MenuInv
<1> QED BY <1>1, <1>2 DEF MenuInv, Menus, Searches

(* Operations without menus pick nothing.                                  *)
LEMMA NothingPicked ==
  ASSUME MenuInv, conf' = conf, via' = via, via \notin Menus \cup Searches, picked' = picked
  PROVE  MenuInv'
BY DEF MenuInv, Searches, RunsWhatWasPicked

(* Commands that a selection resolves to are those that it stands for.     *)
LEMMA SelectionRuns ==
  ASSUME NEW Word, AreConfigured(Word), MenuInv, via \in Menus, phase = "resolve",
         NEW r, r = ResolveCommands(op), r.kind = "run", ran' = Ids(r.run),
         conf' = conf, via' = via, group' = group, picked' = picked,
         phase' \in {"ended", "waiting"}
  PROVE  MenuInv'
<1>1. RunsWhatWasPicked'
  <2> SUFFICES ASSUME picked # {}, ~Borrowed(group),
                      \A e \in picked : Cardinality(Named(e.name)) <= 1
               PROVE  Ids(r.run) = UNION {e.ids : e \in picked}
    BY SameViews DEF RunsWhatWasPicked
  <2>1. /\ op \in Seq(NamesOf(picked)) /\ Range(op) = NamesOf(picked)
        /\ \A e \in picked : IsEntry(e)
        /\ conf \in Configured
    BY DEF MenuInv
  <2>2. op # <<>>
    <3>1. Range(<<>>) = {} /\ NamesOf(picked) # {}
      BY DEF Range, NamesOf
    <3> QED BY <2>1, <3>1
  <2>3. /\ r.run = Matches(op)
        /\ \A n \in NamesOf(picked) : n \notin GroupKeys /\ Named(n) # {}
    BY <2>1, <2>2, ResolvedRun
  <2>4. \A e \in picked : e.ids = Ids(Named(e.name))
    BY <2>1, <2>3 DEF IsEntry, NamesOf
  <2> QED BY <2>1, <2>3, <2>4, MatchesArePicked
<1>2. conf \in Configured /\ via \notin Searches
  BY DEF MenuInv, Menus, Searches
<1> QED BY <1>1, <1>2 DEF MenuInv, Menus, Searches

(* A menu that a selection resolves to.                                    *)
LEMMA SelectionOffers ==
  ASSUME NEW Word, AreConfigured(Word), MenuInv, via \in Menus, phase = "resolve",
         NEW r, r = ResolveCommands(op), r.kind = "menu", Offer(r.key, r.entries)
  PROVE  MenuInv'
<1>1. /\ phase' = "menu" /\ group' = r.key /\ offered' = r.entries
      /\ conf' = conf /\ via' = via /\ picked' = picked /\ ran' = ran
  BY DEF Offer
<1>2. ran = {} /\ conf \in Configured
  BY DEF MenuInv
<1>3. IsFiniteSet(offered')
  BY <1>1, <1>2, MenusAreFinite
<1>4. Borrowed(group)' \/ \A e \in offered' : IsEntry(e)'
  <2> SUFFICES ASSUME ~Borrowed(r.key), NEW e \in r.entries
               PROVE  IsEntry(e)
    BY <1>1, SameViews
  <2> QED BY <1>2, MenusHaveEntries
<1>5. RunsWhatWasPicked'
  BY <1>1, <1>2 DEF RunsWhatWasPicked
<1> QED BY <1>1, <1>2, <1>3, <1>4, <1>5 DEF MenuInv, Menus, Searches

LEMMA MenuStep ==
  ASSUME NEW Word, AreConfigured(Word), MenuInv, DMenu \/ Fuzzy
  PROVE  MenuInv'
<1> DEFINE r == ResolveCommands(op)
<1>1. via \in Menus /\ phase = "resolve"
  BY DEF DMenu, Fuzzy, Menus
<1>2. ran = {}
  BY <1>1 DEF MenuInv
<1>3. \/ r.kind = "run" /\ RunAndEnd(r.run)
      \/ /\ r.kind = "run" /\ phase' = "waiting" /\ ran' = Ids(r.run)
         /\ UNCHANGED <<conf, via, op, outcome, group, offered, picked>>
      \/ r.kind = "menu" /\ Offer(r.key, r.entries)
      \/ Fail
  BY DEF DMenu, Fuzzy
<1> HIDE DEF r
<1>4. r = ResolveCommands(op)
  BY DEF r
<1>5. CASE r.kind = "run" /\ RunAndEnd(r.run)
  BY <1>1, <1>4, <1>5, SelectionRuns DEF RunAndEnd, End
<1>6. CASE /\ r.kind = "run" /\ phase' = "waiting" /\ ran' = Ids(r.run)
           /\ UNCHANGED <<conf, via, op, outcome, group, offered, picked>>
  BY <1>1, <1>4, <1>6, SelectionRuns
<1>7. CASE r.kind = "menu" /\ Offer(r.key, r.entries)
  BY <1>1, <1>4, <1>7, SelectionOffers
<1>8. CASE Fail
  BY <1>2, <1>8, EndsQuietly DEF Fail, End
<1> QED BY <1>3, <1>5, <1>6, <1>7, <1>8

(* What is selected is offered, and not nothing.                           *)
LEMMA Selections ==
  ASSUME NEW entries, NEW es \in Selectable(entries), IsFiniteSet(entries)
  PROVE  es \subseteq entries /\ IsFiniteSet(NamesOf(es))
<1>1. es \subseteq entries
  BY DEF Selectable, kSubset
<1>2. IsFiniteSet(es)
  BY <1>1, FS_Subset
<1> DEFINE f == [e \in es |-> e.name]
<1>3. f \in [es -> NamesOf(es)] /\ \A n \in NamesOf(es) : \E e \in es : n = f[e]
  BY DEF NamesOf
<1> HIDE DEF f
<1>4. IsFiniteSet(NamesOf(es))
  BY <1>2, <1>3, ImageIsFinite
<1> QED BY <1>1, <1>4

LEMMA PickKeeps ==
  ASSUME MenuInv, Pick
  PROVE  MenuInv'
<1>1. PICK es \in Selectable(offered) :
        picked' = es /\ op' \in SetToSeqs({e.name : e \in es})
  BY DEF Pick
<1>2. /\ via \in Menus /\ phase = "menu" /\ phase' = "resolve"
      /\ conf' = conf /\ via' = via /\ group' = group /\ ran' = ran
  BY DEF Pick, Menus
<1>3. /\ ran = {} /\ IsFiniteSet(offered) /\ conf \in Configured
      /\ Borrowed(group) \/ \A e \in offered : IsEntry(e)
  BY <1>2 DEF MenuInv
<1>4. es \subseteq offered /\ IsFiniteSet(NamesOf(es))
  BY <1>3, Selections
<1>5. op' \in Seq(NamesOf(es)) /\ Range(op') = NamesOf(es)
  BY <1>1, <1>4, OrderingHasAll DEF NamesOf
<1>6. Borrowed(group)' \/ \A e \in picked' : IsEntry(e)'
  BY <1>1, <1>2, <1>3, <1>4, SameViews
<1>7. NamesOf(picked)' = NamesOf(es)
  BY <1>1 DEF NamesOf
<1>8. RunsWhatWasPicked'
  BY <1>2 DEF RunsWhatWasPicked
<1> QED BY <1>2, <1>3, <1>5, <1>6, <1>7, <1>8 DEF MenuInv, Menus, Searches

LEMMA QuietSteps ==
  ASSUME MenuInv, Interrupt \/ Leave
  PROVE  MenuInv'
<1>1. /\ conf' = conf /\ via' = via /\ group' = group /\ picked' = picked /\ ran' = ran
      /\ phase' = "ended" /\ phase # "resolve"
  BY DEF Interrupt, Leave, End
<1> QED BY <1>1, EndsQuietly

-----------------------------------------------------------------------------
(* The searches.                                                           *)

LEMMA SearchKeeps ==
  ASSUME MenuInv, via \in Searches, conf' = conf, via' = via,
         \A e \in picked' : IsNode(e),
         phase' = "menu" => \A e \in offered' : IsNode(e),
         via = "dmenu search" => \A e, f \in picked' : e = f,
         via = "dmenu search" \/ phase' # "resolve",
         RunsWhatWasPicked'
  PROVE  MenuInv'
<1>1. \A e \in picked' : IsNode(e)'
  BY SameViews
<1>2. phase' = "menu" => \A e \in offered' : IsNode(e)'
  BY SameViews
<1>3. conf' \in Configured /\ via' \in Searches /\ via' \notin Menus
  BY DEF MenuInv, Menus, Searches
<1> QED BY <1>1, <1>2, <1>3 DEF MenuInv

(* Running the commands of the nodes that were picked.                     *)
LEMMA NodesRun ==
  ASSUME NEW Word, AreConfigured(Word), conf \in Configured, conf' = conf,
         \A e \in picked' : IsNode(e),
         ran' = Ids(UNION {NodeCommand(p) : p \in NamesOf(picked')})
  PROVE  RunsWhatWasPicked'
<1> SUFFICES ASSUME \A e \in picked' : Cardinality(Named(e.name)) <= 1
             PROVE  ran' = UNION {e.ids : e \in picked'}
  BY SameViews DEF RunsWhatWasPicked
<1>1. \A e \in picked' : e.ids = Ids(Named(e.name))
  BY DEF IsNode
<1> DEFINE es == picked'
<1>2. \A e \in es : e.ids = Ids(Named(e.name)) /\ Cardinality(Named(e.name)) <= 1
  BY <1>1
<1>3. ran' = Ids(UNION {NodeCommand(p) : p \in NamesOf(es)})
  OBVIOUS
<1> HIDE DEF es
<1>4. Ids(UNION {NodeCommand(p) : p \in NamesOf(es)}) = UNION {e.ids : e \in es}
  BY <1>2, NodesArePicked
<1> QED BY <1>3, <1>4 DEF es

(* The nodes below a node.                                                 *)
LEMMA NodesBelow ==
  /\ \A p : Children(p) \subseteq Paths
  /\ \A ps \in SUBSET Paths : \A e \in NodeEntries(ps) : IsNode(e)
<1>1. \A p : Children(p) \subseteq Paths
  BY DEF Children
<1>2. ASSUME NEW ps \in SUBSET Paths, NEW e \in NodeEntries(ps)
      PROVE  IsNode(e)
  <2>1. PICK p \in ps : e = [name |-> p, ids |-> Ids(Named(p))]
    BY DEF NodeEntries
  <2>2. e.name = p /\ e.ids = Ids(Named(p))
    BY <2>1
  <2> QED BY <2>2 DEF IsNode
<1> QED BY <1>1, <1>2

(* A visit runs the command of the node that was picked; of the root, or   *)
(* of an argument, nothing was.                                            *)
LEMMA VisitKeeps ==
  ASSUME NEW Word, AreConfigured(Word), MenuInv,
         via = "dmenu search", phase = "resolve",
         NEW p, picked = {} \/ \E e \in picked : e.name = p,
         Visit(p)
  PROVE  MenuInv'
<1>1. conf \in Configured /\ via \in Searches /\ via # "fuzzy search"
  BY DEF MenuInv, Searches
<1>2. /\ \A e \in picked : IsNode(e)
      /\ \A e, f \in picked : e = f
  BY <1>1 DEF MenuInv
<1>3. picked = {} \/ (NamesOf(picked) = {p} /\ p \in Paths)
  BY <1>2 DEF NamesOf, IsNode
<1>4. ASSUME p \in Paths, conf' = conf, via' = via, picked' = picked,
             ran' = Ids(NodeCommand(p)),
             phase' # "resolve", phase' = "menu" => offered' = NodeEntries(Children(p))
      PROVE  MenuInv'
  <2>1. RunsWhatWasPicked'
    <3>1. CASE picked = {}
      BY <1>4, <3>1 DEF RunsWhatWasPicked
    <3>2. CASE NamesOf(picked) = {p}
      <4>1. UNION {NodeCommand(q) : q \in {p}} = NodeCommand(p)
        OBVIOUS
      <4>2. NamesOf(picked') = {p}
        BY <1>4, <3>2
      <4>3. ran' = Ids(UNION {NodeCommand(q) : q \in NamesOf(picked')})
        BY <1>4, <4>1, <4>2
      <4> QED BY <1>1, <1>2, <1>4, <4>3, NodesRun
    <3> QED BY <1>3, <3>1, <3>2
  <2>2. phase' = "menu" => \A e \in offered' : IsNode(e)
    BY <1>4, NodesBelow
  <2> QED BY <1>1, <1>2, <1>4, <2>1, <2>2, SearchKeeps
<1>5. CASE p \notin Paths /\ Fail
  <2>1. picked = {}
    BY <1>3, <1>5
  <2> QED BY <1>5, <2>1, EndsQuietly DEF Fail, End
<1>6. CASE /\ p \in Paths /\ NodeCommand(p) # {} /\ Children(p) # {}
           /\ ran' = Ids(NodeCommand(p))
           /\ \/ End("error") /\ UNCHANGED offered
              \/ /\ phase' = "menu" /\ offered' = NodeEntries(Children(p))
                 /\ UNCHANGED <<conf, via, op, outcome>>
           /\ UNCHANGED <<group, picked>>
  <2>1. /\ p \in Paths /\ conf' = conf /\ via' = via /\ picked' = picked
        /\ ran' = Ids(NodeCommand(p))
    BY <1>6 DEF End
  <2>2. phase' # "resolve" /\ (phase' = "menu" => offered' = NodeEntries(Children(p)))
    BY <1>6 DEF End
  <2> QED BY <1>4, <2>1, <2>2
<1>7. CASE p \in Paths /\ RunAndEnd(NodeCommand(p))
  <2>1. /\ p \in Paths /\ conf' = conf /\ via' = via /\ picked' = picked
        /\ ran' = Ids(NodeCommand(p)) /\ phase' = "ended"
    BY <1>7 DEF RunAndEnd, End
  <2> QED BY <1>4, <2>1
<1>8. CASE p \in Paths /\ NodeCommand(p) = {} /\ Children(p) = {} /\ Fail
  BY <1>1, <1>8, NodesLead
<1>9. CASE /\ p \in Paths /\ NodeCommand(p) = {} /\ Children(p) # {}
           /\ phase' = "menu" /\ offered' = NodeEntries(Children(p))
           /\ ran' = {}
           /\ UNCHANGED <<conf, via, op, group, picked, outcome>>
  <2>1. ran' = Ids(NodeCommand(p))
    BY <1>9 DEF Ids
  <2>2. phase' # "resolve" /\ offered' = NodeEntries(Children(p))
    BY <1>9
  <2> QED BY <1>4, <1>9, <2>1, <2>2
<1> QED BY <1>5, <1>6, <1>7, <1>8, <1>9 DEF Visit

LEMMA DmenuSearchKeeps ==
  ASSUME NEW Word, AreConfigured(Word), MenuInv, DmenuSearch
  PROVE  MenuInv'
<1>1. via = "dmenu search" /\ phase = "resolve"
  BY DEF DmenuSearch
<1>2. CASE picked = {} /\ Fail
  BY <1>2, EndsQuietly DEF Fail, End
<1>3. CASE picked = {} /\ Visit(<<>>)
  BY <1>1, <1>3, VisitKeeps
<1>4. CASE picked = {} /\ Visit(op[1])
  BY <1>1, <1>4, VisitKeeps
<1>5. ASSUME NEW e \in picked, Visit(e.name)
      PROVE  MenuInv'
  <2> DEFINE p == e.name
  <2>1. Visit(p) /\ \E f \in picked : f.name = p
    BY <1>5
  <2> HIDE DEF p
  <2> QED BY <1>1, <2>1, VisitKeeps
<1> QED BY <1>2, <1>3, <1>4, <1>5 DEF DmenuSearch

LEMMA PickChildKeeps ==
  ASSUME MenuInv, PickChild
  PROVE  MenuInv'
<1>1. PICK e \in offered : picked' = {e}
  BY DEF PickChild
<1>2. /\ via = "dmenu search" /\ phase = "menu" /\ phase' = "resolve"
      /\ conf' = conf /\ via' = via
  BY DEF PickChild
<1>3. IsNode(e) /\ via \in Searches
  BY <1>2 DEF MenuInv, Searches
<1>4. RunsWhatWasPicked'
  BY <1>2 DEF RunsWhatWasPicked
<1>5. \A f \in picked' : IsNode(f)
  BY <1>1, <1>3
<1>6. \A f, g \in picked' : f = g
  BY <1>1
<1> QED BY <1>2, <1>3, <1>4, <1>5, <1>6, SearchKeeps

LEMMA FuzzySearchKeeps ==
  ASSUME MenuInv, FuzzySearch
  PROVE  MenuInv'
<1>1. via = "fuzzy search" /\ phase = "resolve" /\ picked = {} /\ via \in Searches
  BY DEF FuzzySearch, MenuInv, Searches
<1>2. CASE Fail
  BY <1>1, <1>2, EndsQuietly DEF Fail, End
<1>3. CASE Offer(<<>>, NodeEntries(Children(<<>>)))
  <2>1. /\ phase' = "menu" /\ offered' = NodeEntries(Children(<<>>))
        /\ conf' = conf /\ via' = via /\ picked' = {}
    BY <1>1, <1>3 DEF Offer
  <2>2. \A e \in offered' : IsNode(e)
    BY <2>1, NodesBelow
  <2>3. RunsWhatWasPicked'
    BY <2>1 DEF RunsWhatWasPicked
  <2> QED BY <1>1, <2>1, <2>2, <2>3, SearchKeeps
<1> QED BY <1>2, <1>3 DEF FuzzySearch

LEMMA FuzzyPickKeeps ==
  ASSUME NEW Word, AreConfigured(Word), MenuInv, FuzzyPick
  PROVE  MenuInv'
<1> DEFINE Below(es) == UNION {Children(p) : p \in NamesOf(es)}
<1>1. PICK es \in Selectable(offered) :
        /\ picked' = es
        /\ ran' = Ids(UNION {NodeCommand(p) : p \in NamesOf(es)})
        /\ \/ End("error")
           \/ End("done")
           \/ /\ \E s \in OnePerWord(Below(es)) : offered' = NodeEntries(s)
              /\ UNCHANGED <<conf, via, op, phase, outcome>>
  BY DEF FuzzyPick, NamesOf
<1>2. via = "fuzzy search" /\ phase = "menu" /\ via \in Searches /\ conf \in Configured
  BY DEF FuzzyPick, Searches, MenuInv
<1>3. conf' = conf /\ via' = via /\ phase' # "resolve"
  BY <1>1, <1>2 DEF End
<1>4. es \subseteq offered
  BY DEF Selectable, kSubset
<1>5. \A e \in picked' : IsNode(e)
  BY <1>1, <1>2, <1>4 DEF MenuInv
<1>6. phase' = "menu" => \A e \in offered' : IsNode(e)
  <2> SUFFICES ASSUME phase' = "menu" PROVE \A e \in offered' : IsNode(e)
    OBVIOUS
  <2>1. PICK s \in OnePerWord(Below(es)) : offered' = NodeEntries(s)
    BY <1>1 DEF End
  <2>2. s \subseteq Below(es)
    BY DEF OnePerWord
  <2>3. Below(es) \subseteq Paths
    BY NodesBelow
  <2> QED BY <2>1, <2>2, <2>3, NodesBelow
<1>7. RunsWhatWasPicked'
  <2>1. ran' = Ids(UNION {NodeCommand(p) : p \in NamesOf(picked')})
    BY <1>1
  <2> QED BY <1>2, <1>3, <1>5, <2>1, NodesRun
<1> QED BY <1>2, <1>3, <1>5, <1>6, <1>7, SearchKeeps

-----------------------------------------------------------------------------
(* The other operations pick nothing.                                      *)
LEMMA OthersKeep ==
  ASSUME MenuInv,
         Run \/ SearchMenu \/ Search \/ List \/ ListInfo \/ ListPlain \/ Exec
  PROVE  MenuInv'
<1>1. CASE Run
  BY <1>1, NothingPicked DEF Run, RunAndEnd, Fail, End, Menus, Searches
<1>2. CASE SearchMenu
  BY <1>2, NothingPicked DEF SearchMenu, RunAndEnd, Show, Fail, End, Menus, Searches
<1>3. CASE Search
  BY <1>3, NothingPicked DEF Search, RunAndEnd, Show, Fail, End, Menus, Searches
<1>4. CASE List
  BY <1>4, NothingPicked DEF List, Show, End, Menus, Searches
<1>5. CASE ListInfo
  BY <1>5, NothingPicked DEF ListInfo, Show, End, Menus, Searches
<1>6. CASE ListPlain
  BY <1>6, NothingPicked DEF ListPlain, Fail, End, Menus, Searches
<1>7. CASE Exec
  BY <1>7, NothingPicked DEF Exec, End, Menus, Searches
<1> QED BY <1>1, <1>2, <1>3, <1>4, <1>5, <1>6, <1>7

LEMMA NextKeeps ==
  ASSUME NEW Word, AreConfigured(Word), MenuInv, [Next]_vars
  PROVE  MenuInv'
<1>1. CASE DMenu \/ Fuzzy
  BY <1>1, MenuStep
<1>2. CASE Interrupt \/ Leave
  BY <1>2, QuietSteps
<1>3. CASE Pick
  BY <1>3, PickKeeps
<1>4. CASE DmenuSearch
  BY <1>4, DmenuSearchKeeps
<1>5. CASE PickChild
  BY <1>5, PickChildKeeps
<1>6. CASE FuzzySearch
  BY <1>6, FuzzySearchKeeps
<1>7. CASE FuzzyPick
  BY <1>7, FuzzyPickKeeps
<1>8. CASE Run \/ SearchMenu \/ Search \/ List \/ ListInfo \/ ListPlain \/ Exec
  BY <1>8, OthersKeep
<1>9. CASE UNCHANGED vars
  <2>1. /\ conf' = conf /\ via' = via /\ op' = op /\ phase' = phase /\ group' = group
        /\ offered' = offered /\ picked' = picked /\ ran' = ran
    BY <1>9 DEF vars
  <2>2. RunsWhatWasPicked'
    BY <2>1, SameViews DEF MenuInv, RunsWhatWasPicked
  <2>3. Borrowed(group)' <=> Borrowed(group)
    BY <2>1, SameViews
  <2>4. /\ \A e : IsEntry(e)' <=> IsEntry(e)
        /\ \A e : IsNode(e)' <=> IsNode(e)
    BY <2>1, SameViews
  <2>5. NamesOf(picked)' = NamesOf(picked)
    BY <2>1 DEF NamesOf
  <2> QED BY <2>1, <2>2, <2>3, <2>4, <2>5 DEF MenuInv
<1> QED BY <1>1, <1>2, <1>3, <1>4, <1>5, <1>6, <1>7, <1>8, <1>9 DEF Next

LEMMA InitKeeps == Init => MenuInv
BY DEF Init, MenuInv, Menus, Searches, RunsWhatWasPicked

(* What a menu or the tree offers stands for what it is called, and what   *)
(* is resolved is what was picked (offerings and selections of             *)
(* operations/menu.go).                                                    *)
THEOREM MenusInvariant ==
  ASSUME NEW Word, AreConfigured(Word)
  PROVE  Spec => []MenuInv
<1>1. Init => MenuInv
  BY InitKeeps
<1>2. MenuInv /\ [Next]_vars => MenuInv'
  BY NextKeeps
<1> QED BY <1>1, <1>2, PTL DEF Spec

(* Nothing is run that was not picked, and all that was picked is run, in  *)
(* menus (dmenuCommand, fuzzy) and in the tree (dmenuSearch, fuzzySearch), *)
(* for whatever is configured.                                             *)
THEOREM RunsOnlyWhatWasPicked ==
  ASSUME NEW Word, AreConfigured(Word)
  PROVE  Spec => []RunsWhatWasPicked
<1>1. MenuInv => RunsWhatWasPicked
  BY DEF MenuInv
<1> QED BY <1>1, MenusInvariant, PTL

(* Every entry of a menu can be picked: its name is resolved to a command, *)
(* or to a menu that has entries.                                          *)
THEOREM EntriesLeadOn ==
  ASSUME NEW Word, AreConfigured(Word)
  PROVE  Spec => []EveryEntryLeads
<1>1. MenuInv => EveryEntryLeads
  <2> SUFFICES ASSUME MenuInv, phase = "menu", via \in Menus, ~Borrowed(group),
                      NEW e \in offered
               PROVE  LET r == ResolveCommands(<<e.name>>)
                      IN  \/ r.kind = "run"
                          \/ r.kind = "menu" /\ r.entries # {}
                          \/ e.name \in GroupKeys /\ GroupAt(e.name).cmds = <<>>
    BY DEF EveryEntryLeads, Menus
  <2> DEFINE n == e.name
             r == ResolveCommands(<<n>>)
  <2>1. conf \in Configured /\ IsEntry(e)
    BY DEF MenuInv
  <2>2. n \in GroupKeys \/ Named(n) # {}
    BY <2>1 DEF IsEntry
  <2>3. r = ResolveCommands(<<n>>)
    OBVIOUS
  <2> HIDE DEF n, r
  <2>4. \/ r.kind = "run"
        \/ r.kind = "menu" /\ r.entries # {}
        \/ n \in GroupKeys /\ GroupAt(n).cmds = <<>>
    BY <2>1, <2>2, <2>3, EntriesLead
  <2> QED BY <2>4 DEF n, r
<1> QED BY <1>1, MenusInvariant, PTL

=============================================================================
