--------------------------- MODULE DmsPageProofs ---------------------------
(***************************************************************************)
(* Facts about the operations of a data page, proved for every page size   *)
(* and every record size: insert, remove and _recoverSpace keep a page     *)
(* formatted, and spoil no record.                                         *)
(***************************************************************************)
EXTENDS DmsPage, FiniteSetTheorems, SequenceTheorems, WellFoundedInduction, TLAPS

(***************************************************************************)
(* Sums.  freeSpace is what the sizes of a page's records leave, and the   *)
(* models write such a sum as a fold of the community modules.  Induction  *)
(* is by a set of numbers: the provers cannot take a predicate.            *)
(***************************************************************************)
\* A set of naturals has a least element.
LEMMA NatMin ==
  ASSUME NEW T, T \subseteq Nat, T # {}
  PROVE  \E x \in T : \A y \in T : x <= y
<1> DEFINE R == {ss \in Nat \X Nat : ss[1] < ss[2]}
<1>1. IsWellFoundedOn(R, Nat)
  <2>1. IsWellFoundedOn(OpToRel(<, Nat), Nat)
    BY NatLessThanWellFounded, Zenon
  <2>2. OpToRel(<, Nat) = R
    BY Zenon DEF OpToRel
  <2> QED
    BY <2>1, <2>2
<1> HIDE DEF R
<1>2. PICK x \in T : \A y \in T : <<y, x>> \notin R
  BY <1>1, WFMin
<1>3. ASSUME NEW y \in T PROVE x <= y
  <2>1. <<y, x>> \in Nat \X Nat /\ <<y, x>> \notin R
    BY <1>2
  <2> QED
    BY <2>1 DEF R
<1> QED
  BY <1>3

\* Induction, for a set instead of a predicate.
LEMMA NatInd ==
  ASSUME NEW S, 0 \in S, \A n \in Nat : n \in S => n + 1 \in S
  PROVE  \A n \in Nat : n \in S
<1> SUFFICES ASSUME ~(\A n \in Nat : n \in S) PROVE FALSE
  OBVIOUS
<1> DEFINE T == Nat \ S
<1>1. PICK x \in T : \A y \in T : x <= y
  <2>1. T \subseteq Nat /\ T # {}
    OBVIOUS
  <2> HIDE DEF T
  <2> QED
    BY <2>1, NatMin
<1>2. x # 0 /\ x \in Nat
  OBVIOUS
<1>3. x - 1 \in Nat /\ x - 1 \in S
  BY <1>1, <1>2
<1> QED
  BY <1>2, <1>3

\* Taking the chosen element off a finite set makes it smaller: the loop over the records ends.
LEMMA SmallerSet ==
  ASSUME NEW s, IsFiniteSet(s), s # {}, NEW n \in Nat, Cardinality(s) <= n + 1
  PROVE  LET x == CHOOSE x \in s : TRUE
         IN  x \in s /\ IsFiniteSet(s \ {x}) /\ Cardinality(s \ {x}) <= n
<1> DEFINE x == CHOOSE x \in s : TRUE
<1>1. x \in s
  OBVIOUS
<1> HIDE DEF x
<1>2. Cardinality(s) \in Nat
  BY FS_CardinalityType
<1>3. IsFiniteSet(s \ {x}) /\ Cardinality(s \ {x}) = Cardinality(s) - 1
  BY <1>1, FS_RemoveElement
<1> QED
  BY <1>1, <1>2, <1>3 DEF x

\* The sum of the values of f, as DmsPage and DmsFile write it.
Total(f) == FoldFunction(+, 0, f)
Part(f, S) == [x \in S |-> f[x]]
\* What g has for s is what it is defined to be by what g has for a smaller set.
SumStep(f, g, s) == g[s] = IF s = {} THEN 0
                           ELSE LET x == CHOOSE x \in s : TRUE IN f[x] + g[s \ {x}]

\* g is the table of the sums of f over the subsets of S.
Table(f, g, S) == g = [s \in SUBSET S |-> IF s = {} THEN 0
                         ELSE LET x == CHOOSE x \in s : TRUE IN f[x] + g[s \ {x}]]

\* The function a sum is defined by exists, for any summands and any finite set.
LEMMA SumExists ==
  ASSUME NEW f, NEW S, IsFiniteSet(S)
  PROVE  \E g : Table(f, g, S)
<1> DEFINE Good(k, g) == \A s \in SUBSET S : Cardinality(s) <= k => SumStep(f, g, s)
           K == {k \in Nat : \E g : Good(k, g)}
<1>0. \A s \in SUBSET S : IsFiniteSet(s) /\ Cardinality(s) \in Nat
  BY FS_Subset, FS_CardinalityType
<1>1. 0 \in K
  <2> DEFINE g == [s \in SUBSET S |-> 0]
  <2>1. ASSUME NEW s \in SUBSET S, Cardinality(s) <= 0 PROVE SumStep(f, g, s)
    <3>1. s = {}
      BY <1>0, <2>1, FS_EmptySet
    <3> QED
      BY <3>1 DEF SumStep
  <2> QED
    BY <2>1
<1>2. ASSUME NEW k \in Nat, k \in K PROVE k + 1 \in K
  <2>1. PICK g : Good(k, g)
    BY <1>2
  <2> DEFINE G(s) == IF s = {} THEN 0 ELSE LET x == CHOOSE x \in s : TRUE IN f[x] + g[s \ {x}]
             h == [s \in SUBSET S |-> IF Cardinality(s) <= k THEN g[s] ELSE G(s)]
  <2>2. ASSUME NEW s \in SUBSET S, Cardinality(s) <= k + 1 PROVE SumStep(f, h, s)
    <3>1. h[s] = G(s)
      <4>1. CASE Cardinality(s) <= k
        BY <2>1, <4>1 DEF SumStep
      <4>2. CASE ~(Cardinality(s) <= k)
        BY <4>2
      <4> QED
        BY <4>1, <4>2
    <3>2. CASE s = {}
      BY <3>1, <3>2 DEF SumStep
    <3>3. CASE s # {}
      <4> DEFINE x == CHOOSE x \in s : TRUE
      <4>1. Cardinality(s \ {x}) <= k
        BY <1>0, <2>2, <3>3, SmallerSet
      <4>2. h[s] = f[x] + g[s \ {x}]
        BY <3>1, <3>3
      <4> HIDE DEF x
      <4>3. h[s \ {x}] = g[s \ {x}]
        BY <4>1
      <4> HIDE DEF h
      <4>4. h[s] = f[x] + h[s \ {x}]
        BY <4>2, <4>3
      <4> QED
        BY <3>3, <4>4 DEF SumStep, x
    <3> QED
      BY <3>2, <3>3
  <2>3. Good(k + 1, h)
    BY <2>2
  <2> HIDE DEF h, Good
  <2> QED
    BY <2>3, <1>2
<1>3. Cardinality(S) \in K
  <2> HIDE DEF K
  <2> QED
    BY <1>0, <1>1, <1>2, NatInd
<1>4. PICK g : Good(Cardinality(S), g)
  BY <1>3
<1> DEFINE w == [s \in SUBSET S |-> g[s]]
<1>5. ASSUME NEW s \in SUBSET S
      PROVE  w[s] = IF s = {} THEN 0 ELSE LET x == CHOOSE x \in s : TRUE IN f[x] + w[s \ {x}]
  <2>1. Cardinality(s) <= Cardinality(S)
    BY FS_Subset
  <2>2. SumStep(f, g, s)
    BY <1>4, <2>1
  <2>3. w[s] = g[s] /\ \A x \in s : w[s \ {x}] = g[s \ {x}]
    OBVIOUS
  <2> HIDE DEF w
  <2>4. CASE s = {}
    BY <2>2, <2>3, <2>4 DEF SumStep
  <2>5. CASE s # {}
    <3> DEFINE x == CHOOSE x \in s : TRUE
    <3>1. x \in s
      BY <2>5
    <3>2. g[s] = f[x] + g[s \ {x}]
      BY <2>2, <2>5 DEF SumStep
    <3> HIDE DEF x
    <3>3. w[s] = f[x] + w[s \ {x}]
      BY <2>3, <3>1, <3>2
    <3> QED
      BY <2>5, <3>3 DEF x
  <2> QED
    BY <2>4, <2>5
<1>6. w = [s \in SUBSET S |-> w[s]]
  OBVIOUS
<1> DEFINE H(v, s) == IF s = {} THEN 0 ELSE LET x == CHOOSE x \in s : TRUE IN f[x] + v[s \ {x}]
<1>7. \A s \in SUBSET S : w[s] = H(w, s)
  BY <1>5
<1> HIDE DEF w, H
<1>8. w = [s \in SUBSET S |-> H(w, s)]
  BY <1>6, <1>7
<1>9. Table(f, w, S)
  BY <1>8 DEF H, Table
<1> QED
  BY <1>9

\* The equation that defines it holds at every set.
LEMMA TableStep ==
  ASSUME NEW f, NEW g, NEW S, Table(f, g, S), NEW s \in SUBSET S
  PROVE  SumStep(f, g, s)
<1> DEFINE H(v, u) == IF u = {} THEN 0 ELSE LET x == CHOOSE x \in u : TRUE IN f[x] + v[u \ {x}]
<1>1. g = [u \in SUBSET S |-> H(g, u)]
  BY DEF Table
<1> HIDE DEF H
<1>2. g[s] = H(g, s)
  BY <1>1
<1> QED
  BY <1>2 DEF H, SumStep

\* The fold of the community modules is the value of that function.
LEMMA TotalTable ==
  ASSUME NEW f, IsFiniteSet(DOMAIN f)
  PROVE  \E g : Table(f, g, DOMAIN f) /\ Total(f) = g[DOMAIN f]
<1> DEFINE H(v, u) == IF u = {} THEN 0 ELSE LET x == CHOOSE x \in u : TRUE IN f[x] + v[u \ {x}]
           D == DOMAIN f
           F(v) == [s \in SUBSET D |-> H(v, s)]
           it == CHOOSE v : v = F(v)
<1>1. Total(f) = it[D]
  BY DEF Total, FoldFunction, FoldFunctionOnSet, MapThenFoldSet
<1>2. \E v : v = F(v)
  <2>1. PICK v : Table(f, v, D)
    BY SumExists
  <2> QED
    BY <2>1 DEF Table
<1> HIDE DEF F
<1>3. it = F(it)
  BY <1>2, Zenon
<1> USE DEF F
<1>4. Table(f, it, D)
  <2> HIDE DEF it
  <2> QED
    BY <1>3 DEF Table
<1> HIDE DEF it
<1> QED
  BY <1>1, <1>4

\* Summands that agree on a set have the same sum there.
LEMMA SumUnique ==
  ASSUME NEW S, IsFiniteSet(S), NEW f, NEW g, NEW e, NEW h,
         Table(f, g, S), NEW T, Table(e, h, T), S \subseteq T, \A x \in S : f[x] = e[x]
  PROVE  g[S] = h[S]
<1> DEFINE K == {k \in Nat : \A s \in SUBSET S : Cardinality(s) <= k => g[s] = h[s]}
<1>0. \A s \in SUBSET S : IsFiniteSet(s) /\ Cardinality(s) \in Nat
  BY FS_Subset, FS_CardinalityType
<1>1. 0 \in K
  <2>1. ASSUME NEW s \in SUBSET S, Cardinality(s) <= 0 PROVE g[s] = h[s]
    <3>1. s = {}
      BY <1>0, <2>1, FS_EmptySet
    <3>2. SumStep(f, g, s) /\ SumStep(e, h, s)
      BY TableStep
    <3> QED
      BY <3>1, <3>2 DEF SumStep
  <2> QED
    BY <2>1
<1>2. ASSUME NEW k \in Nat, k \in K PROVE k + 1 \in K
  <2>1. ASSUME NEW s \in SUBSET S, Cardinality(s) <= k + 1 PROVE g[s] = h[s]
    <3>2. SumStep(f, g, s) /\ SumStep(e, h, s)
      BY TableStep
    <3>3. CASE s = {}
      BY <3>2, <3>3 DEF SumStep
    <3>4. CASE s # {}
      <4> DEFINE x == CHOOSE x \in s : TRUE
      <4>1. x \in s /\ Cardinality(s \ {x}) <= k
        BY <1>0, <2>1, <3>4, SmallerSet
      <4>2. g[s] = f[x] + g[s \ {x}] /\ h[s] = e[x] + h[s \ {x}]
        BY <3>2, <3>4 DEF SumStep
      <4> HIDE DEF x
      <4> QED
        BY <1>2, <4>1, <4>2
    <3> QED
      BY <3>3, <3>4
  <2> QED
    BY <2>1
<1>3. Cardinality(S) \in K
  <2> HIDE DEF K
  <2> QED
    BY <1>0, <1>1, <1>2, NatInd
<1> QED
  BY <1>0, <1>3

\* A sum is the summand that is chosen first, and the sum of the others.
LEMMA TotalFirst ==
  ASSUME NEW f, IsFiniteSet(DOMAIN f)
  PROVE  /\ DOMAIN f = {} => Total(f) = 0
         /\ DOMAIN f # {} => LET x == CHOOSE x \in DOMAIN f : TRUE
                             IN  Total(f) = f[x] + Total(Part(f, DOMAIN f \ {x}))
<1> DEFINE D == DOMAIN f
<1>1. PICK g : Table(f, g, D) /\ Total(f) = g[D]
  BY TotalTable
<1>2. SumStep(f, g, D)
  BY <1>1, TableStep
<1>3. CASE D = {}
  BY <1>1, <1>2, <1>3 DEF SumStep
<1>4. CASE D # {}
  <2> DEFINE x == CHOOSE x \in D : TRUE
             E == D \ {x}
             e == Part(f, E)
  <2>1. g[D] = f[x] + g[E]
    BY <1>2, <1>4 DEF SumStep
  <2> HIDE DEF x
  <2>2. IsFiniteSet(E)
    BY FS_Subset
  <2>3. DOMAIN e = E /\ \A y \in E : e[y] = f[y]
    BY DEF Part
  <2> HIDE DEF E, e
  <2>4. PICK h : Table(e, h, E) /\ Total(e) = h[E]
    BY <2>2, <2>3, TotalTable
  <2>5. E \subseteq D
    BY DEF E
  <2>6. h[E] = g[E]
    BY <1>1, <2>2, <2>3, <2>4, <2>5, SumUnique
  <2> QED
    BY <1>1, <1>4, <2>1, <2>4, <2>6 DEF x, E, e
<1> QED
  BY <1>3, <1>4

\* f is a sum to be: finitely many naturals.
Summands(f) == IsFiniteSet(DOMAIN f) /\ f \in [DOMAIN f -> Nat]

\* A set of no more than zero elements is empty.
LEMMA NoElements ==
  ASSUME NEW S, IsFiniteSet(S), Cardinality(S) <= 0 PROVE S = {} /\ Cardinality(S) = 0
<1>1. Cardinality(S) \in Nat
  BY FS_CardinalityType
<1>2. Cardinality(S) = 0
  BY <1>1
<1> QED
  BY <1>2, FS_EmptySet

\* What is left of the summands without one of them.
LEMMA PartIs ==
  ASSUME NEW f, Summands(f), NEW x \in DOMAIN f
  PROVE  LET r == Part(f, DOMAIN f \ {x})
         IN  /\ Summands(r) /\ DOMAIN r = DOMAIN f \ {x}
             /\ \A k \in Nat : Cardinality(DOMAIN f) <= k + 1 => Cardinality(DOMAIN r) <= k
<1> DEFINE r == Part(f, DOMAIN f \ {x})
<1>1. DOMAIN r = DOMAIN f \ {x} /\ \A y \in DOMAIN r : r[y] = f[y]
  BY DEF Part
<1>2. IsFiniteSet(DOMAIN f \ {x})
  BY FS_Subset DEF Summands
<1>3. Summands(r)
  BY <1>1, <1>2 DEF Summands, Part
<1>4. Cardinality(DOMAIN f) \in Nat /\ Cardinality(DOMAIN f \ {x}) = Cardinality(DOMAIN f) - 1
  BY FS_RemoveElement, FS_CardinalityType DEF Summands
<1> HIDE DEF r
<1>5. \A k \in Nat : Cardinality(DOMAIN f) <= k + 1 => Cardinality(DOMAIN r) <= k
  BY <1>1, <1>4
<1> QED
  BY <1>1, <1>3, <1>5 DEF r

\* A sum of naturals is one: the records of a page take a number of bytes.
LEMMA TotalNat ==
  ASSUME NEW f, Summands(f) PROVE Total(f) \in Nat
<1> DEFINE K == {k \in Nat : \A h : Summands(h) /\ Cardinality(DOMAIN h) <= k => Total(h) \in Nat}
<1>1. 0 \in K
  <2>1. ASSUME NEW h, Summands(h), Cardinality(DOMAIN h) <= 0 PROVE Total(h) \in Nat
    <3>1. DOMAIN h = {}
      BY <2>1, NoElements DEF Summands
    <3>2. IsFiniteSet(DOMAIN h)
      BY <2>1 DEF Summands
    <3>3. Total(h) = 0
      BY <3>1, <3>2, TotalFirst
    <3> QED
      BY <3>3
  <2> QED
    BY <2>1
<1>2. ASSUME NEW k \in Nat, k \in K PROVE k + 1 \in K
  <2>1. ASSUME NEW h, Summands(h), Cardinality(DOMAIN h) <= k + 1 PROVE Total(h) \in Nat
    <3>1. CASE DOMAIN h = {}
      <4>1. IsFiniteSet(DOMAIN h)
        BY <2>1 DEF Summands
      <4>2. Total(h) = 0
        BY <3>1, <4>1, TotalFirst
      <4> QED
        BY <4>2
    <3>2. CASE DOMAIN h # {}
      <4> DEFINE x == CHOOSE x \in DOMAIN h : TRUE
                 r == Part(h, DOMAIN h \ {x})
      <4>1. x \in DOMAIN h
        BY <3>2
      <4>2. Total(h) = h[x] + Total(r)
        BY <2>1, <3>2, TotalFirst DEF Summands
      <4> HIDE DEF x
      <4>3. Summands(r) /\ Cardinality(DOMAIN r) <= k
        BY <2>1, <4>1, PartIs
      <4> HIDE DEF r
      <4>4. Total(r) \in Nat
        BY <1>2, <4>3
      <4>5. h[x] \in Nat
        BY <2>1, <4>1 DEF Summands
      <4> QED
        BY <4>2, <4>4, <4>5
    <3> QED
      BY <3>1, <3>2
  <2> QED
    BY <2>1
<1>3. Cardinality(DOMAIN f) \in Nat /\ Cardinality(DOMAIN f) \in K
  <2>1. Cardinality(DOMAIN f) \in Nat
    BY FS_CardinalityType DEF Summands
  <2> HIDE DEF K
  <2> QED
    BY <1>1, <1>2, <2>1, NatInd
<1> QED
  BY <1>3

\* It does not matter which summand is added last.
LEMMA TotalRemove ==
  ASSUME NEW f, Summands(f), NEW x \in DOMAIN f
  PROVE  Total(f) = f[x] + Total(Part(f, DOMAIN f \ {x}))
<1> DEFINE Same(h) == \A y \in DOMAIN h : Total(h) = h[y] + Total(Part(h, DOMAIN h \ {y}))
           K == {k \in Nat : \A h : Summands(h) /\ Cardinality(DOMAIN h) <= k => Same(h)}
<1>1. 0 \in K
  <2>1. ASSUME NEW h, Summands(h), Cardinality(DOMAIN h) <= 0 PROVE Same(h)
    <3>1. DOMAIN h = {}
      BY <2>1, NoElements DEF Summands
    <3> QED
      BY <3>1
  <2> HIDE DEF Same
  <2> QED
    BY <2>1
<1>2. ASSUME NEW k \in Nat, k \in K PROVE k + 1 \in K
  <2>1. ASSUME NEW h, Summands(h), Cardinality(DOMAIN h) <= k + 1, NEW y \in DOMAIN h
        PROVE  Total(h) = h[y] + Total(Part(h, DOMAIN h \ {y}))
    <3> DEFINE x0 == CHOOSE z \in DOMAIN h : TRUE
    <3>1. x0 \in DOMAIN h
      OBVIOUS
    <3>2. Total(h) = h[x0] + Total(Part(h, DOMAIN h \ {x0}))
      BY <2>1, TotalFirst DEF Summands
    <3> HIDE DEF x0
    <3>3. CASE x0 = y
      BY <3>2, <3>3
    <3>4. CASE x0 # y
      <4> DEFINE a == Part(h, DOMAIN h \ {x0})
                 b == Part(h, DOMAIN h \ {y})
                 c == Part(h, (DOMAIN h \ {x0}) \ {y})
      <4>1. /\ Summands(a) /\ DOMAIN a = DOMAIN h \ {x0} /\ Cardinality(DOMAIN a) <= k
            /\ Summands(b) /\ DOMAIN b = DOMAIN h \ {y} /\ Cardinality(DOMAIN b) <= k
        BY <2>1, <3>1, PartIs
      <4>2. a[y] = h[y] /\ b[x0] = h[x0]
        BY <3>1, <3>4 DEF Part
      <4>3. Part(a, DOMAIN a \ {y}) = c
        BY <4>1 DEF Part
      <4>4. Part(b, DOMAIN b \ {x0}) = c
        <5>1. (DOMAIN h \ {y}) \ {x0} = (DOMAIN h \ {x0}) \ {y}
          OBVIOUS
        <5> QED
          BY <4>1, <5>1 DEF Part
      <4>5. Summands(c)
        BY <3>4, <4>1, <4>3, PartIs
      <4> HIDE DEF a, b, c
      <4>6. Total(a) = h[y] + Total(c)
        BY <1>2, <3>4, <4>1, <4>2, <4>3
      <4>7. Total(b) = h[x0] + Total(c)
        BY <1>2, <3>1, <3>4, <4>1, <4>2, <4>4
      <4>8. Total(c) \in Nat /\ h[x0] \in Nat /\ h[y] \in Nat
        BY <2>1, <3>1, <4>5, TotalNat DEF Summands
      <4>9. Total(h) = h[x0] + Total(a)
        BY <3>2 DEF a
      <4>10. Total(h) = h[y] + Total(b)
        BY <4>6, <4>7, <4>8, <4>9
      <4> QED
        BY <4>10 DEF b
    <3> QED
      BY <3>3, <3>4
  <2> QED
    BY <2>1
<1>3. Cardinality(DOMAIN f) \in Nat /\ Cardinality(DOMAIN f) \in K
  <2>1. Cardinality(DOMAIN f) \in Nat
    BY FS_CardinalityType DEF Summands
  <2> HIDE DEF K
  <2> QED
    BY <1>1, <1>2, <2>1, NatInd
<1> QED
  BY <1>3

\* A sum of ones counts.
LEMMA TotalOnes ==
  ASSUME NEW S, IsFiniteSet(S) PROVE Total([x \in S |-> 1]) = Cardinality(S)
<1> DEFINE K == {k \in Nat : \A T : IsFiniteSet(T) /\ Cardinality(T) <= k
                                      => Total([x \in T |-> 1]) = Cardinality(T)}
<1>1. 0 \in K
  <2>1. ASSUME NEW T, IsFiniteSet(T), Cardinality(T) <= 0
        PROVE  Total([x \in T |-> 1]) = Cardinality(T)
    <3>1. T = {} /\ Cardinality(T) = 0
      BY <2>1, NoElements
    <3> DEFINE f == [x \in T |-> 1]
    <3>2. DOMAIN f = T
      OBVIOUS
    <3> HIDE DEF f
    <3>3. Total(f) = 0
      BY <2>1, <3>1, <3>2, TotalFirst
    <3> QED
      BY <3>1, <3>3 DEF f
  <2> QED
    BY <2>1
<1>2. ASSUME NEW k \in Nat, k \in K PROVE k + 1 \in K
  <2>1. ASSUME NEW T, IsFiniteSet(T), Cardinality(T) <= k + 1
        PROVE  Total([x \in T |-> 1]) = Cardinality(T)
    <3> DEFINE f == [x \in T |-> 1]
    <3>1. CASE T = {}
      <4>1. Cardinality(T) <= 0
        BY <3>1, FS_EmptySet
      <4> HIDE DEF f
      <4> QED
        BY <1>1, <2>1, <4>1
    <3>2. CASE T # {}
      <4>1. PICK y : y \in T
        BY <3>2
      <4>2. Summands(f) /\ DOMAIN f = T /\ f[y] = 1
        BY <2>1, <4>1 DEF Summands
      <4>3. Part(f, T \ {y}) = [x \in T \ {y} |-> 1]
        BY DEF Part
      <4> HIDE DEF f
      <4>4. Total(f) = 1 + Total([x \in T \ {y} |-> 1])
        BY <4>1, <4>2, <4>3, TotalRemove
      <4>5. IsFiniteSet(T \ {y}) /\ Cardinality(T \ {y}) = Cardinality(T) - 1 /\ Cardinality(T) \in Nat
        BY <2>1, <4>1, FS_RemoveElement, FS_CardinalityType
      <4>6. Total([x \in T \ {y} |-> 1]) = Cardinality(T \ {y})
        BY <1>2, <2>1, <4>5
      <4> QED
        BY <4>4, <4>5, <4>6 DEF f
    <3> QED
      BY <3>1, <3>2
  <2> QED
    BY <2>1
<1>3. Cardinality(S) \in Nat /\ Cardinality(S) \in K
  <2>1. Cardinality(S) \in Nat
    BY FS_CardinalityType
  <2> HIDE DEF K
  <2> QED
    BY <1>1, <1>2, <2>1, NatInd
<1> QED
  BY <1>3

-----------------------------------------------------------------------------
(***************************************************************************)
(* Formatted pages, and insert and remove on them.                         *)
(***************************************************************************)
\* Slots and pages; no body is Garbage: no record is spoiled.
SlotT == [off : Int, size : Nat, body : Body \cup {Empty}]
PageT == [valid : BOOLEAN, slot : Seq(SlotT), slotOffset : Int, freeSpace : Int, freeOffset : Int]

\* The sizes of the records in the slots.
Sizes(slot) == [i \in {i \in DOMAIN slot : slot[i] # EmptySlot} |-> slot[i].size]
\* Where the record in slot i begins, and the end of the page for slot 0.
Offset(pg, i) == IF i = 0 THEN PageSize ELSE pg.slot[i].off
\* No slot up to the i-th is empty.
Full(pg, i) == \A j \in 1..i : pg.slot[j] # EmptySlot
\* As long as no record was removed the records lie against each other.  _recoverSpace
\* relies on it: it leaves the records before the first empty slot where they are.
Packed(pg) ==
  /\ \A i \in DOMAIN pg.slot : Full(pg, i) => pg.slot[i].off + pg.slot[i].size = Offset(pg, i - 1)
  /\ Full(pg, NumSlots(pg)) => pg.freeOffset = Offset(pg, NumSlots(pg))

\* A page with its header and its records as insert, remove and _recoverSpace leave them:
\* the induction hypothesis about a page.
Formatted(pg) ==
  /\ pg \in PageT /\ pg.valid
  /\ \A i \in Live(pg) : pg.slot[i].size > RecordHeaderSize /\ pg.slot[i].body \in Body
  /\ pg.freeOffset + RecordHeaderSize * NumSlots(pg) <= PageSize
  /\ pg.freeSpace >= Gap(pg)
  /\ PageAccounts(pg) /\ RecordsApart(pg) /\ Packed(pg)

Numbers == /\ RecordHeaderSize = 8 /\ SlotSize = 4 /\ PageHeaderSize = 28 /\ FileHeaderSize = 16
           /\ PageSize \in Nat /\ PageSize > 28
\* The sizes of the headers in dms.hpp, as numbers.
LEMMA NumbersAre == Numbers
BY PageSizeAssumption DEF Numbers, RecordHeaderSize, SlotSize, PageHeaderSize, FileHeaderSize

\* PageAccounts with the constants of dms.hpp as numbers.
LEMMA Accounts ==
  ASSUME NEW pg, pg \in PageT
  PROVE  PageAccounts(pg) <=> /\ pg.slotOffset = 28 + 4 * Len(pg.slot)
                              /\ pg.slotOffset <= pg.freeOffset
                              /\ pg.freeSpace = PageSize - pg.slotOffset - Total(Sizes(pg.slot))
<1>1. Live(pg) = {i \in DOMAIN pg.slot : pg.slot[i] # EmptySlot}
  BY DEF Live
<1>2. FoldFunction(+, 0, [i \in Live(pg) |-> pg.slot[i].size]) = Total(Sizes(pg.slot))
  BY <1>1 DEF Total, Sizes
<1>3. Len(pg.slot) \in Nat
  BY DEF PageT
<1>4. 28 + 4 * Len(pg.slot) = PageHeaderSize + NumSlots(pg) * SlotSize
  BY <1>3, NumbersAre DEF Numbers, NumSlots
<1> DEFINE FF == FoldFunction(+, 0, [i \in Live(pg) |-> pg.slot[i].size])
<1>5. PageAccounts(pg) <=> /\ pg.slotOffset = PageHeaderSize + NumSlots(pg) * SlotSize
                           /\ pg.slotOffset <= pg.freeOffset
                           /\ pg.freeSpace = PageSize - pg.slotOffset - FF
  BY Zenon DEF PageAccounts
<1> HIDE DEF FF
<1>6. FF = Total(Sizes(pg.slot))
  BY <1>2 DEF FF
<1> QED
  BY <1>4, <1>5, <1>6

\* The sizes of a page's records have a sum.
LEMMA SizesAdd ==
  ASSUME NEW slot \in Seq(SlotT)
  PROVE  Summands(Sizes(slot)) /\ Total(Sizes(slot)) \in Nat
<1>1. IsFiniteSet(1..Len(slot)) /\ DOMAIN slot = 1..Len(slot)
  BY FS_Interval
<1>2. IsFiniteSet({i \in DOMAIN slot : slot[i] # EmptySlot})
  BY <1>1, FS_Subset
<1>3. Summands(Sizes(slot))
  <2> DEFINE D == {i \in DOMAIN slot : slot[i] # EmptySlot}
             f == Sizes(slot)
  <2>1. ASSUME NEW i \in D PROVE slot[i].size \in Nat
    <3>1. slot[i] \in SlotT
      OBVIOUS
    <3> QED
      BY <3>1 DEF SlotT
  <2>2. f \in [D -> Nat]
    BY <2>1 DEF Sizes
  <2> HIDE DEF f
  <2>3. DOMAIN f = D
    BY <2>2
  <2> HIDE DEF D
  <2> QED
    BY <1>2, <2>2, <2>3 DEF Summands, f, D
<1> QED
  BY <1>3, TotalNat

\* The headers that _extendSegment writes make a formatted page.
LEMMA FreshIsFormatted == Formatted(FormattedPage)
<1> DEFINE pg == FormattedPage
<1>1. pg \in PageT /\ pg.slot = <<>> /\ Len(pg.slot) = 0 /\ pg.valid = TRUE
  BY NumbersAre DEF Numbers, FormattedPage, PageT, SlotT
<1>2. pg.slotOffset = 28 /\ pg.freeOffset = PageSize /\ pg.freeSpace = PageSize - 28
  BY NumbersAre DEF Numbers, FormattedPage
<1> HIDE DEF pg
<1>3. DOMAIN pg.slot = {} /\ Live(pg) = {} /\ DOMAIN Sizes(pg.slot) = {}
  BY <1>1 DEF Live, Sizes
<1>4. Total(Sizes(pg.slot)) = 0
  BY <1>3, TotalFirst, FS_EmptySet
<1>5. PageAccounts(pg)
  BY <1>1, <1>2, <1>4, Accounts, NumbersAre DEF Numbers
<1>6. RecordsApart(pg)
  BY <1>3 DEF RecordsApart
<1>7. Packed(pg)
  BY <1>1, <1>2, <1>3 DEF Packed, Offset, NumSlots
<1>8. pg.freeSpace >= Gap(pg) /\ pg.freeOffset + RecordHeaderSize * NumSlots(pg) <= PageSize
  BY <1>1, <1>2, NumbersAre DEF Numbers, Gap, NumSlots
<1> QED
  BY <1>1, <1>3, <1>5, <1>6, <1>7, <1>8 DEF Formatted, pg

\* Writing where no record is spoils none.
LEMMA NothingOverwritten ==
  ASSUME NEW slot \in Seq(SlotT), NEW i, NEW off \in Int, NEW size \in Nat,
         \A j \in DOMAIN slot : j # i /\ slot[j] # EmptySlot =>
           slot[j].off >= off + size \/ slot[j].off + slot[j].size <= off
  PROVE  Overwrite(slot, i, off, size) = slot
<1>1. ASSUME NEW j \in DOMAIN slot, j # i, slot[j] # EmptySlot
      PROVE  ~(slot[j].off < off + size /\ off < slot[j].off + slot[j].size)
  <2>1. slot[j] \in SlotT
    OBVIOUS
  <2> DEFINE o == slot[j].off
             z == slot[j].size
  <2>2. o \in Int /\ z \in Nat /\ (o >= off + size \/ o + z <= off)
    BY <1>1, <2>1 DEF SlotT
  <2> HIDE DEF o, z
  <2>3. ~(o < off + size /\ off < o + z)
    BY <2>2
  <2> QED
    BY <2>3 DEF o, z
<1>2. slot = [j \in DOMAIN slot |-> slot[j]]
  OBVIOUS
<1> QED
  BY <1>1, <1>2 DEF Overwrite

\* What is in a formatted page, in plain numbers.
LEMMA FormattedPages ==
  ASSUME NEW pg, Formatted(pg)
  PROVE  /\ pg.valid = TRUE /\ pg.slot \in Seq(SlotT) /\ Len(pg.slot) \in Nat
         /\ pg.slotOffset \in Int /\ pg.freeSpace \in Int /\ pg.freeOffset \in Int
         /\ pg.slotOffset = 28 + 4 * Len(pg.slot) /\ pg.slotOffset <= pg.freeOffset
         /\ pg.freeOffset + 8 * Len(pg.slot) <= PageSize
         /\ Total(Sizes(pg.slot)) \in Nat
         /\ pg.freeSpace = PageSize - pg.slotOffset - Total(Sizes(pg.slot))
         /\ pg.freeSpace >= pg.freeOffset - pg.slotOffset
<1>1. pg \in PageT /\ pg.valid /\ PageAccounts(pg)
  BY DEF Formatted
<1>2. /\ pg.valid = TRUE /\ pg.slot \in Seq(SlotT) /\ Len(pg.slot) \in Nat
      /\ pg.slotOffset \in Int /\ pg.freeSpace \in Int /\ pg.freeOffset \in Int
  BY <1>1 DEF PageT
<1>3. Total(Sizes(pg.slot)) \in Nat
  BY <1>2, SizesAdd
<1>4. pg.freeOffset + 8 * Len(pg.slot) <= PageSize /\ pg.freeSpace >= pg.freeOffset - pg.slotOffset
  BY NumbersAre DEF Numbers, Formatted, NumSlots, Gap
<1> QED
  BY <1>1, <1>2, <1>3, <1>4, Accounts

\* What is known of a slot of a formatted page that has a record.
LEMMA LiveSlot ==
  ASSUME NEW pg, Formatted(pg), NEW i \in Live(pg)
  PROVE  /\ i \in DOMAIN pg.slot /\ i \in 1..Len(pg.slot) /\ pg.slot[i] \in SlotT
         /\ pg.slot[i].off \in Int /\ pg.slot[i].size \in Nat /\ pg.slot[i].size > 8
         /\ pg.slot[i].body \in Body
         /\ pg.freeOffset <= pg.slot[i].off /\ pg.slot[i].off + pg.slot[i].size <= PageSize
<1>1. i \in DOMAIN pg.slot /\ pg.slot \in Seq(SlotT)
  BY FormattedPages DEF Live
<1>2. pg.slot[i] \in SlotT /\ i \in 1..Len(pg.slot)
  BY <1>1
<1>3. pg.slot[i].size > 8 /\ pg.slot[i].body \in Body
  BY NumbersAre DEF Numbers, Formatted
<1>4. pg.freeOffset <= pg.slot[i].off /\ pg.slot[i].off + pg.slot[i].size <= PageSize
  BY DEF Formatted, RecordsApart
<1> QED
  BY <1>1, <1>2, <1>3, <1>4 DEF SlotT

\* A new slot adds its size.
LEMMA SizesAppend ==
  ASSUME NEW slot \in Seq(SlotT), NEW x \in SlotT, x # EmptySlot
  PROVE  Total(Sizes(Append(slot, x))) = Total(Sizes(slot)) + x.size
<1> DEFINE new == Append(slot, x)
           n == Len(new)
<1>1. /\ new \in Seq(SlotT) /\ n = Len(slot) + 1 /\ new[n] = x /\ Len(slot) \in Nat
      /\ DOMAIN new = 1..n /\ DOMAIN slot = 1..Len(slot)
      /\ \A i \in DOMAIN slot : new[i] = slot[i] /\ i # n
  OBVIOUS
<1> HIDE DEF new, n
<1> DEFINE D == {i \in DOMAIN new : new[i] # EmptySlot}
           E == {i \in DOMAIN slot : slot[i] # EmptySlot}
<1>2. n \in D /\ D \ {n} = E
  BY <1>1
<1>3. \A i \in E : new[i].size = slot[i].size
  BY <1>1
<1> DEFINE f == Sizes(new)
           g == Sizes(slot)
<1>4. DOMAIN f = D /\ DOMAIN g = E /\ f[n] = x.size
  BY <1>1, <1>2 DEF Sizes
<1>5. \A i \in E : f[i] = g[i]
  BY <1>2, <1>3 DEF Sizes
<1>6. g = [i \in E |-> g[i]]
  BY DEF Sizes
<1>7. Summands(f) /\ Total(g) \in Nat
  BY <1>1, SizesAdd
<1> HIDE DEF D, E, f, g
<1>8. Part(f, D \ {n}) = g
  BY <1>2, <1>4, <1>5, <1>6 DEF Part
<1>9. Total(f) = f[n] + Total(g)
  BY <1>2, <1>4, <1>7, <1>8, TotalRemove
<1>10. x.size \in Nat
  BY DEF SlotT
<1> QED
  BY <1>4, <1>7, <1>9, <1>10 DEF f, g, new

\* A slot that is emptied takes its size off.
LEMMA SizesDrop ==
  ASSUME NEW slot \in Seq(SlotT), NEW n \in DOMAIN slot, slot[n] # EmptySlot
  PROVE  Total(Sizes([slot EXCEPT ![n] = EmptySlot])) = Total(Sizes(slot)) - slot[n].size
<1> DEFINE new == [slot EXCEPT ![n] = EmptySlot]
<1>1. /\ new \in Seq(SlotT) /\ DOMAIN new = DOMAIN slot /\ new[n] = EmptySlot
      /\ \A i \in DOMAIN slot : i # n => new[i] = slot[i]
  BY DEF SlotT, EmptySlot
<1> HIDE DEF new
<1> DEFINE D == {i \in DOMAIN slot : slot[i] # EmptySlot}
           E == {i \in DOMAIN new : new[i] # EmptySlot}
<1>2. n \in D /\ D \ {n} = E
  BY <1>1
<1>3. \A i \in E : new[i].size = slot[i].size
  BY <1>1
<1> DEFINE f == Sizes(slot)
           g == Sizes(new)
<1>4. DOMAIN f = D /\ DOMAIN g = E /\ f[n] = slot[n].size
  BY <1>1, <1>2 DEF Sizes
<1>5. \A i \in E : f[i] = g[i]
  BY <1>2, <1>3 DEF Sizes
<1>6. g = [i \in E |-> g[i]]
  BY DEF Sizes
<1>7. Summands(f) /\ Total(g) \in Nat
  BY <1>1, SizesAdd
<1> HIDE DEF D, E, f, g
<1>8. Part(f, D \ {n}) = g
  BY <1>2, <1>4, <1>5, <1>6 DEF Part
<1>9. Total(f) = f[n] + Total(g)
  BY <1>2, <1>4, <1>7, <1>8, TotalRemove
<1>10. slot[n].size \in Nat
  <2>1. slot[n] \in SlotT
    OBVIOUS
  <2> QED
    BY <2>1 DEF SlotT
<1> QED
  BY <1>4, <1>7, <1>9, <1>10 DEF f, g, new

\* insert, with room: the page stays formatted, and the slots gain the record's and change in nothing else.
LEMMA StoreKeeps ==
  ASSUME NEW pg, Formatted(pg), NEW b \in Body, HasRoom(pg, b)
  PROVE  LET new == StoreRecord(pg, b)
             size == BodySize[b] + RecordHeaderSize
         IN  /\ Formatted(new)
             /\ new.slot = Append(pg.slot, [off |-> pg.freeOffset - size, size |-> size, body |-> b])
<1> DEFINE new == StoreRecord(pg, b)
           size == BodySize[b] + RecordHeaderSize
           off == pg.freeOffset - size
           x == [off |-> off, size |-> size, body |-> b]
           at == PageHeaderSize + NumSlots(pg) * SlotSize
           slot == pg.slot
           n == Len(slot)
<1>1. /\ pg.valid = TRUE /\ slot \in Seq(SlotT) /\ n \in Nat
      /\ pg.slotOffset \in Int /\ pg.freeSpace \in Int /\ pg.freeOffset \in Int
      /\ pg.slotOffset = 28 + 4 * n /\ pg.slotOffset <= pg.freeOffset
      /\ pg.freeOffset + 8 * n <= PageSize
      /\ Total(Sizes(slot)) \in Nat
      /\ pg.freeSpace = PageSize - pg.slotOffset - Total(Sizes(slot))
      /\ pg.freeSpace >= pg.freeOffset - pg.slotOffset
  BY FormattedPages
<1>2. size \in Nat /\ size > 8 /\ Need(b) = size + 4
  BY BodyAssumption, NumbersAre DEF Numbers, Need
<1>3. pg.freeOffset - pg.slotOffset >= size + 4
  <2>1. Gap(pg) >= Need(b)
    BY DEF HasRoom
  <2> HIDE DEF size
  <2> QED
    BY <1>2, <2>1 DEF Gap
<1>4. at = pg.slotOffset /\ SlotSize = 4
  BY <1>1, NumbersAre DEF Numbers, NumSlots
<1>5. off \in Int /\ off >= pg.slotOffset + 4 /\ off + size = pg.freeOffset
  <2> DEFINE fo == pg.freeOffset
             so == pg.slotOffset
  <2>1. fo \in Int /\ so \in Int /\ size \in Nat /\ fo - so >= size + 4
    BY <1>1, <1>2, <1>3
  <2> HIDE DEF size, fo, so
  <2>2. fo - size \in Int /\ fo - size >= so + 4 /\ (fo - size) + size = fo
    BY <2>1
  <2> QED
    BY <2>2 DEF fo, so
<1>6. pg \in PageT
  BY DEF Formatted
<1>7. x \in SlotT /\ x # EmptySlot /\ x.off = off /\ x.size = size /\ x.body = b
  <2> HIDE DEF size, off
  <2> QED
    BY <1>2, <1>5 DEF SlotT, EmptySlot
<1>8. ASSUME NEW j \in DOMAIN slot, slot[j] # EmptySlot
      PROVE  j \in Live(pg) /\ slot[j].off \in Int /\ slot[j].off >= pg.freeOffset
  <2>1. j \in Live(pg)
    BY <1>8 DEF Live
  <2> QED
    BY <1>1, <2>1, LiveSlot
<1>9. Overwrite(slot, 0, at, SlotSize) = slot
  <2>1. \A j \in DOMAIN slot : j # 0 /\ slot[j] # EmptySlot => slot[j].off >= at + SlotSize
    <3> HIDE DEF at, off, size
    <3>1. at + SlotSize = pg.slotOffset + 4 /\ pg.slotOffset + 4 <= pg.freeOffset
      BY <1>1, <1>2, <1>4, <1>5
    <3>2. at + SlotSize \in Int /\ pg.freeOffset \in Int /\ at + SlotSize <= pg.freeOffset
      BY <1>1, <3>1
    <3> HIDE DEF slot
    <3> QED
      BY <1>8, <3>2
  <2> HIDE DEF at, slot
  <2>2. at \in Int /\ SlotSize \in Nat
    BY <1>1, <1>4
  <2> QED
    BY <1>1, <2>1, <2>2, NothingOverwritten
<1>10. Overwrite(slot, 0, off, size) = slot
  <2>1. \A j \in DOMAIN slot : j # 0 /\ slot[j] # EmptySlot => slot[j].off >= off + size
    <3> HIDE DEF off, size
    <3> QED
      BY <1>1, <1>2, <1>5, <1>8
  <2> HIDE DEF off, size, slot
  <2> QED
    BY <1>1, <1>2, <1>5, <2>1, NothingOverwritten
<1> HIDE DEF size, off, x, at
<1>11. /\ new.slot = Append(slot, x) /\ new.slotOffset = pg.slotOffset + SlotSize
       /\ new.freeOffset = off /\ new.freeSpace = pg.freeSpace - Need(b) /\ new.valid = pg.valid
       /\ DOMAIN new = DOMAIN pg
  BY <1>6, <1>9, <1>10 DEF StoreRecord, PageT, size, off, x, at
<1>12. new \in PageT
  <2> DEFINE S == Append(slot, x)
             O == pg.slotOffset + SlotSize
             P == pg.freeSpace - Need(b)
  <2>1. S \in Seq(SlotT) /\ O \in Int /\ P \in Int
    BY <1>1, <1>2, <1>4, <1>7
  <2>2. new = [pg EXCEPT !.slot = S, !.slotOffset = O, !.freeOffset = off, !.freeSpace = P]
    BY <1>9, <1>10 DEF StoreRecord, size, off, x, at
  <2> HIDE DEF S, O, P, new
  <2> QED
    BY <1>5, <1>6, <2>1, <2>2 DEF PageT
<1> HIDE DEF new
<1> DEFINE m == Len(new.slot)
<1>13. /\ m = n + 1 /\ new.slot[m] = x /\ new.slot \in Seq(SlotT)
       /\ DOMAIN new.slot = 1..m /\ DOMAIN slot = 1..n
       /\ \A i \in 1..n : new.slot[i] = slot[i] /\ i # m
  <2>1. new.slot = Append(slot, x) /\ slot \in Seq(SlotT) /\ x \in SlotT /\ n \in Nat
    BY <1>1, <1>7, <1>11
  <2> HIDE DEF slot
  <2>2. /\ m = n + 1 /\ new.slot[n + 1] = x /\ new.slot \in Seq(SlotT)
        /\ DOMAIN slot = 1..n
    BY <2>1
  <2>3. \A i \in 1..n : new.slot[i] = slot[i] /\ i # n + 1
    BY <2>1
  <2>4. DOMAIN new.slot = 1..m
    BY <2>2
  <2> HIDE DEF m, n
  <2> QED
    BY <2>2, <2>3, <2>4
<1>14. new \in PageT /\ new.valid
  BY <1>1, <1>11, <1>12
<1>15. Live(new) = Live(pg) \cup {m}
  <2>1. 1..m = 1..n \cup {m}
    BY <1>1, <1>13
  <2>2. Live(new) = {i \in 1..m : new.slot[i] # EmptySlot}
    BY <1>13 DEF Live
  <2>3. Live(pg) = {i \in 1..n : slot[i] # EmptySlot}
    BY <1>13 DEF Live
  <2>4. new.slot[m] # EmptySlot /\ \A i \in 1..n : new.slot[i] = slot[i]
    BY <1>7, <1>13
  <2> HIDE DEF m, n, slot
  <2> QED
    BY <2>1, <2>2, <2>3, <2>4
<1>16. /\ new.slotOffset = pg.slotOffset + 4 /\ new.freeOffset = off
       /\ new.freeSpace = pg.freeSpace - (size + 4)
  BY <1>2, <1>4, <1>11
<1>17. Total(Sizes(new.slot)) = Total(Sizes(slot)) + size
  BY <1>1, <1>7, <1>11, SizesAppend
<1>18. ASSUME NEW i \in Live(pg)
       PROVE  /\ i \in 1..n /\ new.slot[i] = slot[i] /\ i < m /\ slot[i].off \in Int /\ slot[i].size \in Nat
              /\ slot[i].size > 8 /\ slot[i].body \in Body
              /\ pg.freeOffset <= slot[i].off /\ slot[i].off + slot[i].size <= PageSize
  BY <1>1, <1>13, LiveSlot
<1> HIDE DEF m, slot, n
<1>19. PageAccounts(new)
  <2>1. /\ new.slotOffset = 28 + 4 * m /\ new.slotOffset <= new.freeOffset
        /\ new.freeSpace = PageSize - new.slotOffset - Total(Sizes(new.slot))
    BY <1>1, <1>2, <1>3, <1>5, <1>13, <1>16, <1>17, NumbersAre DEF Numbers
  <2> QED
    BY <1>14, <2>1, Accounts DEF m
<1>20. ASSUME NEW i \in Live(new)
       PROVE  /\ new.slot[i].size > RecordHeaderSize /\ new.slot[i].body \in Body
              /\ new.freeOffset <= new.slot[i].off /\ new.slot[i].off + new.slot[i].size <= PageSize
  <2>1. CASE i \in Live(pg)
    <3> DEFINE o == slot[i].off
               z == slot[i].size
    <3>1. o \in Int /\ pg.freeOffset <= o /\ z > 8 /\ slot[i].body \in Body /\ o + z <= PageSize /\ new.slot[i] = slot[i]
      BY <1>18, <2>1
    <3> HIDE DEF o, z
    <3>2. off <= o
      BY <1>1, <1>2, <1>5, <3>1
    <3> QED
      BY <1>16, <3>1, <3>2, NumbersAre DEF Numbers, o, z
  <2>2. CASE i = m
    <3>1. new.slot[i] = x /\ off + size <= PageSize /\ off <= off
      BY <1>1, <1>5, <1>13, <2>2, NumbersAre DEF Numbers
    <3> QED
      BY <1>2, <1>7, <1>16, <3>1, NumbersAre DEF Numbers
  <2> QED
    BY <1>15, <2>1, <2>2
<1>21. RecordsApart(new)
  <2>1. ASSUME NEW i \in Live(new), NEW j \in Live(new), i < j
        PROVE  new.slot[j].off + new.slot[j].size <= new.slot[i].off
    <3>1. i \in Live(pg)
      <4>1. i # m
        BY <1>1, <1>13, <1>15, <1>18, <2>1
      <4> QED
        BY <1>15, <4>1
    <3>2. CASE j \in Live(pg)
      <4>1. slot[j].off + slot[j].size <= slot[i].off
        BY <2>1, <3>1, <3>2 DEF Formatted, RecordsApart, slot
      <4> QED
        BY <1>18, <3>1, <3>2, <4>1
    <3>3. CASE j = m
      <4>1. new.slot[j].off + new.slot[j].size = pg.freeOffset
        BY <1>5, <1>7, <1>13, <3>3
      <4> QED
        BY <1>18, <3>1, <4>1
    <3> QED
      BY <1>15, <3>2, <3>3
  <2> QED
    BY <1>20, <2>1 DEF RecordsApart
<1>22. Packed(new)
  <2>1. Packed(pg)
    BY DEF Formatted
  <2>2. \A i \in 0..n : (Full(new, i) <=> Full(pg, i)) /\ Offset(new, i) = Offset(pg, i)
    <3>1. ASSUME NEW i \in 0..n PROVE \A j \in 1..i : new.slot[j] = pg.slot[j]
      BY <1>1, <1>13 DEF slot
    <3>2. ASSUME NEW i \in 0..n PROVE Offset(new, i) = Offset(pg, i)
      BY <1>1, <1>13 DEF Offset, slot
    <3> QED
      BY <3>1, <3>2 DEF Full
  <2>3. ASSUME NEW i \in 1..m, Full(new, i)
        PROVE  new.slot[i].off + new.slot[i].size = Offset(new, i - 1)
    <3>1. CASE i \in 1..n
      <4>1. Full(pg, i) /\ Offset(new, i - 1) = Offset(pg, i - 1) /\ new.slot[i] = slot[i]
        BY <1>1, <1>13, <2>2, <2>3, <3>1
      <4>2. slot[i].off + slot[i].size = Offset(pg, i - 1)
        BY <1>13, <2>1, <3>1, <4>1 DEF Packed, slot
      <4> QED
        BY <4>1, <4>2
    <3>2. CASE i = m
      <4>1. Full(new, n)
        BY <1>1, <1>13, <2>3, <3>2 DEF Full
      <4>2. pg.freeOffset = Offset(pg, n)
        BY <1>1, <2>1, <2>2, <4>1 DEF Packed, NumSlots, slot, n
      <4>3. new.slot[i].off + new.slot[i].size = pg.freeOffset
        BY <1>5, <1>7, <1>13, <3>2
      <4> QED
        BY <1>1, <1>13, <2>2, <3>2, <4>2, <4>3
    <3> QED
      BY <1>1, <1>13, <3>1, <3>2
  <2>4. new.freeOffset = Offset(new, m)
    <3>1. m # 0 /\ new.slot[m].off = off
      BY <1>1, <1>7, <1>13
    <3> QED
      BY <1>16, <3>1 DEF Offset
  <2> QED
    BY <1>13, <2>3, <2>4 DEF Packed, NumSlots, m
<1>23. new.freeOffset + RecordHeaderSize * NumSlots(new) <= PageSize /\ new.freeSpace >= Gap(new)
  <2>1. off + 8 * m <= PageSize
    <3> DEFINE fo == pg.freeOffset
    <3>1. fo \in Int /\ n \in Nat /\ PageSize \in Nat /\ fo + 8 * n <= PageSize
      BY <1>1, NumbersAre DEF Numbers
    <3>2. size \in Nat /\ size > 8 /\ off \in Int /\ off + size = fo /\ m = n + 1
      BY <1>2, <1>5, <1>13
    <3> HIDE DEF fo, n, m
    <3> QED
      BY <3>1, <3>2
  <2>2. pg.freeSpace - (size + 4) >= off - (pg.slotOffset + 4)
    BY <1>1, <1>2, <1>5
  <2> QED
    BY <1>16, <2>1, <2>2, NumbersAre DEF Numbers, NumSlots, Gap, m
<1> QED
  BY <1>11, <1>14, <1>19, <1>20, <1>21, <1>22, <1>23 DEF Formatted, new, x, off, size, slot

\* remove: the page stays formatted, and the slot of the record is emptied.
LEMMA DropKeeps ==
  ASSUME NEW pg, Formatted(pg), NEW s, s + 1 \in Live(pg)
  PROVE  LET new == DropRecord(pg, s)
         IN  /\ Formatted(new)
             /\ new.slot = [pg.slot EXCEPT ![s + 1] = EmptySlot]
<1> DEFINE new == DropRecord(pg, s)
           slot == pg.slot
           n == Len(slot)
           k == s + 1
           size == slot[k].size
<1>1. /\ pg.valid = TRUE /\ slot \in Seq(SlotT) /\ n \in Nat
      /\ pg.slotOffset \in Int /\ pg.freeSpace \in Int /\ pg.freeOffset \in Int
      /\ pg.slotOffset = 28 + 4 * n /\ pg.slotOffset <= pg.freeOffset
      /\ pg.freeOffset + 8 * n <= PageSize
      /\ Total(Sizes(slot)) \in Nat
      /\ pg.freeSpace = PageSize - pg.slotOffset - Total(Sizes(slot))
      /\ pg.freeSpace >= pg.freeOffset - pg.slotOffset
  BY FormattedPages
<1>2. k \in DOMAIN slot /\ k \in 1..n /\ size \in Nat /\ slot[k] # EmptySlot
  <2>1. k \in Live(pg) /\ slot[k] # EmptySlot
    BY DEF Live
  <2> HIDE DEF k
  <2> QED
    BY <2>1, LiveSlot
<1>3. pg \in PageT
  BY DEF Formatted
<1>4. new = [pg EXCEPT !.slot = [slot EXCEPT ![k] = EmptySlot], !.freeSpace = pg.freeSpace + size]
  BY <1>3 DEF DropRecord, PageT
<1> HIDE DEF k, size, new
<1> DEFINE S == [slot EXCEPT ![k] = EmptySlot]
<1>5. /\ S \in Seq(SlotT) /\ DOMAIN S = DOMAIN slot /\ Len(S) = n /\ S[k] = EmptySlot
      /\ \A i \in DOMAIN slot : i # k => S[i] = slot[i]
  BY <1>1, <1>2 DEF SlotT, EmptySlot
<1>6. Total(Sizes(S)) = Total(Sizes(slot)) - size
  BY <1>1, <1>2, SizesDrop DEF size
<1> HIDE DEF S
<1>7. /\ new \in PageT /\ new.slot = S /\ new.valid = TRUE /\ new.slotOffset = pg.slotOffset
      /\ new.freeSpace = pg.freeSpace + size /\ new.freeOffset = pg.freeOffset
  <2> DEFINE P == pg.freeSpace + size
  <2>1. P \in Int
    BY <1>1, <1>2
  <2>2. new = [pg EXCEPT !.slot = S, !.freeSpace = P]
    BY <1>4 DEF S
  <2> HIDE DEF P
  <2> QED
    BY <1>1, <1>3, <1>5, <2>1, <2>2 DEF PageT, P
<1> HIDE DEF slot, n
<1>8. Live(new) = Live(pg) \ {k}
  BY <1>2, <1>5, <1>7 DEF Live, slot
<1>9. \A i \in Live(new) : i \in Live(pg) /\ new.slot[i] = pg.slot[i]
  BY <1>5, <1>7, <1>8 DEF Live, slot
<1>10. PageAccounts(new)
  <2> DEFINE T == Total(Sizes(slot))
  <2>1. T \in Nat /\ pg.freeSpace = PageSize - pg.slotOffset - T
    BY <1>1
  <2>2. Total(Sizes(S)) = T - size
    BY <1>6
  <2> HIDE DEF T
  <2>3. pg.freeSpace + size = PageSize - pg.slotOffset - (T - size)
    BY <1>1, <1>2, <2>1, NumbersAre DEF Numbers
  <2>4. /\ new.slotOffset = 28 + 4 * Len(new.slot) /\ new.slotOffset <= new.freeOffset
        /\ new.freeSpace = PageSize - new.slotOffset - Total(Sizes(new.slot))
    BY <1>1, <1>5, <1>7, <2>2, <2>3
  <2> QED
    BY <1>7, <2>4, Accounts
<1>11. RecordsApart(new)
  BY <1>7, <1>9 DEF RecordsApart, Formatted
<1>12. Packed(new)
  <2>1. Packed(pg)
    BY DEF Formatted
  <2>2. ASSUME NEW i \in 0..n, Full(new, i)
        PROVE  Full(pg, i) /\ Offset(new, i) = Offset(pg, i) /\ (\A j \in 1..i : new.slot[j] = pg.slot[j])
    <3>1. k \notin 1..i
      BY <1>5, <1>7, <2>2 DEF Full
    <3>2. \A j \in 1..i : new.slot[j] = pg.slot[j]
      BY <1>1, <1>5, <1>7, <3>1 DEF slot, n
    <3>3. Full(pg, i)
      BY <2>2, <3>2 DEF Full
    <3> QED
      BY <3>2, <3>3 DEF Offset
  <2>3. DOMAIN new.slot = 1..n /\ DOMAIN pg.slot = 1..n /\ NumSlots(new) = n /\ NumSlots(pg) = n
    BY <1>1, <1>5, <1>7 DEF slot, n, NumSlots
  <2>4. ASSUME NEW i \in 1..n, Full(new, i)
        PROVE  new.slot[i].off + new.slot[i].size = Offset(new, i - 1)
    <3>1. Full(new, i - 1)
      BY <1>1, <2>4 DEF Full
    <3>2. Offset(new, i - 1) = Offset(pg, i - 1)
      BY <1>1, <2>2, <3>1
    <3>3. Full(pg, i) /\ new.slot[i] = pg.slot[i]
      BY <1>1, <2>2, <2>4
    <3> QED
      BY <2>1, <2>3, <3>2, <3>3 DEF Packed
  <2>5. ASSUME Full(new, n) PROVE new.freeOffset = Offset(new, n)
    BY <1>1, <1>7, <2>1, <2>2, <2>3, <2>5 DEF Packed
  <2> QED
    BY <2>3, <2>4, <2>5 DEF Packed
<1>13. new.freeOffset + RecordHeaderSize * NumSlots(new) <= PageSize /\ new.freeSpace >= Gap(new)
  <2>1. pg.freeSpace + size >= pg.freeOffset - pg.slotOffset
    BY <1>1, <1>2
  <2>2. NumSlots(new) = n /\ pg.freeOffset + 8 * n <= PageSize
    BY <1>1, <1>5, <1>7 DEF NumSlots
  <2> QED
    BY <1>7, <2>1, <2>2, NumbersAre DEF Numbers, Gap
<1>14. \A i \in Live(new) : new.slot[i].size > RecordHeaderSize /\ new.slot[i].body \in Body
  BY <1>9 DEF Formatted
<1> QED
  BY <1>7, <1>10, <1>11, <1>12, <1>13, <1>14 DEF Formatted, new, S, slot, k

-----------------------------------------------------------------------------
(***************************************************************************)
(* _recoverSpace.                                                          *)
(***************************************************************************)
\* What _recoverSpace does at slot i.
Move(pg, acc, i) ==
  IF pg.slot[i] = EmptySlot THEN [acc EXCEPT !.recover = TRUE]
  ELSE LET size  == acc.slot[i].size
           right == acc.right - size
       IN IF ~acc.recover THEN [acc EXCEPT !.right = right]
          ELSE [acc EXCEPT !.right = right,
                           !.slot = [Overwrite(acc.slot, i, right, size) EXCEPT ![i].off = right]]
Begin(pg) == [right |-> PageSize, recover |-> FALSE, slot |-> pg.slot]

\* The largest element of a set that ends with k + 1.
LEMMA MaxIs ==
  ASSUME NEW k \in Nat, NEW s, s \subseteq 1..(k + 1), k + 1 \in s
  PROVE  Max(s) = k + 1
<1>1. \A y \in s : k + 1 >= y
  OBVIOUS
<1>2. \A x \in s : (\A y \in s : x >= y) => x = k + 1
  OBVIOUS
<1>3. Max(s) \in s /\ \A y \in s : Max(s) >= y
  BY <1>1 DEF Max
<1> QED
  BY <1>2, <1>3

\* The loop of _recoverSpace as the sequence r of its states: one Move after the other.
LEMMA RecoverSteps ==
  ASSUME NEW pg, pg.slot \in Seq(SlotT)
  PROVE  \E r : /\ r[0] = Begin(pg)
                /\ \A k \in Nat : k < Len(pg.slot) => r[k + 1] = Move(pg, r[k], k + 1)
                /\ RecoverSpace(pg) = [pg EXCEPT !.slot = r[Len(pg.slot)].slot]
<1> DEFINE D == DOMAIN pg.slot
           n == Len(pg.slot)
           seq == [i \in D |-> i]
           H(v, s) == IF s = {} THEN Begin(pg)
                      ELSE LET x == Max(s) IN Move(pg, v[s \ {x}], seq[x])
           F(v) == [s \in SUBSET (DOMAIN seq) |-> H(v, s)]
           it == CHOOSE v : v = F(v)
<1>1. RecoverSpace(pg) = [pg EXCEPT !.slot = it[DOMAIN seq].slot]
  BY DEF RecoverSpace, FoldLeftDomain, FoldLeft, MapThenFoldSet, Move, Begin
<1>2. n \in Nat /\ D = 1..n /\ DOMAIN seq = D /\ \A i \in D : seq[i] = i
  OBVIOUS
<1> HIDE DEF seq, D, n
<1> DEFINE Fits(v, k) == \A s \in SUBSET (1..k) : v[s] = H(v, s)
           K == {k \in Nat : \E v : Fits(v, k)}
<1>3. 0 \in K
  <2> DEFINE v == [s \in {{}} |-> Begin(pg)]
  <2>1. ASSUME NEW s \in SUBSET (1..0) PROVE v[s] = H(v, s)
    <3>1. s = {}
      OBVIOUS
    <3>2. v[s] = Begin(pg)
      BY <3>1
    <3> HIDE DEF v
    <3> QED
      BY <3>1, <3>2
  <2> HIDE DEF v, H
  <2>2. Fits(v, 0)
    BY <2>1
  <2> HIDE DEF Fits
  <2> QED
    BY <2>2
<1>4. ASSUME NEW k \in Nat, k \in K PROVE k + 1 \in K
  <2> HIDE DEF H, Fits
  <2> SUFFICES \E v : Fits(v, k + 1)
    BY <1>4
  <2>1. PICK v : Fits(v, k)
    BY <1>4
  <2> HIDE DEF K
  <2> USE DEF H, Fits
  <2> DEFINE w == [s \in SUBSET (1..(k + 1)) |-> IF k + 1 \in s THEN H(v, s) ELSE v[s]]
  <2>2. ASSUME NEW s \in SUBSET (1..(k + 1)), k + 1 \notin s PROVE s \in SUBSET (1..k)
    BY <2>2
  <2>3. \A s \in SUBSET (1..k) : w[s] = v[s]
    <3> HIDE DEF H, Fits
    <3>1. \A s \in SUBSET (1..k) : s \in SUBSET (1..(k + 1)) /\ k + 1 \notin s
      OBVIOUS
    <3> QED
      BY <3>1
  <2>4. \A s \in SUBSET (1..(k + 1)) : k + 1 \in s => w[s] = H(v, s)
    <3> HIDE DEF H
    <3> QED
      OBVIOUS
  <2> HIDE DEF w
  <2>5. ASSUME NEW s \in SUBSET (1..(k + 1)) PROVE w[s] = H(w, s)
    <3>1. CASE k + 1 \in s
      <4>1. Max(s) = k + 1 /\ s \ {k + 1} \in SUBSET (1..k) /\ s # {}
        <5>1. s \subseteq 1..(k + 1) /\ s # {} /\ s \ {k + 1} \in SUBSET (1..k)
          BY <3>1
        <5>2. Max(s) = k + 1
          BY <3>1, <5>1, MaxIs
        <5> QED
          BY <5>1, <5>2
      <4>2. w[s \ {k + 1}] = v[s \ {k + 1}]
        BY <2>3, <4>1
      <4>3. w[s] = H(v, s)
        BY <2>4, <3>1
      <4>4. H(v, s) = Move(pg, v[s \ {k + 1}], seq[k + 1]) /\ H(w, s) = Move(pg, w[s \ {k + 1}], seq[k + 1])
        BY <4>1
      <4> HIDE DEF H
      <4> QED
        BY <4>2, <4>3, <4>4
    <3>2. CASE k + 1 \notin s
      <4>1. s \in SUBSET (1..k)
        BY <2>2, <3>2
      <4>2. v[s] = H(v, s) /\ w[s] = v[s]
        <5> HIDE DEF H
        <5> QED
          BY <2>1, <2>3, <4>1
      <4>3. \A x : w[s \ {x}] = v[s \ {x}]
        <5>1. \A x : s \ {x} \in SUBSET (1..k)
          BY <4>1
        <5> QED
          BY <2>3, <5>1
      <4>4. H(v, s) = H(w, s)
        <5>1. w[s \ {Max(s)}] = v[s \ {Max(s)}]
          BY <4>3
        <5> QED
          BY <5>1
      <4> HIDE DEF H
      <4> QED
        BY <4>2, <4>4
    <3> QED
      BY <3>1, <3>2
  <2>6. Fits(w, k + 1)
    <3> HIDE DEF H
    <3> QED
      BY <2>5
  <2> HIDE DEF Fits
  <2> QED
    BY <2>6
<1>5. n \in K
  <2> HIDE DEF K
  <2> QED
    BY <1>2, <1>3, <1>4, NatInd
<1>6. PICK v : Fits(v, n)
  <2> HIDE DEF H, Fits
  <2> QED
    BY <1>5
<1> DEFINE w == [s \in SUBSET (1..n) |-> v[s]]
<1>7. ASSUME NEW s \in SUBSET (1..n) PROVE w[s] = H(w, s)
  <2>1. w[s] = v[s] /\ \A x : w[s \ {x}] = v[s \ {x}]
    <3>1. \A x : s \ {x} \in SUBSET (1..n)
      OBVIOUS
    <3> QED
      BY <3>1
  <2> HIDE DEF w
  <2>2. w[s \ {Max(s)}] = v[s \ {Max(s)}]
    BY <2>1
  <2>3. H(v, s) = H(w, s)
    BY <2>2
  <2>4. v[s] = H(v, s)
    <3> HIDE DEF H
    <3> QED
      BY <1>6
  <2> HIDE DEF H
  <2> QED
    BY <2>1, <2>3, <2>4
<1>8. w = F(w)
  <2>1. w = [s \in SUBSET (1..n) |-> w[s]]
    OBVIOUS
  <2> HIDE DEF w, H
  <2>2. w = [s \in SUBSET (1..n) |-> H(w, s)]
    BY <1>7, <2>1
  <2> QED
    BY <1>2, <2>2
<1> HIDE DEF F, w
<1>9. it = F(it)
  BY <1>8, Zenon
<1> HIDE DEF it
<1>10. \A s \in SUBSET (1..n) : it[s] = H(it, s)
  <2> HIDE DEF H
  <2>1. it = [s \in SUBSET (1..n) |-> H(it, s)]
    BY <1>2, <1>9 DEF F
  <2> QED
    BY <2>1
<1> DEFINE r == [k \in 0..n |-> it[1..k]]
<1>11. \A k \in 0..n : r[k] = it[1..k]
  OBVIOUS
<1> HIDE DEF r
<1>12. r[0] = Begin(pg)
  <2>1. 1..0 = {} /\ {} \in SUBSET (1..n)
    OBVIOUS
  <2>2. it[{}] = Begin(pg)
    BY <1>10, <2>1
  <2> QED
    BY <1>2, <1>11, <2>1, <2>2
<1>13. ASSUME NEW k \in Nat, k < n PROVE r[k + 1] = Move(pg, r[k], k + 1)
  <2> DEFINE s == 1..(k + 1)
  <2>1. s \in SUBSET (1..n) /\ s # {} /\ k + 1 \in s /\ s \ {k + 1} = 1..k
    <3>1. 1..(k + 1) \subseteq 1..n
      BY <1>2, <1>13
    <3>2. k + 1 \in 1..(k + 1) /\ (1..(k + 1)) \ {k + 1} = 1..k
      OBVIOUS
    <3> QED
      BY <3>1, <3>2
  <2>2. Max(s) = k + 1
    BY <2>1, MaxIs
  <2>3. seq[k + 1] = k + 1
    BY <1>2, <2>1
  <2> HIDE DEF s
  <2>4. it[s] = Move(pg, it[1..k], k + 1)
    BY <1>10, <2>1, <2>2, <2>3
  <2>5. r[k + 1] = it[s] /\ r[k] = it[1..k]
    BY <1>2, <1>11, <1>13 DEF s
  <2> QED
    BY <2>4, <2>5
<1>14. RecoverSpace(pg) = [pg EXCEPT !.slot = r[n].slot]
  <2>1. r[n] = it[DOMAIN seq]
    BY <1>2, <1>11
  <2> QED
    BY <1>1, <2>1
<1> QED
  BY <1>12, <1>13, <1>14 DEF n

\* What _recoverSpace has made of a page when it is behind slot k.  The records it is done
\* with lie above right, the others below; those it moved went up, and the slots before
\* the first empty one are as they were.
Moved(pg, acc, k) ==
  /\ acc \in [right : Int, recover : BOOLEAN, slot : Seq(SlotT)]
  /\ Len(acc.slot) = Len(pg.slot) /\ acc.right <= PageSize
  /\ \A j \in 1..Len(pg.slot) :
       /\ acc.slot[j] = EmptySlot <=> pg.slot[j] = EmptySlot
       /\ acc.slot[j].size = pg.slot[j].size /\ acc.slot[j].body = pg.slot[j].body
       /\ j > k \/ Full(pg, j) => acc.slot[j] = pg.slot[j]
  /\ \A j \in Live(pg) :
       IF j > k THEN pg.slot[j].off + pg.slot[j].size <= acc.right
       ELSE /\ acc.right <= acc.slot[j].off /\ acc.slot[j].off + pg.slot[j].size <= PageSize
            /\ pg.slot[j].off <= acc.slot[j].off
            /\ \A i \in Live(pg) : i < j => acc.slot[j].off + pg.slot[j].size <= acc.slot[i].off
  /\ IF acc.recover THEN ~Full(pg, k)
     ELSE Full(pg, k) /\ acc.slot = pg.slot /\ acc.right = Offset(pg, k)

\* The loop starts behind slot 0, with nothing moved.
LEMMA MoveBegins ==
  ASSUME NEW pg, Formatted(pg) PROVE Moved(pg, Begin(pg), 0)
<1>1. pg.slot \in Seq(SlotT) /\ PageSize \in Nat
  BY FormattedPages, NumbersAre DEF Numbers
<1> DEFINE a == Begin(pg)
<1>2. a.right = PageSize /\ a.recover = FALSE /\ a.slot = pg.slot
      /\ a \in [right : Int, recover : BOOLEAN, slot : Seq(SlotT)]
  BY <1>1 DEF Begin
<1> HIDE DEF a
<1>3. \A j \in Live(pg) : j > 0 /\ pg.slot[j].off + pg.slot[j].size <= PageSize
  <2>1. ASSUME NEW j \in Live(pg) PROVE j \in 1..Len(pg.slot) /\ pg.slot[j].off + pg.slot[j].size <= PageSize
    BY LiveSlot
  <2>2. Len(pg.slot) \in Nat
    BY <1>1
  <2> QED
    BY <2>1, <2>2
<1>4. Full(pg, 0) /\ a.right = Offset(pg, 0)
  BY <1>2 DEF Full, Offset
<1> QED
  BY <1>1, <1>2, <1>3, <1>4 DEF Moved, a

\* One turn of the loop keeps what Moved says, and no record is written over by it.
LEMMA MoveStep ==
  ASSUME NEW pg, Formatted(pg), NEW k \in Nat, k < Len(pg.slot), NEW acc, Moved(pg, acc, k)
  PROVE  Moved(pg, Move(pg, acc, k + 1), k + 1)
<1> DEFINE n == Len(pg.slot)
           i == k + 1
           slot == pg.slot
           new == Move(pg, acc, i)
           L == Live(pg)
<1>1. /\ slot \in Seq(SlotT) /\ n \in Nat /\ DOMAIN slot = 1..n /\ i \in 1..n
      /\ L = {j \in 1..n : slot[j] # EmptySlot} /\ PageSize \in Nat
  <2>1. slot \in Seq(SlotT) /\ n \in Nat /\ DOMAIN slot = 1..n
    <3>1. pg.slot \in Seq(SlotT)
      BY FormattedPages
    <3> QED
      BY <3>1
  <2>2. i \in 1..n
    <3> HIDE DEF n
    <3> QED
      BY <2>1 DEF n
  <2> QED
    BY <2>1, <2>2, NumbersAre DEF Numbers, Live
<1>2. \A j \in L : /\ j \in 1..n /\ slot[j].off \in Int /\ slot[j].size \in Nat /\ slot[j].size > 8
                   /\ slot[j].off + slot[j].size <= PageSize
  BY LiveSlot
<1>3. \A h, j \in L : h < j => slot[j].off + slot[j].size <= slot[h].off
  BY DEF Formatted, RecordsApart
<1>4. /\ acc \in [right : Int, recover : BOOLEAN, slot : Seq(SlotT)] /\ Len(acc.slot) = n
      /\ acc.right \in Int /\ acc.right <= PageSize /\ acc.slot \in Seq(SlotT) /\ acc.recover \in BOOLEAN
  BY DEF Moved
<1>5. /\ \A j \in 1..n : /\ acc.slot[j] = EmptySlot <=> slot[j] = EmptySlot
                         /\ acc.slot[j].size = slot[j].size /\ acc.slot[j].body = slot[j].body
                         /\ j > k \/ Full(pg, j) => acc.slot[j] = slot[j]
      /\ \A j \in L : j > k => slot[j].off + slot[j].size <= acc.right
      /\ \A j \in L : ~(j > k) => /\ acc.right <= acc.slot[j].off /\ acc.slot[j].off + slot[j].size <= PageSize
                                  /\ slot[j].off <= acc.slot[j].off
      /\ \A j \in L : ~(j > k) => \A h \in L : h < j => acc.slot[j].off + slot[j].size <= acc.slot[h].off
      /\ acc.recover => ~Full(pg, k)
      /\ ~acc.recover => Full(pg, k) /\ acc.slot = slot /\ acc.right = Offset(pg, k)
  BY DEF Moved
<1>6. \A j \in 1..n : acc.slot[j] \in SlotT /\ acc.slot[j].off \in Int /\ slot[j] \in SlotT
  <2>1. DOMAIN acc.slot = 1..n
    BY <1>4
  <2> HIDE DEF slot, n
  <2>2. \A j \in 1..n : acc.slot[j] \in SlotT /\ slot[j] \in SlotT
    BY <1>1, <1>4, <2>1
  <2> QED
    BY <2>2 DEF SlotT
<1>7. \A j \in L : /\ j > i \/ j = i \/ (~(j > k) /\ ~(j > i))
                   /\ j = i => j > k /\ ~(j > i)
                   /\ j > i => j > k /\ j > i
                   /\ j > i \/ ~(j > i)
  <2> HIDE DEF n, slot, L
  <2>1. \A j \in L : j \in Nat
    BY <1>1
  <2> QED
    BY <2>1
<1>8. Full(pg, i) <=> Full(pg, k) /\ slot[i] # EmptySlot
  BY <1>1 DEF Full
<1>9. CASE slot[i] = EmptySlot
  <2>1. new = [acc EXCEPT !.recover = TRUE]
    BY <1>9 DEF Move
  <2>2. /\ new.right = acc.right /\ new.recover = TRUE /\ new.slot = acc.slot
        /\ new \in [right : Int, recover : BOOLEAN, slot : Seq(SlotT)]
    BY <1>4, <2>1
  <2>3. i \notin L
    BY <1>1, <1>9
  <2>4. \A j \in L : (j > i <=> j > k)
    BY <1>1, <2>3
  <2>5. \A j \in 1..n : j > i => j > k
    BY <1>1
  <2> HIDE DEF new, i, slot, n, L
  <2>20. Moved(pg, new, i)
    BY <1>4, <1>5, <1>8, <1>9, <2>2, <2>4, <2>5 DEF Moved, slot, n, L
  <2> QED
    BY <2>20 DEF new, i
<1>10. CASE slot[i] # EmptySlot /\ ~acc.recover
  <2>1. new = [acc EXCEPT !.right = acc.right - acc.slot[i].size] /\ acc.slot = slot
    BY <1>5, <1>10 DEF Move
  <2>2. i \in L
    BY <1>1, <1>10
  <2>3. slot[i].off + slot[i].size = acc.right
    <3>1. Full(pg, i) /\ acc.right = Offset(pg, k) /\ i - 1 = k
      BY <1>5, <1>8, <1>10
    <3> QED
      BY <1>1, <3>1 DEF Formatted, Packed
  <2>4. acc.right - acc.slot[i].size = slot[i].off
    <3> DEFINE o == slot[i].off
               z == slot[i].size
               r == acc.right
    <3>1. o \in Int /\ z \in Nat /\ o + z = r /\ acc.slot[i].size = z
      BY <1>2, <2>1, <2>2, <2>3
    <3> HIDE DEF o, z, r
    <3>2. r - z = o
      BY <3>1
    <3> QED
      BY <3>1, <3>2 DEF o, z, r
  <2>5. /\ new.right = slot[i].off /\ new.recover = FALSE /\ new.slot = slot
        /\ new \in [right : Int, recover : BOOLEAN, slot : Seq(SlotT)]
    BY <1>2, <1>4, <1>10, <2>1, <2>2, <2>4
  <2>6. slot[i].off <= acc.right /\ slot[i].off <= PageSize
    <3> DEFINE o == slot[i].off
               z == slot[i].size
    <3>1. o \in Int /\ z \in Nat /\ o + z = acc.right
      BY <1>2, <2>2, <2>3
    <3> HIDE DEF o, z
    <3>2. o <= acc.right /\ o <= PageSize
      BY <1>1, <1>4, <3>1
    <3> QED
      BY <3>2 DEF o
  <2>7. ASSUME NEW j \in L, j > i PROVE slot[j].off + slot[j].size <= new.right
    BY <1>3, <2>2, <2>5, <2>7
  <2>8. ASSUME NEW j \in L, ~(j > i)
        PROVE  /\ new.right <= slot[j].off /\ slot[j].off + slot[j].size <= PageSize
               /\ slot[j].off <= slot[j].off
    <3>1. CASE j = i
      BY <1>2, <2>5, <3>1
    <3>2. CASE j # i
      <4>1. j < i
        BY <1>1, <2>8, <3>2
      <4>2. slot[i].off + slot[i].size <= slot[j].off
        BY <1>3, <2>2, <4>1
      <4> QED
        BY <1>2, <2>2, <2>5, <4>2
    <3> QED
      BY <3>1, <3>2
  <2>9. Full(pg, i) /\ new.right = Offset(pg, i)
    BY <1>1, <1>5, <1>8, <1>10, <2>5 DEF Offset
  <2>10. \A j \in L : \A h \in L : h < j => slot[j].off + slot[j].size <= slot[h].off
    BY <1>3
  <2> HIDE DEF new, i, slot, n, L
  <2>20. Moved(pg, new, i)
    BY <1>1, <1>4, <1>5, <2>5, <2>6, <2>7, <2>8, <2>9, <2>10 DEF Moved, slot, n, L
  <2> QED
    BY <2>20 DEF new, i
<1>11. CASE slot[i] # EmptySlot /\ acc.recover
  <2> DEFINE size == slot[i].size
             right == acc.right - size
  <2>1. i \in L /\ acc.slot[i].size = size
    BY <1>1, <1>5, <1>11
  <2>2. new = [acc EXCEPT !.right = right,
                          !.slot = [Overwrite(acc.slot, i, right, size) EXCEPT ![i].off = right]]
    BY <1>11, <2>1 DEF Move
  <2>3. size \in Nat /\ size > 8 /\ right \in Int /\ right + size = acc.right /\ right <= PageSize
        /\ slot[i].off <= right
    <3>1. size \in Nat /\ size > 8
      BY <1>2, <2>1
    <3>2. slot[i].off + size <= acc.right /\ slot[i].off \in Int
      BY <1>2, <1>5, <1>7, <2>1
    <3> DEFINE r == acc.right
               o == slot[i].off
    <3>3. r \in Int /\ r <= PageSize /\ PageSize \in Int
      BY <1>1, <1>4
    <3>4. o + size <= r /\ o \in Int
      BY <3>2
    <3> HIDE DEF size, r, o
    <3>5. r - size \in Int /\ (r - size) + size = r /\ r - size <= PageSize /\ o <= r - size
      BY <3>1, <3>3, <3>4
    <3> QED
      BY <3>1, <3>5 DEF r, o
  <2> HIDE DEF size, right
  <2>4. Overwrite(acc.slot, i, right, size) = acc.slot
    <3>1. ASSUME NEW j \in DOMAIN acc.slot, j # i, acc.slot[j] # EmptySlot
          PROVE  acc.slot[j].off >= right + size \/ acc.slot[j].off + acc.slot[j].size <= right
      <4>1. j \in 1..n /\ j \in L /\ acc.slot[j].size = slot[j].size
        BY <1>1, <1>4, <1>5, <3>1
      <4>2. CASE j > i
        <5>1. acc.slot[j] = slot[j]
          BY <1>5, <1>7, <4>1, <4>2
        <5>2. slot[j].off + slot[j].size <= slot[i].off
          BY <1>3, <2>1, <4>1, <4>2
        <5> DEFINE oj == slot[j].off
                   oi == slot[i].off
                   z == slot[j].size
        <5>3. oj \in Int /\ z \in Nat /\ oi \in Int /\ right \in Int /\ oi <= right
              /\ oj + z <= oi
          BY <1>2, <2>1, <2>3, <4>1, <5>2
        <5>4. acc.slot[j].off = oj /\ acc.slot[j].size = z
          BY <5>1
        <5> HIDE DEF oj, oi, z
        <5>5. oj + z <= right
          BY <5>3
        <5> QED
          BY <5>4, <5>5
      <4>3. CASE ~(j > i)
        <5>1. acc.right <= acc.slot[j].off
          BY <1>5, <1>7, <3>1, <4>1, <4>3
        <5> QED
          BY <1>6, <2>3, <4>1, <5>1
      <4> QED
        BY <4>2, <4>3
    <3> QED
      BY <1>4, <2>3, <3>1, NothingOverwritten
  <2> DEFINE S == [acc.slot EXCEPT ![i].off = right]
  <2>5. /\ S \in Seq(SlotT) /\ Len(S) = n /\ S[i].off = right /\ S[i].size = size /\ S[i].body = slot[i].body
        /\ S[i] \in SlotT /\ \A j \in 1..n : j # i => S[j] = acc.slot[j]
    <3>1. i \in DOMAIN acc.slot /\ DOMAIN acc.slot = 1..n
      BY <1>1, <1>4
    <3> DEFINE y == [acc.slot[i] EXCEPT !.off = right]
    <3>2. S = [acc.slot EXCEPT ![i] = y]
      OBVIOUS
    <3>3. y \in SlotT /\ y.off = right /\ y.size = size /\ y.body = slot[i].body
      BY <1>1, <1>5, <1>6, <2>1, <2>3 DEF SlotT
    <3> HIDE DEF y, S, i, n
    <3>4. S \in Seq(SlotT) /\ Len(S) = n /\ S[i] = y /\ \A j \in 1..n : j # i => S[j] = acc.slot[j]
      BY <1>4, <3>1, <3>2, <3>3
    <3> QED
      BY <3>3, <3>4
  <2>6. new = [acc EXCEPT !.right = right, !.slot = S]
    BY <2>2, <2>4
  <2> HIDE DEF S
  <2>7. /\ new.right = right /\ new.recover = TRUE /\ new.slot = S
        /\ new \in [right : Int, recover : BOOLEAN, slot : Seq(SlotT)]
    BY <1>4, <1>11, <2>3, <2>5, <2>6
  <2>8. ~Full(pg, k) /\ ~Full(pg, i)
    BY <1>5, <1>8, <1>11
  <2>9. S[i] # EmptySlot
    <3>1. EmptySlot.size = 0
      BY DEF EmptySlot
    <3> QED
      BY <2>3, <2>5, <3>1
  <2>10. ASSUME NEW j \in 1..n
         PROVE  /\ S[j] = EmptySlot <=> slot[j] = EmptySlot
                /\ S[j].size = slot[j].size /\ S[j].body = slot[j].body
                /\ j > i \/ Full(pg, j) => S[j] = slot[j]
    <3>1. CASE j = i
      BY <1>1, <1>11, <2>5, <2>8, <2>9, <3>1 DEF size
    <3>2. CASE j # i
      <4>1. S[j] = acc.slot[j] /\ (j > i => j > k)
        BY <1>1, <2>5, <3>2
      <4> QED
        BY <1>5, <4>1
    <3> QED
      BY <3>1, <3>2
  <2>11. ASSUME NEW j \in L, j > i PROVE slot[j].off + slot[j].size <= right
    <3>1. slot[j].off + slot[j].size <= slot[i].off
      BY <1>3, <2>1, <2>11
    <3> QED
      BY <1>2, <2>1, <2>3, <3>1
  <2>12. ASSUME NEW j \in L, ~(j > i)
         PROVE  /\ right <= S[j].off /\ S[j].off + slot[j].size <= PageSize
                /\ slot[j].off <= S[j].off
                /\ \A h \in L : h < j => S[j].off + slot[j].size <= S[h].off
    <3>1. CASE j = i
      <4>1. S[j].off = right /\ slot[j].size = size /\ slot[j].off <= right
        BY <2>3, <2>5, <3>1 DEF size
      <4>2. ASSUME NEW h \in L, h < j PROVE S[j].off + slot[j].size <= S[h].off
        <5>1. h \in 1..n /\ h # i /\ ~(h > k)
          BY <1>1, <1>2, <3>1, <4>2
        <5>2. S[h] = acc.slot[h] /\ acc.right <= acc.slot[h].off
          BY <1>5, <2>5, <5>1
        <5> QED
          BY <2>3, <4>1, <5>2
      <4> QED
        BY <1>4, <2>3, <4>1, <4>2
    <3>2. CASE j # i
      <4>1. j \in 1..n /\ ~(j > k) /\ S[j] = acc.slot[j]
        BY <1>2, <1>7, <2>5, <2>12, <3>2
      <4>2. /\ acc.right <= acc.slot[j].off /\ acc.slot[j].off + slot[j].size <= PageSize
            /\ slot[j].off <= acc.slot[j].off
            /\ \A h \in L : h < j => acc.slot[j].off + slot[j].size <= acc.slot[h].off
        BY <1>5, <4>1
      <4>3. \A h \in L : h < j => S[h] = acc.slot[h]
        BY <1>1, <1>2, <2>5, <4>1
      <4>4. right <= acc.slot[j].off
        BY <1>4, <1>6, <2>3, <4>1, <4>2
      <4> QED
        BY <4>1, <4>2, <4>3, <4>4
    <3> QED
      BY <3>1, <3>2
  <2> HIDE DEF new, i, slot, n, L
  <2>20. Moved(pg, new, i)
    BY <2>3, <2>5, <2>7, <2>8, <2>10, <2>11, <2>12 DEF Moved, slot, n, L
  <2> QED
    BY <2>20 DEF new, i
<1> QED
  BY <1>4, <1>9, <1>10, <1>11

\* _recoverSpace keeps a formatted page formatted, and its records where their slots say.
LEMMA RecoverKeeps ==
  ASSUME NEW pg, Formatted(pg)
  PROVE  LET new == RecoverSpace(pg)
         IN  /\ Formatted(new) /\ Len(new.slot) = Len(pg.slot)
             /\ new.slotOffset = pg.slotOffset /\ new.freeSpace = pg.freeSpace
             /\ new.freeOffset = pg.freeOffset
             /\ \A j \in 1..Len(pg.slot) : new.slot[j].body = pg.slot[j].body
<1> DEFINE new == RecoverSpace(pg)
           n == Len(pg.slot)
<1>1. /\ pg.valid = TRUE /\ pg.slot \in Seq(SlotT) /\ n \in Nat /\ pg \in PageT
      /\ DOMAIN pg.slot = 1..n
  <2>1. /\ pg.valid = TRUE /\ pg.slot \in Seq(SlotT) /\ pg \in PageT
    BY FormattedPages DEF Formatted
  <2> QED
    BY <2>1
<1>2. PICK r : /\ r[0] = Begin(pg)
               /\ \A k \in Nat : k < n => r[k + 1] = Move(pg, r[k], k + 1)
               /\ RecoverSpace(pg) = [pg EXCEPT !.slot = r[n].slot]
  BY <1>1, RecoverSteps
<1>3. Moved(pg, r[n], n)
  <2> DEFINE K == {k \in Nat : k <= n => Moved(pg, r[k], k)}
  <2>1. 0 \in K
    BY <1>2, MoveBegins
  <2>2. ASSUME NEW k \in Nat, k \in K PROVE k + 1 \in K
    <3> SUFFICES ASSUME k + 1 <= n PROVE Moved(pg, r[k + 1], k + 1)
      OBVIOUS
    <3>1. k < n /\ k <= n
      BY <1>1
    <3>2. Moved(pg, r[k], k) /\ r[k + 1] = Move(pg, r[k], k + 1)
      BY <1>2, <2>2, <3>1
    <3> HIDE DEF K
    <3> QED
      BY <3>1, <3>2, MoveStep
  <2>3. n \in K
    <3> HIDE DEF K, n
    <3> QED
      BY <1>1, <2>1, <2>2, NatInd
  <2> QED
    BY <1>1, <2>3
<1> DEFINE S == r[n].slot
           L == Live(pg)
<1>4. /\ S \in Seq(SlotT) /\ Len(S) = n
      /\ \A j \in 1..n : /\ S[j] = EmptySlot <=> pg.slot[j] = EmptySlot
                         /\ S[j].size = pg.slot[j].size /\ S[j].body = pg.slot[j].body
                         /\ Full(pg, j) => S[j] = pg.slot[j]
  BY <1>3 DEF Moved
<1>5. L = {j \in 1..n : pg.slot[j] # EmptySlot}
  BY <1>1 DEF Live
<1>6. \A j \in L : /\ S[j].off + pg.slot[j].size <= PageSize
                   /\ pg.slot[j].off <= S[j].off
                   /\ \A i \in L : i < j => S[j].off + pg.slot[j].size <= S[i].off
  <2>1. \A j \in L : ~(j > n)
    <3> HIDE DEF L, n
    <3> QED
      BY <1>1, <1>5
  <2> QED
    BY <1>3, <2>1 DEF Moved
<1>7. new = [pg EXCEPT !.slot = S]
  BY <1>2
<1> HIDE DEF new, S
<1>8. /\ new \in PageT /\ new.slot = S /\ new.valid = TRUE /\ new.slotOffset = pg.slotOffset
      /\ new.freeSpace = pg.freeSpace /\ new.freeOffset = pg.freeOffset
  BY <1>1, <1>4, <1>7 DEF PageT
<1> HIDE DEF n
<1>9. DOMAIN S = 1..n
  BY <1>1, <1>4
<1>10. Live(new) = L
  BY <1>4, <1>5, <1>8, <1>9 DEF Live
<1>11. Sizes(S) = Sizes(pg.slot)
  BY <1>1, <1>4, <1>9 DEF Sizes
<1>12. PageAccounts(new)
  <2>1. PageAccounts(pg)
    BY DEF Formatted
  <2>2. /\ pg.slotOffset = 28 + 4 * n /\ pg.slotOffset <= pg.freeOffset
        /\ pg.freeSpace = PageSize - pg.slotOffset - Total(Sizes(pg.slot))
    BY <1>1, <2>1, Accounts DEF n
  <2> QED
    BY <1>4, <1>8, <1>11, <2>2, Accounts
<1>13. ASSUME NEW j \in L
       PROVE  /\ S[j].size > RecordHeaderSize /\ S[j].body \in Body /\ S[j].size = pg.slot[j].size
              /\ pg.freeOffset <= S[j].off /\ S[j].off + S[j].size <= PageSize
  <2> DEFINE o == pg.slot[j].off
             p == S[j].off
             f == pg.freeOffset
  <2>1. /\ j \in 1..n /\ o \in Int /\ f \in Int /\ f <= o
        /\ pg.slot[j].size > 8 /\ pg.slot[j].body \in Body
    BY LiveSlot, FormattedPages DEF n
  <2>2. S[j].size = pg.slot[j].size /\ S[j].body = pg.slot[j].body
    BY <1>4, <2>1
  <2>3. o <= p /\ S[j].off + pg.slot[j].size <= PageSize
    BY <1>6
  <2>4. p \in Int
    <3>1. S[j] \in SlotT
      BY <1>4, <1>9, <2>1
    <3> QED
      BY <3>1 DEF SlotT
  <2> HIDE DEF o, p, f
  <2>5. f <= p
    BY <2>1, <2>3, <2>4
  <2> QED
    BY <2>1, <2>2, <2>3, <2>5, NumbersAre DEF Numbers, p, f
<1>14. RecordsApart(new)
  <2>1. \A j \in Live(new) : new.freeOffset <= new.slot[j].off /\ new.slot[j].off + new.slot[j].size <= PageSize
    BY <1>8, <1>10, <1>13
  <2>2. \A i, j \in Live(new) : i < j => new.slot[j].off + new.slot[j].size <= new.slot[i].off
    BY <1>6, <1>8, <1>10, <1>13
  <2> QED
    BY <2>1, <2>2 DEF RecordsApart
<1>15. Packed(new)
  <2>1. Packed(pg)
    BY DEF Formatted
  <2>2. \A i \in 0..n : Full(new, i) <=> Full(pg, i)
    <3>1. ASSUME NEW i \in 0..n PROVE \A j \in 1..i : new.slot[j] = EmptySlot <=> pg.slot[j] = EmptySlot
      BY <1>1, <1>4, <1>8
    <3> QED
      BY <3>1 DEF Full
  <2>3. ASSUME NEW i \in 0..n, Full(pg, i) PROVE \A j \in 1..i : new.slot[j] = pg.slot[j]
    <3>1. ASSUME NEW j \in 1..i PROVE j \in 1..n /\ Full(pg, j)
      BY <1>1, <2>3 DEF Full
    <3> QED
      BY <1>4, <1>8, <3>1
  <2>4. ASSUME NEW i \in 0..n, Full(pg, i) PROVE Offset(new, i) = Offset(pg, i)
    BY <1>1, <2>3, <2>4 DEF Offset
  <2>5. DOMAIN new.slot = 1..n /\ DOMAIN pg.slot = 1..n /\ NumSlots(new) = n /\ NumSlots(pg) = n
    BY <1>1, <1>4, <1>8, <1>9 DEF n, NumSlots
  <2>6. ASSUME NEW i \in 1..n, Full(new, i)
        PROVE  new.slot[i].off + new.slot[i].size = Offset(new, i - 1)
    <3>1. Full(pg, i) /\ Full(pg, i - 1) /\ i - 1 \in 0..n /\ i \in 0..n
      BY <1>1, <2>2, <2>6 DEF Full
    <3>2. Offset(new, i - 1) = Offset(pg, i - 1) /\ new.slot[i] = pg.slot[i]
      BY <1>1, <2>3, <2>4, <3>1
    <3> QED
      BY <2>1, <2>5, <3>1, <3>2 DEF Packed
  <2>7. ASSUME Full(new, n) PROVE new.freeOffset = Offset(new, n)
    BY <1>1, <1>8, <2>1, <2>2, <2>4, <2>5, <2>7 DEF Packed
  <2> QED
    BY <2>5, <2>6, <2>7 DEF Packed
<1>16. new.freeOffset + RecordHeaderSize * NumSlots(new) <= PageSize /\ new.freeSpace >= Gap(new)
  <2>1. NumSlots(new) = NumSlots(pg)
    BY <1>4, <1>8 DEF NumSlots, n
  <2> QED
    BY <1>8, <2>1 DEF Formatted, Gap
<1> QED
  BY <1>4, <1>8, <1>10, <1>12, <1>13, <1>14, <1>15, <1>16 DEF Formatted, new, n

\* The test for _recoverSpace fails exactly when the record fits: recovery never helps the
\* insert that asked for it.
LEMMA RecoveredIs ==
  ASSUME NEW pg, Formatted(pg), NEW b \in Body
  PROVE  LET new == Recovered(pg, b)
         IN  /\ HasRoom(new, b) => new = pg
             /\ Formatted(new) /\ Len(new.slot) = Len(pg.slot)
             /\ new.freeSpace = pg.freeSpace
             /\ \A j \in 1..Len(pg.slot) : new.slot[j].body = pg.slot[j].body
<1> DEFINE new == Recovered(pg, b)
<1>1. CASE new = pg
  BY <1>1
<1>2. CASE new # pg
  <2>1. pg.slotOffset + Need(b) > pg.freeOffset /\ new = RecoverSpace(pg)
    BY <1>2 DEF Recovered
  <2>2. pg.slotOffset \in Int /\ pg.freeOffset \in Int /\ Need(b) \in Int
    <3>1. Need(b) \in Int
      <4>1. BodySize[b] \in Nat
        BY BodyAssumption
      <4> QED
        BY <4>1, NumbersAre DEF Numbers, Need
    <3> QED
      BY <3>1, FormattedPages
  <2> HIDE DEF new
  <2>3. /\ Formatted(new) /\ Len(new.slot) = Len(pg.slot)
        /\ new.slotOffset = pg.slotOffset /\ new.freeSpace = pg.freeSpace
        /\ new.freeOffset = pg.freeOffset
        /\ \A j \in 1..Len(pg.slot) : new.slot[j].body = pg.slot[j].body
    BY <2>1, RecoverKeeps
  <2>4. ~HasRoom(new, b)
    <3> DEFINE s == pg.slotOffset
               f == pg.freeOffset
               d == Need(b)
    <3>1. s \in Int /\ f \in Int /\ d \in Int /\ s + d > f
      BY <2>1, <2>2
    <3>2. Gap(new) = f - s
      BY <2>3 DEF Gap
    <3> HIDE DEF s, f, d
    <3>3. ~(Gap(new) >= d)
      BY <3>1, <3>2
    <3> QED
      BY <3>3 DEF HasRoom, d
  <2> QED
    BY <2>3, <2>4 DEF new
<1> QED
  BY <1>1, <1>2

====
