-------------------------- MODULE BsonOrderProofs --------------------------
(***************************************************************************)
(* The order of BSON documents (BSONElement::woCompare, BSONObj::woCompare)*)
(* is a total preorder, for documents of every length and every depth: it  *)
(* is antisymmetric and transitive, whatever places are compared in        *)
(* reverse, with and without the field names.                              *)
(*                                                                         *)
(* The argument is by the depth: if the documents nested in the elements   *)
(* of a document are ordered, then so are its elements, and so are the     *)
(* sequences of such elements.                                             *)
(***************************************************************************)
EXTENDS BsonElement, SequenceTheorems, WellFoundedInduction, TLAPS

\* What a comparison returns.
Signs == {-1, 0, 1}

\* f is a total preorder of S: x comes before y, or is equal to it, when f[<<x, y>>] <= 0.
IsPreorder(f, S) ==
  /\ f \in [S \X S -> Signs]
  /\ \A x, y \in S : f[<<y, x>>] = -f[<<x, y>>]
  /\ \A x, y, z \in S : f[<<x, y>>] <= 0 /\ f[<<y, z>>] <= 0 => f[<<x, z>>] <= 0

(***************************************************************************)
(* Three comparisons in a circle.  That three things are ordered is the    *)
(* same as this: xy, yz and zx are all zero, or one is negative and one is *)
(* positive.  In this form the three play the same part.                   *)
(***************************************************************************)
Circle(xy, yz, zx) ==
  /\ xy \in Signs /\ yz \in Signs /\ zx \in Signs
  /\ \/ xy = 0 /\ yz = 0 /\ zx = 0
     \/ (xy = -1 \/ yz = -1 \/ zx = -1) /\ (xy = 1 \/ yz = 1 \/ zx = 1)

Mirrored(xy, yx) == xy \in Signs /\ yx = -xy

\* Comparisons that are mirrored and close every circle are a preorder.
LEMMA CirclesOrder ==
  ASSUME NEW S, NEW f \in [S \X S -> Signs],
         \A x, y \in S : Mirrored(f[<<x, y>>], f[<<y, x>>]),
         \A x, y, z \in S : Circle(f[<<x, y>>], f[<<y, z>>], f[<<z, x>>])
  PROVE  IsPreorder(f, S)
<1>1. ASSUME NEW x \in S, NEW y \in S PROVE f[<<y, x>>] = -f[<<x, y>>]
  BY DEF Mirrored
<1>2. ASSUME NEW x \in S, NEW y \in S, NEW z \in S, f[<<x, y>>] <= 0, f[<<y, z>>] <= 0
      PROVE  f[<<x, z>>] <= 0
  <2>1. Circle(f[<<x, y>>], f[<<y, z>>], f[<<z, x>>])
    OBVIOUS
  <2>2. Mirrored(f[<<z, x>>], f[<<x, z>>])
    OBVIOUS
  <2> QED
    BY <2>1, <2>2, <1>2 DEF Circle, Mirrored, Signs
<1> QED
  BY <1>1, <1>2 DEF IsPreorder

\* And the other way round.
LEMMA OrderCircles ==
  ASSUME NEW S, NEW f, IsPreorder(f, S)
  PROVE  /\ \A x, y \in S : Mirrored(f[<<x, y>>], f[<<y, x>>])
         /\ \A x, y, z \in S : Circle(f[<<x, y>>], f[<<y, z>>], f[<<z, x>>])
<1>1. ASSUME NEW x \in S, NEW y \in S PROVE Mirrored(f[<<x, y>>], f[<<y, x>>])
  BY DEF IsPreorder, Mirrored
<1>2. ASSUME NEW x \in S, NEW y \in S, NEW z \in S
      PROVE  Circle(f[<<x, y>>], f[<<y, z>>], f[<<z, x>>])
  <2>1. /\ f[<<x, y>>] \in Signs /\ f[<<y, z>>] \in Signs /\ f[<<z, x>>] \in Signs
    BY DEF IsPreorder
  <2>2. /\ f[<<y, x>>] = -f[<<x, y>>] /\ f[<<z, y>>] = -f[<<y, z>>] /\ f[<<x, z>>] = -f[<<z, x>>]
    BY DEF IsPreorder
  <2>3. /\ f[<<x, y>>] <= 0 /\ f[<<y, z>>] <= 0 => f[<<x, z>>] <= 0
        /\ f[<<y, z>>] <= 0 /\ f[<<z, x>>] <= 0 => f[<<y, x>>] <= 0
        /\ f[<<z, x>>] <= 0 /\ f[<<x, y>>] <= 0 => f[<<z, y>>] <= 0
    BY DEF IsPreorder
  <2>4. /\ f[<<y, x>>] <= 0 /\ f[<<x, z>>] <= 0 => f[<<y, z>>] <= 0
        /\ f[<<z, y>>] <= 0 /\ f[<<y, x>>] <= 0 => f[<<z, x>>] <= 0
        /\ f[<<x, z>>] <= 0 /\ f[<<z, y>>] <= 0 => f[<<x, y>>] <= 0
    BY DEF IsPreorder
  <2> DEFINE p == f[<<x, y>>]  q == f[<<y, z>>]  r == f[<<z, x>>]
  <2>5. /\ p <= 0 /\ q <= 0 => -r <= 0
        /\ q <= 0 /\ r <= 0 => -p <= 0
        /\ r <= 0 /\ p <= 0 => -q <= 0
        /\ -p <= 0 /\ -r <= 0 => q <= 0
        /\ -q <= 0 /\ -p <= 0 => r <= 0
        /\ -r <= 0 /\ -q <= 0 => p <= 0
    BY <2>2, <2>3, <2>4
  <2>6. p \in Signs /\ q \in Signs /\ r \in Signs
    BY <2>1
  <2> HIDE DEF p, q, r
  <2>7. Circle(p, q, r)
    BY <2>5, <2>6 DEF Circle, Signs
  <2> QED
    BY <2>7 DEF p, q, r
<1> QED
  BY <1>1, <1>2

\* Circles turn.
LEMMA Turn ==
  ASSUME NEW xy, NEW yz, NEW zx, Circle(yz, zx, xy)
  PROVE  Circle(xy, yz, zx)
BY DEF Circle

\* The sign of a difference of numbers.
LEMMA SignIs ==
  ASSUME NEW x \in Int
  PROVE  Sign(x) \in Signs /\ (x < 0 => Sign(x) = -1) /\ (x = 0 => Sign(x) = 0) /\ (x > 0 => Sign(x) = 1)
BY DEF Sign, Signs

LEMMA NumbersMirror ==
  ASSUME NEW x \in Int, NEW y \in Int
  PROVE  Mirrored(Sign(x - y), Sign(y - x))
BY DEF Sign, Signs, Mirrored

LEMMA NumbersCircle ==
  ASSUME NEW x \in Int, NEW y \in Int, NEW z \in Int
  PROVE  Circle(Sign(x - y), Sign(y - z), Sign(z - x))
BY DEF Sign, Signs, Circle

\* Comparing by one thing and then, where that is equal, by another.
Then(p, q) == IF p # 0 THEN p ELSE q

LEMMA ThenMirror ==
  ASSUME NEW p, NEW pm, NEW q, NEW qm, Mirrored(p, pm), p = 0 => Mirrored(q, qm)
  PROVE  Mirrored(Then(p, q), Then(pm, qm))
BY DEF Mirrored, Then, Signs

LEMMA ThenCircle ==
  ASSUME NEW xy, NEW yz, NEW zx, NEW xy2, NEW yz2, NEW zx2,
         Circle(xy, yz, zx),
         xy = 0 => xy2 \in Signs, yz = 0 => yz2 \in Signs, zx = 0 => zx2 \in Signs,
         xy = 0 /\ yz = 0 /\ zx = 0 => Circle(xy2, yz2, zx2)
  PROVE  Circle(Then(xy, xy2), Then(yz, yz2), Then(zx, zx2))
<1>1. Then(xy, xy2) \in Signs /\ Then(yz, yz2) \in Signs /\ Then(zx, zx2) \in Signs
  BY DEF Then, Circle
<1>2. CASE xy = 0 /\ yz = 0 /\ zx = 0
  BY <1>2 DEF Then
<1>3. CASE ~(xy = 0 /\ yz = 0 /\ zx = 0)
  <2>1. (xy = -1 \/ yz = -1 \/ zx = -1) /\ (xy = 1 \/ yz = 1 \/ zx = 1)
    BY <1>3 DEF Circle
  <2>2. /\ xy # 0 => Then(xy, xy2) = xy
        /\ yz # 0 => Then(yz, yz2) = yz
        /\ zx # 0 => Then(zx, zx2) = zx
    BY DEF Then
  <2> QED
    BY <1>1, <2>1, <2>2 DEF Circle
<1> QED
  BY <1>2, <1>3

(***************************************************************************)
(* Comparing sequences in order: the least place at which they differ      *)
(* decides.  Induction is by a set of numbers, since the provers cannot    *)
(* take a predicate.                                                       *)
(***************************************************************************)
\* A set of naturals has a least element.
LEMMA NatMin ==
  ASSUME NEW T, T \subseteq Nat, T # {}
  PROVE  \E x \in T : \A y \in T : x <= y
<1> DEFINE R == {ss \in Nat \X Nat : ss[1] < ss[2]}
<1>1. IsWellFoundedOn(R, Nat)
  <2>1. IsWellFoundedOn(OpToRel(<, Nat), Nat)
    BY NatLessThanWellFounded, Zenon
  <2>2. OpToRel(<, Nat) = R
    BY Zenon DEF OpToRel
  <2> QED
    BY <2>1, <2>2
<1> HIDE DEF R
<1>2. PICK x \in T : \A y \in T : <<y, x>> \notin R
  BY <1>1, WFMin
<1>3. ASSUME NEW y \in T PROVE x <= y
  <2>1. <<y, x>> \in Nat \X Nat /\ <<y, x>> \notin R
    BY <1>2
  <2> QED
    BY <2>1 DEF R
<1> QED
  BY <1>3

\* Induction, for a set instead of a predicate.
LEMMA NatInd ==
  ASSUME NEW S, 0 \in S, \A n \in Nat : n \in S => n + 1 \in S
  PROVE  \A n \in Nat : n \in S
<1> SUFFICES ASSUME ~(\A n \in Nat : n \in S) PROVE FALSE
  OBVIOUS
<1> DEFINE T == Nat \ S
<1>1. PICK x \in T : \A y \in T : x <= y
  <2>1. T \subseteq Nat /\ T # {}
    OBVIOUS
  <2> HIDE DEF T
  <2> QED
    BY <2>1, NatMin
<1>2. x # 0 /\ x \in Nat
  OBVIOUS
<1>3. x - 1 \in Nat /\ x - 1 \in S
  BY <1>1, <1>2
<1> QED
  BY <1>2, <1>3

\* Min of the community modules is a least element.
LEMMA MinIs ==
  ASSUME NEW T, T \subseteq Nat, T # {}
  PROVE  Min(T) \in T /\ \A y \in T : Min(T) <= y
BY NatMin DEF Min

Both(a, b) == DOMAIN a \cap DOMAIN b
DifferAt(a, b, cmp) == {i \in Both(a, b) : cmp[i] # 0}
Turned(s, k, neg) == IF k \in neg THEN -s ELSE s

LEMMA BothIs ==
  ASSUME NEW a, NEW b, DOMAIN a = 1..Len(a), DOMAIN b = 1..Len(b), Len(a) \in Nat, Len(b) \in Nat
  PROVE  /\ Both(a, b) = Both(b, a) /\ Both(a, b) \subseteq Nat
         /\ \A i \in Nat : i \in Both(a, b) <=> 1 <= i /\ i <= Len(a) /\ i <= Len(b)
BY DEF Both

\* Nothing differs: the lengths decide.
LEMMA InOrderSame ==
  ASSUME NEW a, NEW b, NEW cmp, NEW neg, DifferAt(a, b, cmp) = {}
  PROVE  compareInOrder(a, b, cmp, neg) = Sign(Len(a) - Len(b))
BY DEF compareInOrder, DifferAt, Both

\* The first place that differs decides.
LEMMA InOrderAt ==
  ASSUME NEW a, NEW b, NEW cmp, NEW neg, DifferAt(a, b, cmp) \subseteq Nat,
         NEW k \in DifferAt(a, b, cmp), \A i \in DifferAt(a, b, cmp) : k <= i
  PROVE  compareInOrder(a, b, cmp, neg) = Turned(cmp[k], k, neg)
<1> DEFINE T == DifferAt(a, b, cmp)
<1>1. Min(T) \in T /\ Min(T) <= k
  BY MinIs
<1>2. Min(T) = k
  <2>1. k <= Min(T) /\ k \in Nat /\ Min(T) \in Nat
    BY <1>1
  <2> QED
    BY <1>1, <2>1
<1>3. compareInOrder(a, b, cmp, neg) = IF Min(T) \in neg THEN -cmp[Min(T)] ELSE cmp[Min(T)]
  BY DEF compareInOrder, DifferAt, Both
<1> QED
  BY <1>2, <1>3 DEF Turned

IsSeq(a) == Len(a) \in Nat /\ DOMAIN a = 1..Len(a)

LEMMA SeqIsSeq ==
  ASSUME NEW S, NEW a \in Seq(S)
  PROVE  IsSeq(a)
BY DEF IsSeq

LEMMA TurnedSign ==
  ASSUME NEW s \in Signs, NEW k, NEW neg
  PROVE  Turned(s, k, neg) \in Signs /\ Turned(-s, k, neg) = -Turned(s, k, neg)
BY DEF Turned, Signs

\* A comparison in order is a sign, and mirrored where the comparisons of the elements are.
LEMMA InOrderMirror ==
  ASSUME NEW a, NEW b, IsSeq(a), IsSeq(b), NEW p, NEW q, NEW neg,
         \A i \in Both(a, b) : Mirrored(p[i], q[i])
  PROVE  Mirrored(compareInOrder(a, b, p, neg), compareInOrder(b, a, q, neg))
<1> DEFINE T == DifferAt(a, b, p)
<1>1. Both(a, b) = Both(b, a) /\ Both(a, b) \subseteq Nat
  BY BothIs DEF IsSeq
<1>2. DifferAt(b, a, q) = T /\ T \subseteq Nat /\ T \subseteq Both(a, b)
  <2>1. ASSUME NEW i \in Both(a, b) PROVE p[i] # 0 <=> q[i] # 0
    BY <2>1 DEF Mirrored, Signs
  <2> QED
    BY <1>1, <2>1 DEF DifferAt
<1> HIDE DEF T
<1>3. CASE T = {}
  <2>1. /\ compareInOrder(a, b, p, neg) = Sign(Len(a) - Len(b))
        /\ compareInOrder(b, a, q, neg) = Sign(Len(b) - Len(a))
    BY <1>2, <1>3, InOrderSame DEF T
  <2>2. Len(a) \in Int /\ Len(b) \in Int
    BY DEF IsSeq
  <2>3. Mirrored(Sign(Len(a) - Len(b)), Sign(Len(b) - Len(a)))
    BY <2>2, NumbersMirror
  <2> QED
    BY <2>1, <2>3
<1>4. CASE T # {}
  <2>1. PICK k \in T : \A i \in T : k <= i
    BY <1>2, <1>4, NatMin
  <2>2. compareInOrder(a, b, p, neg) = Turned(p[k], k, neg)
    BY <1>2, <2>1, InOrderAt DEF T
  <2>3. compareInOrder(b, a, q, neg) = Turned(q[k], k, neg)
    <3> DEFINE U == DifferAt(b, a, q)
    <3>1. U \subseteq Nat /\ k \in U /\ \A i \in U : k <= i
      BY <1>2, <2>1
    <3> QED
      BY <3>1, InOrderAt
  <2>4. p[k] \in Signs /\ q[k] = -p[k]
    BY <1>2, <2>1 DEF Mirrored
  <2> QED
    BY <2>2, <2>3, <2>4, TurnedSign DEF Mirrored
<1> QED
  BY <1>3, <1>4

\* The comparisons of three sequences in order, of which the first two differ at k, the least
\* place at which any two of them do.
LEMMA InOrderFirst ==
  ASSUME NEW a, NEW b, NEW c, IsSeq(a), IsSeq(b), IsSeq(c), NEW p, NEW q, NEW r, NEW neg,
         \A i \in Both(a, b) : p[i] \in Signs,
         \A i \in Both(b, c) : q[i] \in Signs,
         \A i \in Both(c, a) : r[i] \in Signs,
         \A i \in Both(a, b) : i \in DOMAIN c => Circle(p[i], q[i], r[i]),
         compareInOrder(a, b, p, neg) \in Signs,
         compareInOrder(b, c, q, neg) \in Signs,
         compareInOrder(c, a, r, neg) \in Signs,
         NEW k \in DifferAt(a, b, p),
         \A i \in DifferAt(a, b, p) \cup DifferAt(b, c, q) \cup DifferAt(c, a, r) : k <= i
  PROVE  Circle(compareInOrder(a, b, p, neg), compareInOrder(b, c, q, neg),
                compareInOrder(c, a, r, neg))
<1> DEFINE A == compareInOrder(a, b, p, neg)
           B == compareInOrder(b, c, q, neg)
           C == compareInOrder(c, a, r, neg)
<1>1. /\ DifferAt(a, b, p) \subseteq Nat /\ DifferAt(b, c, q) \subseteq Nat
      /\ DifferAt(c, a, r) \subseteq Nat
  BY BothIs DEF IsSeq, DifferAt
<1>2. /\ k \in Nat /\ k \in Both(a, b) /\ 1 <= k /\ k <= Len(a) /\ k <= Len(b)
  <2>1. k \in Nat /\ k \in Both(a, b)
    BY <1>1 DEF DifferAt
  <2> QED
    BY <2>1, BothIs DEF IsSeq
<1>3. A = Turned(p[k], k, neg)
  BY <1>1, InOrderAt
<1>4. CASE k <= Len(c)
  <2>1. k \in DOMAIN c /\ k \in Both(b, c) /\ k \in Both(c, a)
    BY <1>2, <1>4 DEF IsSeq, Both
  <2>2. Circle(p[k], q[k], r[k]) /\ p[k] # 0
    BY <1>2, <2>1 DEF DifferAt
  <2>3. q[k] # 0 => B = Turned(q[k], k, neg)
    <3> SUFFICES ASSUME q[k] # 0 PROVE B = Turned(q[k], k, neg)
      OBVIOUS
    <3>1. k \in DifferAt(b, c, q) /\ \A i \in DifferAt(b, c, q) : k <= i
      BY <2>1 DEF DifferAt
    <3> QED
      BY <1>1, <3>1, InOrderAt
  <2>4. r[k] # 0 => C = Turned(r[k], k, neg)
    <3> SUFFICES ASSUME r[k] # 0 PROVE C = Turned(r[k], k, neg)
      OBVIOUS
    <3>1. k \in DifferAt(c, a, r) /\ \A i \in DifferAt(c, a, r) : k <= i
      BY <2>1 DEF DifferAt
    <3> QED
      BY <1>1, <3>1, InOrderAt
  <2>5. A \in Signs /\ B \in Signs /\ C \in Signs
    OBVIOUS
  <2> HIDE DEF A, B, C
  <2>6. Circle(A, B, C)
    BY <1>3, <2>2, <2>3, <2>4, <2>5 DEF Circle, Turned
  <2> QED
    BY <2>6 DEF A, B, C
<1>5. CASE ~(k <= Len(c))
  <2>1. Len(a) \in Nat /\ Len(b) \in Nat /\ Len(c) \in Nat
    BY DEF IsSeq
  <2>2. DifferAt(b, c, q) = {}
    <3> SUFFICES ASSUME NEW i \in DifferAt(b, c, q) PROVE FALSE
      OBVIOUS
    <3>1. k <= i /\ i \in Nat /\ i \in Both(b, c)
      BY <1>1 DEF DifferAt
    <3>2. i <= Len(c)
      BY <3>1, BothIs DEF IsSeq
    <3> QED
      BY <1>2, <1>5, <2>1, <3>1, <3>2
  <2>3. DifferAt(c, a, r) = {}
    <3> SUFFICES ASSUME NEW i \in DifferAt(c, a, r) PROVE FALSE
      OBVIOUS
    <3>1. k <= i /\ i \in Nat /\ i \in Both(c, a)
      BY <1>1 DEF DifferAt
    <3>2. i <= Len(c)
      BY <3>1, BothIs DEF IsSeq
    <3> QED
      BY <1>2, <1>5, <2>1, <3>1, <3>2
  <2>4. B = Sign(Len(b) - Len(c)) /\ C = Sign(Len(c) - Len(a))
    BY <2>2, <2>3, InOrderSame
  <2>5. Len(b) - Len(c) > 0 /\ Len(c) - Len(a) < 0 /\ Len(b) - Len(c) \in Int /\ Len(c) - Len(a) \in Int
    BY <1>2, <1>5, <2>1
  <2>6. B = 1 /\ C = -1
    BY <2>4, <2>5, SignIs
  <2> QED
    BY <2>6 DEF Circle
<1> QED
  BY <1>4, <1>5

\* Sequences are ordered where their elements are.
LEMMA InOrderCircle ==
  ASSUME NEW a, NEW b, NEW c, IsSeq(a), IsSeq(b), IsSeq(c), NEW p, NEW q, NEW r, NEW neg,
         \A i \in Both(a, b) : p[i] \in Signs,
         \A i \in Both(b, c) : q[i] \in Signs,
         \A i \in Both(c, a) : r[i] \in Signs,
         \A i \in Both(a, b) : i \in DOMAIN c => Circle(p[i], q[i], r[i])
  PROVE  Circle(compareInOrder(a, b, p, neg), compareInOrder(b, c, q, neg),
                compareInOrder(c, a, r, neg))
<1> DEFINE A == compareInOrder(a, b, p, neg)
           B == compareInOrder(b, c, q, neg)
           C == compareInOrder(c, a, r, neg)
           T == DifferAt(a, b, p) \cup DifferAt(b, c, q) \cup DifferAt(c, a, r)
<1>1. A \in Signs /\ B \in Signs /\ C \in Signs
  <2>1. \A i \in Both(a, b) : Mirrored(p[i], [j \in Both(a, b) |-> -p[j]][i])
    BY DEF Mirrored
  <2>2. \A i \in Both(b, c) : Mirrored(q[i], [j \in Both(b, c) |-> -q[j]][i])
    BY DEF Mirrored
  <2>3. \A i \in Both(c, a) : Mirrored(r[i], [j \in Both(c, a) |-> -r[j]][i])
    BY DEF Mirrored
  <2>4. A \in Signs
    BY <2>1, InOrderMirror DEF Mirrored
  <2>5. B \in Signs
    BY <2>2, InOrderMirror DEF Mirrored
  <2>6. C \in Signs
    BY <2>3, InOrderMirror DEF Mirrored
  <2> QED
    BY <2>4, <2>5, <2>6
<1>2. T \subseteq Nat
  BY BothIs DEF IsSeq, DifferAt
<1>3. CASE T = {}
  <2>1. A = Sign(Len(a) - Len(b)) /\ B = Sign(Len(b) - Len(c)) /\ C = Sign(Len(c) - Len(a))
    BY <1>3, InOrderSame
  <2>2. Len(a) \in Int /\ Len(b) \in Int /\ Len(c) \in Int
    BY DEF IsSeq
  <2>3. Circle(Sign(Len(a) - Len(b)), Sign(Len(b) - Len(c)), Sign(Len(c) - Len(a)))
    BY <2>2, NumbersCircle
  <2> QED
    BY <2>1, <2>3
<1>4. CASE T # {}
  <2> HIDE DEF T
  <2>1. PICK k \in T : \A i \in T : k <= i
    BY <1>2, <1>4, NatMin
  <2>2. \A i \in Both(b, c) : i \in DOMAIN a => Circle(q[i], r[i], p[i])
    BY DEF Both, Circle
  <2>3. \A i \in Both(c, a) : i \in DOMAIN b => Circle(r[i], p[i], q[i])
    BY DEF Both, Circle
  <2>4. CASE k \in DifferAt(a, b, p)
    BY <1>1, <2>1, <2>4, InOrderFirst DEF T
  <2>5. CASE k \in DifferAt(b, c, q)
    <3>1. \A i \in DifferAt(b, c, q) \cup DifferAt(c, a, r) \cup DifferAt(a, b, p) : k <= i
      BY <2>1 DEF T
    <3>2. Circle(B, C, A)
      BY <1>1, <2>2, <2>5, <3>1, InOrderFirst
    <3> QED
      BY <3>2, Turn
  <2>6. CASE k \in DifferAt(c, a, r)
    <3>1. \A i \in DifferAt(c, a, r) \cup DifferAt(a, b, p) \cup DifferAt(b, c, q) : k <= i
      BY <2>1 DEF T
    <3>2. Circle(C, A, B)
      BY <1>1, <2>3, <2>6, <3>1, InOrderFirst
    <3>3. Circle(B, C, A)
      BY <3>2, Turn
    <3> QED
      BY <3>3, Turn
  <2> QED
    BY <2>1, <2>4, <2>5, <2>6 DEF T
<1> QED
  BY <1>3, <1>4

(***************************************************************************)
(* memcmp and strcmp.                                                      *)
(***************************************************************************)
LEMMA CharMirror ==
  ASSUME NEW s \in Seq(Int), NEW t \in Seq(Int), NEW i \in Both(s, t)
  PROVE  s[i] \in Int /\ t[i] \in Int /\ Mirrored(Sign(s[i] - t[i]), Sign(t[i] - s[i]))
<1>1. s[i] \in Int /\ t[i] \in Int
  BY DEF Both
<1> QED
  BY <1>1, NumbersMirror

LEMMA LexCmpMirror ==
  ASSUME NEW s \in Seq(Int), NEW t \in Seq(Int)
  PROVE  Mirrored(LexCmp(s, t), LexCmp(t, s))
<1> DEFINE p == [i \in Both(s, t) |-> Sign(s[i] - t[i])]
           q == [i \in Both(t, s) |-> Sign(t[i] - s[i])]
<1>1. \A i \in Both(s, t) : Mirrored(p[i], q[i])
  <2> SUFFICES ASSUME NEW i \in Both(s, t) PROVE Mirrored(p[i], q[i])
    OBVIOUS
  <2>1. i \in Both(t, s)
    BY DEF Both
  <2>2. p[i] = Sign(s[i] - t[i]) /\ q[i] = Sign(t[i] - s[i])
    BY <2>1
  <2> QED
    BY <2>2, CharMirror
<1>2. LexCmp(s, t) = compareInOrder(s, t, p, {}) /\ LexCmp(t, s) = compareInOrder(t, s, q, {})
  BY DEF LexCmp, Both
<1> HIDE DEF p, q
<1>3. IsSeq(s) /\ IsSeq(t)
  BY SeqIsSeq
<1> QED
  BY <1>1, <1>2, <1>3, InOrderMirror

LEMMA LexCmpCircle ==
  ASSUME NEW s \in Seq(Int), NEW t \in Seq(Int), NEW u \in Seq(Int)
  PROVE  Circle(LexCmp(s, t), LexCmp(t, u), LexCmp(u, s))
<1> DEFINE p == [i \in Both(s, t) |-> Sign(s[i] - t[i])]
           q == [i \in Both(t, u) |-> Sign(t[i] - u[i])]
           r == [i \in Both(u, s) |-> Sign(u[i] - s[i])]
<1>1. \A i \in Both(s, t) : p[i] \in Signs
  BY CharMirror DEF Mirrored
<1>2. \A i \in Both(t, u) : q[i] \in Signs
  BY CharMirror DEF Mirrored
<1>3. \A i \in Both(u, s) : r[i] \in Signs
  BY CharMirror DEF Mirrored
<1>4. \A i \in Both(s, t) : i \in DOMAIN u => Circle(p[i], q[i], r[i])
  <2> SUFFICES ASSUME NEW i \in Both(s, t), i \in DOMAIN u PROVE Circle(p[i], q[i], r[i])
    OBVIOUS
  <2>1. i \in Both(t, u) /\ i \in Both(u, s)
    BY DEF Both
  <2>2. p[i] = Sign(s[i] - t[i]) /\ q[i] = Sign(t[i] - u[i]) /\ r[i] = Sign(u[i] - s[i])
    BY <2>1
  <2>3. s[i] \in Int /\ t[i] \in Int /\ u[i] \in Int
    BY <2>1, CharMirror
  <2> QED
    BY <2>2, <2>3, NumbersCircle
<1>5. /\ LexCmp(s, t) = compareInOrder(s, t, p, {}) /\ LexCmp(t, u) = compareInOrder(t, u, q, {})
      /\ LexCmp(u, s) = compareInOrder(u, s, r, {})
  BY DEF LexCmp, Both
<1> HIDE DEF p, q, r
<1>6. IsSeq(s) /\ IsSeq(t) /\ IsSeq(u)
  BY SeqIsSeq
<1> QED
  BY <1>1, <1>2, <1>3, <1>4, <1>5, <1>6, InOrderCircle

LEMMA CStringType ==
  ASSUME NEW s \in Seq(Int)
  PROVE  CString(s) \in Seq(Int)
<1> DEFINE nul == {i \in DOMAIN s : s[i] = 0}
<1>1. CASE nul = {}
  BY <1>1 DEF CString
<1>2. CASE nul # {}
  <2>1. nul \subseteq Nat /\ nul \subseteq 1..Len(s)
    OBVIOUS
  <2>2. Min(nul) \in nul
    BY <1>2, <2>1, MinIs
  <2>3. CString(s) = SubSeq(s, 1, Min(nul) - 1)
    BY <1>2 DEF CString
  <2> HIDE DEF nul
  <2>4. Min(nul) \in 1..Len(s)
    BY <2>1, <2>2
  <2> QED
    BY <2>3, <2>4
<1> QED
  BY <1>1, <1>2

LEMMA strcmpMirror ==
  ASSUME NEW s \in Seq(Int), NEW t \in Seq(Int)
  PROVE  Mirrored(strcmp(s, t), strcmp(t, s))
BY CStringType, LexCmpMirror DEF strcmp

LEMMA strcmpCircle ==
  ASSUME NEW s \in Seq(Int), NEW t \in Seq(Int), NEW u \in Seq(Int)
  PROVE  Circle(strcmp(s, t), strcmp(t, u), strcmp(u, s))
BY CStringType, LexCmpCircle DEF strcmp

(***************************************************************************)
(* Numbers.  Integers are those that are exact as doubles: the comparison  *)
(* of a long with a double is not transitive past them.                    *)
(***************************************************************************)
NumberOf(x, y) ==
  IF x \in NotFinite \/ y \in NotFinite
  THEN (IF y \in NotFinite THEN 1 ELSE 0) - (IF x \in NotFinite THEN 1 ELSE 0)
  ELSE Sign(x - y)

LEMMA NumberMirror ==
  ASSUME NEW x \in Int, NEW y \in Int
  PROVE  Mirrored(NumberOf(x, y), NumberOf(y, x))
BY NumbersMirror DEF NumberOf, Mirrored, Signs

LEMMA NumberCircle ==
  ASSUME NEW x \in Int, NEW y \in Int, NEW z \in Int
  PROVE  Circle(NumberOf(x, y), NumberOf(y, z), NumberOf(z, x))
<1>1. /\ NumberOf(x, y) \in Signs /\ NumberOf(y, z) \in Signs /\ NumberOf(z, x) \in Signs
  BY NumberMirror DEF Mirrored
<1>2. CASE x \notin NotFinite /\ y \notin NotFinite /\ z \notin NotFinite
  BY <1>2, NumbersCircle DEF NumberOf
<1>3. CASE x \in NotFinite \/ y \in NotFinite \/ z \in NotFinite
  <2> DEFINE b(n) == IF n \in NotFinite THEN 1 ELSE 0
  <2>1. b(x) \in {0, 1} /\ b(y) \in {0, 1} /\ b(z) \in {0, 1} /\ (b(x) = 1 \/ b(y) = 1 \/ b(z) = 1)
    BY <1>3
  <2>2. /\ b(x) = 1 \/ b(y) = 1 => NumberOf(x, y) = b(y) - b(x)
        /\ b(y) = 1 \/ b(z) = 1 => NumberOf(y, z) = b(z) - b(y)
        /\ b(z) = 1 \/ b(x) = 1 => NumberOf(z, x) = b(x) - b(z)
    BY DEF NumberOf
  <2> HIDE DEF b
  <2> QED
    BY <1>1, <2>1, <2>2 DEF Circle
<1> QED
  BY <1>2, <1>3

(***************************************************************************)
(* Elements, over a set D of the documents that may be in them.            *)
(***************************************************************************)
Plain == {EOO, Undefined, jstNULL, MaxKey, MinKey}
Numeric == {NumberInt, NumberLong, NumberDouble}
Counted == {Bool, Timestamp, Date, jstOID}
Text == {Code, Symbol, String}
Nested == {Object, Array}
Types == Plain \cup Numeric \cup Counted \cup Text \cup Nested \cup {DBRef, BinData, RegEx, CodeWScope}

\* The values an element of type t has; an integer is one that is exact as a double.
Value(t, D) ==
  CASE t \in Plain -> {0}
    [] t = NumberDouble -> Int
    [] t \in {NumberInt, NumberLong} -> -Mantissa..Mantissa
    [] t \in Counted -> Int
    [] t \in Text -> Seq(Int)
    [] t \in Nested -> D
    [] t = DBRef -> Seq(Int) \X Int
    [] t = BinData -> Int \X Seq(Int)
    [] t = RegEx -> Seq(Int) \X Seq(Int)
    [] t = CodeWScope -> Seq(Int) \X D

Element(D) == UNION {{t} \X Seq(Int) \X Value(t, D) : t \in Types}

\* How the documents in two elements compare, where docs is the order of D and size the
\* number of bytes of a document (see nestedCompare of BsonOrder).
NestedBy(docs, size, l, r) ==
  IF type(l) = CodeWScope THEN Sign(size[value(l)[2]] - size[value(r)[2]])
  ELSE docs[<<value(l), value(r)>>]

Compare(docs, size, considerFieldName, l, r) ==
  elementCompare(l, r, considerFieldName, NestedBy(docs, size, l, r))

ValueCompare(docs, size, l, r) == compareElementValues(l, r, NestedBy(docs, size, l, r))

USE DEF EOO, NumberDouble, String, Object, Array, BinData, Undefined, jstOID, Bool, Date, jstNULL,
    RegEx, DBRef, Code, Symbol, CodeWScope, NumberInt, Timestamp, NumberLong, MaxKey, MinKey

LEMMA ElementIs ==
  ASSUME NEW D, NEW e \in Element(D)
  PROVE  /\ type(e) \in Types /\ fieldName(e) \in Seq(Int) /\ value(e) \in Value(type(e), D)
         /\ canonicalType(e) \in Int
<1>1. PICK t \in Types : e \in {t} \X Seq(Int) \X Value(t, D)
  BY DEF Element
<1>2. type(e) = t /\ fieldName(e) \in Seq(Int) /\ value(e) \in Value(t, D)
  BY <1>1 DEF type, fieldName, value
<1>3. canonicalType(e) \in Int
  BY <1>2 DEF Types, Plain, Numeric, Counted, Text, Nested, canonicalType, isNumber
<1> QED
  BY <1>2, <1>3

\* Elements of one canonical type have values of one kind.
SameKind(t, u) ==
  /\ t \in Plain => u \in Plain
  /\ t \in Numeric => u \in Numeric
  /\ t \in Counted => u \in Counted
  /\ t \in Text => u \in Text
  /\ t \in Nested => u \in Nested
  /\ t \in {DBRef, BinData, RegEx, CodeWScope} => u = t

LEMMA KindByCanonicalType ==
  ASSUME NEW e, type(e) \in Types
  PROVE  LET c == canonicalType(e)
             t == type(e)
         IN /\ t \in Plain <=> c \in {-1, 0, 5, 127}
            /\ t \in Numeric <=> c = 10
            /\ t \in Counted <=> c \in {35, 40, 45}
            /\ t \in Text <=> c \in {15, 60}
            /\ t \in Nested <=> c \in {20, 25}
            /\ t = DBRef <=> c = 55
            /\ t = BinData <=> c = 30
            /\ t = RegEx <=> c = 50
            /\ t = CodeWScope <=> c = 65
BY DEF Types, Plain, Numeric, Counted, Text, Nested, canonicalType, isNumber

LEMMA KindIsKept ==
  ASSUME NEW D, NEW l \in Element(D), NEW r \in Element(D), canonicalType(l) = canonicalType(r)
  PROVE  SameKind(type(l), type(r))
<1>1. type(l) \in Types /\ type(r) \in Types
  BY ElementIs
<1> DEFINE t == type(l)  u == type(r)  c == canonicalType(l)
<1>2. /\ t \in Plain <=> c \in {-1, 0, 5, 127}
      /\ t \in Numeric <=> c = 10
      /\ t \in Counted <=> c \in {35, 40, 45}
      /\ t \in Text <=> c \in {15, 60}
      /\ t \in Nested <=> c \in {20, 25}
      /\ t = DBRef <=> c = 55
      /\ t = BinData <=> c = 30
      /\ t = RegEx <=> c = 50
      /\ t = CodeWScope <=> c = 65
  BY <1>1, KindByCanonicalType
<1>3. /\ u \in Plain <=> c \in {-1, 0, 5, 127}
      /\ u \in Numeric <=> c = 10
      /\ u \in Counted <=> c \in {35, 40, 45}
      /\ u \in Text <=> c \in {15, 60}
      /\ u \in Nested <=> c \in {20, 25}
      /\ u = DBRef <=> c = 55
      /\ u = BinData <=> c = 30
      /\ u = RegEx <=> c = 50
      /\ u = CodeWScope <=> c = 65
  BY <1>1, KindByCanonicalType
<1> HIDE DEF t, u, c
<1>4. SameKind(t, u)
  BY <1>2, <1>3 DEF SameKind
<1> QED
  BY <1>4 DEF t, u

\* What compareElementValues does for each kind.
LEMMA ValuePlain ==
  ASSUME NEW l, NEW r, NEW n, type(l) \in Plain
  PROVE  compareElementValues(l, r, n) = Sign(canonicalType(l) - canonicalType(r))
BY DEF compareElementValues, Plain, isNumber

LEMMA ValueNumeric ==
  ASSUME NEW l, NEW r, NEW n, type(l) \in Numeric
  PROVE  compareElementValues(l, r, n) = compareNumbers(l, r)
BY DEF compareElementValues, Numeric, isNumber

LEMMA ValueCounted ==
  ASSUME NEW l, NEW r, NEW n, type(l) \in Counted
  PROVE  compareElementValues(l, r, n) = Sign(value(l) - value(r))
BY DEF compareElementValues, Counted, isNumber

LEMMA ValueText ==
  ASSUME NEW l, NEW r, NEW n, type(l) \in Text
  PROVE  compareElementValues(l, r, n) = strcmp(value(l), value(r))
BY DEF compareElementValues, Text, isNumber

LEMMA ValueNested ==
  ASSUME NEW l, NEW r, NEW n, type(l) \in Nested
  PROVE  compareElementValues(l, r, n) = n
BY DEF compareElementValues, Nested, isNumber

LEMMA ValueDBRef ==
  ASSUME NEW l, NEW r, NEW n, type(l) = DBRef
  PROVE  compareElementValues(l, r, n) =
           compareSized(Append(value(l)[1], value(l)[2]), Append(value(r)[1], value(r)[2]))
BY DEF compareElementValues, isNumber

LEMMA ValueBinData ==
  ASSUME NEW l, NEW r, NEW n, type(l) = BinData
  PROVE  compareElementValues(l, r, n) =
           compareSized(<<value(l)[1]>> \o value(l)[2], <<value(r)[1]>> \o value(r)[2])
BY DEF compareElementValues, isNumber

LEMMA ValueRegEx ==
  ASSUME NEW l, NEW r, NEW n, type(l) = RegEx
  PROVE  compareElementValues(l, r, n) =
           Then(strcmp(value(l)[1], value(r)[1]), strcmp(value(l)[2], value(r)[2]))
BY DEF compareElementValues, isNumber, Then

LEMMA ValueCodeWScope ==
  ASSUME NEW l, NEW r, NEW n, type(l) = CodeWScope
  PROVE  compareElementValues(l, r, n) = Then(strcmp(value(l)[1], value(r)[1]), n)
BY DEF compareElementValues, isNumber, Then

\* The values of an element, by its kind.
LEMMA ValueIs ==
  ASSUME NEW D, NEW e \in Element(D)
  PROVE  LET t == type(e)
             v == value(e)
         IN /\ t = NumberDouble => v \in Int
            /\ t \in {NumberInt, NumberLong} => v \in -Mantissa..Mantissa
            /\ t \in Counted => v \in Int
            /\ t \in Text => v \in Seq(Int)
            /\ t \in Nested => v \in D
            /\ t = DBRef => v[1] \in Seq(Int) /\ v[2] \in Int
            /\ t = BinData => v[1] \in Int /\ v[2] \in Seq(Int)
            /\ t = RegEx => v[1] \in Seq(Int) /\ v[2] \in Seq(Int)
            /\ t = CodeWScope => v[1] \in Seq(Int) /\ v[2] \in D
<1> DEFINE t == type(e)  v == value(e)
<1>1. t \in Types /\ v \in Value(t, D)
  BY ElementIs
<1> HIDE DEF t, v
<1>2. /\ t = NumberDouble => Value(t, D) = Int
      /\ t \in {NumberInt, NumberLong} => Value(t, D) = -Mantissa..Mantissa
      /\ t \in Counted => Value(t, D) = Int
      /\ t \in Text => Value(t, D) = Seq(Int)
      /\ t \in Nested => Value(t, D) = D
  BY DEF Value, Plain, Counted, Text, Nested
<1>3. /\ t = DBRef => Value(t, D) = Seq(Int) \X Int
      /\ t = BinData => Value(t, D) = Int \X Seq(Int)
      /\ t = RegEx => Value(t, D) = Seq(Int) \X Seq(Int)
      /\ t = CodeWScope => Value(t, D) = Seq(Int) \X D
  BY DEF Value, Plain, Counted, Text, Nested
<1>4. /\ t = NumberDouble => v \in Int
      /\ t \in {NumberInt, NumberLong} => v \in -Mantissa..Mantissa
      /\ t \in Counted => v \in Int
      /\ t \in Text => v \in Seq(Int)
      /\ t \in Nested => v \in D
  BY <1>1, <1>2
<1>5. t = DBRef => v[1] \in Seq(Int) /\ v[2] \in Int
  BY <1>1, <1>3
<1>6. t = BinData => v[1] \in Int /\ v[2] \in Seq(Int)
  BY <1>1, <1>3
<1>7. t = RegEx => v[1] \in Seq(Int) /\ v[2] \in Seq(Int)
  BY <1>1, <1>3
<1>8. t = CodeWScope => v[1] \in Seq(Int) /\ v[2] \in D
  BY <1>1, <1>3
<1> QED
  BY <1>4, <1>5, <1>6, <1>7, <1>8 DEF t, v

\* Numbers compare as the doubles they are.
LEMMA NumberIs ==
  ASSUME NEW D, NEW e \in Element(D), type(e) \in Numeric
  PROVE  /\ number(e) \in Int
         /\ type(e) = NumberLong => /\ value(e) \in Int /\ number(e) = 2 * value(e)
                                    /\ number(e) \notin NotFinite
<1>1. CASE type(e) = NumberDouble
  <2>1. number(e) = value(e) /\ value(e) \in Int
    BY <1>1, ValueIs DEF number
  <2> QED
    BY <1>1, <2>1
<1>2. CASE type(e) \in {NumberInt, NumberLong}
  <2>1. number(e) = toDouble(value(e)) /\ value(e) \in -Mantissa..Mantissa
    BY <1>2, ValueIs DEF number
  <2>2. toDouble(value(e)) = 2 * value(e)
    BY <2>1 DEF toDouble
  <2>3. value(e) \in Int /\ -Mantissa <= value(e) /\ value(e) <= Mantissa /\ Mantissa \in Nat \ {0}
    BY <2>1, MantissaAssumption
  <2>4. 2 * value(e) \in Int /\ 2 * value(e) \notin NotFinite
    BY <2>3 DEF NotFinite, Inf, NegInf, NaN
  <2> QED
    BY <2>1, <2>2, <2>3, <2>4
<1> QED
  BY <1>1, <1>2 DEF Numeric

LEMMA NumbersCompare ==
  ASSUME NEW D, NEW l \in Element(D), NEW r \in Element(D), type(l) \in Numeric, type(r) \in Numeric
  PROVE  compareNumbers(l, r) = NumberOf(number(l), number(r))
<1>1. CASE type(l) = NumberLong /\ type(r) = NumberLong
  <2>1. compareNumbers(l, r) = Sign(value(l) - value(r))
    BY <1>1 DEF compareNumbers
  <2>2. /\ value(l) \in Int /\ number(l) = 2 * value(l) /\ number(l) \notin NotFinite
        /\ value(r) \in Int /\ number(r) = 2 * value(r) /\ number(r) \notin NotFinite
    BY <1>1, NumberIs
  <2>3. NumberOf(number(l), number(r)) = Sign(2 * value(l) - 2 * value(r))
    BY <2>2 DEF NumberOf
  <2>4. ASSUME NEW x \in Int, NEW y \in Int PROVE Sign(2 * x - 2 * y) = Sign(x - y)
    BY DEF Sign
  <2> QED
    BY <2>1, <2>2, <2>3, <2>4
<1>2. CASE ~(type(l) = NumberLong /\ type(r) = NumberLong)
  BY <1>2 DEF compareNumbers, NumberOf
<1> QED
  BY <1>1, <1>2

\* The bytes of a DBRef or of a BinData.
LEMMA SizedMirror ==
  ASSUME NEW s \in Seq(Int), NEW t \in Seq(Int)
  PROVE  Mirrored(compareSized(s, t), compareSized(t, s))
<1>1. Len(s) \in Int /\ Len(t) \in Int
  OBVIOUS
<1>2. /\ compareSized(s, t) = Then(Sign(Len(s) - Len(t)), LexCmp(s, t))
      /\ compareSized(t, s) = Then(Sign(Len(t) - Len(s)), LexCmp(t, s))
  BY <1>1 DEF compareSized, Then, Sign
<1> QED
  BY <1>1, <1>2, NumbersMirror, LexCmpMirror, ThenMirror

LEMMA SizedCircle ==
  ASSUME NEW s \in Seq(Int), NEW t \in Seq(Int), NEW u \in Seq(Int)
  PROVE  Circle(compareSized(s, t), compareSized(t, u), compareSized(u, s))
<1>1. Len(s) \in Int /\ Len(t) \in Int /\ Len(u) \in Int
  OBVIOUS
<1>2. /\ compareSized(s, t) = Then(Sign(Len(s) - Len(t)), LexCmp(s, t))
      /\ compareSized(t, u) = Then(Sign(Len(t) - Len(u)), LexCmp(t, u))
      /\ compareSized(u, s) = Then(Sign(Len(u) - Len(s)), LexCmp(u, s))
  BY <1>1 DEF compareSized, Then, Sign
<1>3. Circle(Sign(Len(s) - Len(t)), Sign(Len(t) - Len(u)), Sign(Len(u) - Len(s)))
  BY <1>1, NumbersCircle
<1>4. Circle(LexCmp(s, t), LexCmp(t, u), LexCmp(u, s))
  BY LexCmpCircle
<1>5. LexCmp(s, t) \in Signs /\ LexCmp(t, u) \in Signs /\ LexCmp(u, s) \in Signs
  BY <1>4 DEF Circle
<1> QED
  BY <1>2, <1>3, <1>4, <1>5, ThenCircle

(***************************************************************************)
(* The values of elements of one canonical type.                           *)
(***************************************************************************)
LEMMA ValueMirror ==
  ASSUME NEW D, NEW docs, IsPreorder(docs, D), NEW size \in [D -> Nat],
         NEW l \in Element(D), NEW r \in Element(D), canonicalType(l) = canonicalType(r)
  PROVE  Mirrored(ValueCompare(docs, size, l, r), ValueCompare(docs, size, r, l))
<1> DEFINE V(x, y) == compareElementValues(x, y, NestedBy(docs, size, x, y))
<1> SUFFICES Mirrored(V(l, r), V(r, l))
  BY DEF ValueCompare
<1>1. type(l) \in Types /\ SameKind(type(l), type(r))
  BY ElementIs, KindIsKept
<1>2. CASE type(l) \in Plain
  <2>1. type(r) \in Plain
    BY <1>1, <1>2 DEF SameKind
  <2>2. /\ V(l, r) = Sign(canonicalType(l) - canonicalType(r))
        /\ V(r, l) = Sign(canonicalType(r) - canonicalType(l))
    BY <1>2, <2>1, ValuePlain
  <2>3. canonicalType(l) \in Int /\ canonicalType(r) \in Int
    BY ElementIs
  <2>4. Mirrored(Sign(canonicalType(l) - canonicalType(r)), Sign(canonicalType(r) - canonicalType(l)))
    BY <2>3, NumbersMirror
  <2> QED
    BY <2>2, <2>4
<1>3. CASE type(l) \in Numeric
  <2>1. type(r) \in Numeric
    BY <1>1, <1>3 DEF SameKind
  <2>2. V(l, r) = NumberOf(number(l), number(r)) /\ V(r, l) = NumberOf(number(r), number(l))
    BY <1>3, <2>1, ValueNumeric, NumbersCompare
  <2>3. number(l) \in Int /\ number(r) \in Int
    BY <1>3, <2>1, NumberIs
  <2> QED
    BY <2>2, <2>3, NumberMirror
<1>4. CASE type(l) \in Counted
  <2>1. type(r) \in Counted
    BY <1>1, <1>4 DEF SameKind
  <2>2. V(l, r) = Sign(value(l) - value(r)) /\ V(r, l) = Sign(value(r) - value(l))
    BY <1>4, <2>1, ValueCounted
  <2>3. value(l) \in Int /\ value(r) \in Int
    BY <1>4, <2>1, ValueIs
  <2> QED
    BY <2>2, <2>3, NumbersMirror
<1>5. CASE type(l) \in Text
  <2>1. type(r) \in Text
    BY <1>1, <1>5 DEF SameKind
  <2>2. V(l, r) = strcmp(value(l), value(r)) /\ V(r, l) = strcmp(value(r), value(l))
    BY <1>5, <2>1, ValueText
  <2>3. value(l) \in Seq(Int) /\ value(r) \in Seq(Int)
    BY <1>5, <2>1, ValueIs
  <2> QED
    BY <2>2, <2>3, strcmpMirror
<1>6. CASE type(l) \in Nested
  <2>1. type(r) \in Nested
    BY <1>1, <1>6 DEF SameKind
  <2>2. V(l, r) = docs[<<value(l), value(r)>>] /\ V(r, l) = docs[<<value(r), value(l)>>]
    <3>1. /\ NestedBy(docs, size, l, r) = docs[<<value(l), value(r)>>]
          /\ NestedBy(docs, size, r, l) = docs[<<value(r), value(l)>>]
      BY <1>6, <2>1 DEF NestedBy, Nested
    <3>2. V(l, r) = NestedBy(docs, size, l, r) /\ V(r, l) = NestedBy(docs, size, r, l)
      BY <1>6, <2>1, ValueNested
    <3> HIDE DEF V
    <3> QED
      BY <3>1, <3>2
  <2>3. value(l) \in D /\ value(r) \in D
    BY <1>6, <2>1, ValueIs
  <2> QED
    BY <2>2, <2>3, OrderCircles
<1>7. CASE type(l) = DBRef
  <2>1. type(r) = DBRef
    BY <1>1, <1>7 DEF SameKind
  <2> DEFINE s == Append(value(l)[1], value(l)[2])
             t == Append(value(r)[1], value(r)[2])
  <2>2. V(l, r) = compareSized(s, t) /\ V(r, l) = compareSized(t, s)
    BY <1>7, <2>1, ValueDBRef
  <2>3. value(l)[1] \in Seq(Int) /\ value(l)[2] \in Int /\ value(r)[1] \in Seq(Int) /\ value(r)[2] \in Int
    BY <1>7, <2>1, ValueIs
  <2>4. s \in Seq(Int) /\ t \in Seq(Int)
    BY <2>3
  <2> HIDE DEF s, t, V
  <2> QED
    BY <2>2, <2>4, SizedMirror
<1>8. CASE type(l) = BinData
  <2>1. type(r) = BinData
    BY <1>1, <1>8 DEF SameKind
  <2> DEFINE s == <<value(l)[1]>> \o value(l)[2]
             t == <<value(r)[1]>> \o value(r)[2]
  <2>2. V(l, r) = compareSized(s, t) /\ V(r, l) = compareSized(t, s)
    BY <1>8, <2>1, ValueBinData
  <2>3. value(l)[1] \in Int /\ value(l)[2] \in Seq(Int) /\ value(r)[1] \in Int /\ value(r)[2] \in Seq(Int)
    BY <1>8, <2>1, ValueIs
  <2>4. s \in Seq(Int) /\ t \in Seq(Int)
    BY <2>3
  <2> HIDE DEF s, t, V
  <2> QED
    BY <2>2, <2>4, SizedMirror
<1>9. CASE type(l) = RegEx
  <2>1. type(r) = RegEx
    BY <1>1, <1>9 DEF SameKind
  <2>2. /\ V(l, r) = Then(strcmp(value(l)[1], value(r)[1]), strcmp(value(l)[2], value(r)[2]))
        /\ V(r, l) = Then(strcmp(value(r)[1], value(l)[1]), strcmp(value(r)[2], value(l)[2]))
    BY <1>9, <2>1, ValueRegEx
  <2>3. /\ value(l)[1] \in Seq(Int) /\ value(r)[1] \in Seq(Int)
        /\ value(l)[2] \in Seq(Int) /\ value(r)[2] \in Seq(Int)
    BY <1>9, <2>1, ValueIs
  <2>4. /\ Mirrored(strcmp(value(l)[1], value(r)[1]), strcmp(value(r)[1], value(l)[1]))
        /\ Mirrored(strcmp(value(l)[2], value(r)[2]), strcmp(value(r)[2], value(l)[2]))
    BY <2>3, strcmpMirror
  <2> HIDE DEF V
  <2> QED
    BY <2>2, <2>4, ThenMirror
<1>10. CASE type(l) = CodeWScope
  <2>1. type(r) = CodeWScope
    BY <1>1, <1>10 DEF SameKind
  <2> DEFINE m == size[value(l)[2]]  n == size[value(r)[2]]
  <2>2. /\ V(l, r) = Then(strcmp(value(l)[1], value(r)[1]), Sign(m - n))
        /\ V(r, l) = Then(strcmp(value(r)[1], value(l)[1]), Sign(n - m))
    <3>1. NestedBy(docs, size, l, r) = Sign(m - n) /\ NestedBy(docs, size, r, l) = Sign(n - m)
      BY <1>10, <2>1 DEF NestedBy
    <3>2. /\ V(l, r) = Then(strcmp(value(l)[1], value(r)[1]), NestedBy(docs, size, l, r))
          /\ V(r, l) = Then(strcmp(value(r)[1], value(l)[1]), NestedBy(docs, size, r, l))
      BY <1>10, <2>1, ValueCodeWScope
    <3> HIDE DEF V, m, n
    <3> QED
      BY <3>1, <3>2
  <2>3. /\ value(l)[1] \in Seq(Int) /\ value(r)[1] \in Seq(Int) /\ value(l)[2] \in D /\ value(r)[2] \in D
    BY <1>10, <2>1, ValueIs
  <2>4. m \in Int /\ n \in Int
    BY <2>3
  <2> HIDE DEF m, n, V
  <2>5. Mirrored(Sign(m - n), Sign(n - m))
    BY <2>4, NumbersMirror
  <2>6. Mirrored(strcmp(value(l)[1], value(r)[1]), strcmp(value(r)[1], value(l)[1]))
    BY <2>3, strcmpMirror
  <2> QED
    BY <2>2, <2>5, <2>6, ThenMirror
<1> HIDE DEF V
<1> QED
  BY <1>1, <1>2, <1>3, <1>4, <1>5, <1>6, <1>7, <1>8, <1>9, <1>10 DEF Types

LEMMA ValueCircle ==
  ASSUME NEW D, NEW docs, IsPreorder(docs, D), NEW size \in [D -> Nat],
         NEW x \in Element(D), NEW y \in Element(D), NEW z \in Element(D),
         canonicalType(x) = canonicalType(y), canonicalType(x) = canonicalType(z)
  PROVE  Circle(ValueCompare(docs, size, x, y), ValueCompare(docs, size, y, z),
                ValueCompare(docs, size, z, x))
<1> DEFINE N(l, r) == NestedBy(docs, size, l, r)
           V(l, r) == compareElementValues(l, r, N(l, r))
<1> SUFFICES Circle(V(x, y), V(y, z), V(z, x))
  BY DEF ValueCompare
<1>1. type(x) \in Types /\ SameKind(type(x), type(y)) /\ SameKind(type(x), type(z))
  BY ElementIs, KindIsKept
<1>2. CASE type(x) \in Plain
  <2>1. type(y) \in Plain /\ type(z) \in Plain
    BY <1>1, <1>2 DEF SameKind
  <2>2. /\ V(x, y) = Sign(canonicalType(x) - canonicalType(y))
        /\ V(y, z) = Sign(canonicalType(y) - canonicalType(z))
        /\ V(z, x) = Sign(canonicalType(z) - canonicalType(x))
    BY <1>2, <2>1, ValuePlain
  <2>3. canonicalType(x) \in Int /\ canonicalType(y) \in Int /\ canonicalType(z) \in Int
    BY ElementIs
  <2>4. Circle(Sign(canonicalType(x) - canonicalType(y)), Sign(canonicalType(y) - canonicalType(z)),
               Sign(canonicalType(z) - canonicalType(x)))
    BY <2>3, NumbersCircle
  <2> QED
    BY <2>2, <2>4
<1>3. CASE type(x) \in Numeric
  <2>1. type(y) \in Numeric /\ type(z) \in Numeric
    BY <1>1, <1>3 DEF SameKind
  <2>2. /\ V(x, y) = NumberOf(number(x), number(y)) /\ V(y, z) = NumberOf(number(y), number(z))
        /\ V(z, x) = NumberOf(number(z), number(x))
    BY <1>3, <2>1, ValueNumeric, NumbersCompare
  <2>3. number(x) \in Int /\ number(y) \in Int /\ number(z) \in Int
    BY <1>3, <2>1, NumberIs
  <2> QED
    BY <2>2, <2>3, NumberCircle
<1>4. CASE type(x) \in Counted
  <2>1. type(y) \in Counted /\ type(z) \in Counted
    BY <1>1, <1>4 DEF SameKind
  <2>2. /\ V(x, y) = Sign(value(x) - value(y)) /\ V(y, z) = Sign(value(y) - value(z))
        /\ V(z, x) = Sign(value(z) - value(x))
    BY <1>4, <2>1, ValueCounted
  <2>3. value(x) \in Int /\ value(y) \in Int /\ value(z) \in Int
    BY <1>4, <2>1, ValueIs
  <2> QED
    BY <2>2, <2>3, NumbersCircle
<1>5. CASE type(x) \in Text
  <2>1. type(y) \in Text /\ type(z) \in Text
    BY <1>1, <1>5 DEF SameKind
  <2>2. /\ V(x, y) = strcmp(value(x), value(y)) /\ V(y, z) = strcmp(value(y), value(z))
        /\ V(z, x) = strcmp(value(z), value(x))
    BY <1>5, <2>1, ValueText
  <2>3. value(x) \in Seq(Int) /\ value(y) \in Seq(Int) /\ value(z) \in Seq(Int)
    BY <1>5, <2>1, ValueIs
  <2> QED
    BY <2>2, <2>3, strcmpCircle
<1>6. CASE type(x) \in Nested
  <2>1. type(y) \in Nested /\ type(z) \in Nested
    BY <1>1, <1>6 DEF SameKind
  <2>2. /\ N(x, y) = docs[<<value(x), value(y)>>] /\ N(y, z) = docs[<<value(y), value(z)>>]
        /\ N(z, x) = docs[<<value(z), value(x)>>]
    BY <1>6, <2>1 DEF NestedBy, Nested
  <2>3. V(x, y) = N(x, y) /\ V(y, z) = N(y, z) /\ V(z, x) = N(z, x)
    BY <1>6, <2>1, ValueNested
  <2>4. value(x) \in D /\ value(y) \in D /\ value(z) \in D
    BY <1>6, <2>1, ValueIs
  <2>5. Circle(docs[<<value(x), value(y)>>], docs[<<value(y), value(z)>>], docs[<<value(z), value(x)>>])
    BY <2>4, OrderCircles
  <2> HIDE DEF N, V
  <2> QED
    BY <2>2, <2>3, <2>5
<1>7. CASE type(x) = DBRef
  <2>1. type(y) = DBRef /\ type(z) = DBRef
    BY <1>1, <1>7 DEF SameKind
  <2> DEFINE s(e) == Append(value(e)[1], value(e)[2])
  <2>2. /\ V(x, y) = compareSized(s(x), s(y)) /\ V(y, z) = compareSized(s(y), s(z))
        /\ V(z, x) = compareSized(s(z), s(x))
    BY <1>7, <2>1, ValueDBRef
  <2>3. /\ value(x)[1] \in Seq(Int) /\ value(x)[2] \in Int /\ value(y)[1] \in Seq(Int)
        /\ value(y)[2] \in Int /\ value(z)[1] \in Seq(Int) /\ value(z)[2] \in Int
    BY <1>7, <2>1, ValueIs
  <2>4. s(x) \in Seq(Int) /\ s(y) \in Seq(Int) /\ s(z) \in Seq(Int)
    BY <2>3
  <2> HIDE DEF s, V
  <2> QED
    BY <2>2, <2>4, SizedCircle
<1>8. CASE type(x) = BinData
  <2>1. type(y) = BinData /\ type(z) = BinData
    BY <1>1, <1>8 DEF SameKind
  <2> DEFINE s(e) == <<value(e)[1]>> \o value(e)[2]
  <2>2. /\ V(x, y) = compareSized(s(x), s(y)) /\ V(y, z) = compareSized(s(y), s(z))
        /\ V(z, x) = compareSized(s(z), s(x))
    BY <1>8, <2>1, ValueBinData
  <2>3. /\ value(x)[1] \in Int /\ value(x)[2] \in Seq(Int) /\ value(y)[1] \in Int
        /\ value(y)[2] \in Seq(Int) /\ value(z)[1] \in Int /\ value(z)[2] \in Seq(Int)
    BY <1>8, <2>1, ValueIs
  <2>4. s(x) \in Seq(Int) /\ s(y) \in Seq(Int) /\ s(z) \in Seq(Int)
    BY <2>3
  <2> HIDE DEF s, V
  <2> QED
    BY <2>2, <2>4, SizedCircle
<1>9. CASE type(x) = RegEx
  <2>1. type(y) = RegEx /\ type(z) = RegEx
    BY <1>1, <1>9 DEF SameKind
  <2> DEFINE s(i, l, r) == strcmp(value(l)[i], value(r)[i])
  <2>2. /\ V(x, y) = Then(s(1, x, y), s(2, x, y)) /\ V(y, z) = Then(s(1, y, z), s(2, y, z))
        /\ V(z, x) = Then(s(1, z, x), s(2, z, x))
    BY <1>9, <2>1, ValueRegEx
  <2>3. /\ value(x)[1] \in Seq(Int) /\ value(y)[1] \in Seq(Int) /\ value(z)[1] \in Seq(Int)
        /\ value(x)[2] \in Seq(Int) /\ value(y)[2] \in Seq(Int) /\ value(z)[2] \in Seq(Int)
    BY <1>9, <2>1, ValueIs
  <2>4. Circle(s(1, x, y), s(1, y, z), s(1, z, x)) /\ Circle(s(2, x, y), s(2, y, z), s(2, z, x))
    BY <2>3, strcmpCircle
  <2> HIDE DEF s, V
  <2>5. s(2, x, y) \in Signs /\ s(2, y, z) \in Signs /\ s(2, z, x) \in Signs
    BY <2>4 DEF Circle
  <2>6. Circle(Then(s(1, x, y), s(2, x, y)), Then(s(1, y, z), s(2, y, z)), Then(s(1, z, x), s(2, z, x)))
    BY <2>4, <2>5, ThenCircle
  <2> QED
    BY <2>2, <2>6
<1>10. CASE type(x) = CodeWScope
  <2>1. type(y) = CodeWScope /\ type(z) = CodeWScope
    BY <1>1, <1>10 DEF SameKind
  <2> DEFINE m(e) == size[value(e)[2]]
             s(l, r) == strcmp(value(l)[1], value(r)[1])
  <2>2. N(x, y) = Sign(m(x) - m(y)) /\ N(y, z) = Sign(m(y) - m(z)) /\ N(z, x) = Sign(m(z) - m(x))
    BY <1>10, <2>1 DEF NestedBy
  <2>3. /\ V(x, y) = Then(s(x, y), N(x, y)) /\ V(y, z) = Then(s(y, z), N(y, z))
        /\ V(z, x) = Then(s(z, x), N(z, x))
    BY <1>10, <2>1, ValueCodeWScope
  <2>4. /\ value(x)[1] \in Seq(Int) /\ value(y)[1] \in Seq(Int) /\ value(z)[1] \in Seq(Int)
        /\ value(x)[2] \in D /\ value(y)[2] \in D /\ value(z)[2] \in D
    BY <1>10, <2>1, ValueIs
  <2>5. m(x) \in Int /\ m(y) \in Int /\ m(z) \in Int
    BY <2>4
  <2>6. Circle(s(x, y), s(y, z), s(z, x))
    BY <2>4, strcmpCircle
  <2> HIDE DEF m, s, N, V
  <2>7. Circle(N(x, y), N(y, z), N(z, x))
    BY <2>2, <2>5, NumbersCircle
  <2>8. N(x, y) \in Signs /\ N(y, z) \in Signs /\ N(z, x) \in Signs
    BY <2>7 DEF Circle
  <2>9. Circle(Then(s(x, y), N(x, y)), Then(s(y, z), N(y, z)), Then(s(z, x), N(z, x)))
    BY <2>6, <2>7, <2>8, ThenCircle
  <2> QED
    BY <2>3, <2>9
<1> HIDE DEF N, V
<1> QED
  BY <1>1, <1>2, <1>3, <1>4, <1>5, <1>6, <1>7, <1>8, <1>9, <1>10 DEF Types

HIDE DEF EOO, NumberDouble, String, Object, Array, BinData, Undefined, jstOID, Bool, Date, jstNULL,
    RegEx, DBRef, Code, Symbol, CodeWScope, NumberInt, Timestamp, NumberLong, MaxKey, MinKey

(***************************************************************************)
(* Elements: by the canonical type, then by the name, then by the value.   *)
(***************************************************************************)
Named(considerFieldName, l, r) ==
  IF considerFieldName THEN strcmp(fieldName(l), fieldName(r)) ELSE 0

LEMMA CompareIs ==
  ASSUME NEW D, NEW l \in Element(D), NEW r \in Element(D), NEW docs, NEW size,
         NEW considerFieldName \in BOOLEAN
  PROVE  Compare(docs, size, considerFieldName, l, r) =
           Then(Sign(canonicalType(l) - canonicalType(r)),
                Then(Named(considerFieldName, l, r), ValueCompare(docs, size, l, r)))
<1> DEFINE x == canonicalType(l) - canonicalType(r)
           names == strcmp(fieldName(l), fieldName(r))
           v == ValueCompare(docs, size, l, r)
<1>1. canonicalType(l) \in Int /\ canonicalType(r) \in Int
  BY ElementIs
<1>2. x \in Int
  BY <1>1
<1>3. Compare(docs, size, considerFieldName, l, r) =
        CASE x # 0 -> Sign(x)
          [] x = 0 /\ considerFieldName /\ names # 0 -> names
          [] OTHER -> v
  BY DEF Compare, elementCompare, ValueCompare
<1>4. Named(considerFieldName, l, r) = IF considerFieldName THEN names ELSE 0
  BY DEF Named
<1> HIDE DEF x, names, v
<1>5. (Sign(x) = 0) <=> (x = 0)
  BY <1>2 DEF Sign
<1>6. Compare(docs, size, considerFieldName, l, r) = Then(Sign(x), Then(Named(considerFieldName, l, r), v))
  BY <1>3, <1>4, <1>5 DEF Then
<1> QED
  BY <1>6 DEF x, v

LEMMA CanonicalMirror ==
  ASSUME NEW D, NEW l \in Element(D), NEW r \in Element(D)
  PROVE  /\ Mirrored(Sign(canonicalType(l) - canonicalType(r)), Sign(canonicalType(r) - canonicalType(l)))
         /\ Sign(canonicalType(l) - canonicalType(r)) = 0 => canonicalType(l) = canonicalType(r)
<1>1. canonicalType(l) \in Int /\ canonicalType(r) \in Int
  BY ElementIs
<1>2. ASSUME NEW m \in Int, NEW n \in Int, Sign(m - n) = 0 PROVE m = n
  BY <1>2 DEF Sign
<1> QED
  BY <1>1, <1>2, NumbersMirror

LEMMA NamedMirror ==
  ASSUME NEW D, NEW l \in Element(D), NEW r \in Element(D), NEW considerFieldName \in BOOLEAN
  PROVE  Mirrored(Named(considerFieldName, l, r), Named(considerFieldName, r, l))
<1>1. fieldName(l) \in Seq(Int) /\ fieldName(r) \in Seq(Int)
  BY ElementIs
<1>2. Mirrored(strcmp(fieldName(l), fieldName(r)), strcmp(fieldName(r), fieldName(l)))
  BY <1>1, strcmpMirror
<1> QED
  BY <1>2 DEF Named, Mirrored, Signs

LEMMA NamedCircle ==
  ASSUME NEW D, NEW x \in Element(D), NEW y \in Element(D), NEW z \in Element(D),
         NEW considerFieldName \in BOOLEAN
  PROVE  Circle(Named(considerFieldName, x, y), Named(considerFieldName, y, z),
                Named(considerFieldName, z, x))
<1>1. fieldName(x) \in Seq(Int) /\ fieldName(y) \in Seq(Int) /\ fieldName(z) \in Seq(Int)
  BY ElementIs
<1>2. CASE considerFieldName
  BY <1>1, <1>2, strcmpCircle DEF Named
<1>3. CASE ~considerFieldName
  BY <1>3 DEF Named, Circle, Signs
<1> QED
  BY <1>2, <1>3

LEMMA ElementMirror ==
  ASSUME NEW D, NEW docs, IsPreorder(docs, D), NEW size \in [D -> Nat],
         NEW considerFieldName \in BOOLEAN, NEW l \in Element(D), NEW r \in Element(D)
  PROVE  Mirrored(Compare(docs, size, considerFieldName, l, r),
                  Compare(docs, size, considerFieldName, r, l))
<1> DEFINE T(x, y) == Sign(canonicalType(x) - canonicalType(y))
           M(x, y) == Named(considerFieldName, x, y)
           V(x, y) == ValueCompare(docs, size, x, y)
<1>1. /\ Compare(docs, size, considerFieldName, l, r) = Then(T(l, r), Then(M(l, r), V(l, r)))
      /\ Compare(docs, size, considerFieldName, r, l) = Then(T(r, l), Then(M(r, l), V(r, l)))
  BY CompareIs
<1>2. Mirrored(T(l, r), T(r, l)) /\ (T(l, r) = 0 => canonicalType(l) = canonicalType(r))
  BY CanonicalMirror
<1>3. Mirrored(M(l, r), M(r, l))
  BY NamedMirror
<1>4. T(l, r) = 0 => Mirrored(V(l, r), V(r, l))
  BY <1>2, ValueMirror
<1> HIDE DEF T, M, V
<1>5. T(l, r) = 0 => Mirrored(Then(M(l, r), V(l, r)), Then(M(r, l), V(r, l)))
  BY <1>3, <1>4, ThenMirror
<1> QED
  BY <1>1, <1>2, <1>5, ThenMirror

LEMMA ElementCircle ==
  ASSUME NEW D, NEW docs, IsPreorder(docs, D), NEW size \in [D -> Nat],
         NEW considerFieldName \in BOOLEAN,
         NEW x \in Element(D), NEW y \in Element(D), NEW z \in Element(D)
  PROVE  Circle(Compare(docs, size, considerFieldName, x, y), Compare(docs, size, considerFieldName, y, z),
                Compare(docs, size, considerFieldName, z, x))
<1> DEFINE T(l, r) == Sign(canonicalType(l) - canonicalType(r))
           M(l, r) == Named(considerFieldName, l, r)
           V(l, r) == ValueCompare(docs, size, l, r)
           W(l, r) == Then(M(l, r), V(l, r))
<1>1. /\ Compare(docs, size, considerFieldName, x, y) = Then(T(x, y), W(x, y))
      /\ Compare(docs, size, considerFieldName, y, z) = Then(T(y, z), W(y, z))
      /\ Compare(docs, size, considerFieldName, z, x) = Then(T(z, x), W(z, x))
  BY CompareIs
<1>2. Circle(T(x, y), T(y, z), T(z, x))
  <2>1. canonicalType(x) \in Int /\ canonicalType(y) \in Int /\ canonicalType(z) \in Int
    BY ElementIs
  <2> QED
    BY <2>1, NumbersCircle
<1>3. /\ T(x, y) = 0 => canonicalType(x) = canonicalType(y)
      /\ T(y, z) = 0 => canonicalType(y) = canonicalType(z)
      /\ T(z, x) = 0 => canonicalType(z) = canonicalType(x)
  BY CanonicalMirror
<1>4. Circle(M(x, y), M(y, z), M(z, x))
  BY NamedCircle
<1>5. T(x, y) = 0 => V(x, y) \in Signs
  BY <1>3, ValueMirror DEF Mirrored
<1>6. T(y, z) = 0 => V(y, z) \in Signs
  BY <1>3, ValueMirror DEF Mirrored
<1>7. T(z, x) = 0 => V(z, x) \in Signs
  BY <1>3, ValueMirror DEF Mirrored
<1>8. T(x, y) = 0 /\ T(y, z) = 0 /\ T(z, x) = 0 => Circle(V(x, y), V(y, z), V(z, x))
  BY <1>3, ValueCircle
<1> HIDE DEF T, M, V
<1>9. /\ M(x, y) \in Signs /\ M(y, z) \in Signs /\ M(z, x) \in Signs
  BY <1>4 DEF Circle
<1>10. /\ T(x, y) = 0 => W(x, y) \in Signs
       /\ T(y, z) = 0 => W(y, z) \in Signs
       /\ T(z, x) = 0 => W(z, x) \in Signs
  BY <1>5, <1>6, <1>7, <1>9 DEF Then
<1>11. ASSUME T(x, y) = 0, T(y, z) = 0, T(z, x) = 0 PROVE Circle(W(x, y), W(y, z), W(z, x))
  <2>1. Circle(V(x, y), V(y, z), V(z, x)) /\ V(x, y) \in Signs /\ V(y, z) \in Signs /\ V(z, x) \in Signs
    BY <1>5, <1>6, <1>7, <1>8, <1>11
  <2> QED
    BY <1>4, <2>1, ThenCircle
<1> HIDE DEF W
<1>12. Circle(Then(T(x, y), W(x, y)), Then(T(y, z), W(y, z)), Then(T(z, x), W(z, x)))
  BY <1>2, <1>10, <1>11, ThenCircle
<1> QED
  BY <1>1, <1>12

ElementOrder(D, docs, size, considerFieldName) ==
  [p \in Element(D) \X Element(D) |-> Compare(docs, size, considerFieldName, p[1], p[2])]

\* BSONElement::woCompare is a total preorder of the elements, where the documents in them
\* are ordered: for all types, names and values, with and without the names, if the integers
\* are exact as doubles.
THEOREM ElementsAreOrdered ==
  ASSUME NEW D, NEW docs, IsPreorder(docs, D), NEW size \in [D -> Nat],
         NEW considerFieldName \in BOOLEAN
  PROVE  IsPreorder(ElementOrder(D, docs, size, considerFieldName), Element(D))
<1> DEFINE E == Element(D)
           f == ElementOrder(D, docs, size, considerFieldName)
           C(x, y) == Compare(docs, size, considerFieldName, x, y)
<1>1. f = [p \in E \X E |-> C(p[1], p[2])]
  BY DEF ElementOrder
<1>2. ASSUME NEW x \in E, NEW y \in E PROVE Mirrored(C(x, y), C(y, x)) /\ C(x, y) \in Signs
  BY ElementMirror DEF Mirrored
<1>3. ASSUME NEW x \in E, NEW y \in E, NEW z \in E PROVE Circle(C(x, y), C(y, z), C(z, x))
  BY ElementCircle
<1> HIDE DEF E, f, C
<1>4. \A x, y \in E : f[<<x, y>>] = C(x, y)
  BY <1>1
<1>5. f \in [E \X E -> Signs]
  BY <1>1, <1>2
<1>6. \A x, y \in E : Mirrored(f[<<x, y>>], f[<<y, x>>])
  BY <1>2, <1>4
<1>7. \A x, y, z \in E : Circle(f[<<x, y>>], f[<<y, z>>], f[<<z, x>>])
  BY <1>3, <1>4
<1>8. IsPreorder(f, E)
  BY <1>5, <1>6, <1>7, CirclesOrder
<1> QED
  BY <1>8 DEF f, E

(***************************************************************************)
(* Documents: sequences of elements, compared in order.                    *)
(***************************************************************************)
Document(D) == Seq(Element(D))

InOrder(docs, size, considerFieldName, neg, a, b) ==
  compareInOrder(a, b, [i \in Both(a, b) |-> Compare(docs, size, considerFieldName, a[i], b[i])], neg)

DocumentOrder(D, docs, size, considerFieldName, neg) ==
  [p \in Document(D) \X Document(D) |-> InOrder(docs, size, considerFieldName, neg, p[1], p[2])]

LEMMA AtBoth ==
  ASSUME NEW D, NEW a \in Document(D), NEW b \in Document(D), NEW i \in Both(a, b)
  PROVE  a[i] \in Element(D) /\ b[i] \in Element(D)
BY DEF Both, Document

LEMMA DocumentMirror ==
  ASSUME NEW D, NEW docs, IsPreorder(docs, D), NEW size \in [D -> Nat],
         NEW considerFieldName \in BOOLEAN, NEW neg, NEW a \in Document(D), NEW b \in Document(D)
  PROVE  Mirrored(InOrder(docs, size, considerFieldName, neg, a, b),
                  InOrder(docs, size, considerFieldName, neg, b, a))
<1> DEFINE C(x, y) == Compare(docs, size, considerFieldName, x, y)
           p == [i \in Both(a, b) |-> C(a[i], b[i])]
           q == [i \in Both(b, a) |-> C(b[i], a[i])]
<1>1. \A i \in Both(a, b) : Mirrored(p[i], q[i])
  <2> SUFFICES ASSUME NEW i \in Both(a, b) PROVE Mirrored(p[i], q[i])
    OBVIOUS
  <2>1. i \in Both(b, a)
    BY DEF Both
  <2>2. p[i] = C(a[i], b[i]) /\ q[i] = C(b[i], a[i])
    BY <2>1
  <2>3. a[i] \in Element(D) /\ b[i] \in Element(D)
    BY AtBoth
  <2>4. Mirrored(C(a[i], b[i]), C(b[i], a[i]))
    BY <2>3, ElementMirror
  <2> QED
    BY <2>2, <2>4
<1>2. /\ InOrder(docs, size, considerFieldName, neg, a, b) = compareInOrder(a, b, p, neg)
      /\ InOrder(docs, size, considerFieldName, neg, b, a) = compareInOrder(b, a, q, neg)
  BY DEF InOrder
<1> HIDE DEF p, q
<1>3. IsSeq(a) /\ IsSeq(b)
  BY SeqIsSeq DEF Document
<1> QED
  BY <1>1, <1>2, <1>3, InOrderMirror

LEMMA DocumentCircle ==
  ASSUME NEW D, NEW docs, IsPreorder(docs, D), NEW size \in [D -> Nat],
         NEW considerFieldName \in BOOLEAN, NEW neg,
         NEW a \in Document(D), NEW b \in Document(D), NEW c \in Document(D)
  PROVE  Circle(InOrder(docs, size, considerFieldName, neg, a, b),
                InOrder(docs, size, considerFieldName, neg, b, c),
                InOrder(docs, size, considerFieldName, neg, c, a))
<1> DEFINE C(x, y) == Compare(docs, size, considerFieldName, x, y)
           p == [i \in Both(a, b) |-> C(a[i], b[i])]
           q == [i \in Both(b, c) |-> C(b[i], c[i])]
           r == [i \in Both(c, a) |-> C(c[i], a[i])]
<1>1. ASSUME NEW x \in Element(D), NEW y \in Element(D) PROVE C(x, y) \in Signs
  BY ElementMirror DEF Mirrored
<1>2. ASSUME NEW x \in Element(D), NEW y \in Element(D), NEW z \in Element(D)
      PROVE  Circle(C(x, y), C(y, z), C(z, x))
  BY ElementCircle
<1>3. /\ InOrder(docs, size, considerFieldName, neg, a, b) = compareInOrder(a, b, p, neg)
      /\ InOrder(docs, size, considerFieldName, neg, b, c) = compareInOrder(b, c, q, neg)
      /\ InOrder(docs, size, considerFieldName, neg, c, a) = compareInOrder(c, a, r, neg)
  BY DEF InOrder
<1> HIDE DEF C
<1>4. \A i \in Both(a, b) : p[i] \in Signs
  BY <1>1, AtBoth
<1>5. \A i \in Both(b, c) : q[i] \in Signs
  BY <1>1, AtBoth
<1>6. \A i \in Both(c, a) : r[i] \in Signs
  BY <1>1, AtBoth
<1>7. \A i \in Both(a, b) : i \in DOMAIN c => Circle(p[i], q[i], r[i])
  <2> SUFFICES ASSUME NEW i \in Both(a, b), i \in DOMAIN c PROVE Circle(p[i], q[i], r[i])
    OBVIOUS
  <2>1. i \in Both(b, c) /\ i \in Both(c, a)
    BY DEF Both
  <2>2. p[i] = C(a[i], b[i]) /\ q[i] = C(b[i], c[i]) /\ r[i] = C(c[i], a[i])
    BY <2>1
  <2>3. a[i] \in Element(D) /\ b[i] \in Element(D) /\ c[i] \in Element(D)
    BY <2>1, AtBoth
  <2> QED
    BY <1>2, <2>2, <2>3
<1> HIDE DEF p, q, r
<1>8. IsSeq(a) /\ IsSeq(b) /\ IsSeq(c)
  BY SeqIsSeq DEF Document
<1>9. Circle(compareInOrder(a, b, p, neg), compareInOrder(b, c, q, neg), compareInOrder(c, a, r, neg))
  BY <1>4, <1>5, <1>6, <1>7, <1>8, InOrderCircle
<1> QED
  BY <1>3, <1>9

\* BSONObj::woCompare is a total preorder of documents of every length, where the documents in
\* their elements are ordered: whatever places a sort key or an Ordering turns round.
THEOREM DocumentsAreOrdered ==
  ASSUME NEW D, NEW docs, IsPreorder(docs, D), NEW size \in [D -> Nat],
         NEW considerFieldName \in BOOLEAN, NEW neg
  PROVE  IsPreorder(DocumentOrder(D, docs, size, considerFieldName, neg), Document(D))
<1> DEFINE E == Document(D)
           f == DocumentOrder(D, docs, size, considerFieldName, neg)
           C(x, y) == InOrder(docs, size, considerFieldName, neg, x, y)
<1>1. f = [p \in E \X E |-> C(p[1], p[2])]
  BY DEF DocumentOrder
<1>2. ASSUME NEW x \in E, NEW y \in E PROVE Mirrored(C(x, y), C(y, x)) /\ C(x, y) \in Signs
  BY DocumentMirror DEF Mirrored
<1>3. ASSUME NEW x \in E, NEW y \in E, NEW z \in E PROVE Circle(C(x, y), C(y, z), C(z, x))
  BY DocumentCircle
<1> HIDE DEF E, f, C
<1>4. \A x, y \in E : f[<<x, y>>] = C(x, y)
  BY <1>1
<1>5. f \in [E \X E -> Signs]
  BY <1>1, <1>2
<1>6. \A x, y \in E : Mirrored(f[<<x, y>>], f[<<y, x>>])
  BY <1>2, <1>4
<1>7. \A x, y, z \in E : Circle(f[<<x, y>>], f[<<y, z>>], f[<<z, x>>])
  BY <1>3, <1>4
<1>8. IsPreorder(f, E)
  BY <1>5, <1>6, <1>7, CirclesOrder
<1> QED
  BY <1>8 DEF f, E

(***************************************************************************)
(* Documents of every depth.  Docs[n] are the documents whose nesting is   *)
(* less than n deep, woCmp[n] is how woCompare orders them, comparing      *)
(* those in their elements as woCmp[n - 1] does, and sizes[n] are their    *)
(* sizes in bytes.                                                         *)
(***************************************************************************)
ByDepth(Docs, woCmp, sizes) ==
  /\ Docs[0] = {} /\ woCmp[0] \in [{} \X {} -> Signs]
  /\ \A n \in Nat : /\ sizes[n] \in [Docs[n] -> Nat]
                    /\ Docs[n + 1] = Document(Docs[n])
                    /\ woCmp[n + 1] = DocumentOrder(Docs[n], woCmp[n], sizes[n], TRUE, {})

\* The order of documents is total, antisymmetric and transitive at every depth of nesting, also
\* when a sort key turns places round or the names are left out at the outermost level.
THEOREM OrderAtEveryDepth ==
  ASSUME NEW Docs, NEW woCmp, NEW sizes, ByDepth(Docs, woCmp, sizes)
  PROVE  \A n \in Nat :
           /\ IsPreorder(woCmp[n], Docs[n])
           /\ \A considerFieldName \in BOOLEAN : \A neg \in SUBSET Nat :
                IsPreorder(DocumentOrder(Docs[n], woCmp[n], sizes[n], considerFieldName, neg), Docs[n + 1])
<1> DEFINE S == {n \in Nat : IsPreorder(woCmp[n], Docs[n])}
<1>1. 0 \in S
  <2>1. Docs[0] = {} /\ woCmp[0] \in [{} \X {} -> Signs]
    BY DEF ByDepth
  <2>2. ASSUME NEW f \in [{} \X {} -> Signs] PROVE IsPreorder(f, {})
    BY DEF IsPreorder
  <2> QED
    BY <2>1, <2>2
<1>2. ASSUME NEW n \in Nat, n \in S PROVE n + 1 \in S
  <2>1. IsPreorder(woCmp[n], Docs[n]) /\ sizes[n] \in [Docs[n] -> Nat]
    BY <1>2 DEF ByDepth
  <2>2. IsPreorder(DocumentOrder(Docs[n], woCmp[n], sizes[n], TRUE, {}), Document(Docs[n]))
    BY <2>1, DocumentsAreOrdered
  <2>3. /\ Docs[n + 1] = Document(Docs[n])
        /\ woCmp[n + 1] = DocumentOrder(Docs[n], woCmp[n], sizes[n], TRUE, {})
    BY DEF ByDepth
  <2>4. IsPreorder(woCmp[n + 1], Docs[n + 1])
    BY <2>2, <2>3, Zenon
  <2>5. n + 1 \in Nat
    OBVIOUS
  <2> QED
    BY <2>4, <2>5, Zenon
<1>3. \A n \in Nat : n \in S
  <2> HIDE DEF S
  <2> QED
    BY <1>1, <1>2, NatInd
<1> SUFFICES ASSUME NEW n \in Nat, NEW considerFieldName \in BOOLEAN, NEW neg \in SUBSET Nat
             PROVE  /\ IsPreorder(woCmp[n], Docs[n])
                    /\ IsPreorder(DocumentOrder(Docs[n], woCmp[n], sizes[n], considerFieldName, neg), Docs[n + 1])
  OBVIOUS
<1>4. IsPreorder(woCmp[n], Docs[n])
  BY <1>3
<1>5. sizes[n] \in [Docs[n] -> Nat] /\ Docs[n + 1] = Document(Docs[n])
  BY DEF ByDepth
<1>6. IsPreorder(DocumentOrder(Docs[n], woCmp[n], sizes[n], considerFieldName, neg), Document(Docs[n]))
  BY <1>4, <1>5, DocumentsAreOrdered
<1> QED
  BY <1>4, <1>5, <1>6
====
