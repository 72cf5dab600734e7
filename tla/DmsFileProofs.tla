--------------------------- MODULE DmsFileProofs ---------------------------
(***************************************************************************)
(* Proofs about DmsFile, for any number of agents, any records and sizes   *)
(* of pages, segments and files, and any failures.                         *)
(***************************************************************************)
EXTENDS DmsFile, DmsPageProofs

(***************************************************************************)
(* The numbers of pages and segments, and where a page is in the file: the *)
(* arithmetic of pageToOffset, for any list of segments.                   *)
(***************************************************************************)

\* What the provers need of \div and %.
LEMMA Quotient ==
  ASSUME NEW p \in Nat, NEW S \in Nat \ {0}
  PROVE  p \div S \in Nat /\ p % S \in 0..(S - 1) /\ p = (p \div S) * S + (p % S)
OBVIOUS

\* Multiples of the size of a segment are in the order of their factors.
LEMMA Multiples ==
  ASSUME NEW n \in Nat, NEW S \in Nat \ {0}
  PROVE  /\ n * S \in Nat /\ (n + 1) * S = n * S + S
         /\ \A k \in Nat : k * S <= n * S <=> k <= n
         /\ \A k \in Nat : k * S + S <= n * S <=> k < n
<1>1. n * S \in Nat /\ (n + 1) * S = n * S + S
  OBVIOUS
<1>2. ASSUME NEW k \in Nat, k <= n PROVE k * S <= n * S
  <2>1. PICK d \in Nat : n = k + d
    <3>1. n - k \in Nat /\ n = k + (n - k)
      BY <1>2
    <3> QED
      BY <3>1
  <2>2. n * S = k * S + d * S /\ k * S \in Nat /\ d * S \in Nat
    BY <2>1
  <2> QED
    BY <2>2
<1>3. ASSUME NEW k \in Nat, k > n PROVE n * S + S <= k * S
  <2>1. PICK d \in Nat : k = n + d + 1
    <3>1. k - n - 1 \in Nat /\ k = n + (k - n - 1) + 1
      BY <1>3
    <3> QED
      BY <3>1
  <2>2. k * S = n * S + d * S + S /\ n * S \in Nat /\ d * S \in Nat
    BY <2>1
  <2> QED
    BY <2>2
<1>4. ASSUME NEW k \in Nat, k < n PROVE k * S + S <= n * S
  <2>1. PICK d \in Nat : n = k + d + 1
    <3>1. n - k - 1 \in Nat /\ n = k + (n - k - 1) + 1
      BY <1>4
    <3> QED
      BY <3>1
  <2>2. n * S = k * S + d * S + S /\ k * S \in Nat /\ d * S \in Nat
    BY <2>1
  <2> QED
    BY <2>2
<1>5. \A k \in Nat : k * S \in Nat
  OBVIOUS
<1>6. ASSUME NEW k \in Nat PROVE (k * S <= n * S <=> k <= n) /\ (k * S + S <= n * S <=> k < n)
  <2> DEFINE a == k * S
             b == n * S
  <2>1. a \in Nat /\ b \in Nat
    BY <1>1, <1>5
  <2>2. (k <= n => a <= b) /\ (k > n => b + S <= a) /\ (k < n => a + S <= b)
    BY <1>2, <1>3, <1>4
  <2>3. k = n => a = b
    OBVIOUS
  <2> HIDE DEF a, b
  <2>4. (a <= b <=> k <= n) /\ (a + S <= b <=> k < n)
    BY <2>1, <2>2, <2>3
  <2> QED
    BY <2>4 DEF a, b
<1> QED
  BY <1>1, <1>6

\* A number that is a multiple and a rest has these as its quotient and its rest.
LEMMA Division ==
  ASSUME NEW n \in Nat, NEW S \in Nat \ {0}, NEW r \in 0..(S - 1)
  PROVE  (n * S + r) \div S = n /\ (n * S + r) % S = r
<1> DEFINE p == n * S + r
           q == p \div S
           m == p % S
<1>1. p \in Nat
  OBVIOUS
<1>2. q \in Nat /\ m \in 0..(S - 1) /\ p = q * S + m
  BY <1>1, Quotient
<1> DEFINE a == n * S
           b == q * S
<1>3. a \in Nat /\ b \in Nat /\ a + r = b + m
  BY <1>2
<1>4. (a + S <= b <=> n < q) /\ (b + S <= a <=> q < n) /\ (n = q => a = b)
  <2> HIDE DEF q
  <2> QED
    BY <1>2, Multiples
<1> HIDE DEF p, q, m, a, b
<1>5. n = q
  BY <1>2, <1>3, <1>4
<1>6. m = r
  BY <1>2, <1>3, <1>4, <1>5
<1> QED
  BY <1>5, <1>6 DEF p, q, m

\* A page id is below the ids of n segments when its segment is one of the first n.
LEMMA BelowMultiple ==
  ASSUME NEW p \in Nat, NEW n \in Nat, NEW S \in Nat \ {0}
  PROVE  p < n * S <=> p \div S < n
<1> DEFINE q == p \div S
           a == n * S
           b == q * S
           m == p % S
<1>1. q \in Nat /\ m \in 0..(S - 1) /\ p = b + m
  BY Quotient
<1>2. a \in Nat /\ b \in Nat
  <2> HIDE DEF q
  <2> QED
    BY <1>1
<1>3. (a <= b <=> n <= q) /\ (b + S <= a <=> q < n)
  <2> HIDE DEF q
  <2> QED
    BY <1>1, Multiples
<1> HIDE DEF q, a, b, m
<1>4. p < a <=> q < n
  BY <1>1, <1>2, <1>3
<1> QED
  BY <1>4 DEF q, a

\* At and the pages agents can get at, for any list b of segments of a file f.
Place(b, p) == b[(p \div PagesPerSegment) + 1] + (p % PagesPerSegment) + 1
PagesOf(f, b) == [p \in 0..(Len(b) * PagesPerSegment - 1) |-> f[Place(b, p)]]
\* The segments are in a file of n pages, and apart.
InFile(b, n) == b \in Seq(Nat) /\ \A k \in 1..Len(b) : b[k] + PagesPerSegment <= n
Apart(b) == \A i, j \in 1..Len(b) : i < j => b[i] + PagesPerSegment <= b[j]
\* The segments one behind the other, as _loadData finds them.
Contiguous(b) == \A k \in 1..Len(b) : b[k] = (k - 1) * PagesPerSegment
\* A segment of f, all of its pages pg; and Q as P with n of its pages, and m pages pg behind.
Filled(f, at, pg) == \A i \in (at + 1)..(at + PagesPerSegment) : f[i] = pg
Joined(P, Q, n, m, pg) == Q = [q \in 0..((n + m) - 1) |-> IF q < n THEN P[q] ELSE pg]

\* A page of one of the segments is in the file, and in its segment.
LEMMA PlaceIs ==
  ASSUME NEW n \in Nat, NEW b, InFile(b, n), NEW p \in 0..(Len(b) * PagesPerSegment - 1)
  PROVE  LET k == (p \div PagesPerSegment) + 1
         IN  /\ p \in Nat /\ k \in 1..Len(b) /\ b[k] \in Nat /\ p % PagesPerSegment \in 0..(PagesPerSegment - 1)
             /\ Place(b, p) = b[k] + (p % PagesPerSegment) + 1
             /\ Place(b, p) \in 1..(b[k] + PagesPerSegment)
             /\ Place(b, p) \in 1..n
<1> DEFINE S == PagesPerSegment
           q == p \div S
           m == p % S
           k == q + 1
           l == Len(b)
<1>1. S \in Nat \ {0} /\ b \in Seq(Nat) /\ l \in Nat
  BY SegmentAssumption DEF InFile
<1>2. l * S \in Nat
  <2> HIDE DEF S, l
  <2> QED
    BY <1>1, Multiples
<1>3. p \in Nat /\ p < l * S
  <2> DEFINE top == l * S
  <2>1. top \in Nat /\ p \in 0..(top - 1)
    BY <1>2
  <2> HIDE DEF top
  <2>2. p \in Nat /\ p < top
    BY <2>1
  <2> QED
    BY <2>2 DEF top
<1> HIDE DEF S, l
<1>4. q \in Nat /\ m \in 0..(S - 1) /\ q < l
  BY <1>1, <1>3, Quotient, BelowMultiple
<1> HIDE DEF q, m
<1>5. k \in 1..l
  BY <1>1, <1>4
<1>6. b[k] \in Nat /\ b[k] + S <= n
  <2>1. DOMAIN b = 1..l
    BY <1>1 DEF l
  <2>2. b[k] \in Nat
    <3> HIDE DEF k
    <3> QED
      BY <1>1, <1>5, <2>1
  <2> QED
    BY <1>5, <2>2 DEF InFile, S, l
<1>7. Place(b, p) = b[k] + m + 1
  BY DEF Place, S, q, m
<1>8. Place(b, p) \in 1..(b[k] + S) /\ Place(b, p) \in 1..n
  <2> DEFINE v == b[k]
  <2>1. v \in Nat /\ v + S <= n /\ Place(b, p) = v + m + 1
    BY <1>6, <1>7
  <2> HIDE DEF v
  <2>2. Place(b, p) \in 1..(v + S) /\ Place(b, p) \in 1..n
    BY <1>1, <1>4, <2>1
  <2> QED
    BY <2>2 DEF v
<1>9. /\ p \in Nat /\ k \in 1..l /\ b[k] \in Nat /\ m \in 0..(S - 1)
      /\ Place(b, p) = b[k] + m + 1 /\ Place(b, p) \in 1..(b[k] + S) /\ Place(b, p) \in 1..n
  BY <1>3, <1>4, <1>5, <1>6, <1>7, <1>8
<1> QED
  BY <1>9 DEF S, q, m, l

\* Two page ids are two places: segments that are apart share no page.
LEMMA PlaceDiffers ==
  ASSUME NEW n \in Nat, NEW b, InFile(b, n), Apart(b),
         NEW p \in 0..(Len(b) * PagesPerSegment - 1), NEW q \in 0..(Len(b) * PagesPerSegment - 1),
         Place(b, p) = Place(b, q)
  PROVE  p = q
<1> DEFINE S == PagesPerSegment
           i == (p \div S) + 1
           j == (q \div S) + 1
           x == p % S
           y == q % S
           v == b[i]
           w == b[j]
<1>1. p \in Nat /\ i \in 1..Len(b) /\ x \in 0..(S - 1) /\ Place(b, p) = v + x + 1 /\ v \in Nat
  BY PlaceIs
<1>2. q \in Nat /\ j \in 1..Len(b) /\ y \in 0..(S - 1) /\ Place(b, q) = w + y + 1 /\ w \in Nat
  BY PlaceIs
<1>3. S \in Nat \ {0} /\ Len(b) \in Nat
  BY SegmentAssumption DEF InFile
<1>4. (i < j => v + S <= w) /\ (j < i => w + S <= v) /\ (i = j => v = w)
  <2>1. (i < j => v + S <= w) /\ (j < i => w + S <= v)
    <3>1. \A g, h \in 1..Len(b) : g < h => b[g] + S <= b[h]
      BY DEF Apart
    <3>2. i \in 1..Len(b) /\ j \in 1..Len(b)
      BY <1>1, <1>2
    <3> HIDE DEF i, j, S
    <3> QED
      BY <3>1, <3>2, Zenon
  <2> QED
    BY <2>1
<1>5. /\ p = (p \div S) * S + x /\ q = (q \div S) * S + y
      /\ p \div S \in Nat /\ q \div S \in Nat
  <2> HIDE DEF S
  <2> QED
    BY <1>1, <1>2, <1>3, Quotient
<1>6. i = j /\ x = y
  <2> HIDE DEF S, i, j, x, y, v, w
  <2>1. v + x = w + y
    <3>1. x \in Nat /\ y \in Nat
      BY <1>1, <1>2, <1>3
    <3>2. (v + x) + 1 = (w + y) + 1
      BY <1>1, <1>2
    <3> QED
      BY <1>1, <1>2, <3>1, <3>2
  <2>2. ~(i < j) /\ ~(j < i)
    BY <1>1, <1>2, <1>3, <1>4, <2>1
  <2>3. i = j
    BY <1>1, <1>2, <1>3, <2>2
  <2> QED
    BY <1>1, <1>2, <1>4, <2>1, <2>3
<1>7. p \div S = q \div S
  <2> DEFINE c == p \div S
             d == q \div S
  <2>1. c \in Nat /\ d \in Nat /\ c + 1 = d + 1
    BY <1>5, <1>6
  <2> HIDE DEF c, d
  <2>2. c = d
    BY <2>1
  <2> QED
    BY <2>2 DEF c, d
<1> HIDE DEF S, x, y
<1> QED
  BY <1>5, <1>6, <1>7

\* What is behind the segments does not matter: a write there, or a longer file, changes no page of theirs.
LEMMA PagesStay ==
  ASSUME NEW n \in Nat, NEW b, InFile(b, n), NEW f, NEW g, \A i \in 1..n : f[i] = g[i]
  PROVE  PagesOf(f, b) = PagesOf(g, b)
<1>1. ASSUME NEW p \in 0..(Len(b) * PagesPerSegment - 1) PROVE f[Place(b, p)] = g[Place(b, p)]
  <2>1. Place(b, p) \in 1..n
    BY PlaceIs
  <2> QED
    BY <2>1
<1> QED
  BY <1>1 DEF PagesOf

\* g is f with pg written at index at, of the first n; Q is P with page p changed.
Written(f, g, n, at, pg) == \A i \in 1..n : g[i] = IF i = at THEN pg ELSE f[i]
Changed(P, Q, p, pg) == Q = [P EXCEPT ![p] = pg]

\* A write to one page is a write to that page only.
LEMMA PagesWrite ==
  ASSUME NEW n \in Nat, NEW b, InFile(b, n), Apart(b), NEW f, NEW g, NEW p, NEW pg,
         p \in 0..(Len(b) * PagesPerSegment - 1), Written(f, g, n, Place(b, p), pg)
  PROVE  Changed(PagesOf(f, b), PagesOf(g, b), p, pg)
<1> DEFINE D == 0..(Len(b) * PagesPerSegment - 1)
<1>1. \A q \in D : Place(b, q) \in 1..n
  BY PlaceIs
<1>2. PagesOf(f, b) = [q \in D |-> f[Place(b, q)]] /\ PagesOf(g, b) = [q \in D |-> g[Place(b, q)]]
  BY DEF PagesOf
<1>3. ASSUME NEW q \in D PROVE g[Place(b, q)] = IF q = p THEN pg ELSE f[Place(b, q)]
  <2>1. CASE q = p
    BY <1>1, <2>1 DEF Written
  <2>2. CASE q # p
    <3>1. Place(b, q) # Place(b, p)
      BY <2>2, PlaceDiffers
    <3> QED
      BY <1>1, <2>2, <3>1 DEF Written
  <2> QED
    BY <2>1, <2>2
<1>4. p \in D
  OBVIOUS
<1> HIDE DEF D
<1> QED
  BY <1>2, <1>3, <1>4 DEF Changed

\* A formatted segment that joins the list adds its pages behind the others.
LEMMA PagesJoin ==
  ASSUME NEW n \in Nat, NEW b, InFile(b, n), NEW f, NEW at \in Nat, NEW pg, Filled(f, at, pg)
  PROVE  Joined(PagesOf(f, b), PagesOf(f, Append(b, at)), Len(b) * PagesPerSegment, PagesPerSegment, pg)
<1> DEFINE S == PagesPerSegment
           l == Len(b)
           N == l * S
           c == Append(b, at)
<1>1. S \in Nat \ {0} /\ b \in Seq(Nat) /\ l \in Nat
  BY SegmentAssumption DEF InFile
<1>2. /\ Len(c) = l + 1 /\ c[l + 1] = at
      /\ \A k \in 1..l : c[k] = b[k]
  BY <1>1
<1>3. Len(c) * S = N + S /\ N \in Nat
  <2> HIDE DEF S, l, c
  <2> QED
    BY <1>1, <1>2, Multiples
<1> HIDE DEF N
<1>4. ASSUME NEW q \in 0..((N + S) - 1), q < N PROVE f[Place(c, q)] = PagesOf(f, b)[q]
  <2>1. q \in 0..(N - 1)
    BY <1>1, <1>3, <1>4
  <2>2. q \in 0..(Len(b) * PagesPerSegment - 1)
    BY <2>1 DEF N
  <2>3. (q \div S) + 1 \in 1..l
    BY <2>2, PlaceIs
  <2> HIDE DEF c
  <2>4. Place(c, q) = Place(b, q)
    BY <1>2, <2>3 DEF Place
  <2>5. PagesOf(f, b)[q] = f[Place(b, q)]
    BY <2>2 DEF PagesOf
  <2> QED
    BY <2>4, <2>5
<1>5. ASSUME NEW q \in 0..((N + S) - 1), ~(q < N) PROVE f[Place(c, q)] = pg
  <2> DEFINE r == q - N
  <2>1. r \in 0..(S - 1) /\ q = N + r
    <3> HIDE DEF S
    <3> QED
      BY <1>1, <1>3, <1>5
  <2>2. q \div S = l /\ q % S = r
    <3> HIDE DEF S, l, r
    <3>1. q = l * S + r
      BY <2>1 DEF N
    <3>2. (l * S + r) \div S = l /\ (l * S + r) % S = r
      BY <1>1, <2>1, Division
    <3> QED
      BY <3>1, <3>2, Zenon
  <2>3. Place(c, q) = at + r + 1
    <3> HIDE DEF r, c, l
    <3> QED
      BY <1>2, <2>2 DEF Place
  <2>4. at + r + 1 \in (at + 1)..(at + S)
    <3> HIDE DEF S, r
    <3> QED
      BY <1>1, <2>1
  <2> HIDE DEF r
  <2> QED
    BY <2>3, <2>4 DEF Filled
<1>6. PagesOf(f, c) = [q \in 0..((N + S) - 1) |-> f[Place(c, q)]]
  <2> HIDE DEF c
  <2>1. Len(c) * PagesPerSegment = N + S
    BY <1>3
  <2>2. 0..(Len(c) * PagesPerSegment - 1) = 0..((N + S) - 1)
    <3> HIDE DEF S
    <3> QED
      BY <2>1, Zenon
  <2> HIDE DEF S
  <2> QED
    BY <2>2, Zenon DEF PagesOf
<1> HIDE DEF c, S
<1>7. PagesOf(f, c) = [q \in 0..((N + S) - 1) |-> IF q < N THEN PagesOf(f, b)[q] ELSE pg]
  BY <1>4, <1>5, <1>6
<1> QED
  BY <1>7 DEF Joined, N, S, c, l

-----------------------------------------------------------------------------
(***************************************************************************)
(* The inductive invariant.  The pages of the file are zeroed or formatted;*)
(* the published segments are in it and apart, and the one that grows is   *)
(* at its end, behind them: only then do agents that insert under _mutex   *)
(* and the one that extends under _extendMutex leave each other alone.     *)
(***************************************************************************)

\* A bag of pairs whose second component is a page id.
IsMap(B) == IsABag(B) /\ IsFiniteSet(DOMAIN B) /\ \A e \in DOMAIN B : e[2] \in Nat

\* A restart finds the segments where they are: there was none, or nothing fails.
Reloads == restarts = 0 \/ Fault = {}
\* A restart enters every page with its id as well: there is one segment at most.
Follows == restarts = 0 \/ (Fault = {} /\ MaxPages < 2 * PagesPerSegment)
\* The agent wrote a segment that is not published yet.
Growing(t) == pc[t] \in {"map", "publish"}
\* The pages agents can get at.
Published == PagesOf(file, body)
\* The free space map that has one entry for each of the pages P.
Entries(P) == [e \in {<<P[p].freeSpace, p>> : p \in DOMAIN P} |-> 1]
\* The entries of m new pages pg, the first of them page n.
NewEntries(pg, n, m) == {<<pg.freeSpace, n + i>> : i \in 0..(m - 1)}

\* Where the agents are; who is extending, or has waited for it, holds
\* _extendMutex, and has a record to insert.
ControlInv ==
  /\ extLatch \in Thread \cup {NoThread} /\ pc \in [Thread -> Pc]
  /\ rec \in [Thread -> Body \cup {Empty}] /\ base \in [Thread -> 0..MaxPages]
  /\ restarts \in 0..MaxRestart
  /\ \A t \in Thread : /\ pc[t] \in {"size", "grow", "map", "publish", "release", "waited"} <=> extLatch = t
                       /\ pc[t] # "idle" => rec[t] \in Body
\* The pages of the file, and the published segments in it.
FileInv ==
  /\ file \in Seq(PageT) /\ Len(file) <= MaxPages
  /\ \A i \in 1..Len(file) : file[i] = ZeroPage \/ Formatted(file[i])
  /\ hdrSize = Len(body) * PagesPerSegment /\ hdrSize <= Len(file)
  /\ InFile(body, Len(file)) /\ Apart(body)
\* The segment that grows is the end of the file, behind all published ones, and it is formatted before
\* it is published.
GrowthInv ==
  \A t \in Thread :
    /\ pc[t] = "grow" => base[t] = Len(file)
    /\ Growing(t) => base[t] + PagesPerSegment = Len(file) /\ hdrSize <= base[t] /\ InFile(body, base[t])
    /\ pc[t] = "publish" => \A i \in (base[t] + 1)..(base[t] + PagesPerSegment) : file[i] = FormattedPage
\* When nothing fails there is nothing between the segments, and nothing behind them but the segment
\* that grows, or a part of one on a full disk.
ContigInv ==
  Fault = {} => /\ Contiguous(body)
                /\ \/ Len(file) = hdrSize \/ Len(file) + PagesPerSegment > MaxPages
                   \/ \E t \in Thread : Growing(t)
                /\ \A t \in Thread : Growing(t) => base[t] = hdrSize
\* The published pages are formatted.
ValidInv == Reloads => \A p \in DOMAIN Published : Published[p].valid = TRUE
\* The free space map is a map of page ids, and has the entries of the published pages.
FsmInv == IsMap(fsm) /\ (Follows => fsm = Entries(Published))
IInv == ControlInv /\ FileInv /\ GrowthInv /\ ContigInv /\ ValidInv /\ FsmInv

\* The sizes are numbers, a segment has a page.
LEMMA SegmentSize ==
  /\ PagesPerSegment \in Nat \ {0} /\ PagesPerSegment \in Nat /\ PagesPerSegment >= 1
  /\ MaxPages \in Nat /\ MaxRestart \in Nat
BY SegmentAssumption, BoundAssumption

\* What the inductive invariant says of the file, for the provers.
LEMMA FileIs ==
  ASSUME FileInv
  PROVE  /\ file \in Seq(PageT) /\ Len(file) \in Nat /\ DOMAIN file = 1..Len(file)
         /\ body \in Seq(Nat) /\ Len(body) \in Nat /\ DOMAIN body = 1..Len(body)
         /\ hdrSize \in Nat /\ NumPages = hdrSize /\ NumPages \in Nat
         /\ DOMAIN Published = 0..(NumPages - 1)
         /\ \A p : At(p) = Place(body, p)
         /\ \A p \in DOMAIN Published : /\ p \in Nat /\ At(p) \in DOMAIN file /\ Published[p] = Page(p)
                                        /\ (Page(p) = ZeroPage \/ Formatted(Page(p)))
<1>1. file \in Seq(PageT) /\ Len(file) \in Nat /\ DOMAIN file = 1..Len(file)
  BY DEF FileInv
<1>2. body \in Seq(Nat) /\ Len(body) \in Nat /\ DOMAIN body = 1..Len(body)
  BY DEF FileInv, InFile
<1>3. hdrSize = NumPages /\ NumPages \in Nat
  <2>1. hdrSize = NumPages
    BY DEF FileInv, NumPages
  <2>2. NumPages \in Nat
    BY <1>2, SegmentSize, Multiples DEF NumPages
  <2> QED
    BY <2>1, <2>2
<1>4. DOMAIN Published = 0..(NumPages - 1)
  BY DEF Published, PagesOf, NumPages
<1>5. \A p : At(p) = Place(body, p)
  BY DEF At, Place
<1>6. ASSUME NEW p \in DOMAIN Published
      PROVE  /\ p \in Nat /\ At(p) \in DOMAIN file /\ Published[p] = Page(p)
             /\ (Page(p) = ZeroPage \/ Formatted(Page(p)))
  <2>1. p \in 0..(Len(body) * PagesPerSegment - 1)
    BY <1>4 DEF NumPages
  <2>2. InFile(body, Len(file))
    BY DEF FileInv
  <2>3. p \in Nat /\ Place(body, p) \in 1..Len(file)
    BY <1>1, <2>1, <2>2, PlaceIs
  <2>4. At(p) \in DOMAIN file
    BY <1>1, <1>5, <2>3
  <2>5. Published[p] = file[Place(body, p)]
    BY <2>1 DEF Published, PagesOf
  <2>6. Published[p] = Page(p)
    BY <1>5, <2>5 DEF Page
  <2>7. Page(p) = ZeroPage \/ Formatted(Page(p))
    BY <1>1, <2>4 DEF FileInv, Page
  <2> QED
    BY <2>3, <2>4, <2>6, <2>7
<1> QED
  BY <1>1, <1>2, <1>3, <1>4, <1>5, <1>6

\* A published page that is a page is formatted: what is not was never given its header.
LEMMA PageIs ==
  ASSUME FileInv, NEW p \in Nat, p < NumPages
  PROVE  /\ p \in DOMAIN Published /\ Published[p] = Page(p)
         /\ Page(p).valid => Formatted(Page(p))
<1>1. p \in DOMAIN Published
  BY FileIs
<1>2. ~ZeroPage.valid
  BY DEF ZeroPage
<1> QED
  BY <1>1, <1>2, FileIs

\* A write to a published page.
LEMMA WriteKeeps ==
  ASSUME FileInv, NEW p \in DOMAIN Published, NEW pg, Formatted(pg),
         file' = [file EXCEPT ![At(p)] = pg], UNCHANGED <<hdrSize, body>>
  PROVE  /\ FileInv' /\ Len(file') = Len(file)
         /\ Published' = [Published EXCEPT ![p] = pg] /\ DOMAIN Published' = DOMAIN Published
         /\ \A n \in Nat : InFile(body, n) => \A i \in Nat : i > n => file'[i] = file[i]
<1> DEFINE n == Len(file)
           a == At(p)
<1>1. /\ file \in Seq(PageT) /\ n \in Nat /\ DOMAIN file = 1..n /\ a \in 1..n /\ a = Place(body, p)
      /\ body' = body /\ hdrSize' = hdrSize
  BY FileIs
<1>2. pg \in PageT
  BY DEF Formatted
<1>3. file' \in Seq(PageT) /\ Len(file') = n /\ \A i \in 1..n : file'[i] = IF i = a THEN pg ELSE file[i]
  <2> HIDE DEF a, n
  <2>1. file' = [file EXCEPT ![a] = pg] /\ n = Len(file)
    BY DEF a, n
  <2>2. file \in Seq(PageT) /\ a \in 1..Len(file)
    BY <1>1, <2>1
  <2> DEFINE g == [file EXCEPT ![a] = pg]
  <2>3. g \in Seq(PageT)
    BY <1>2, <2>2, ExceptSeq
  <2>4. Len(g) = Len(file)
    BY <1>2, <2>2, ExceptSeq
  <2>5. \A i \in 1..Len(file) : g[i] = IF i = a THEN pg ELSE file[i]
    BY <1>2, <2>2, ExceptSeq
  <2> HIDE DEF g
  <2> QED
    BY <2>1, <2>3, <2>4, <2>5 DEF g
<1>4. FileInv'
  <2>1. \A i \in 1..n : file'[i] = ZeroPage \/ Formatted(file'[i])
    <3> HIDE DEF a
    <3> QED
      BY <1>3 DEF FileInv
  <2> HIDE DEF n
  <2>2. Len(file') = Len(file)
    BY <1>3 DEF n
  <2> QED
    BY <1>1, <1>3, <2>1, <2>2 DEF FileInv, n
<1>5. p \in 0..(Len(body) * PagesPerSegment - 1)
  BY DEF Published, PagesOf
<1>6. DOMAIN Published' = DOMAIN Published
  BY <1>1 DEF Published, PagesOf
<1>7. Published' = [Published EXCEPT ![p] = pg]
  <2>1. InFile(body, n) /\ Apart(body)
    BY DEF FileInv
  <2>2. n \in Nat /\ \A i \in 1..n : file'[i] = IF i = Place(body, p) THEN pg ELSE file[i]
    <3> HIDE DEF a
    <3> QED
      BY <1>1, <1>3
  <2> HIDE DEF n
  <2> DEFINE F == file'
  <2>3. Written(file, F, n, Place(body, p), pg)
    BY <2>2 DEF Written
  <2> HIDE DEF F
  <2>4. Changed(PagesOf(file, body), PagesOf(F, body), p, pg)
    BY <1>5, <2>1, <2>2, <2>3, PagesWrite
  <2>5. Published' = PagesOf(F, body) /\ Published = PagesOf(file, body)
    BY <1>1 DEF Published, F
  <2> QED
    BY <2>4, <2>5 DEF Changed
<1>8. ASSUME NEW m \in Nat, InFile(body, m), NEW i \in Nat, i > m PROVE file'[i] = file[i]
  <2>1. a \in 1..m
    BY <1>1, <1>5, <1>8, PlaceIs
  <2>2. i # a
    <3> HIDE DEF a
    <3> QED
      BY <1>8, <2>1
  <2> QED
    BY <1>1, <2>2
<1> QED
  BY <1>3, <1>4, <1>6, <1>7, <1>8

\* A step that does not take part in an extension leaves the extension under way as it is.
LEMMA GrowthKept ==
  ASSUME FileInv, ControlInv, GrowthInv, ContigInv, Len(file') = Len(file), UNCHANGED <<hdrSize, body>>,
         \A n \in Nat : InFile(body, n) => \A i \in Nat : i > n => file'[i] = file[i],
         \A u \in Thread : /\ pc'[u] \in {"grow", "map", "publish"} => pc'[u] = pc[u] /\ base'[u] = base[u]
                           /\ Fault = {} /\ pc[u] \in {"map", "publish"} => pc'[u] = pc[u]
  PROVE  GrowthInv' /\ ContigInv'
<1>1. \A u \in Thread : base[u] \in Nat
  BY SegmentSize DEF ControlInv
<1>2. ASSUME NEW t \in Thread, pc'[t] = "grow" PROVE base'[t] = Len(file')
  BY <1>2 DEF GrowthInv
<1>3. ASSUME NEW t \in Thread, Growing(t)'
      PROVE  /\ base'[t] + PagesPerSegment = Len(file') /\ hdrSize' <= base'[t] /\ InFile(body', base'[t])
             /\ Growing(t) /\ base'[t] = base[t] /\ pc'[t] = pc[t]
  <2>1. pc'[t] \in {"map", "publish"}
    BY <1>3 DEF Growing
  <2>2. base'[t] = base[t] /\ Growing(t) /\ pc'[t] = pc[t]
    BY <2>1 DEF Growing
  <2>3. base[t] + PagesPerSegment = Len(file) /\ hdrSize <= base[t] /\ InFile(body, base[t])
    BY <2>2 DEF GrowthInv
  <2> QED
    BY <2>2, <2>3
<1>4. ASSUME NEW t \in Thread, pc'[t] = "publish", NEW i \in (base'[t] + 1)..(base'[t] + PagesPerSegment)
      PROVE  file'[i] = FormattedPage
  <2>1. base'[t] = base[t] /\ pc[t] = "publish" /\ InFile(body, base[t])
    BY <1>3, <1>4 DEF Growing
  <2>2. base[t] \in Nat /\ i \in Nat /\ i > base[t]
    BY <1>1, <1>4, <2>1, SegmentSize
  <2>3. file'[i] = file[i]
    BY <2>1, <2>2
  <2> QED
    BY <1>4, <2>1, <2>3 DEF GrowthInv
<1>5. GrowthInv'
  BY <1>2, <1>3, <1>4 DEF GrowthInv
<1>6. ContigInv'
  <2> SUFFICES ASSUME Fault = {}
               PROVE  /\ Contiguous(body')
                      /\ \/ Len(file') = hdrSize' \/ Len(file') + PagesPerSegment > MaxPages
                         \/ \E t \in Thread : Growing(t)'
                      /\ \A t \in Thread : Growing(t)' => base'[t] = hdrSize'
    BY DEF ContigInv
  <2>1. \A t \in Thread : Growing(t) => Growing(t)'
    BY DEF Growing
  <2> QED
    BY <1>3, <2>1 DEF ContigInv
<1> QED
  BY <1>5, <1>6

\* A step that does not touch the file or the map.
LEMMA QuietKeeps ==
  ASSUME IInv, ControlInv', UNCHANGED <<file, hdrSize, body, fsm, restarts>>,
         \A u \in Thread : /\ pc'[u] \in {"grow", "map", "publish"} => pc'[u] = pc[u] /\ base'[u] = base[u]
                           /\ Fault = {} /\ pc[u] \in {"map", "publish"} => pc'[u] = pc[u]
  PROVE  IInv'
<1>1. GrowthInv' /\ ContigInv'
  BY GrowthKept DEF IInv
<1>2. FileInv'
  BY DEF IInv, FileInv
<1>3. Published' = Published /\ (Reloads' <=> Reloads) /\ (Follows' <=> Follows)
  BY DEF Published, Reloads, Follows
<1>4. ValidInv' /\ FsmInv'
  BY <1>3 DEF IInv, ValidInv, FsmInv
<1> QED
  BY <1>1, <1>2, <1>4 DEF IInv

\* The header of a formatted page has sizes and offsets of the page, and so have its slots.
LEMMA PageFields ==
  ASSUME NEW pg, Formatted(pg)
  PROVE  /\ \A f \in {"slotOffset", "freeSpace", "freeOffset"} : pg[f] \in 0..PageSize
         /\ \A s \in Live(pg) : pg.slot[s].off \in 0..PageSize /\ pg.slot[s].size \in 1..PageSize
         /\ Len(pg.slot) \in 0..(PageSize \div 12)
<1> DEFINE n == Len(pg.slot)
           o == pg.slotOffset
           s == pg.freeSpace
           f == pg.freeOffset
           T == Total(Sizes(pg.slot))
<1>1. /\ n \in Nat /\ o \in Int /\ s \in Int /\ f \in Int /\ T \in Nat
      /\ o = 28 + 4 * n /\ o <= f /\ f + 8 * n <= PageSize
      /\ s = PageSize - o - T /\ s >= f - o
  BY FormattedPages
<1> HIDE DEF n, o, s, f, T
<1>2. PageSize \in Nat
  BY NumbersAre DEF Numbers
<1>3. o \in 0..PageSize /\ f \in 0..PageSize /\ s \in 0..PageSize
  BY <1>1, <1>2
<1>4. n \in 0..(PageSize \div 12)
  <2>1. 12 * n <= PageSize
    BY <1>1, <1>2
  <2> QED
    BY <1>1, <1>2, <2>1
<1>5. ASSUME NEW i \in Live(pg)
      PROVE  pg.slot[i].off \in 0..PageSize /\ pg.slot[i].size \in 1..PageSize
  <2> DEFINE a == pg.slot[i].off
             z == pg.slot[i].size
  <2>1. a \in Int /\ z \in Nat /\ z > 8 /\ f <= a /\ a + z <= PageSize
    BY LiveSlot DEF f
  <2> HIDE DEF a, z
  <2>2. a \in 0..PageSize /\ z \in 1..PageSize
    BY <1>2, <1>3, <2>1
  <2> QED
    BY <2>2 DEF a, z
<1> QED
  BY <1>3, <1>4, <1>5 DEF n, o, s, f

\* The invariant holds at the start.
LEMMA InitHolds == Init => IInv
<1> SUFFICES ASSUME Init PROVE IInv
  OBVIOUS
<1>1. /\ file = <<>> /\ hdrSize = 0 /\ body = <<>> /\ Len(file) = 0 /\ Len(body) = 0
      /\ \A t \in Thread : pc[t] = "idle"
  BY DEF Init
<1>2. ControlInv
  BY ThreadAssumption, SegmentSize DEF Init, ControlInv, Pc
<1>3. FileInv
  <2>1. Len(body) * PagesPerSegment = 0
    BY <1>1, SegmentSize
  <2>2. InFile(body, Len(file)) /\ Apart(body)
    BY <1>1 DEF InFile, Apart
  <2> QED
    BY <1>1, <2>1, <2>2, SegmentSize DEF FileInv
<1>4. GrowthInv
  BY <1>1 DEF GrowthInv, Growing
<1>5. ContigInv
  BY <1>1 DEF ContigInv, Contiguous, Growing
<1>6. DOMAIN Published = {}
  <2>1. Len(body) * PagesPerSegment = 0
    BY <1>1, SegmentSize
  <2> QED
    BY <2>1 DEF Published, PagesOf
<1>7. ValidInv
  BY <1>6 DEF ValidInv
<1>8. FsmInv
  <2>1. fsm = EmptyBag
    BY DEF Init
  <2>2. EmptyBag = [e \in {} |-> 1]
    BY DEF EmptyBag, SetToBag
  <2>3. Entries(Published) = [e \in {} |-> 1]
    BY <1>6 DEF Entries
  <2>4. IsABag(fsm) /\ DOMAIN fsm = {}
    BY <2>1, <2>2 DEF IsABag
  <2> QED
    BY <2>1, <2>2, <2>3, <2>4, FS_EmptySet DEF FsmInv, IsMap
<1> QED
  BY <1>2, <1>3, <1>4, <1>5, <1>7, <1>8 DEF IInv

\* Every step keeps the agents' places, their records and the latch _extendMutex in order.
LEMMA ControlStep == ControlInv /\ FileInv /\ [Next]_vars => ControlInv'
<1> SUFFICES ASSUME ControlInv, FileInv, [Next]_vars PROVE ControlInv'
  OBVIOUS
<1>1. Len(file) \in 0..MaxPages /\ 0 \in 0..MaxPages
  BY FileIs, SegmentSize DEF FileInv
<1>2. NoThread \notin Thread
  BY ThreadAssumption
<1> USE DEF ControlInv
<1>3. ASSUME NEW t \in Thread, InsertInvalid(t) \/ FindRecord(t) \/ RemoveRecord(t) PROVE ControlInv'
  BY <1>3 DEF InsertInvalid, FindRecord, RemoveRecord
<1>4. ASSUME NEW t \in Thread, InsertBegin(t) PROVE ControlInv'
  <2>1. PICK b \in Body : rec' = [rec EXCEPT ![t] = b]
    BY <1>4, BodyAssumption DEF InsertBegin
  <2> QED
    BY <1>4, <2>1 DEF InsertBegin, Goto, Pc
<1>5. ASSUME NEW t \in Thread, InsertNoPage(t) PROVE ControlInv'
  BY <1>5 DEF InsertNoPage, Goto, Pc
<1>6. ASSUME NEW t \in Thread, pc[t] = "retry", NEW a, Return(t, a), UNCHANGED <<extLatch, restarts>> PROVE ControlInv'
  BY <1>1, <1>6 DEF Return, Pc
<1>7. ASSUME NEW t \in Thread, InsertSysError(t) PROVE ControlInv'
  BY <1>6, <1>7 DEF InsertSysError
<1>8. ASSUME NEW t \in Thread, InsertStore(t) PROVE ControlInv'
  <2>1. \E a : Return(t, a)
    BY <1>8 DEF InsertStore
  <2> QED
    BY <1>6, <1>8, <2>1 DEF InsertStore
<1>9. ASSUME NEW t \in Thread, TryExtend(t) PROVE ControlInv'
  <2>1. CASE extLatch = NoThread
    BY <1>2, <1>9, <2>1 DEF TryExtend, Goto, Pc
  <2>2. CASE extLatch # NoThread
    BY <1>2, <1>9, <2>2 DEF TryExtend, Goto, Pc
  <2> QED
    BY <2>1, <2>2
<1>10. ASSUME NEW t \in Thread, ExtendWaited(t) PROVE ControlInv'
  BY <1>2, <1>10 DEF ExtendWaited, Goto, Pc
<1>11. ASSUME NEW t \in Thread, ExtendSize(t) PROVE ControlInv'
  BY <1>1, <1>11 DEF ExtendSize, Goto, Pc
<1>12. ASSUME NEW t \in Thread, ExtendGrow(t) PROVE ControlInv'
  BY <1>12 DEF ExtendGrow, Goto, Pc
<1>13. ASSUME NEW t \in Thread, pc[t] \in {"grow", "map"}, NEW rc, ExtendFail(t, rc) PROVE ControlInv'
  BY <1>1, <1>2, <1>13 DEF ExtendFail, Return, Pc
<1>14. ASSUME NEW t \in Thread, ExtendWriteFails(t) PROVE ControlInv'
  BY <1>13, <1>14 DEF ExtendWriteFails
<1>15. ASSUME NEW t \in Thread, ExtendMapFails(t) PROVE ControlInv'
  BY <1>13, <1>15 DEF ExtendMapFails
<1>16. ASSUME NEW t \in Thread, ExtendFormat(t) PROVE ControlInv'
  BY <1>16 DEF ExtendFormat, Goto, Pc
<1>17. ASSUME NEW t \in Thread, ExtendPublish(t) PROVE ControlInv'
  BY <1>1, <1>17 DEF ExtendPublish, Goto, Pc
<1>18. ASSUME NEW t \in Thread, ExtendRelease(t) PROVE ControlInv'
  BY <1>2, <1>18 DEF ExtendRelease, Goto, Pc
<1>19. ASSUME Restart PROVE ControlInv'
  <2>1. restarts' \in 0..MaxRestart
    BY <1>19, SegmentSize DEF Restart
  <2> QED
    BY <1>1, <1>2, <1>19, <2>1 DEF Restart, Pc
<1>20. CASE UNCHANGED vars
  BY <1>20 DEF vars
<1> QED
  BY <1>3, <1>4, <1>5, <1>7, <1>8, <1>9, <1>10, <1>11, <1>12, <1>14, <1>15, <1>16, <1>17, <1>18, <1>19, <1>20
  DEF Next, Insert

-----------------------------------------------------------------------------
(***************************************************************************)
(* The free space map as a bag, and its entries for pages P.               *)
(***************************************************************************)

\* _updateFreeSpace leaves a map of page ids.
LEMMA MapUpdates ==
  ASSUME NEW B, IsMap(B), NEW x, NEW y, NEW p \in Nat
  PROVE  IsMap((B (-) SetToBag({<<x, p>>})) (+) SetToBag({<<y, p>>}))
<1> DEFINE C == B (-) SetToBag({<<x, p>>})
           N == SetToBag({<<y, p>>})
           E == C (+) N
<1>1. DOMAIN N = {<<y, p>>} /\ N[<<y, p>>] = 1
  BY DEF SetToBag
<1>2. \A e \in DOMAIN B : B[e] \in Nat /\ B[e] > 0
  BY DEF IsMap, IsABag
<1>3. DOMAIN C \subseteq DOMAIN B /\ \A e \in DOMAIN C : C[e] \in Nat /\ C[e] > 0
  <2> DEFINE M == SetToBag({<<x, p>>})
  <2>1. \A e \in DOMAIN M : M[e] = 1
    BY DEF SetToBag
  <2> HIDE DEF M
  <2> DEFINE D == [e \in DOMAIN B |-> IF e \in DOMAIN M THEN B[e] - M[e] ELSE B[e]]
  <2>2. C = [e \in {d \in DOMAIN D : D[d] > 0} |-> D[e]]
    BY DEF (-), M
  <2>3. \A e \in DOMAIN B : D[e] \in Int
    BY <1>2, <2>1
  <2>4. DOMAIN D = DOMAIN B
    OBVIOUS
  <2> HIDE DEF D, C
  <2> QED
    BY <2>2, <2>3, <2>4
<1> HIDE DEF C, N
<1>4. DOMAIN E = DOMAIN C \cup DOMAIN N
  BY DEF (+)
<1>5. ASSUME NEW e \in DOMAIN E PROVE E[e] \in Nat /\ E[e] > 0
  <2>1. E[e] = (IF e \in DOMAIN C THEN C[e] ELSE 0) + (IF e \in DOMAIN N THEN N[e] ELSE 0)
    BY <1>4, <1>5 DEF (+)
  <2> QED
    BY <1>1, <1>3, <1>4, <1>5, <2>1
<1>6. E = [e \in DOMAIN E |-> E[e]]
  BY DEF (+)
<1> HIDE DEF E
<1>7. IsABag(E)
  BY <1>5, <1>6 DEF IsABag
<1>8. IsFiniteSet(DOMAIN E)
  <2>1. IsFiniteSet(DOMAIN C) /\ IsFiniteSet(DOMAIN N)
    BY <1>1, <1>3, FS_Subset, FS_Singleton DEF IsMap
  <2> QED
    BY <1>4, <2>1, FS_Union
<1>9. \A e \in DOMAIN E : e[2] \in Nat
  BY <1>1, <1>3, <1>4 DEF IsMap
<1> QED
  BY <1>7, <1>8, <1>9 DEF IsMap, E, C, N

\* The entries of a new segment leave a map of page ids.
LEMMA MapGrows ==
  ASSUME NEW B, IsMap(B), NEW S, IsFiniteSet(S), \A e \in S : e[2] \in Nat
  PROVE  IsMap(B (+) SetToBag(S))
<1> DEFINE N == SetToBag(S)
           E == B (+) N
<1>1. DOMAIN N = S /\ \A e \in S : N[e] = 1
  BY DEF SetToBag
<1>2. \A e \in DOMAIN B : B[e] \in Nat /\ B[e] > 0
  BY DEF IsMap, IsABag
<1> HIDE DEF N
<1>4. DOMAIN E = DOMAIN B \cup S
  BY <1>1 DEF (+)
<1>5. ASSUME NEW e \in DOMAIN E PROVE E[e] \in Nat /\ E[e] > 0
  <2>1. E[e] = (IF e \in DOMAIN B THEN B[e] ELSE 0) + (IF e \in DOMAIN N THEN N[e] ELSE 0)
    BY <1>4, <1>5 DEF (+)
  <2> QED
    BY <1>1, <1>2, <1>4, <1>5, <2>1
<1>6. E = [e \in DOMAIN E |-> E[e]]
  BY DEF (+)
<1> HIDE DEF E
<1>7. IsABag(E)
  BY <1>5, <1>6 DEF IsABag
<1>8. IsFiniteSet(DOMAIN E)
  BY <1>4, FS_Union DEF IsMap
<1>9. \A e \in DOMAIN E : e[2] \in Nat
  BY <1>4 DEF IsMap
<1> QED
  BY <1>7, <1>8, <1>9 DEF IsMap, E, N

\* _updateFreeSpace moves the entry of the page that was written, and no other.
LEMMA EntryMoves ==
  ASSUME NEW P, NEW Q, NEW p, p \in DOMAIN P, NEW pg, Changed(P, Q, p, pg)
  PROVE  (Entries(P) (-) SetToBag({<<P[p].freeSpace, p>>})) (+) SetToBag({<<pg.freeSpace, p>>}) = Entries(Q)
<1> DEFINE D == DOMAIN P
           B == Entries(P)
           x == <<P[p].freeSpace, p>>
           y == <<pg.freeSpace, p>>
           M == SetToBag({x})
           N == SetToBag({y})
           C == B (-) M
           E == C (+) N
           ent(R, q) == <<R[q].freeSpace, q>>
<1>1. DOMAIN Q = D /\ Q[p] = pg /\ \A q \in D : q # p => Q[q] = P[q]
  BY DEF Changed
<1>2. DOMAIN B = {ent(P, q) : q \in D} /\ \A e \in DOMAIN B : B[e] = 1
  BY DEF Entries
<1>3. DOMAIN M = {x} /\ M[x] = 1 /\ DOMAIN N = {y} /\ N[y] = 1
  BY DEF SetToBag
<1> DEFINE K == [e \in DOMAIN B |-> IF e \in DOMAIN M THEN B[e] - M[e] ELSE B[e]]
<1>4. C = [e \in {d \in DOMAIN K : K[d] > 0} |-> K[e]]
  BY DEF (-)
<1>5. DOMAIN K = DOMAIN B /\ \A e \in DOMAIN B : K[e] = IF e = x THEN 0 ELSE 1
  <2> HIDE DEF M, x, B
  <2> QED
    BY <1>2, <1>3
<1> HIDE DEF K, C, M, N, x, y, B
<1>6. DOMAIN C = DOMAIN B \ {x} /\ \A e \in DOMAIN C : C[e] = 1
  BY <1>4, <1>5
<1>7. DOMAIN C = {ent(P, q) : q \in D \ {p}}
  BY <1>2, <1>6 DEF x
<1>8. y \notin DOMAIN C
  BY <1>7 DEF y
<1>9. DOMAIN E = DOMAIN C \cup {y}
  BY <1>3 DEF (+)
<1>10. ASSUME NEW e \in DOMAIN C \cup {y} PROVE E[e] = 1
  <2>1. E[e] = (IF e \in DOMAIN C THEN C[e] ELSE 0) + (IF e \in DOMAIN N THEN N[e] ELSE 0)
    BY <1>3 DEF (+)
  <2> QED
    BY <1>3, <1>6, <1>8, <2>1
<1>11. E = [e \in DOMAIN E |-> E[e]]
  BY DEF (+)
<1> HIDE DEF E
<1>12. DOMAIN C \cup {y} = {ent(Q, q) : q \in D}
  BY <1>1, <1>7 DEF y
<1>13. E = [e \in {ent(Q, q) : q \in D} |-> 1]
  BY <1>9, <1>10, <1>11, <1>12
<1>14. E = Entries(Q)
  BY <1>1, <1>13 DEF Entries
<1> QED
  BY <1>14 DEF E, C, M, N, x, y, B

\* The map has as many entries as there are pages: the id of the next page is their number.
LEMMA EntriesCount ==
  ASSUME NEW n \in Nat, NEW P, DOMAIN P = 0..(n - 1)
  PROVE  Total(Entries(P)) = n
<1> DEFINE S == 0..(n - 1)
           ent(q) == <<P[q].freeSpace, q>>
           T == {ent(q) : q \in S}
           f == [q \in S |-> ent(q)]
<1>1. IsFiniteSet(S) /\ Cardinality(S) = n
  BY FS_Interval
<1>2. f \in Surjection(S, T)
  BY DEF Surjection
<1>3. f \in Injection(S, T)
  BY DEF Injection, IsInjective
<1> HIDE DEF f
<1>4. IsFiniteSet(T) /\ Cardinality(T) = Cardinality(S)
  <2> HIDE DEF S, T
  <2> QED
    BY <1>1, <1>2, <1>3, FS_Surjection
<1>5. Entries(P) = [e \in T |-> 1]
  BY DEF Entries
<1> HIDE DEF T
<1> QED
  BY <1>1, <1>4, <1>5, TotalOnes

\* A new segment's pages join the map under their own ids.
LEMMA EntriesJoin ==
  ASSUME NEW n \in Nat, NEW m \in Nat, NEW P, NEW Q, NEW pg, DOMAIN P = 0..(n - 1),
         Joined(P, Q, n, m, pg)
  PROVE  Entries(P) (+) SetToBag(NewEntries(pg, n, m)) = Entries(Q)
<1> DEFINE new == {<<pg.freeSpace, n + i>> : i \in 0..(m - 1)}
           B == Entries(P)
           N == SetToBag(new)
           E == B (+) N
           D == 0..((n + m) - 1)
<1>1. DOMAIN Q = D /\ \A q \in D : Q[q] = IF q < n THEN P[q] ELSE pg
  BY DEF Joined
<1>2. DOMAIN B = {<<P[q].freeSpace, q>> : q \in 0..(n - 1)} /\ \A e \in DOMAIN B : B[e] = 1
  BY DEF Entries
<1>3. DOMAIN N = new /\ \A e \in new : N[e] = 1
  BY DEF SetToBag
<1> HIDE DEF B, N
<1>4. \A e \in DOMAIN B : e \notin new
  BY <1>2
<1>5. DOMAIN E = DOMAIN B \cup new
  BY <1>3 DEF (+)
<1> DEFINE X == {<<Q[q].freeSpace, q>> : q \in D}
<1>6. X = DOMAIN B \cup new
  <2>1. ASSUME NEW q \in D PROVE <<Q[q].freeSpace, q>> \in DOMAIN B \cup new
    <3>1. CASE q < n
      <4>1. q \in 0..(n - 1)
        BY <3>1
      <4>2. Q[q] = P[q]
        BY <1>1, <3>1
      <4> QED
        BY <1>2, <4>1, <4>2
    <3>2. CASE ~(q < n)
      <4>1. q - n \in 0..(m - 1) /\ n + (q - n) = q
        BY <3>2
      <4>2. Q[q] = pg
        BY <1>1, <3>2
      <4> QED
        BY <4>1, <4>2
    <3> QED
      BY <3>1, <3>2
  <2>2. ASSUME NEW q \in 0..(n - 1) PROVE <<P[q].freeSpace, q>> \in X
    <3>1. q \in D /\ q < n
      OBVIOUS
    <3>2. Q[q] = P[q]
      BY <1>1, <3>1
    <3> HIDE DEF D
    <3> QED
      BY <3>1, <3>2
  <2>3. ASSUME NEW i \in 0..(m - 1) PROVE <<pg.freeSpace, n + i>> \in X
    <3>1. n + i \in D /\ ~(n + i < n)
      OBVIOUS
    <3>2. Q[n + i] = pg
      BY <1>1, <3>1
    <3> HIDE DEF D
    <3> QED
      BY <3>1, <3>2
  <2> HIDE DEF D
  <2>4. X \subseteq DOMAIN B \cup new
    BY <2>1
  <2>5. DOMAIN B \subseteq X
    <3> HIDE DEF X
    <3> QED
      BY <1>2, <2>2
  <2>6. new \subseteq X
    <3> HIDE DEF X
    <3> QED
      BY <2>3
  <2> HIDE DEF X, new
  <2> QED
    BY <2>4, <2>5, <2>6
<1> HIDE DEF new
<1>7. ASSUME NEW e \in DOMAIN B \cup new PROVE E[e] = 1
  <2>1. E[e] = (IF e \in DOMAIN B THEN B[e] ELSE 0) + (IF e \in DOMAIN N THEN N[e] ELSE 0)
    BY <1>3 DEF (+)
  <2> QED
    BY <1>2, <1>3, <1>4, <2>1
<1>8. E = [e \in DOMAIN E |-> E[e]]
  BY DEF (+)
<1> HIDE DEF E
<1>9. E = [e \in X |-> 1]
  BY <1>5, <1>6, <1>7, <1>8
<1>10. E = Entries(Q)
  BY <1>1, <1>9 DEF Entries
<1> QED
  BY <1>10 DEF E, B, N, new, NewEntries

\* _loadData makes a map of page ids.
LEMMA LoadedIsMap ==
  ASSUME NEW n \in Nat
  PROVE  IsMap(LoadedMap(n))
<1> DEFINE entry(i) == <<file[i + 1].freeSpace, i % PagesPerSegment>>
           pages == 0..(n * PagesPerSegment - 1)
           T == {entry(i) : i \in pages}
           f == [i \in pages |-> entry(i)]
           Alike(e) == {i \in pages : entry(i) = e}
           M == LoadedMap(n)
<1>1. M = [e \in T |-> Cardinality(Alike(e))]
  BY DEF LoadedMap
<1>2. \A i \in pages : i \in Nat
  OBVIOUS
<1>3. IsFiniteSet(pages)
  <2>1. n * PagesPerSegment \in Nat
    BY SegmentSize, Multiples
  <2> DEFINE k == n * PagesPerSegment
  <2>2. 0 \in Int /\ k - 1 \in Int
    BY <2>1
  <2> HIDE DEF k
  <2>3. IsFiniteSet(0..(k - 1))
    BY <2>2, FS_Interval
  <2> QED
    BY <2>3 DEF k
<1> HIDE DEF M, pages
<1>4. IsFiniteSet(T)
  <2>1. f \in Surjection(pages, T)
    BY DEF Surjection
  <2> HIDE DEF f, T
  <2> QED
    BY <1>3, <2>1, FS_Surjection
<1>5. ASSUME NEW e \in T PROVE Cardinality(Alike(e)) \in Nat /\ Cardinality(Alike(e)) > 0 /\ e[2] \in Nat
  <2>1. PICK i \in pages : e = entry(i)
    BY <1>5
  <2>2. IsFiniteSet(Alike(e))
    BY <1>3, FS_Subset
  <2>3. i \in Alike(e)
    BY <2>1
  <2> HIDE DEF Alike
  <2>4. Cardinality(Alike(e)) \in Nat /\ Cardinality(Alike(e)) # 0
    BY <2>2, <2>3, FS_CardinalityType, FS_EmptySet
  <2>5. e[2] = i % PagesPerSegment
    BY <2>1
  <2>6. i % PagesPerSegment \in Nat
    <3>1. i % PagesPerSegment \in 0..(PagesPerSegment - 1)
      BY <1>2, SegmentSize, Quotient
    <3> QED
      BY <3>1
  <2> QED
    BY <2>4, <2>5, <2>6
<1> HIDE DEF T, Alike
<1>6. DOMAIN M = T /\ \A e \in T : M[e] = Cardinality(Alike(e))
  BY <1>1
<1>7. M \in [DOMAIN M -> {k \in Nat : k > 0}]
  BY <1>1, <1>5, <1>6
<1> QED
  BY <1>4, <1>5, <1>6, <1>7 DEF IsMap, IsABag, M

\* With one segment _loadData makes the entries of the pages.
LEMMA LoadedIsEntries ==
  ASSUME FileInv, Contiguous(body), MaxPages < 2 * PagesPerSegment
  PROVE  LoadedMap(Len(body)) = Entries(Published)
<1> DEFINE entry(i) == <<file[i + 1].freeSpace, i % PagesPerSegment>>
           n == Len(body)
           pages == 0..(n * PagesPerSegment - 1)
           ent(i) == <<Published[i].freeSpace, i>>
           Alike(e) == {i \in pages : entry(i) = e}
<1>1. LoadedMap(n) = [e \in {entry(i) : i \in pages} |-> Cardinality(Alike(e))]
  BY DEF LoadedMap
<1>2. n \in Nat /\ DOMAIN Published = pages /\ \A p \in DOMAIN Published : Published[p] = file[Place(body, p)]
  BY FileIs DEF NumPages, Published, PagesOf
<1>3. n < 2
  <2> DEFINE N == n * PagesPerSegment
  <2>1. N \in Nat /\ N < 2 * PagesPerSegment
    <3>1. N = hdrSize /\ hdrSize <= Len(file) /\ Len(file) <= MaxPages
      BY DEF FileInv
    <3>2. N \in Nat /\ Len(file) \in Nat
      BY <1>2, FileIs, SegmentSize, Multiples
    <3> DEFINE d == 2 * PagesPerSegment
    <3>3. d \in Nat /\ MaxPages < d /\ MaxPages \in Nat
      BY SegmentSize
    <3> HIDE DEF N, d
    <3>4. N <= Len(file) /\ Len(file) <= MaxPages
      BY <3>1
    <3>5. N < d
      BY <3>2, <3>3, <3>4
    <3> QED
      BY <3>2, <3>5, Zenon DEF d
  <2>2. 2 * PagesPerSegment <= N <=> 2 <= n
    <3>1. 2 \in Nat
      OBVIOUS
    <3> HIDE DEF n
    <3> QED
      BY <1>2, <3>1, SegmentSize, Multiples
  <2> HIDE DEF N
  <2>3. 2 * PagesPerSegment \in Nat
    BY SegmentSize
  <2> QED
    BY <1>2, <2>1, <2>2, <2>3
<1>4. ASSUME NEW i \in pages PROVE i % PagesPerSegment = i /\ Place(body, i) = i + 1
  <2>1. n = 1
    <3>1. CASE n = 0
      <4>1. n * PagesPerSegment = 0
        BY <3>1, SegmentSize
      <4> QED
        BY <1>4, <4>1
    <3>2. n \in Nat
      BY <1>2
    <3> HIDE DEF n, pages
    <3> QED
      BY <1>3, <3>1, <3>2
  <2>2. n * PagesPerSegment = PagesPerSegment
    BY <2>1, SegmentSize
  <2>3. i \in 0..(PagesPerSegment - 1)
    BY <1>4, <2>2
  <2>4. 0 * PagesPerSegment + i = i
    BY <2>3, SegmentSize
  <2>5. i \div PagesPerSegment = 0 /\ i % PagesPerSegment = i
    <3>1. 0 \in Nat
      OBVIOUS
    <3> QED
      BY <2>3, <2>4, <3>1, SegmentSize, Division
  <2>6. body[1] = 0
    <3>1. body[1] = (1 - 1) * PagesPerSegment
      BY <2>1 DEF Contiguous
    <3> QED
      BY <3>1, SegmentSize
  <2>7. Place(body, i) = i + 1
    BY <2>3, <2>5, <2>6 DEF Place
  <2> QED
    BY <2>5, <2>7
<1> HIDE DEF pages
<1>5. \A i \in pages : entry(i) = ent(i)
  BY <1>2, <1>4
<1>6. {entry(i) : i \in pages} = {ent(i) : i \in pages}
  BY <1>5
<1>7. ASSUME NEW e \in {ent(i) : i \in pages} PROVE Cardinality(Alike(e)) = 1
  <2>1. PICK i \in pages : e = ent(i)
    BY <1>7
  <2>2. Alike(e) = {i}
    BY <1>5, <2>1
  <2> HIDE DEF Alike
  <2> QED
    BY <2>2, FS_Singleton
<1> HIDE DEF Alike
<1>8. LoadedMap(n) = [e \in {ent(i) : i \in pages} |-> 1]
  BY <1>1, <1>6, <1>7
<1> QED
  BY <1>2, <1>8 DEF Entries

-----------------------------------------------------------------------------
(***************************************************************************)
(* The steps, one lemma for each.                                          *)
(***************************************************************************)

\* A step that writes one published page, and keeps its entry.
LEMMA WriteHolds ==
  ASSUME IInv, ControlInv', NEW p \in DOMAIN Published, NEW pg, Formatted(pg),
         file' = [file EXCEPT ![At(p)] = pg], UNCHANGED <<hdrSize, body, restarts>>,
         \/ fsm' = (fsm (-) SetToBag({<<Published[p].freeSpace, p>>})) (+) SetToBag({<<pg.freeSpace, p>>})
         \/ fsm' = fsm /\ pg.freeSpace = Published[p].freeSpace,
         \A u \in Thread : /\ pc'[u] \in {"grow", "map", "publish"} => pc'[u] = pc[u] /\ base'[u] = base[u]
                           /\ pc[u] \in {"map", "publish"} => pc'[u] = pc[u]
  PROVE  IInv'
<1> USE DEF IInv
<1>1. /\ FileInv' /\ Len(file') = Len(file)
      /\ Published' = [Published EXCEPT ![p] = pg] /\ DOMAIN Published' = DOMAIN Published
      /\ \A n \in Nat : InFile(body, n) => \A i \in Nat : i > n => file'[i] = file[i]
  BY WriteKeeps
<1>2. GrowthInv' /\ ContigInv'
  BY <1>1, GrowthKept
<1>3. (Reloads' <=> Reloads) /\ (Follows' <=> Follows)
  BY DEF Reloads, Follows
<1>4. pg.valid = TRUE
  BY FormattedPages
<1>5. ValidInv'
  <2>1. ASSUME Reloads', NEW q \in DOMAIN Published' PROVE Published'[q].valid = TRUE
    <3>1. q \in DOMAIN Published /\ Published[q].valid = TRUE
      BY <1>1, <1>3, <2>1 DEF ValidInv
    <3>2. Published'[q] = IF q = p THEN pg ELSE Published[q]
      BY <1>1, <3>1
    <3> QED
      BY <1>4, <3>1, <3>2
  <2> QED
    BY <2>1 DEF ValidInv
<1>6. FsmInv'
  <2>1. p \in Nat
    BY FileIs
  <2>2. CASE fsm' = (fsm (-) SetToBag({<<Published[p].freeSpace, p>>})) (+) SetToBag({<<pg.freeSpace, p>>})
    <3>1. IsMap(fsm')
      BY <2>1, <2>2, MapUpdates DEF FsmInv
    <3>2. ASSUME Follows PROVE fsm' = Entries(Published')
      <4>1. fsm = Entries(Published)
        BY <3>2 DEF FsmInv
      <4> DEFINE Q == Published'
      <4>2. Changed(Published, Q, p, pg)
        BY <1>1 DEF Changed
      <4> HIDE DEF Q
      <4>3. (Entries(Published) (-) SetToBag({<<Published[p].freeSpace, p>>})) (+) SetToBag({<<pg.freeSpace, p>>}) = Entries(Q)
        BY <4>2, EntryMoves
      <4> QED
        BY <2>2, <4>1, <4>3, Zenon DEF Q
    <3> QED
      BY <1>3, <3>1, <3>2 DEF FsmInv
  <2>3. CASE fsm' = fsm /\ pg.freeSpace = Published[p].freeSpace
    <3>1. \A q \in DOMAIN Published : Published'[q].freeSpace = Published[q].freeSpace
      BY <1>1, <2>3
    <3>2. Entries(Published') = Entries(Published)
      <4> HIDE DEF Published
      <4> QED
        BY <1>1, <3>1 DEF Entries
    <3> QED
      BY <1>3, <2>3, <3>2 DEF FsmInv
  <2> QED
    BY <2>2, <2>3
<1> QED
  BY <1>1, <1>2, <1>5, <1>6

\* insert, when the record fits.  The page was not recovered: recovery is tried only
\* when it does not.
LEMMA StoreDoes ==
  ASSUME IInv, NEW t \in Thread, InsertStore(t)
  PROVE  \E p \in DOMAIN Published, x \in SlotT, new \in PageT :
           /\ Formatted(Published[p]) /\ Formatted(new)
           /\ x.body = rec[t] /\ rec[t] \in Body /\ new.slot = Append(Published[p].slot, x)
           /\ file' = [file EXCEPT ![At(p)] = new]
           /\ fsm' = (fsm (-) SetToBag({<<Published[p].freeSpace, p>>})) (+) SetToBag({<<new.freeSpace, p>>})
           /\ Return(t, <<"insert", "OK", <<p, NumSlots(Published[p])>>, rec[t]>>)
<1>1. rec[t] \in Body
  BY DEF IInv, ControlInv, InsertStore
<1>2. PICK p \in Found(t) :
        /\ p < NumPages /\ Page(p).valid
        /\ LET pg  == Recovered(Page(p), rec[t])
               new == StoreRecord(pg, rec[t])
           IN /\ HasRoom(pg, rec[t])
              /\ file' = [file EXCEPT ![At(p)] = new]
              /\ UpdateFreeSpace(p, pg.freeSpace, new.freeSpace)
              /\ Return(t, <<"insert", "OK", <<p, NumSlots(pg)>>, rec[t]>>)
  BY DEF InsertStore
<1>3. p \in Nat
  BY DEF Found, FindPage, BagToSet, IInv, FsmInv, IsMap
<1>4. p \in DOMAIN Published /\ Published[p] = Page(p) /\ Formatted(Page(p))
  BY <1>2, <1>3, PageIs DEF IInv
<1> DEFINE pg == Page(p)
           b == rec[t]
           new == StoreRecord(pg, b)
           x == [off |-> pg.freeOffset - (BodySize[b] + RecordHeaderSize),
                 size |-> BodySize[b] + RecordHeaderSize, body |-> b]
<1>5. HasRoom(pg, b) /\ Recovered(pg, b) = pg
  BY <1>1, <1>2, <1>4, RecoveredIs
<1>6. /\ file' = [file EXCEPT ![At(p)] = new]
      /\ fsm' = (fsm (-) SetToBag({<<pg.freeSpace, p>>})) (+) SetToBag({<<new.freeSpace, p>>})
      /\ Return(t, <<"insert", "OK", <<p, NumSlots(pg)>>, b>>)
  BY <1>2, <1>5 DEF UpdateFreeSpace
<1>7. Formatted(new) /\ new.slot = Append(pg.slot, x)
  BY <1>1, <1>4, <1>5, StoreKeeps
<1>8. new \in PageT
  BY <1>7 DEF Formatted
<1>9. x \in SlotT /\ x.body = b
  <2>1. pg.freeOffset \in Int
    BY <1>4, FormattedPages
  <2>2. BodySize[b] + RecordHeaderSize \in Nat
    <3>1. BodySize[b] \in Nat
      BY <1>1, BodyAssumption
    <3> QED
      BY <3>1, NumbersAre DEF Numbers
  <2>3. pg.freeOffset - (BodySize[b] + RecordHeaderSize) \in Int
    BY <2>1, <2>2
  <2> QED
    BY <1>1, <2>2, <2>3 DEF SlotT
<1> HIDE DEF new, x, pg, b
<1> QED
  BY <1>1, <1>4, <1>6, <1>7, <1>8, <1>9 DEF pg, b

\* insert, when it fails in a page: nothing changes that a record is found by.
LEMMA SysErrorDoes ==
  ASSUME IInv, NEW t \in Thread, InsertSysError(t)
  PROVE  \/ UNCHANGED file
         \/ \E p \in DOMAIN Published, new \in PageT :
              /\ Formatted(Published[p]) /\ Formatted(new)
              /\ Len(new.slot) = Len(Published[p].slot) /\ new.freeSpace = Published[p].freeSpace
              /\ \A j \in 1..Len(new.slot) : new.slot[j].body = Published[p].slot[j].body
              /\ file' = [file EXCEPT ![At(p)] = new]
<1>1. rec[t] \in Body
  BY DEF IInv, ControlInv, InsertSysError
<1>2. PICK p \in Found(t) :
        IF p >= NumPages \/ ~Page(p).valid THEN UNCHANGED file
        ELSE LET pg == Recovered(Page(p), rec[t])
             IN ~HasRoom(pg, rec[t]) /\ file' = [file EXCEPT ![At(p)] = pg]
  BY DEF InsertSysError
<1>3. p \in Nat /\ NumPages \in Nat
  BY FileIs DEF Found, FindPage, BagToSet, IInv, FsmInv, IsMap
<1>4. CASE p >= NumPages \/ ~Page(p).valid
  BY <1>2, <1>4
<1>5. CASE ~(p >= NumPages \/ ~Page(p).valid)
  <2>1. p < NumPages /\ Page(p).valid
    BY <1>3, <1>5
  <2>2. p \in DOMAIN Published /\ Published[p] = Page(p) /\ Formatted(Page(p))
    BY <1>3, <2>1, PageIs DEF IInv
  <2> DEFINE new == Recovered(Page(p), rec[t])
  <2>3. /\ Formatted(new) /\ Len(new.slot) = Len(Page(p).slot) /\ new.freeSpace = Page(p).freeSpace
        /\ \A j \in 1..Len(new.slot) : new.slot[j].body = Page(p).slot[j].body
    BY <1>1, <2>2, RecoveredIs
  <2>4. file' = [file EXCEPT ![At(p)] = new]
    BY <1>2, <1>5
  <2> HIDE DEF new
  <2>5. new \in PageT
    BY <2>3 DEF Formatted
  <2> QED
    BY <2>2, <2>3, <2>4, <2>5
<1> QED
  BY <1>4, <1>5

\* remove.
LEMMA RemoveDoes ==
  ASSUME IInv, NEW t \in Thread, RemoveRecord(t)
  PROVE  \E r \in Given :
           \/ /\ Lookup(r) = Empty /\ Tell(t, <<"remove", "SYS", r>>) /\ UNCHANGED <<file, fsm>>
           \/ \E p \in DOMAIN Published, s \in Nat, new \in PageT :
                /\ r = <<p, s>> /\ s \in 0..(Len(Published[p].slot) - 1) /\ Lookup(r) # Empty
                /\ Tell(t, <<"remove", "OK", r>>)
                /\ Formatted(Published[p]) /\ Formatted(new)
                /\ new.slot = [Published[p].slot EXCEPT ![s + 1] = EmptySlot]
                /\ file' = [file EXCEPT ![At(p)] = new]
                /\ fsm' = (fsm (-) SetToBag({<<Published[p].freeSpace, p>>})) (+) SetToBag({<<new.freeSpace, p>>})
<1>1. PICK r \in Given :
        IF Lookup(r) = Empty
        THEN Tell(t, <<"remove", "SYS", r>>) /\ UNCHANGED <<file, fsm>>
        ELSE LET old == Page(r[1])
                 new == DropRecord(old, r[2])
             IN /\ file' = [file EXCEPT ![At(r[1])] = new]
                /\ UpdateFreeSpace(r[1], old.freeSpace, new.freeSpace)
                /\ Tell(t, <<"remove", "OK", r>>)
  BY DEF RemoveRecord
<1>2. CASE Lookup(r) = Empty
  BY <1>1, <1>2
<1>3. CASE Lookup(r) # Empty
  <2>1. PICK p \in 0..(NumPages - 1) : r \in {p} \X (0..(NumSlots(Page(p)) - 1))
    BY DEF Given
  <2>2. PICK s \in 0..(NumSlots(Page(p)) - 1) : r = <<p, s>>
    BY <2>1
  <2>3. /\ p \in DOMAIN Published /\ p \in Nat /\ Published[p] = Page(p)
        /\ (Page(p) = ZeroPage \/ Formatted(Page(p)))
    BY FileIs DEF IInv
  <2> DEFINE pg == Page(p)
             n == Len(pg.slot)
             new == DropRecord(pg, s)
  <2>4. n \in Nat /\ s \in 0..(n - 1) /\ DOMAIN pg.slot = 1..n
    <3>1. pg \in PageT
      <4>1. ZeroPage \in PageT
        BY DEF ZeroPage, PageT, SlotT
      <4> QED
        BY <2>3, <4>1 DEF Formatted
    <3>2. pg.slot \in Seq(SlotT)
      BY <3>1 DEF PageT
    <3> HIDE DEF pg
    <3>3. n \in Nat /\ DOMAIN pg.slot = 1..n
      BY <3>2
    <3> QED
      BY <2>2, <3>3 DEF NumSlots, pg
  <2> HIDE DEF n
  <2>5. s + 1 \in 1..n /\ s < n /\ s # n
    BY <2>4
  <2>6. Lookup(r) = pg.slot[s + 1].body
    BY <2>2, <2>4, <2>5 DEF Lookup, FindInPage, NumSlots, n
  <2>7. pg.slot[s + 1] # EmptySlot
    BY <1>3, <2>6 DEF EmptySlot
  <2>8. Formatted(pg)
    <3>1. Len(ZeroPage.slot) = 0
      BY DEF ZeroPage
    <3> QED
      BY <2>3, <2>4, <2>5, <3>1 DEF n
  <2>9. s + 1 \in Live(pg)
    BY <2>4, <2>5, <2>7 DEF Live
  <2> HIDE DEF pg
  <2>10. Formatted(new) /\ new.slot = [pg.slot EXCEPT ![s + 1] = EmptySlot]
    BY <2>8, <2>9, DropKeeps
  <2>11. /\ file' = [file EXCEPT ![At(p)] = new]
         /\ fsm' = (fsm (-) SetToBag({<<pg.freeSpace, p>>})) (+) SetToBag({<<new.freeSpace, p>>})
         /\ Tell(t, <<"remove", "OK", r>>)
    <3>1. r[1] = p /\ r[2] = s
      BY <2>2
    <3> QED
      BY <1>1, <1>3, <3>1 DEF UpdateFreeSpace, pg
  <2> HIDE DEF new
  <2>12. Published[p] = pg /\ p \in DOMAIN Published /\ s \in 0..(Len(pg.slot) - 1)
    BY <2>3, <2>4 DEF pg, n
  <2>13. new \in PageT
    BY <2>10 DEF Formatted
  <2>14. s \in Nat
    BY <2>4
  <2> QED
    BY <1>3, <2>2, <2>8, <2>10, <2>11, <2>12, <2>13, <2>14
<1> QED
  BY <1>2, <1>3

\* One agent at most is in _extendSegment: _extendMutex.
LEMMA Alone ==
  ASSUME ControlInv, NEW t \in Thread, NEW u \in Thread,
         pc[t] \in {"size", "grow", "map", "publish"}, pc[u] \in {"size", "grow", "map", "publish"}
  PROVE  u = t
BY DEF ControlInv

\* A segment list that fits a file fits a longer one.
LEMMA InFileGrows ==
  ASSUME NEW b, NEW n \in Nat, NEW m \in Nat, n <= m, InFile(b, n)
  PROVE  InFile(b, m)
<1>1. b \in Seq(Nat)
  BY DEF InFile
<1>2. ASSUME NEW k \in 1..Len(b) PROVE b[k] + PagesPerSegment <= m
  <2> DEFINE v == b[k]
  <2>1. v \in Nat /\ v + PagesPerSegment <= n
    BY <1>1 DEF InFile
  <2> HIDE DEF v
  <2>2. v + PagesPerSegment <= m
    BY <2>1, SegmentSize
  <2> QED
    BY <2>2 DEF v
<1> QED
  BY <1>1, <1>2 DEF InFile

\* _extendFile: the pages agents can get at are not touched.
LEMMA AppendKeeps ==
  ASSUME FileInv, NEW n \in Nat, Len(file) + n <= MaxPages,
         file' = file \o [i \in 1..n |-> ZeroPage], UNCHANGED <<hdrSize, body>>
  PROVE  /\ FileInv' /\ Len(file') = Len(file) + n /\ Published' = Published
<1> DEFINE Z == [i \in 1..n |-> ZeroPage]
           l == Len(file)
<1>1. file \in Seq(PageT) /\ l \in Nat
  BY FileIs
<1>2. ZeroPage \in PageT
  BY DEF ZeroPage, PageT, SlotT
<1>3. Z \in Seq(PageT) /\ Len(Z) = n /\ \A i \in 1..n : Z[i] = ZeroPage
  <2> HIDE DEF Z
  <2>1. Z = [i \in 1..n |-> ZeroPage]
    BY DEF Z
  <2>2. DOMAIN Z = 1..n /\ \A i \in 1..n : Z[i] \in PageT
    BY <1>2, <2>1
  <2>3. Z \in Seq(PageT)
    BY <1>2, <2>1
  <2>4. Len(Z) = n
    BY <2>2, <2>3
  <2> QED
    BY <2>1, <2>3, <2>4
<1> HIDE DEF Z
<1>4. file' = file \o Z
  BY DEF Z
<1>5. file' \in Seq(PageT) /\ Len(file') = l + n
  BY <1>1, <1>3, <1>4
<1>6. \A i \in 1..(l + n) : file'[i] = IF i <= l THEN file[i] ELSE Z[i - l]
  BY <1>1, <1>3, <1>4
<1>7. ASSUME NEW i \in 1..l PROVE file'[i] = file[i]
  <2> HIDE DEF l
  <2>1. i \in 1..(l + n) /\ i <= l
    BY <1>1
  <2>2. file'[i] = IF i <= l THEN file[i] ELSE Z[i - l]
    BY <1>6, <2>1
  <2> QED
    BY <2>1, <2>2
<1>8. ASSUME NEW i \in (l + 1)..(l + n) PROVE file'[i] = ZeroPage
  <2> HIDE DEF l
  <2>1. i \in 1..(l + n) /\ ~(i <= l) /\ i - l \in 1..n
    BY <1>1
  <2>2. file'[i] = IF i <= l THEN file[i] ELSE Z[i - l]
    BY <1>6, <2>1
  <2> QED
    BY <1>3, <2>1, <2>2
<1>9. InFile(body, l) /\ Apart(body) /\ hdrSize = Len(body) * PagesPerSegment /\ hdrSize <= l /\ hdrSize \in Nat
  BY FileIs DEF FileInv
<1>10. InFile(body, l + n)
  BY <1>1, <1>9, InFileGrows
<1>11. FileInv'
  <2>1. \A i \in 1..l : file'[i] = ZeroPage \/ Formatted(file'[i])
    BY <1>7 DEF FileInv
  <2> HIDE DEF l
  <2>2. \A i \in 1..(l + n) : file'[i] = ZeroPage \/ Formatted(file'[i])
    <3> SUFFICES ASSUME NEW i \in 1..(l + n) PROVE file'[i] = ZeroPage \/ Formatted(file'[i])
      OBVIOUS
    <3>1. CASE i <= l
      <4>1. i \in 1..l
        BY <1>1, <3>1
      <4> QED
        BY <2>1, <4>1
    <3>2. CASE i > l
      <4>1. i \in (l + 1)..(l + n)
        BY <1>1, <3>2
      <4> QED
        BY <1>8, <4>1
    <3>3. i <= l \/ i > l
      BY <1>1
    <3> QED
      BY <3>1, <3>2, <3>3
  <2>3. l + n <= MaxPages /\ hdrSize <= l + n
    <3>1. l + n <= MaxPages
      BY DEF l
    <3> QED
      BY <1>1, <1>9, <3>1
  <2> QED
    BY <1>5, <1>9, <1>10, <2>2, <2>3 DEF FileInv
<1>12. Published' = Published
  <2>1. PagesOf(file, body) = PagesOf(file', body)
    <3> HIDE DEF l
    <3> DEFINE F == file'
    <3>1. \A i \in 1..l : file[i] = F[i]
      BY <1>7
    <3> HIDE DEF F
    <3>2. PagesOf(file, body) = PagesOf(F, body)
      BY <1>1, <1>9, <3>1, PagesStay
    <3> QED
      BY <3>2 DEF F
  <2> QED
    BY <2>1 DEF Published
<1> QED
  BY <1>5, <1>11, <1>12

\* Steps that do not change what agents can get at keep what is known of it.
LEMMA SameHolds ==
  ASSUME ValidInv, FsmInv, Published' = Published, UNCHANGED <<fsm, restarts>>
  PROVE  ValidInv' /\ FsmInv'
<1>1. (Reloads' <=> Reloads) /\ (Follows' <=> Follows)
  BY DEF Reloads, Follows
<1> QED
  BY <1>1 DEF ValidInv, FsmInv

\* The place of the next segment is read.
LEMMA SizeStep ==
  ASSUME IInv, ControlInv', NEW t \in Thread, ExtendSize(t)
  PROVE  IInv' /\ Published' = Published
<1> USE DEF IInv
<1>1. /\ UNCHANGED <<file, hdrSize, body, fsm, restarts>>
      /\ pc[t] = "size" /\ pc'[t] = "grow" /\ base'[t] = Len(file)
      /\ \A u \in Thread : u # t => pc'[u] = pc[u] /\ base'[u] = base[u]
  BY DEF ExtendSize, Goto, ControlInv
<1>2. Published' = Published
  BY <1>1 DEF Published
<1>3. FileInv'
  BY <1>1 DEF FileInv
<1>4. \A u \in Thread : (Growing(u)' <=> Growing(u)) /\ (Growing(u) => base'[u] = base[u] /\ pc'[u] = pc[u])
  BY <1>1 DEF Growing
<1>5. ASSUME NEW u \in Thread
      PROVE /\ pc'[u] = "grow" => base'[u] = Len(file')
            /\ Growing(u)' => base'[u] + PagesPerSegment = Len(file') /\ hdrSize' <= base'[u] /\ InFile(body', base'[u])
            /\ pc'[u] = "publish" => \A i \in (base'[u] + 1)..(base'[u] + PagesPerSegment) : file'[i] = FormattedPage
  <2>1. pc'[u] = "grow" => base'[u] = Len(file')
    BY <1>1 DEF GrowthInv
  <2>2. Growing(u)' => base'[u] + PagesPerSegment = Len(file') /\ hdrSize' <= base'[u] /\ InFile(body', base'[u])
    BY <1>1, <1>4 DEF GrowthInv
  <2>3. pc'[u] = "publish" => \A i \in (base'[u] + 1)..(base'[u] + PagesPerSegment) : file'[i] = FormattedPage
    BY <1>1 DEF GrowthInv
  <2> QED
    BY <2>1, <2>2, <2>3
<1>6. GrowthInv'
  BY <1>5 DEF GrowthInv
<1>7. ContigInv'
  <2>1. (\E u \in Thread : Growing(u)) => \E u \in Thread : Growing(u)'
    BY <1>4
  <2>2. Fault = {} => \A u \in Thread : Growing(u)' => base'[u] = hdrSize'
    BY <1>1, <1>4 DEF ContigInv
  <2>3. Contiguous(body') <=> Contiguous(body)
    BY <1>1
  <2> QED
    BY <1>1, <2>1, <2>2, <2>3 DEF ContigInv
<1> QED
  BY <1>1, <1>2, <1>3, <1>6, <1>7, SameHolds

\* _extendFile wrote the segment.
LEMMA GrowStep ==
  ASSUME IInv, ControlInv', NEW t \in Thread, ExtendGrow(t)
  PROVE  IInv' /\ Published' = Published
<1> USE DEF IInv
<1> DEFINE l == Len(file)
<1>1. /\ pc[t] = "grow" /\ pc'[t] = "map" /\ l + PagesPerSegment <= MaxPages
      /\ UNCHANGED <<hdrSize, body, fsm, base, restarts>>
      /\ file' = file \o [i \in 1..PagesPerSegment |-> ZeroPage]
      /\ \A u \in Thread : u # t => pc'[u] = pc[u]
  BY DEF ExtendGrow, Goto, ControlInv
<1>2. FileInv' /\ Len(file') = l + PagesPerSegment /\ Published' = Published
  BY <1>1, AppendKeeps, SegmentSize
<1>3. \A u \in Thread : u # t => pc'[u] \notin {"grow", "map", "publish"}
  BY <1>1, Alone
<1>4. base[t] = l /\ hdrSize <= l /\ InFile(body, l)
  BY <1>1 DEF GrowthInv, FileInv
<1>5. GrowthInv'
  <2> SUFFICES ASSUME NEW u \in Thread
               PROVE  /\ pc'[u] = "grow" => base'[u] = Len(file')
                      /\ Growing(u)' => base'[u] + PagesPerSegment = Len(file') /\ hdrSize' <= base'[u] /\ InFile(body', base'[u])
                      /\ pc'[u] = "publish" => \A i \in (base'[u] + 1)..(base'[u] + PagesPerSegment) : file'[i] = FormattedPage
    BY DEF GrowthInv
  <2>1. CASE u = t
    BY <1>1, <1>2, <1>4, <2>1
  <2>2. CASE u # t
    BY <1>3, <2>2 DEF Growing
  <2> QED
    BY <2>1, <2>2
<1>6. ContigInv'
  <2> SUFFICES ASSUME Fault = {}
               PROVE  /\ Contiguous(body') /\ \E u \in Thread : Growing(u)'
                      /\ \A u \in Thread : Growing(u)' => base'[u] = hdrSize'
    BY DEF ContigInv
  <2>1. \A u \in Thread : ~Growing(u)
    BY <1>1, Alone DEF Growing
  <2>2. l = hdrSize
    <3>1. ~(l + PagesPerSegment > MaxPages)
      BY <1>1, FileIs, SegmentSize
    <3> QED
      BY <2>1, <3>1 DEF ContigInv
  <2>3. Contiguous(body')
    BY <1>1 DEF ContigInv
  <2> QED
    BY <1>1, <1>3, <1>4, <2>2, <2>3 DEF Growing
<1> QED
  BY <1>1, <1>2, <1>5, <1>6, SameHolds

\* _extendFile failed, and left some of the segment's pages behind the file.
LEMMA WriteFailsStep ==
  ASSUME IInv, ControlInv', NEW t \in Thread, ExtendWriteFails(t)
  PROVE  IInv' /\ Published' = Published
<1> USE DEF IInv
<1> DEFINE l == Len(file)
<1>1. /\ pc[t] = "grow" /\ pc'[t] = "idle" /\ ("write" \in Fault \/ l + PagesPerSegment > MaxPages)
      /\ UNCHANGED <<hdrSize, body, fsm, restarts>>
      /\ \A u \in Thread : u # t => pc'[u] = pc[u] /\ base'[u] = base[u]
  BY DEF ExtendWriteFails, ExtendFail, Return, ControlInv
<1>2. PICK n \in 0..(PagesPerSegment - 1) : l + n <= MaxPages /\ file' = file \o [i \in 1..n |-> ZeroPage]
  BY DEF ExtendWriteFails
<1>3. n \in Nat /\ l \in Nat
  BY <1>2, SegmentSize, FileIs
<1>4. FileInv' /\ Len(file') = l + n /\ Published' = Published
  BY <1>1, <1>2, <1>3, AppendKeeps
<1>5. \A u \in Thread : pc'[u] \notin {"grow", "map", "publish"}
  BY <1>1, Alone
<1>6. GrowthInv'
  BY <1>5 DEF GrowthInv, Growing
<1>7. ContigInv'
  <2> SUFFICES ASSUME Fault = {}
               PROVE  /\ Contiguous(body') /\ Len(file') + PagesPerSegment > MaxPages
                      /\ \A u \in Thread : ~Growing(u)'
    BY DEF ContigInv
  <2>1. Contiguous(body')
    BY <1>1 DEF ContigInv
  <2>2. Len(file') + PagesPerSegment > MaxPages
    <3>1. l + PagesPerSegment > MaxPages
      BY <1>1
    <3> HIDE DEF l
    <3> QED
      BY <1>3, <1>4, <3>1, SegmentSize
  <2> QED
    BY <1>5, <2>1, <2>2 DEF Growing
<1> QED
  BY <1>1, <1>4, <1>6, <1>7, SameHolds

\* The segment's pages get their headers; they are not published yet.
LEMMA FormatStep ==
  ASSUME IInv, ControlInv', NEW t \in Thread, ExtendFormat(t)
  PROVE  IInv' /\ Published' = Published
<1> USE DEF IInv
<1> DEFINE l == Len(file)
           b == base[t]
<1>1. /\ pc[t] = "map" /\ pc'[t] = "publish"
      /\ UNCHANGED <<hdrSize, body, fsm, base, restarts>>
      /\ file' = [i \in DOMAIN file |-> IF i \in (b + 1)..(b + PagesPerSegment) THEN FormattedPage ELSE file[i]]
      /\ \A u \in Thread : u # t => pc'[u] = pc[u]
  BY DEF ExtendFormat, Goto, ControlInv
<1>2. file \in Seq(PageT) /\ l \in Nat /\ DOMAIN file = 1..l
  BY FileIs
<1>3. b \in Nat /\ b + PagesPerSegment = l /\ hdrSize <= b /\ InFile(body, b)
  BY <1>1, SegmentSize DEF GrowthInv, Growing, ControlInv
<1>4. Formatted(FormattedPage) /\ FormattedPage \in PageT
  BY FreshIsFormatted DEF Formatted
<1>5. /\ file' = [i \in 1..l |-> IF i \in (b + 1)..l THEN FormattedPage ELSE file[i]]
  BY <1>1, <1>2, <1>3
<1>6. file' \in Seq(PageT) /\ Len(file') = l
  <2>1. \A i \in 1..l : file[i] \in PageT
    BY <1>2
  <2> HIDE DEF l, b
  <2>2. \A i \in 1..l : (IF i \in (b + 1)..l THEN FormattedPage ELSE file[i]) \in PageT
    BY <1>4, <2>1
  <2>3. file' \in [1..l -> PageT]
    BY <1>5, <2>2
  <2>4. file' \in Seq(PageT)
    BY <1>2, <2>3
  <2>5. DOMAIN file' = 1..l
    BY <1>5
  <2> QED
    BY <1>2, <2>4, <2>5
<1>7. /\ \A i \in (b + 1)..l : file'[i] = FormattedPage
      /\ \A i \in 1..b : file'[i] = file[i]
  <2> HIDE DEF l, b
  <2>1. ASSUME NEW i \in (b + 1)..l PROVE file'[i] = FormattedPage
    <3>1. i \in 1..l
      BY <1>2, <1>3
    <3> QED
      BY <1>5, <3>1
  <2>2. ASSUME NEW i \in 1..b PROVE file'[i] = file[i]
    <3>1. i \in 1..l /\ i \notin (b + 1)..l
      BY <1>2, <1>3, SegmentSize
    <3> QED
      BY <1>5, <3>1
  <2> QED
    BY <2>1, <2>2
<1>8. FileInv'
  <2>1. \A i \in 1..l : file'[i] = ZeroPage \/ Formatted(file'[i])
    <3> SUFFICES ASSUME NEW i \in 1..l PROVE file'[i] = ZeroPage \/ Formatted(file'[i])
      OBVIOUS
    <3>1. file[i] = ZeroPage \/ Formatted(file[i])
      BY DEF FileInv
    <3> HIDE DEF l, b
    <3>2. file'[i] = FormattedPage \/ file'[i] = file[i]
      BY <1>5
    <3> QED
      BY <1>4, <3>1, <3>2
  <2>2. l <= MaxPages /\ hdrSize = Len(body) * PagesPerSegment /\ hdrSize <= l /\ InFile(body, l) /\ Apart(body)
    BY DEF FileInv
  <2> HIDE DEF l
  <2> QED
    BY <1>1, <1>6, <2>1, <2>2 DEF FileInv
<1>9. Published' = Published
  <2> HIDE DEF l, b
  <2> DEFINE F == file'
  <2>1. \A i \in 1..b : file[i] = F[i]
    BY <1>7
  <2> HIDE DEF F
  <2>2. PagesOf(file, body) = PagesOf(F, body)
    BY <1>3, <2>1, PagesStay
  <2> QED
    BY <1>1, <2>2 DEF F, Published
<1>10. \A u \in Thread : u # t => pc'[u] \notin {"grow", "map", "publish"}
  BY <1>1, Alone
<1>11. GrowthInv'
  <2> SUFFICES ASSUME NEW u \in Thread
               PROVE  /\ pc'[u] = "grow" => base'[u] = Len(file')
                      /\ Growing(u)' => base'[u] + PagesPerSegment = Len(file') /\ hdrSize' <= base'[u] /\ InFile(body', base'[u])
                      /\ pc'[u] = "publish" => \A i \in (base'[u] + 1)..(base'[u] + PagesPerSegment) : file'[i] = FormattedPage
    BY DEF GrowthInv
  <2>1. CASE u = t
    BY <1>1, <1>3, <1>6, <1>7, <2>1
  <2>2. CASE u # t
    BY <1>10, <2>2 DEF Growing
  <2> QED
    BY <2>1, <2>2
<1>12. ContigInv'
  <2> SUFFICES ASSUME Fault = {}
               PROVE  /\ Contiguous(body') /\ \E u \in Thread : Growing(u)'
                      /\ \A u \in Thread : Growing(u)' => base'[u] = hdrSize'
    BY DEF ContigInv
  <2>1. Contiguous(body')
    BY <1>1 DEF ContigInv
  <2>2. b = hdrSize
    BY <1>1 DEF ContigInv, Growing
  <2> QED
    BY <1>1, <1>10, <2>1, <2>2 DEF Growing
<1> QED
  BY <1>1, <1>8, <1>9, <1>11, <1>12, SameHolds

\* Under the latch: the segment is published with its pages' entries in the map.
LEMMA PublishStep ==
  ASSUME IInv, ControlInv', NEW t \in Thread, ExtendPublish(t)
  PROVE  IInv' /\ Joined(Published, Published', Len(body) * PagesPerSegment, PagesPerSegment, FormattedPage)
<1> USE DEF IInv
<1> DEFINE l == Len(file)
           at == base[t]
           S == PagesPerSegment
           N == Len(body) * S
           fresh == FormattedPage
<1>1. /\ pc[t] = "publish" /\ pc'[t] = "release"
      /\ UNCHANGED <<file, restarts>> /\ body' = Append(body, at) /\ hdrSize' = hdrSize + S
      /\ fsm' = fsm (+) SetToBag({<<fresh.freeSpace, Total(fsm) + i>> : i \in 0..(S - 1)})
      /\ \A u \in Thread : u # t => pc'[u] = pc[u]
  BY DEF ExtendPublish, Goto, ControlInv, Total
<1>2. /\ file \in Seq(PageT) /\ l \in Nat /\ body \in Seq(Nat) /\ Len(body) \in Nat /\ S \in Nat
      /\ DOMAIN body = 1..Len(body)
  BY FileIs, SegmentSize
<1>3. at \in Nat /\ at + S = l /\ hdrSize <= at /\ InFile(body, at)
  BY <1>1, SegmentSize DEF GrowthInv, Growing, ControlInv
<1>4. hdrSize = N /\ N \in Nat /\ Apart(body) /\ l <= MaxPages
  BY FileIs DEF FileInv
<1> DEFINE c == Append(body, at)
           n == Len(body)
<1>5. n \in Nat /\ DOMAIN body = 1..n
  BY <1>2
<1>6. c \in Seq(Nat) /\ Len(c) = n + 1 /\ c[n + 1] = at /\ \A k \in 1..n : c[k] = body[k]
  BY <1>2, <1>3
<1>7. (n + 1) * S = N + S
  BY <1>2, SegmentSize, Multiples
<1>8. FileInv'
  <2>1. \A k \in 1..n : body[k] + S <= at
    BY <1>3 DEF InFile
  <2>2. InFile(c, l)
    <3>1. ASSUME NEW k \in 1..Len(c) PROVE c[k] + S <= l
      <4> HIDE DEF c, l, S, at, n
      <4>1. CASE k = n + 1
        BY <1>2, <1>3, <1>6, <4>1
      <4>2. CASE k # n + 1
        <5>1. k \in 1..n
          BY <1>5, <1>6, <4>2
        <5> DEFINE v == body[k]
        <5>2. v \in Nat /\ v + S <= at /\ c[k] = v
          BY <1>2, <1>6, <2>1, <5>1 DEF n
        <5> HIDE DEF v
        <5>3. v + S <= l
          BY <1>2, <1>3, <5>2
        <5> QED
          BY <5>2, <5>3
      <4> QED
        BY <4>1, <4>2
    <3> HIDE DEF c
    <3> QED
      BY <1>6, <3>1 DEF InFile
  <2>3. Apart(c)
    <3> SUFFICES ASSUME NEW i \in 1..Len(c), NEW j \in 1..Len(c), i < j PROVE c[i] + S <= c[j]
      BY DEF Apart
    <3> HIDE DEF c, l, S, at, n
    <3>1. i \in 1..n
      BY <1>5, <1>6
    <3>2. CASE j = n + 1
      BY <1>6, <2>1, <3>1, <3>2
    <3>3. CASE j # n + 1
      <4>1. j \in 1..n
        BY <1>5, <1>6, <3>3
      <4> QED
        BY <1>4, <1>6, <3>1, <4>1 DEF Apart, S, n
    <3> QED
      BY <3>2, <3>3
  <2>4. hdrSize' = Len(c) * S /\ hdrSize' <= l
    <3>1. hdrSize' = N + S /\ Len(c) = n + 1
      BY <1>1, <1>4, <1>6
    <3> HIDE DEF c, N, n, l, S, at
    <3> QED
      BY <1>2, <1>3, <1>4, <1>7, <3>1
  <2>5. body' = c /\ file' = file
    BY <1>1
  <2> HIDE DEF c
  <2> QED
    BY <2>2, <2>3, <2>4, <2>5 DEF FileInv
<1>9. \A u \in Thread : pc'[u] \notin {"grow", "map", "publish"}
  BY <1>1, Alone
<1>10. GrowthInv'
  BY <1>9 DEF GrowthInv, Growing
<1>11. ContigInv'
  <2> SUFFICES ASSUME Fault = {}
               PROVE  Contiguous(body') /\ Len(file') = hdrSize' /\ \A u \in Thread : ~Growing(u)'
    BY DEF ContigInv
  <2>1. at = hdrSize /\ Contiguous(body)
    BY <1>1 DEF ContigInv, Growing
  <2>2. Contiguous(c)
    <3> SUFFICES ASSUME NEW k \in 1..Len(c) PROVE c[k] = (k - 1) * S
      BY DEF Contiguous
    <3>1. CASE k = n + 1
      <4>1. k - 1 = n
        BY <1>2, <3>1
      <4> QED
        BY <1>4, <1>6, <2>1, <3>1, <4>1
    <3>2. CASE k # n + 1
      <4> HIDE DEF c
      <4>1. k \in 1..n
        BY <1>2, <1>6, <3>2
      <4> QED
        BY <1>6, <2>1, <4>1 DEF Contiguous
    <3> QED
      BY <3>1, <3>2
  <2>3. Len(file') = hdrSize'
    BY <1>1, <1>3, <2>1
  <2> QED
    BY <1>1, <1>9, <2>2, <2>3 DEF Growing
<1>12. Joined(Published, Published', N, S, fresh)
  <2>1. Filled(file, at, fresh)
    BY <1>1 DEF GrowthInv, Filled
  <2>2. Joined(PagesOf(file, body), PagesOf(file, Append(body, at)), N, S, fresh)
    <3> HIDE DEF fresh, at
    <3> QED
      BY <1>3, <2>1, PagesJoin
  <2> QED
    BY <1>1, <2>2 DEF Published
<1>13. DOMAIN Published = 0..(N - 1)
  BY DEF Published, PagesOf
<1>14. (Reloads' <=> Reloads) /\ (Follows' <=> Follows)
  BY <1>1 DEF Reloads, Follows
<1>15. ValidInv'
  <2>1. fresh.valid = TRUE
    BY DEF FormattedPage
  <2> HIDE DEF fresh, N, S
  <2>2. ASSUME Reloads', NEW q \in DOMAIN Published' PROVE Published'[q].valid = TRUE
    <3>1. q \in 0..((N + S) - 1) /\ Published'[q] = IF q < N THEN Published[q] ELSE fresh
      BY <1>12, <2>2 DEF Joined
    <3>2. CASE q < N
      <4>1. q \in DOMAIN Published
        BY <1>2, <1>4, <1>13, <3>1, <3>2
      <4> QED
        BY <1>14, <2>2, <3>1, <3>2, <4>1 DEF ValidInv
    <3>3. CASE ~(q < N)
      BY <2>1, <3>1, <3>3
    <3> QED
      BY <3>2, <3>3
  <2> QED
    BY <2>2 DEF ValidInv
<1>16. FsmInv'
  <2>1. IsMap(fsm) /\ Total(fsm) \in Nat
    <3>1. IsMap(fsm)
      BY DEF FsmInv
    <3>2. Summands(fsm)
      BY <3>1 DEF IsMap, IsABag, Summands
    <3> QED
      BY <3>1, <3>2, TotalNat
  <2> DEFINE new == {<<fresh.freeSpace, Total(fsm) + i>> : i \in 0..(S - 1)}
  <2>2. IsFiniteSet(new) /\ \A e \in new : e[2] \in Nat
    <3>1. IsFiniteSet(0..(S - 1))
      BY <1>2, FS_Interval
    <3>2. IsFiniteSet(new)
      <4> DEFINE D == 0..(S - 1)
                 ent(i) == <<fresh.freeSpace, Total(fsm) + i>>
                 f == [i \in D |-> ent(i)]
      <4>1. f \in Surjection(D, new)
        BY DEF Surjection
      <4> HIDE DEF new, f, D
      <4> QED
        BY <3>1, <4>1, FS_Surjection DEF D
    <3>3. ASSUME NEW e \in new PROVE e[2] \in Nat
      BY <1>2, <2>1
    <3> QED
      BY <3>2, <3>3
  <2>3. IsMap(fsm')
    <3> HIDE DEF new
    <3>1. IsMap(fsm (+) SetToBag(new))
      BY <2>1, <2>2, MapGrows
    <3> QED
      BY <1>1, <3>1 DEF new
  <2>4. ASSUME Follows PROVE fsm' = Entries(Published')
    <3>1. fsm = Entries(Published)
      BY <2>4 DEF FsmInv
    <3>2. Total(fsm) = N
      <4> HIDE DEF N
      <4> QED
        BY <1>4, <1>13, <3>1, EntriesCount
    <3> DEFINE Q == Published'
               P == Published
    <3>3. Joined(P, Q, N, S, fresh)
      BY <1>12
    <3> HIDE DEF Q, P, N, fresh, S
    <3>4. Entries(P) (+) SetToBag(NewEntries(fresh, N, S)) = Entries(Q)
      BY <1>2, <1>4, <1>13, <3>3, EntriesJoin DEF P
    <3>5. fsm' = Entries(P) (+) SetToBag(NewEntries(fresh, N, S))
      BY <1>1, <3>1, <3>2 DEF P, NewEntries
    <3>6. fsm' = Entries(Q)
      BY <3>4, <3>5
    <3> QED
      BY <3>6 DEF Q
  <2> QED
    BY <1>14, <2>3, <2>4 DEF FsmInv
<1> QED
  BY <1>8, <1>10, <1>11, <1>12, <1>15, <1>16

\* The start of the process: as many segments are loaded as were published.  They
\* are the same ones when no extension was ever left half done.
LEMMA RestartDoes ==
  ASSUME IInv, Restart
  PROVE  /\ hdrSize \div PagesPerSegment = Len(body)
         /\ body' = [k \in 1..Len(body) |-> (k - 1) * PagesPerSegment]
         /\ Fault = {} => body' = body
<1> USE DEF IInv
<1> DEFINE n == Len(body)
           S == PagesPerSegment
<1>1. body \in Seq(Nat) /\ n \in Nat /\ DOMAIN body = 1..n /\ S \in Nat \ {0} /\ hdrSize = n * S
  BY FileIs, SegmentSize DEF FileInv
<1>2. hdrSize \div S = n
  <2> HIDE DEF n, S
  <2>1. 0 \in 0..(S - 1)
    BY <1>1
  <2>2. (n * S + 0) \div S = n
    BY <1>1, <2>1, Division
  <2>3. n * S + 0 = n * S
    <3>1. n * S \in Nat
      BY <1>1, Multiples
    <3> QED
      BY <3>1
  <2> QED
    BY <1>1, <2>2, <2>3, Zenon
<1>3. body' = [k \in 1..n |-> (k - 1) * S]
  BY <1>2 DEF Restart
<1>4. ASSUME Fault = {} PROVE body' = body
  <2>1. \A k \in 1..n : body[k] = (k - 1) * S
    BY <1>4 DEF ContigInv, Contiguous
  <2>2. body = [k \in 1..n |-> body[k]]
    BY <1>1
  <2> HIDE DEF n, S
  <2> QED
    BY <1>3, <2>1, <2>2
<1> QED
  BY <1>2, <1>3, <1>4

\* The restart.
LEMMA RestartStep ==
  ASSUME IInv, ControlInv', Restart
  PROVE  IInv'
<1> USE DEF IInv
<1> DEFINE n == Len(body)
           S == PagesPerSegment
           c == [k \in 1..n |-> (k - 1) * S]
<1>1. n \in Nat /\ S \in Nat \ {0} /\ S \in Nat /\ hdrSize = n * S /\ Len(file) \in Nat /\ hdrSize \in Nat
  BY FileIs, SegmentSize DEF FileInv
<1>2. hdrSize \div S = n /\ body' = c /\ (Fault = {} => body' = body)
  BY RestartDoes
<1>3. /\ UNCHANGED <<file, hdrSize>> /\ restarts' = restarts + 1 /\ (Extending => "crash" \in Fault)
      /\ \A t \in Thread : pc'[t] = "idle"
      /\ fsm' = LoadedMap(hdrSize \div S)
  BY DEF Restart
<1>4. c \in Seq(Nat) /\ Len(c) = n /\ \A k \in 1..n : c[k] = (k - 1) * S
  <2> HIDE DEF n, S
  <2>1. \A k \in 1..n : (k - 1) * S \in Nat
    <3> SUFFICES ASSUME NEW k \in 1..n PROVE (k - 1) * S \in Nat
      OBVIOUS
    <3> DEFINE i == k - 1
    <3>1. i \in Nat
      BY <1>1
    <3> HIDE DEF i
    <3>2. i * S \in Nat
      BY <1>1, <3>1, Multiples
    <3> QED
      BY <3>2 DEF i
  <2>2. c \in [1..n -> Nat]
    BY <2>1
  <2>3. c \in Seq(Nat)
    BY <1>1, <2>2
  <2>4. DOMAIN c = 1..n /\ \A k \in 1..n : c[k] = (k - 1) * S
    OBVIOUS
  <2> HIDE DEF c
  <2>5. Len(c) = n
    BY <1>1, <2>3, <2>4
  <2> QED
    BY <2>3, <2>4, <2>5
<1>5. ASSUME NEW k \in 1..n
      PROVE  c[k] \in Nat /\ c[k] + S = k * S /\ k * S <= hdrSize
  <2> HIDE DEF n, S, c
  <2> DEFINE i == k - 1
  <2>1. i \in Nat /\ k = i + 1 /\ k \in Nat /\ k <= n
    BY <1>1
  <2> HIDE DEF i
  <2>2. i * S \in Nat /\ (i + 1) * S = i * S + S
    BY <1>1, <2>1, Multiples
  <2>3. c[k] = i * S
    BY <1>4 DEF i
  <2>4. k * S <= n * S
    BY <1>1, <2>1, Multiples
  <2>5. c[k] + S = k * S
    BY <2>1, <2>2, <2>3
  <2> QED
    BY <1>1, <2>2, <2>3, <2>4, <2>5
<1> HIDE DEF c
<1>6. FileInv'
  <2>1. InFile(c, Len(file))
    <3>1. ASSUME NEW k \in 1..n PROVE c[k] + S <= Len(file)
      <4> DEFINE x == k * S
                 l == Len(file)
      <4>1. c[k] + S = x /\ x <= hdrSize /\ hdrSize <= l
        BY <1>5 DEF FileInv
      <4>2. x \in Nat
        <5>1. k \in Nat
          BY <1>1
        <5> QED
          BY <1>1, <5>1, Multiples
      <4>3. x <= l
        <5> HIDE DEF x, n, S
        <5> QED
          BY <1>1, <4>1, <4>2
      <4> QED
        BY <4>1, <4>3
    <3> QED
      BY <1>4, <3>1 DEF InFile
  <2>2. Apart(c)
    <3> SUFFICES ASSUME NEW i \in 1..n, NEW j \in 1..n, i < j PROVE c[i] + S <= c[j]
      BY <1>4 DEF Apart
    <3> HIDE DEF n, S
    <3> DEFINE m == j - 1
    <3>1. m \in Nat /\ i \in Nat /\ i <= m
      BY <1>1
    <3> HIDE DEF m
    <3>2. i * S <= m * S
      BY <1>1, <3>1, Multiples
    <3>3. c[j] = m * S
      BY <1>4 DEF m
    <3> QED
      BY <1>5, <3>2, <3>3
  <2>3. file \in Seq(PageT) /\ Len(file) <= MaxPages /\ hdrSize <= Len(file)
        /\ \A i \in 1..Len(file) : file[i] = ZeroPage \/ Formatted(file[i])
    BY DEF FileInv
  <2> QED
    BY <1>1, <1>2, <1>3, <1>4, <2>1, <2>2, <2>3 DEF FileInv
<1>7. GrowthInv'
  BY <1>3 DEF GrowthInv, Growing
<1>8. ContigInv'
  <2> SUFFICES ASSUME Fault = {}
               PROVE  /\ Contiguous(body') /\ (Len(file') = hdrSize' \/ Len(file') + PagesPerSegment > MaxPages)
                      /\ \A u \in Thread : ~Growing(u)'
    BY DEF ContigInv
  <2>1. \A u \in Thread : ~Growing(u)
    BY <1>3 DEF Extending, Growing
  <2>2. Contiguous(body')
    BY <1>2 DEF ContigInv
  <2> QED
    BY <1>3, <2>1, <2>2 DEF ContigInv, Growing
<1>9. restarts' # 0
  BY <1>3, SegmentSize DEF ControlInv
<1>10. Fault = {} => Published' = Published
  BY <1>2, <1>3 DEF Published
<1>11. ValidInv'
  BY <1>9, <1>10 DEF ValidInv, Reloads
<1>12. FsmInv'
  <2>1. fsm' = LoadedMap(n)
    BY <1>2, <1>3
  <2>2. IsMap(fsm')
    BY <1>1, <2>1, LoadedIsMap
  <2>3. ASSUME Follows' PROVE fsm' = Entries(Published')
    <3>1. Fault = {} /\ MaxPages < 2 * PagesPerSegment
      BY <1>9, <2>3 DEF Follows
    <3>2. LoadedMap(n) = Entries(Published)
      BY <3>1, LoadedIsEntries DEF ContigInv
    <3> QED
      BY <1>10, <2>1, <3>1, <3>2
  <2> QED
    BY <2>2, <2>3 DEF FsmInv
<1> QED
  BY <1>6, <1>7, <1>8, <1>11, <1>12

\* The steps that leave the file and the map as they are.
LEMMA QuietSteps ==
  ASSUME IInv, ControlInv', NEW t \in Thread,
         \/ InsertInvalid(t) \/ InsertBegin(t) \/ InsertNoPage(t) \/ TryExtend(t) \/ ExtendWaited(t)
         \/ ExtendMapFails(t) \/ ExtendRelease(t) \/ FindRecord(t)
  PROVE  IInv'
<1>1. UNCHANGED <<file, hdrSize, body, fsm, restarts>>
  BY DEF InsertInvalid, InsertBegin, InsertNoPage, TryExtend, ExtendWaited, ExtendMapFails, ExtendFail,
         ExtendRelease, FindRecord
<1>2. \A u \in Thread : /\ pc'[u] \in {"grow", "map", "publish"} => pc'[u] = pc[u] /\ base'[u] = base[u]
                        /\ Fault = {} /\ pc[u] \in {"map", "publish"} => pc'[u] = pc[u]
  <2>1. pc \in [Thread -> Pc] /\ base \in [Thread -> 0..MaxPages]
    BY DEF IInv, ControlInv
  <2> QED
    BY <2>1 DEF InsertInvalid, InsertBegin, InsertNoPage, TryExtend, ExtendWaited, ExtendMapFails, ExtendFail,
         ExtendRelease, FindRecord, Goto, Return
<1> QED
  BY <1>1, <1>2, QuietKeeps

\* insert, find and remove under the latch.
LEMMA WriteSteps ==
  ASSUME IInv, ControlInv', NEW t \in Thread, InsertStore(t) \/ InsertSysError(t) \/ RemoveRecord(t)
  PROVE  IInv'
<1>1. pc \in [Thread -> Pc] /\ base \in [Thread -> 0..MaxPages]
  BY DEF IInv, ControlInv
<1>2. /\ \A u \in Thread : /\ pc'[u] \in {"grow", "map", "publish"} => pc'[u] = pc[u] /\ base'[u] = base[u]
                           /\ pc[u] \in {"map", "publish"} => pc'[u] = pc[u]
      /\ UNCHANGED <<hdrSize, body, restarts>>
  BY <1>1 DEF InsertStore, InsertSysError, RemoveRecord, Return
<1>3. CASE InsertStore(t)
  <2>1. PICK p \in DOMAIN Published, new \in PageT :
           /\ Formatted(new) /\ file' = [file EXCEPT ![At(p)] = new]
           /\ fsm' = (fsm (-) SetToBag({<<Published[p].freeSpace, p>>})) (+) SetToBag({<<new.freeSpace, p>>})
    BY <1>3, StoreDoes
  <2> QED
    BY <1>2, <2>1, WriteHolds
<1>4. CASE InsertSysError(t)
  <2>1. fsm' = fsm
    BY <1>4 DEF InsertSysError
  <2>2. CASE UNCHANGED file
    BY <1>2, <2>1, <2>2, QuietKeeps
  <2>3. CASE \E p \in DOMAIN Published, new \in PageT :
               /\ Formatted(new) /\ new.freeSpace = Published[p].freeSpace /\ file' = [file EXCEPT ![At(p)] = new]
    <3>1. PICK p \in DOMAIN Published, new \in PageT :
               /\ Formatted(new) /\ new.freeSpace = Published[p].freeSpace /\ file' = [file EXCEPT ![At(p)] = new]
      BY <2>3
    <3> QED
      BY <1>2, <2>1, <3>1, WriteHolds
  <2> QED
    BY <1>4, <2>2, <2>3, SysErrorDoes
<1>5. CASE RemoveRecord(t)
  <2>1. CASE UNCHANGED <<file, fsm>>
    BY <1>2, <2>1, QuietKeeps
  <2>2. CASE \E p \in DOMAIN Published, new \in PageT :
               /\ Formatted(new) /\ file' = [file EXCEPT ![At(p)] = new]
               /\ fsm' = (fsm (-) SetToBag({<<Published[p].freeSpace, p>>})) (+) SetToBag({<<new.freeSpace, p>>})
    <3>1. PICK p \in DOMAIN Published, new \in PageT :
               /\ Formatted(new) /\ file' = [file EXCEPT ![At(p)] = new]
               /\ fsm' = (fsm (-) SetToBag({<<Published[p].freeSpace, p>>})) (+) SetToBag({<<new.freeSpace, p>>})
      BY <2>2
    <3> QED
      BY <1>2, <3>1, WriteHolds
  <2> QED
    BY <1>5, <2>1, <2>2, RemoveDoes
<1> QED
  BY <1>3, <1>4, <1>5

\* Every step keeps the invariant.
LEMMA StepHolds == IInv /\ [Next]_vars => IInv'
<1> SUFFICES ASSUME IInv, [Next]_vars PROVE IInv'
  OBVIOUS
<1>1. ControlInv'
  BY ControlStep DEF IInv
<1>2. ASSUME NEW t \in Thread, InsertInvalid(t) \/ InsertBegin(t) \/ FindRecord(t) PROVE IInv'
  BY <1>1, <1>2, QuietSteps
<1>3. ASSUME NEW t \in Thread, RemoveRecord(t) PROVE IInv'
  BY <1>1, <1>3, WriteSteps
<1>4. ASSUME NEW t \in Thread, Insert(t) PROVE IInv'
  <2>1. CASE InsertNoPage(t) \/ TryExtend(t) \/ ExtendWaited(t) \/ ExtendMapFails(t) \/ ExtendRelease(t)
    BY <1>1, <2>1, QuietSteps
  <2>2. CASE InsertSysError(t) \/ InsertStore(t)
    BY <1>1, <2>2, WriteSteps
  <2>3. CASE ExtendSize(t)
    BY <1>1, <2>3, SizeStep
  <2>4. CASE ExtendGrow(t)
    BY <1>1, <2>4, GrowStep
  <2>5. CASE ExtendWriteFails(t)
    BY <1>1, <2>5, WriteFailsStep
  <2>6. CASE ExtendFormat(t)
    BY <1>1, <2>6, FormatStep
  <2>7. CASE ExtendPublish(t)
    BY <1>1, <2>7, PublishStep
  <2> QED
    BY <1>4, <2>1, <2>2, <2>3, <2>4, <2>5, <2>6, <2>7 DEF Insert
<1>5. CASE Restart
  BY <1>1, <1>5, RestartStep
<1>6. CASE UNCHANGED vars
  <2>1. UNCHANGED <<file, hdrSize, body, fsm, restarts, pc, base>>
    BY <1>6 DEF vars
  <2> QED
    BY <1>1, <2>1, QuietKeeps
<1> QED
  BY <1>2, <1>3, <1>4, <1>5, <1>6 DEF Next

\* The invariant of the data file, whatever fails and however often it restarts: the segments stay in
\* the file and apart, and the one that grows stays behind them, with all inserts and removes going on.
THEOREM Invariance == Spec => []IInv
BY InitHolds, StepHolds, PTL DEF Spec

\* The invariant gives the types.
LEMMA TypesHold == IInv => TypeOK
<1> SUFFICES ASSUME IInv PROVE TypeOK
  OBVIOUS
<1>1. ASSUME NEW i \in DOMAIN file
      PROVE  /\ file[i].valid \in BOOLEAN
             /\ \A f \in {"slotOffset", "freeSpace", "freeOffset"} : file[i][f] \in 0..PageSize
             /\ \A s \in Live(file[i]) : file[i].slot[s].off \in 0..PageSize /\ file[i].slot[s].size \in 1..PageSize
  <2>1. i \in 1..Len(file) /\ (file[i] = ZeroPage \/ Formatted(file[i]))
    BY FileIs DEF IInv, FileInv
  <2>2. CASE file[i] = ZeroPage
    <3>1. /\ ZeroPage.valid \in BOOLEAN /\ Live(ZeroPage) = {}
          /\ \A f \in {"slotOffset", "freeSpace", "freeOffset"} : ZeroPage[f] = 0
      BY DEF ZeroPage, Live
    <3>2. 0 \in 0..PageSize
      BY NumbersAre DEF Numbers
    <3> QED
      BY <2>2, <3>1, <3>2
  <2>3. CASE Formatted(file[i])
    <3> DEFINE pg == file[i]
    <3>1. Formatted(pg)
      BY <2>3
    <3> HIDE DEF pg
    <3>2. pg.valid \in BOOLEAN
      BY <3>1, FormattedPages
    <3>3. /\ \A f \in {"slotOffset", "freeSpace", "freeOffset"} : pg[f] \in 0..PageSize
          /\ \A s \in Live(pg) : pg.slot[s].off \in 0..PageSize /\ pg.slot[s].size \in 1..PageSize
      BY <3>1, PageFields
    <3> QED
      BY <3>2, <3>3 DEF pg
  <2> QED
    BY <2>1, <2>2, <2>3
<1>2. Len(file) <= MaxPages /\ hdrSize \in 0..MaxPages
  <2>1. Len(file) <= MaxPages /\ hdrSize <= Len(file)
    BY DEF IInv, FileInv
  <2>2. Len(file) \in Nat /\ hdrSize \in Nat
    BY FileIs DEF IInv
  <2> QED
    BY <2>1, <2>2, SegmentSize
<1>3. body \in Seq(0..MaxPages)
  <2>1. body \in Seq(Nat) /\ Len(body) \in Nat /\ DOMAIN body = 1..Len(body)
    BY FileIs DEF IInv
  <2>2. ASSUME NEW k \in 1..Len(body) PROVE body[k] \in 0..MaxPages
    <3> DEFINE v == body[k]
               l == Len(file)
    <3>1. v \in Nat /\ v + PagesPerSegment <= l /\ l <= MaxPages /\ l \in Nat
      BY <2>1, FileIs DEF IInv, FileInv, InFile
    <3> HIDE DEF v, l
    <3>2. v \in 0..MaxPages
      BY <3>1, SegmentSize
    <3> QED
      BY <3>2 DEF v
  <2> DEFINE n == Len(body)
  <2>3. body \in [1..n -> 0..MaxPages] /\ n \in Nat
    BY <2>1, <2>2
  <2> DEFINE T == 0..MaxPages
  <2>4. body \in [1..n -> T] /\ n \in Nat
    BY <2>3
  <2> HIDE DEF n, T
  <2>5. body \in Seq(T)
    BY <2>4
  <2> QED
    BY <2>5 DEF T
<1>4. IsABag(fsm)
  BY DEF IInv, FsmInv, IsMap
<1> QED
  BY <1>1, <1>2, <1>3, <1>4 DEF TypeOK, IInv, ControlInv

\* Every variable has its type and every page is a page, after every step.
THEOREM TypeCorrect == Spec => []TypeOK
BY Invariance, TypesHold, PTL

\* Every page agents can get at is as it is written to the file, or is formatted.
LEMMA PageKinds ==
  ASSUME IInv, NEW p \in 0..(NumPages - 1)
  PROVE  p \in DOMAIN Published /\ Published[p] = Page(p) /\ At(p) \in DOMAIN file
         /\ (Page(p) = ZeroPage \/ Formatted(Page(p)))
BY FileIs DEF IInv

\* The invariant keeps records apart: a page that is not formatted has none.
LEMMA ApartHolds == IInv => RecordsAreApart
<1> SUFFICES ASSUME IInv, NEW p \in 0..(NumPages - 1) PROVE RecordsApart(Page(p))
  BY DEF RecordsAreApart
<1>1. CASE Page(p) = ZeroPage
  <2>1. Live(ZeroPage) = {}
    BY DEF ZeroPage, Live
  <2> QED
    BY <1>1, <2>1 DEF RecordsApart
<1>2. CASE Formatted(Page(p))
  BY <1>2 DEF Formatted
<1> QED
  BY <1>1, <1>2, PageKinds

\* No record is ever written over, by insert, by _recoverSpace or by an extension, whatever fails and
\* however often the process restarts.
THEOREM RecordsStayApart == Spec => []RecordsAreApart
BY Invariance, ApartHolds, PTL

\* What the invariant says of the published pages.
LEMMA PublishedHolds == IInv /\ Reloads => PublishedIsFormatted
<1> SUFFICES ASSUME IInv, Reloads PROVE PublishedIsFormatted
  OBVIOUS
<1>1. hdrSize = NumPages
  BY FileIs DEF IInv
<1>2. ASSUME NEW p \in 0..(NumPages - 1) PROVE At(p) \in DOMAIN file /\ Page(p).valid
  BY PageKinds DEF IInv, ValidInv
<1>3. \A i, j \in DOMAIN body : i < j => body[i] + PagesPerSegment <= body[j]
  BY FileIs DEF IInv, FileInv, Apart
<1> QED
  BY <1>1, <1>2, <1>3 DEF PublishedIsFormatted

\* A published page that is formatted has a header that is right.
LEMMA AccountsHold == IInv /\ PublishedIsFormatted => PagesAccount
<1> SUFFICES ASSUME IInv, PublishedIsFormatted, NEW p \in 0..(NumPages - 1) PROVE PageAccounts(Page(p))
  BY DEF PagesAccount
<1>1. Page(p).valid
  BY DEF PublishedIsFormatted
<1>2. ~ZeroPage.valid
  BY DEF ZeroPage
<1>3. Formatted(Page(p))
  BY <1>1, <1>2, PageKinds
<1> QED
  BY <1>3 DEF Formatted

\* What the invariant says of the free space map.
LEMMA MapHolds == IInv /\ Follows => MapMatchesPages
<1> SUFFICES ASSUME IInv, Follows PROVE MapMatchesPages
  OBVIOUS
<1>1. fsm = Entries(Published)
  BY DEF IInv, FsmInv
<1>2. DOMAIN Published = 0..(NumPages - 1) /\ \A p \in 0..(NumPages - 1) : Published[p] = Page(p)
  BY FileIs DEF IInv
<1>3. {<<Published[p].freeSpace, p>> : p \in DOMAIN Published} = {<<Page(p).freeSpace, p>> : p \in 0..(NumPages - 1)}
  BY <1>2
<1> QED
  BY <1>1, <1>3, Zenon DEF Entries, MapMatchesPages

\* The pages agents can get at are formatted, in the file and as many as the header says, until the
\* first restart, and after it too when no extension fails: a restart looks for the segments one behind
\* the other, and a failed extension leaves a hole between them.
THEOREM PublishedStaysFormatted == Spec => [](Reloads => PublishedIsFormatted)
BY Invariance, PublishedHolds, PTL

\* As long as the published pages are formatted no page's header is at odds with its slots and records.
THEOREM PagesStayAccounted == Spec => [](PublishedIsFormatted => PagesAccount)
BY Invariance, AccountsHold, PTL

\* The free space map has one entry for every page, with its free space, until the first restart;
\* after it when nothing fails and the file has one segment at most: _loadData numbers the pages of
\* every segment from 0.
THEOREM MapStaysRight == Spec => [](Follows => MapMatchesPages)
BY Invariance, MapHolds, PTL

-----------------------------------------------------------------------------
(***************************************************************************)
(* dmsFile implements the store of RecordStore.                            *)
(***************************************************************************)

\* The records of pages P by id, as the mapping of the abstract store reads them.
Slots(P, p) == Len(P[p].slot)
Ids(P) == UNION {{p} \X (0..(Slots(P, p) - 1)) : p \in DOMAIN P}
RecordAt(P, r) == P[r[1]].slot[r[2] + 1].body
Records(P) == [r \in Ids(P) |-> RecordAt(P, r)]
Paged(P) == \A p \in DOMAIN P : P[p].slot \in Seq(SlotT) /\ Slots(P, p) \in Nat
\* From P to Q the id r is given out, for record b; and the record of r is removed.
Gains(P, Q, r, b) == Records(Q) = [q \in Ids(P) \cup {r} |-> IF q = r THEN b ELSE Records(P)[q]]
Loses(P, Q, r) == Records(Q) = [Records(P) EXCEPT ![r] = Empty]
\* v is w with slot i emptied.
Emptied(w, v, i) == v = [w EXCEPT ![i] = EmptySlot]
\* The store of the refinement mapping.
Held == [r \in Given |-> Lookup(r)]

\* Slot s of page p was given out.
IsId(P, p, s) == p \in DOMAIN P /\ s \in 0..(Slots(P, p) - 1)

\* The ids that were given out are those of slots.
LEMMA IdIs ==
  ASSUME NEW P, NEW r
  PROVE  r \in Ids(P) <=> \E p, s : IsId(P, p, s) /\ r = <<p, s>>
<1>1. ASSUME r \in Ids(P) PROVE \E p, s : IsId(P, p, s) /\ r = <<p, s>>
  <2>1. PICK p \in DOMAIN P : r \in {p} \X (0..(Slots(P, p) - 1))
    BY <1>1 DEF Ids
  <2>2. PICK s \in 0..(Slots(P, p) - 1) : r = <<p, s>>
    BY <2>1
  <2> QED
    BY <2>2 DEF IsId
<1>2. ASSUME NEW p, NEW s, IsId(P, p, s), r = <<p, s>> PROVE r \in Ids(P)
  <2>1. r \in {p} \X (0..(Slots(P, p) - 1)) /\ p \in DOMAIN P
    BY <1>2 DEF IsId
  <2> QED
    BY <2>1 DEF Ids
<1> QED
  BY <1>1, <1>2

\* The store of the mapping is the records of the published pages.
LEMMA HeldIs == FileInv => Held = Records(Published) /\ Given = Ids(Published) /\ Paged(Published)
<1> SUFFICES ASSUME FileInv PROVE Held = Records(Published) /\ Given = Ids(Published) /\ Paged(Published)
  OBVIOUS
<1>1. /\ DOMAIN Published = 0..(NumPages - 1)
      /\ \A p \in DOMAIN Published : Published[p] = Page(p) /\ (Page(p) = ZeroPage \/ Formatted(Page(p)))
  BY FileIs
<1>2. Paged(Published)
  <2> SUFFICES ASSUME NEW p \in DOMAIN Published
               PROVE  Published[p].slot \in Seq(SlotT) /\ Len(Published[p].slot) \in Nat
    BY DEF Paged, Slots
  <2>1. ZeroPage.slot \in Seq(SlotT)
    BY DEF ZeroPage
  <2>2. Published[p].slot \in Seq(SlotT)
    BY <1>1, <2>1, FormattedPages
  <2> QED
    BY <2>2
<1>3. \A p \in DOMAIN Published : NumSlots(Page(p)) = Slots(Published, p)
  BY <1>1 DEF NumSlots, Slots
<1>4. Given = Ids(Published)
  BY <1>1, <1>3 DEF Given, Ids
<1>5. ASSUME NEW r \in Ids(Published) PROVE Lookup(r) = RecordAt(Published, r)
  <2>1. PICK p, s : p \in DOMAIN Published /\ s \in 0..(Slots(Published, p) - 1) /\ r = <<p, s>>
    BY IdIs DEF IsId
  <2>2. r[1] = p /\ r[2] = s
    BY <2>1
  <2>3. NumSlots(Page(p)) \in Nat /\ s \in 0..(NumSlots(Page(p)) - 1)
    BY <1>2, <1>3, <2>1 DEF Paged
  <2>4. ~(s > NumSlots(Page(p))) /\ s # NumSlots(Page(p))
    BY <2>3
  <2>5. FindInPage(Page(p), s) = Page(p).slot[s + 1].body
    BY <2>4 DEF FindInPage
  <2> QED
    BY <1>1, <2>2, <2>5, <2>1 DEF Lookup, RecordAt
<1> QED
  BY <1>2, <1>4, <1>5 DEF Held, Records

\* Pages with the same records in the same slots hold the same store.
LEMMA SameRecords ==
  ASSUME NEW P, NEW Q, DOMAIN P = DOMAIN Q,
         \A p \in DOMAIN P : /\ Slots(Q, p) = Slots(P, p)
                             /\ \A s \in 0..(Slots(P, p) - 1) : Q[p].slot[s + 1].body = P[p].slot[s + 1].body
  PROVE  Records(Q) = Records(P)
<1>1. Ids(Q) = Ids(P)
  BY DEF Ids
<1>2. ASSUME NEW r \in Ids(P) PROVE RecordAt(Q, r) = RecordAt(P, r)
  <2>1. PICK p, s : p \in DOMAIN P /\ s \in 0..(Slots(P, p) - 1) /\ r = <<p, s>>
    BY IdIs DEF IsId
  <2>2. r[1] = p /\ r[2] = s
    BY <2>1
  <2> QED
    BY <2>2, <2>1 DEF RecordAt
<1> QED
  BY <1>1, <1>2 DEF Records

\* Pages that have no slot yet hold nothing.
LEMMA JoinedRecords ==
  ASSUME NEW P, NEW Q, NEW n \in Nat, NEW m \in Nat, DOMAIN P = 0..(n - 1), Joined(P, Q, n, m, FormattedPage)
  PROVE  Records(Q) = Records(P)
<1>1. /\ DOMAIN Q = 0..((n + m) - 1)
      /\ \A p \in DOMAIN Q : Q[p] = IF p < n THEN P[p] ELSE FormattedPage
  BY DEF Joined
<1>2. Len(FormattedPage.slot) = 0
  BY DEF FormattedPage
<1>3. ASSUME NEW r \in Ids(Q) PROVE r \in Ids(P) /\ RecordAt(Q, r) = RecordAt(P, r)
  <2>1. PICK p, s : p \in DOMAIN Q /\ s \in 0..(Slots(Q, p) - 1) /\ r = <<p, s>>
    BY IdIs DEF IsId
  <2>2. p < n
    <3> SUFFICES ASSUME ~(p < n) PROVE FALSE
      OBVIOUS
    <3>1. Slots(Q, p) = 0
      BY <1>1, <1>2, <2>1 DEF Slots
    <3> QED
      BY <2>1, <3>1
  <2>3. p \in DOMAIN P /\ Q[p] = P[p] /\ r[1] = p
    BY <1>1, <2>1, <2>2
  <2>4. s \in 0..(Slots(P, p) - 1)
    BY <2>3, <2>1 DEF Slots
  <2>5. r \in Ids(P)
    BY <2>1, <2>3, <2>4, IdIs DEF IsId
  <2> QED
    BY <2>3, <2>5 DEF RecordAt
<1>4. ASSUME NEW r \in Ids(P) PROVE r \in Ids(Q)
  <2>1. PICK p, s : p \in DOMAIN P /\ s \in 0..(Slots(P, p) - 1) /\ r = <<p, s>>
    BY IdIs DEF IsId
  <2>2. p \in DOMAIN Q /\ Q[p] = P[p]
    BY <1>1, <2>1
  <2>3. s \in 0..(Slots(Q, p) - 1)
    BY <2>2, <2>1 DEF Slots
  <2> QED
    BY <2>1, <2>2, <2>3, IdIs DEF IsId
<1>5. Ids(Q) = Ids(P)
  BY <1>3, <1>4
<1> QED
  BY <1>3, <1>5 DEF Records

\* A record in a new slot gets an id that was never given out, and no other record changes.
LEMMA NewRecord ==
  ASSUME NEW P, Paged(P), NEW p, p \in DOMAIN P, NEW x \in SlotT, NEW pg, pg.slot = Append(P[p].slot, x),
         NEW Q, Changed(P, Q, p, pg)
  PROVE  <<p, Slots(P, p)>> \notin Ids(P) /\ Gains(P, Q, <<p, Slots(P, p)>>, x.body)
<1> DEFINE n == Slots(P, p)
           r == <<p, n>>
           w == P[p].slot
<1>1. /\ w \in Seq(SlotT) /\ n \in Nat /\ n = Len(w)
      /\ DOMAIN Q = DOMAIN P /\ Q[p] = pg /\ \A q \in DOMAIN P : q # p => Q[q] = P[q]
  BY DEF Paged, Slots, Changed
<1>2. /\ Len(pg.slot) = n + 1 /\ pg.slot[n + 1] = x
      /\ \A i \in 1..n : pg.slot[i] = w[i]
  <2>1. pg.slot = Append(w, x)
    OBVIOUS
  <2> HIDE DEF w, n
  <2> QED
    BY <1>1, <2>1
<1>3. Slots(Q, p) = n + 1 /\ \A q \in DOMAIN P : q # p => Slots(Q, q) = Slots(P, q)
  BY <1>1, <1>2 DEF Slots
<1> HIDE DEF n, w
<1>4. r \notin Ids(P)
  <2> SUFFICES ASSUME r \in Ids(P) PROVE FALSE
    OBVIOUS
  <2>1. PICK q, s : q \in DOMAIN P /\ s \in 0..(Slots(P, q) - 1) /\ r = <<q, s>>
    BY IdIs DEF IsId
  <2>2. q = p /\ s = n
    BY <2>1
  <2>3. n \in 0..(n - 1)
    BY <2>1, <2>2 DEF n
  <2> QED
    BY <1>1, <2>3
<1>5. ASSUME NEW q \in Ids(Q) PROVE q \in Ids(P) \cup {r}
  <2>1. PICK a, s : a \in DOMAIN Q /\ s \in 0..(Slots(Q, a) - 1) /\ q = <<a, s>>
    BY IdIs DEF IsId
  <2>2. CASE a # p
    <3>1. a \in DOMAIN P /\ s \in 0..(Slots(P, a) - 1)
      BY <1>1, <1>3, <2>2, <2>1
    <3> QED
      BY <2>1, <3>1, IdIs DEF IsId
  <2>3. CASE a = p
    <3>1. s \in 0..((n + 1) - 1)
      BY <1>3, <2>3, <2>1
    <3>2. s = n \/ s \in 0..(n - 1)
      BY <1>1, <3>1
    <3>3. ASSUME s \in 0..(n - 1) PROVE q \in Ids(P)
      BY <2>1, <2>3, <3>3, IdIs DEF IsId, n
    <3> QED
      BY <2>1, <2>3, <3>2, <3>3
  <2> QED
    BY <2>2, <2>3
<1>6. r \in Ids(Q) /\ RecordAt(Q, r) = x.body
  <2>1. n \in 0..(Slots(Q, p) - 1)
    BY <1>1, <1>3
  <2>2. r \in Ids(Q)
    BY <1>1, <2>1, IdIs DEF IsId
  <2>3. r[1] = p /\ r[2] = n
    OBVIOUS
  <2> QED
    BY <1>1, <1>2, <2>2, <2>3 DEF RecordAt
<1>7. ASSUME NEW q \in Ids(P) PROVE q \in Ids(Q) /\ RecordAt(Q, q) = RecordAt(P, q)
  <2>1. PICK a, s : a \in DOMAIN P /\ s \in 0..(Slots(P, a) - 1) /\ q = <<a, s>>
    BY IdIs DEF IsId
  <2>2. q[1] = a /\ q[2] = s
    BY <2>1
  <2>3. CASE a # p
    <3>1. s \in 0..(Slots(Q, a) - 1) /\ Q[a] = P[a]
      BY <1>1, <1>3, <2>3, <2>1
    <3>2. q \in Ids(Q)
      BY <1>1, <2>1, <3>1, IdIs DEF IsId
    <3> QED
      BY <2>2, <3>1, <3>2 DEF RecordAt
  <2>4. CASE a = p
    <3>1. s \in 0..(n - 1)
      BY <2>1, <2>4 DEF n
    <3>2. s \in 0..(Slots(Q, a) - 1) /\ s + 1 \in 1..n
      BY <1>1, <1>3, <2>4, <3>1
    <3>3. q \in Ids(Q)
      BY <1>1, <2>1, <3>2, IdIs DEF IsId
    <3>4. Q[a].slot[s + 1] = P[a].slot[s + 1]
      BY <1>1, <1>2, <2>4, <3>2 DEF w
    <3> QED
      BY <2>2, <3>3, <3>4 DEF RecordAt
  <2> QED
    BY <2>3, <2>4
<1> HIDE DEF r
<1>8. Ids(Q) = Ids(P) \cup {r}
  BY <1>5, <1>6, <1>7
<1>9. Records(Q) = [q \in Ids(P) \cup {r} |-> IF q = r THEN x.body ELSE Records(P)[q]]
  <2>1. \A q \in Ids(P) : Records(P)[q] = RecordAt(P, q)
    BY DEF Records
  <2> QED
    BY <1>4, <1>6, <1>7, <1>8, <2>1 DEF Records
<1> QED
  BY <1>4, <1>9 DEF r, n, Gains

\* An emptied slot: its id stays, with no record.
LEMMA DroppedRecord ==
  ASSUME NEW P, Paged(P), NEW p, p \in DOMAIN P, NEW s, s \in 0..(Slots(P, p) - 1),
         NEW pg, Emptied(P[p].slot, pg.slot, s + 1), NEW Q, Changed(P, Q, p, pg)
  PROVE  <<p, s>> \in Ids(P) /\ Loses(P, Q, <<p, s>>)
<1> DEFINE n == Slots(P, p)
           r == <<p, s>>
           w == P[p].slot
           v == [w EXCEPT ![s + 1] = EmptySlot]
<1>1. /\ w \in Seq(SlotT) /\ n \in Nat /\ n = Len(w) /\ DOMAIN w = 1..n /\ pg.slot = v
      /\ DOMAIN Q = DOMAIN P /\ Q[p] = pg /\ \A q \in DOMAIN P : q # p => Q[q] = P[q]
  BY DEF Paged, Slots, Changed, Emptied
<1>2. s + 1 \in 1..n
  BY <1>1
<1>3. Len(v) = n /\ v[s + 1] = EmptySlot /\ \A i \in 1..n : i # s + 1 => v[i] = w[i]
  <2>1. EmptySlot \in SlotT
    BY DEF EmptySlot, SlotT
  <2>2. \A i \in 1..n : v[i] = IF i = s + 1 THEN EmptySlot ELSE w[i]
    <3> HIDE DEF w, n
    <3> QED
      BY <1>1, <1>2
  <2>3. Len(v) = n
    <3> HIDE DEF w, n
    <3>1. w \in Seq(SlotT) /\ s + 1 \in 1..Len(w)
      BY <1>1, <1>2
    <3>2. Len([w EXCEPT ![s + 1] = EmptySlot]) = Len(w)
      BY <2>1, <3>1, ExceptSeq
    <3> QED
      BY <1>1, <3>2
  <2> HIDE DEF v
  <2> QED
    BY <1>2, <2>2, <2>3
<1> HIDE DEF v, w
<1>4. \A q \in DOMAIN P : Slots(Q, q) = Slots(P, q)
  BY <1>1, <1>3 DEF Slots
<1>5. Ids(Q) = Ids(P)
  BY <1>1, <1>4 DEF Ids
<1>6. r \in Ids(P)
  BY IdIs DEF IsId
<1>7. RecordAt(Q, r) = Empty
  <2>1. r[1] = p /\ r[2] = s
    OBVIOUS
  <2>2. EmptySlot.body = Empty
    BY DEF EmptySlot
  <2> QED
    BY <1>1, <1>3, <2>1, <2>2 DEF RecordAt
<1>8. ASSUME NEW q \in Ids(P), q # r PROVE RecordAt(Q, q) = RecordAt(P, q)
  <2>1. PICK a, z : a \in DOMAIN P /\ z \in 0..(Slots(P, a) - 1) /\ q = <<a, z>>
    BY IdIs DEF IsId
  <2>2. q[1] = a /\ q[2] = z
    BY <2>1
  <2>3. CASE a # p
    BY <1>1, <2>2, <2>3, <2>1 DEF RecordAt
  <2>4. CASE a = p
    <3>1. z \in 0..(n - 1) /\ z # s
      BY <1>8, <2>1, <2>4
    <3> HIDE DEF n
    <3>2. z + 1 \in 1..n /\ z + 1 # s + 1
      BY <1>1, <3>1
    <3>3. Q[a].slot[z + 1] = P[a].slot[z + 1]
      BY <1>1, <1>3, <2>4, <3>2 DEF w
    <3> QED
      BY <2>2, <3>3 DEF RecordAt
  <2> QED
    BY <2>3, <2>4
<1> HIDE DEF r
<1>9. Records(Q) = [Records(P) EXCEPT ![r] = Empty]
  <2>1. DOMAIN Records(P) = Ids(P) /\ \A q \in Ids(P) : Records(P)[q] = RecordAt(P, q)
    BY DEF Records
  <2> QED
    BY <1>5, <1>6, <1>7, <1>8, <2>1 DEF Records
<1> QED
  BY <1>6, <1>9 DEF r, Loses

\* A step of an agent that answers a refusal, or nothing, and does not touch the records.
LEMMA RefusedMaps ==
  ASSUME Held' = Held, NEW t \in Thread,
         \/ answer' = answer
         \/ \E rc \in {"INVALIDARG", "SYS", "IO", "OOM"} : Tell(t, <<"insert", rc>>)
  PROVE  [Store!Next]_<<Held, answer>>
BY DEF Tell, Store!Next, Store!Refuse, Store!Tell, Store!RefusedInsert, Held

\* find.
LEMMA FindMaps ==
  ASSUME Held' = Held, NEW t \in Thread, FindRecord(t)
  PROVE  [Store!Next]_<<Held, answer>>
<1>1. PICK r \in Given : Tell(t, IF Lookup(r) = Empty THEN <<"find", "SYS", r>> ELSE <<"find", "OK", r, Lookup(r)>>)
  BY DEF FindRecord
<1>2. r \in DOMAIN Held /\ Held[r] = Lookup(r)
  BY DEF Held
<1>3. Store!Find(t)
  BY <1>1, <1>2 DEF Store!Find, Store!Tell, Tell, Held
<1> QED
  BY <1>3 DEF Store!Next

\* The invariant gives the records after a step too.
LEMMA HeldAfter == FileInv' => Held' = Records(Published') /\ Given' = Ids(Published')
<1>1. FileInv => Held = Records(Published) /\ Given = Ids(Published)
  BY HeldIs
<1>2. (FileInv => Held = Records(Published) /\ Given = Ids(Published))'
  BY <1>1, PTL
<1> QED
  BY <1>2 DEF Records, Ids, RecordAt, Slots

\* insert: the new id is one that was never given out.
LEMMA InsertMaps ==
  ASSUME IInv, IInv', NEW t \in Thread, InsertStore(t)
  PROVE  [Store!Next]_<<Held, answer>>
<1>1. PICK p \in DOMAIN Published, x \in SlotT, new \in PageT :
        /\ Formatted(Published[p]) /\ Formatted(new)
        /\ x.body = rec[t] /\ rec[t] \in Body /\ new.slot = Append(Published[p].slot, x)
        /\ file' = [file EXCEPT ![At(p)] = new]
        /\ Return(t, <<"insert", "OK", <<p, NumSlots(Published[p])>>, rec[t]>>)
  BY StoreDoes
<1> DEFINE P == Published
           Q == Published'
           b == rec[t]
           n == Slots(P, p)
           r == <<p, n>>
<1>2. Changed(P, Q, p, new)
  <2>1. UNCHANGED <<hdrSize, body>>
    BY DEF InsertStore
  <2>2. Published' = [Published EXCEPT ![p] = new]
    BY <1>1, <2>1, WriteKeeps DEF IInv
  <2> QED
    BY <2>2 DEF Changed
<1>3. /\ Held = Records(P) /\ Given = Ids(P) /\ Paged(P) /\ Held' = Records(Q)
  BY HeldIs, HeldAfter DEF IInv
<1>4. answer' = [answer EXCEPT ![t] = <<"insert", "OK", r, b>>]
  BY <1>1 DEF Return, NumSlots, Slots
<1>5. r \in Rid
  <2>1. p \in 0..(MaxPages - 1)
    <3> DEFINE l == Len(file)
    <3>1. p \in 0..(NumPages - 1) /\ NumPages = hdrSize /\ hdrSize \in Nat /\ l \in Nat
      BY FileIs DEF IInv
    <3>2. hdrSize <= l /\ l <= MaxPages
      BY DEF IInv, FileInv
    <3> HIDE DEF l
    <3> QED
      BY <3>1, <3>2, SegmentSize
  <2>2. n \in 0..(PageSize \div 12)
    BY <1>1, PageFields DEF Slots
  <2>3. RecordHeaderSize + SlotSize = 12
    BY DEF RecordHeaderSize, SlotSize
  <2> HIDE DEF n
  <2>4. n \in 0..(PageSize \div (RecordHeaderSize + SlotSize))
    BY <2>2, <2>3, Zenon
  <2> QED
    BY <2>1, <2>4 DEF Rid
<1> HIDE DEF P, Q
<1>6. /\ r \notin Ids(P)
      /\ Records(Q) = [q \in Ids(P) \cup {r} |-> IF q = r THEN b ELSE Records(P)[q]]
  <2>1. new.slot = Append(P[p].slot, x) /\ p \in DOMAIN P /\ x.body = b
    BY <1>1 DEF P
  <2>2. r \notin Ids(P) /\ Gains(P, Q, r, x.body)
    <3> HIDE DEF n
    <3> QED
      BY <1>2, <1>3, <2>1, NewRecord DEF n
  <2> QED
    BY <2>1, <2>2 DEF Gains
<1> HIDE DEF n, r, b
<1>7. /\ r \in Rid \ DOMAIN Held /\ b \in Body
      /\ Held' = [q \in DOMAIN Held \cup {r} |-> IF q = r THEN b ELSE Held[q]]
  <2>1. DOMAIN Held = Ids(P)
    BY <1>3 DEF Held
  <2>2. b \in Body
    BY <1>1 DEF b
  <2> QED
    BY <1>3, <1>5, <1>6, <2>1, <2>2
<1>8. Store!Insert(t)
  BY <1>4, <1>7 DEF Store!Insert, Store!Tell, Held
<1> QED
  BY <1>8 DEF Store!Next

\* remove: the id stays given out, and its record is gone.
LEMMA RemoveMaps ==
  ASSUME IInv, IInv', NEW t \in Thread, RemoveRecord(t)
  PROVE  [Store!Next]_<<Held, answer>>
<1>1. UNCHANGED <<hdrSize, body>>
  BY DEF RemoveRecord
<1>2. /\ Held = Records(Published) /\ Given = Ids(Published) /\ Paged(Published) /\ Held' = Records(Published')
      /\ DOMAIN Held = Given /\ \A r \in Given : Held[r] = Lookup(r)
  BY HeldIs, HeldAfter DEF IInv, Held
<1>3. PICK r \in Given :
        \/ /\ Lookup(r) = Empty /\ Tell(t, <<"remove", "SYS", r>>) /\ UNCHANGED <<file, fsm>>
        \/ \E p \in DOMAIN Published, s \in Nat, new \in PageT :
             /\ r = <<p, s>> /\ s \in 0..(Len(Published[p].slot) - 1) /\ Lookup(r) # Empty
             /\ Tell(t, <<"remove", "OK", r>>)
             /\ Formatted(Published[p]) /\ Formatted(new)
             /\ new.slot = [Published[p].slot EXCEPT ![s + 1] = EmptySlot]
             /\ file' = [file EXCEPT ![At(p)] = new]
             /\ fsm' = (fsm (-) SetToBag({<<Published[p].freeSpace, p>>})) (+) SetToBag({<<new.freeSpace, p>>})
  BY RemoveDoes, Zenon
<1>4. ASSUME /\ r \in DOMAIN Held /\ Held' = [Held EXCEPT ![r] = Empty]
             /\ answer' = [answer EXCEPT ![t] = IF Held[r] = Empty THEN <<"remove", "SYS", r>> ELSE <<"remove", "OK", r>>]
      PROVE  [Store!Next]_<<Held, answer>>
  <2>1. Store!Remove(t)
    BY <1>4 DEF Store!Remove, Store!Tell, Held
  <2> QED
    BY <2>1 DEF Store!Next
<1>5. CASE Lookup(r) = Empty /\ Tell(t, <<"remove", "SYS", r>>) /\ UNCHANGED <<file, fsm>>
  <2>1. Published' = Published
    BY <1>1, <1>5 DEF Published
  <2>2. Held' = Held
    BY <1>2, <2>1
  <2>3. Held = [Held EXCEPT ![r] = Empty]
    BY <1>2, <1>5 DEF Held
  <2> QED
    BY <1>2, <1>4, <1>5, <2>2, <2>3 DEF Tell
<1>6. CASE \E p \in DOMAIN Published, s \in Nat, new \in PageT :
             /\ r = <<p, s>> /\ s \in 0..(Len(Published[p].slot) - 1) /\ Lookup(r) # Empty
             /\ Tell(t, <<"remove", "OK", r>>)
             /\ Formatted(new) /\ new.slot = [Published[p].slot EXCEPT ![s + 1] = EmptySlot]
             /\ file' = [file EXCEPT ![At(p)] = new]
  <2>1. PICK p \in DOMAIN Published, s \in Nat, new \in PageT :
             /\ r = <<p, s>> /\ s \in 0..(Len(Published[p].slot) - 1) /\ Lookup(r) # Empty
             /\ Tell(t, <<"remove", "OK", r>>)
             /\ Formatted(new) /\ new.slot = [Published[p].slot EXCEPT ![s + 1] = EmptySlot]
             /\ file' = [file EXCEPT ![At(p)] = new]
    BY <1>6
  <2> DEFINE P == Published
             Q == Published'
  <2>2. Changed(P, Q, p, new)
    <3>1. Published' = [Published EXCEPT ![p] = new]
      BY <1>1, <2>1, WriteKeeps DEF IInv
    <3> QED
      BY <3>1 DEF Changed
  <2>3. /\ Paged(P) /\ p \in DOMAIN P /\ s \in 0..(Slots(P, p) - 1)
        /\ new.slot = [P[p].slot EXCEPT ![s + 1] = EmptySlot]
    BY <1>2, <2>1 DEF Slots
  <2>4. Held = Records(P) /\ Held' = Records(Q)
    BY <1>2
  <2> HIDE DEF P, Q
  <2>5. Records(Q) = [Records(P) EXCEPT ![<<p, s>>] = Empty]
    <3>1. Loses(P, Q, <<p, s>>)
      <4>1. Emptied(P[p].slot, new.slot, s + 1)
        BY <2>3 DEF Emptied
      <4> QED
        BY <1>2, <2>2, <2>3, <4>1, DroppedRecord
    <3> QED
      BY <3>1 DEF Loses
  <2>6. Held' = [Held EXCEPT ![r] = Empty]
    BY <2>1, <2>4, <2>5
  <2> QED
    BY <1>2, <1>4, <2>1, <2>6 DEF Tell
<1> QED
  BY <1>3, <1>5, <1>6

\* The steps of an extension, and the restart: no record changes.
LEMMA OtherMaps ==
  ASSUME IInv, IInv', Published' = Published, NEW t \in Thread,
         \/ answer' = answer
         \/ \E rc \in {"INVALIDARG", "SYS", "IO", "OOM"} : Tell(t, <<"insert", rc>>)
  PROVE  [Store!Next]_<<Held, answer>>
<1>1. Held = Records(Published) /\ Held' = Records(Published')
  BY HeldIs, HeldAfter DEF IInv
<1> QED
  BY <1>1, RefusedMaps

\* insert, when it fails in a page.
LEMMA SysErrorMaps ==
  ASSUME IInv, IInv', NEW t \in Thread, InsertSysError(t)
  PROVE  [Store!Next]_<<Held, answer>>
<1>1. UNCHANGED <<hdrSize, body>> /\ Tell(t, <<"insert", "SYS">>)
  BY DEF InsertSysError, Return, Tell
<1>2. Held = Records(Published) /\ Held' = Records(Published') /\ Paged(Published)
  BY HeldIs, HeldAfter DEF IInv
<1>3. CASE UNCHANGED file
  <2>1. Published' = Published
    BY <1>1, <1>3 DEF Published
  <2> QED
    BY <1>1, <2>1, OtherMaps
<1>4. CASE \E p \in DOMAIN Published, new \in PageT :
              /\ Formatted(Published[p]) /\ Formatted(new)
              /\ Len(new.slot) = Len(Published[p].slot) /\ new.freeSpace = Published[p].freeSpace
              /\ \A j \in 1..Len(new.slot) : new.slot[j].body = Published[p].slot[j].body
              /\ file' = [file EXCEPT ![At(p)] = new]
  <2>1. PICK p \in DOMAIN Published, new \in PageT :
              /\ Formatted(new) /\ Len(new.slot) = Len(Published[p].slot)
              /\ \A j \in 1..Len(new.slot) : new.slot[j].body = Published[p].slot[j].body
              /\ file' = [file EXCEPT ![At(p)] = new]
    BY <1>4
  <2> DEFINE P == Published
             Q == Published'
  <2>2. Published' = [Published EXCEPT ![p] = new]
    BY <1>1, <2>1, WriteKeeps DEF IInv
  <2>3. DOMAIN Q = DOMAIN P /\ Q[p] = new /\ \A q \in DOMAIN P : q # p => Q[q] = P[q]
    BY <2>2
  <2>4. Held = Records(P) /\ Held' = Records(Q) /\ Paged(P)
    BY <1>2
  <2>5. p \in DOMAIN P /\ Len(new.slot) = Slots(P, p) /\ \A j \in 1..Slots(P, p) : new.slot[j].body = P[p].slot[j].body
    BY <2>1 DEF Slots
  <2> HIDE DEF P, Q
  <2>6. ASSUME NEW q \in DOMAIN P
        PROVE  /\ Slots(Q, q) = Slots(P, q)
               /\ \A s \in 0..(Slots(P, q) - 1) : Q[q].slot[s + 1].body = P[q].slot[s + 1].body
    <3>1. CASE q # p
      BY <2>3, <3>1 DEF Slots
    <3>2. CASE q = p
      <4> DEFINE n == Slots(P, p)
      <4>1. n \in Nat /\ \A j \in 1..n : new.slot[j].body = P[p].slot[j].body
        BY <2>4, <2>5 DEF Paged
      <4>2. Slots(Q, q) = n /\ Q[q] = new
        BY <2>3, <2>5, <3>2 DEF Slots
      <4> HIDE DEF n
      <4>3. ASSUME NEW s \in 0..(n - 1) PROVE Q[q].slot[s + 1].body = P[q].slot[s + 1].body
        <5>1. s + 1 \in 1..n
          BY <4>1
        <5> QED
          BY <3>2, <4>1, <4>2, <5>1
      <4> QED
        BY <3>2, <4>2, <4>3 DEF n
    <3> QED
      BY <3>1, <3>2
  <2>7. Records(Q) = Records(P)
    BY <2>3, <2>6, SameRecords
  <2> QED
    BY <1>1, <2>4, <2>7, RefusedMaps
<1> QED
  BY <1>3, <1>4, SysErrorDoes

\* The segment is published: its pages hold nothing yet.
LEMMA PublishMaps ==
  ASSUME IInv, IInv', NEW t \in Thread, ExtendPublish(t)
  PROVE  [Store!Next]_<<Held, answer>>
<1> DEFINE P == Published
           Q == Published'
<1>1. Held = Records(P) /\ Held' = Records(Q)
  BY HeldIs, HeldAfter DEF IInv
<1>2. NumPages \in Nat /\ DOMAIN P = 0..(NumPages - 1) /\ PagesPerSegment \in Nat
  BY FileIs, SegmentSize DEF IInv
<1>3. Joined(P, Q, NumPages, PagesPerSegment, FormattedPage)
  BY PublishStep DEF NumPages, IInv
<1> HIDE DEF P, Q
<1>4. Records(Q) = Records(P)
  BY <1>2, <1>3, JoinedRecords
<1> QED
  BY <1>1, <1>4, RefusedMaps DEF ExtendPublish

\* The empty file is the empty store.
LEMMA InitMaps == Init => Store!Init
<1> SUFFICES ASSUME Init PROVE Store!Init
  OBVIOUS
<1>1. NumPages = 0
  BY SegmentSize DEF Init, NumPages
<1>2. Given = {}
  BY <1>1 DEF Given
<1>3. [r \in Given |-> Lookup(r)] = << >>
  BY <1>2
<1> QED
  BY <1>3 DEF Init, Store!Init

\* Every step is a step of the store, or does nothing to it: insert is Insert, find is Find, remove is
\* Remove, a failure is Refuse, and extension and restart do nothing.
LEMMA StepMaps ==
  ASSUME MaxRestart = 0 \/ Fault = {}, IInv, IInv', [Next]_vars
  PROVE  [Store!Next]_<<Held, answer>>
<1>1. ASSUME NEW t \in Thread, InsertInvalid(t) \/ InsertBegin(t) \/ FindRecord(t) PROVE [Store!Next]_<<Held, answer>>
  <2>1. Published' = Published
    BY <1>1 DEF InsertInvalid, InsertBegin, FindRecord, Published
  <2>2. CASE FindRecord(t)
    <3>1. Held' = Held
      BY <2>1, HeldIs, HeldAfter DEF IInv
    <3> QED
      BY <2>2, <3>1, FindMaps
  <2>3. CASE InsertInvalid(t)
    BY <2>1, <2>3, OtherMaps DEF InsertInvalid
  <2>4. CASE InsertBegin(t)
    BY <2>1, <2>4, OtherMaps DEF InsertBegin
  <2> QED
    BY <1>1, <2>2, <2>3, <2>4
<1>2. ASSUME NEW t \in Thread, Insert(t) PROVE [Store!Next]_<<Held, answer>>
  <2>1. CASE InsertNoPage(t) \/ TryExtend(t) \/ ExtendWaited(t) \/ ExtendRelease(t)
    <3>1. Published' = Published /\ answer' = answer
      BY <2>1 DEF InsertNoPage, TryExtend, ExtendWaited, ExtendRelease, Published
    <3> QED
      BY <3>1, OtherMaps
  <2>2. CASE ExtendMapFails(t)
    <3>1. Published' = Published /\ Tell(t, <<"insert", "OOM">>)
      BY <2>2 DEF ExtendMapFails, ExtendFail, Return, Tell, Published
    <3> QED
      BY <3>1, OtherMaps
  <2>3. CASE ExtendWriteFails(t)
    <3>1. Published' = Published
      BY <2>3, WriteFailsStep DEF IInv
    <3>2. Tell(t, <<"insert", "IO">>)
      BY <2>3 DEF ExtendWriteFails, ExtendFail, Return, Tell
    <3> QED
      BY <3>1, <3>2, OtherMaps
  <2>4. CASE ExtendSize(t)
    <3>1. Published' = Published /\ answer' = answer
      BY <2>4, SizeStep DEF IInv, ExtendSize
    <3> QED
      BY <3>1, OtherMaps
  <2>5. CASE ExtendGrow(t)
    <3>1. Published' = Published /\ answer' = answer
      BY <2>5, GrowStep DEF IInv, ExtendGrow
    <3> QED
      BY <3>1, OtherMaps
  <2>6. CASE ExtendFormat(t)
    <3>1. Published' = Published /\ answer' = answer
      BY <2>6, FormatStep DEF IInv, ExtendFormat
    <3> QED
      BY <3>1, OtherMaps
  <2>7. CASE ExtendPublish(t)
    BY <2>7, PublishMaps
  <2>8. CASE InsertStore(t)
    BY <2>8, InsertMaps
  <2>9. CASE InsertSysError(t)
    BY <2>9, SysErrorMaps
  <2> QED
    BY <1>2, <2>1, <2>2, <2>3, <2>4, <2>5, <2>6, <2>7, <2>8, <2>9 DEF Insert
<1>3. ASSUME NEW t \in Thread, RemoveRecord(t) PROVE [Store!Next]_<<Held, answer>>
  BY <1>3, RemoveMaps
<1>4. CASE Restart
  <2>1. Fault = {}
    BY <1>4, SegmentSize DEF Restart, IInv, ControlInv
  <2>2. Published' = Published /\ answer' = answer
    BY <1>4, <2>1, RestartDoes DEF Restart, Published
  <2>3. Held' = Held
    BY <2>2, HeldIs, HeldAfter DEF IInv
  <2> QED
    BY <2>2, <2>3
<1>5. CASE UNCHANGED vars
  <2>1. Published' = Published /\ answer' = answer
    BY <1>5 DEF vars, Published
  <2>2. Held' = Held
    BY <2>1, HeldIs, HeldAfter DEF IInv
  <2> QED
    BY <2>1, <2>2
<1> QED
  BY <1>1, <1>2, <1>3, <1>4, <1>5 DEF Next

\* dmsFile implements the store of RecordStore, when the process does not restart or when nothing fails:
\* inserts, finds and removes of any number of agents do what the store says, ids are never given out
\* twice, and extending, recovering space and failing leave the records alone.
THEOREM Refinement == (MaxRestart = 0 \/ Fault = {}) => (Spec => ImplementsRecordStore)
<1> SUFFICES ASSUME MaxRestart = 0 \/ Fault = {} PROVE Spec => Store!Spec
  BY DEF ImplementsRecordStore
<1>1. IInv /\ IInv' /\ [Next]_vars => [Store!Next]_<<[r \in Given |-> Lookup(r)], answer>>
  BY StepMaps DEF Held
<1> QED
  BY <1>1, InitMaps, Invariance, PTL DEF Spec, Store!Spec

====
