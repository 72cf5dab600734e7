----------------------------- MODULE BsonElement -----------------------------
(***************************************************************************)
(* One BSON element (src/bson/src): its types, its accessors, and how two  *)
(* elements compare when it is known how the documents in them do.         *)
(*                                                                         *)
(* An element is <<type, name, value>>.  Names and strings are sequences   *)
(* of character codes; a double is a number of halves.                     *)
(***************************************************************************)
EXTENDS Integers, Sequences, SequencesExt

CONSTANT Mantissa  \* the integers up to which a double is exact: 2^53 in the code

ASSUME MantissaAssumption == Mantissa \in Nat \ {0}

\* enum BSONType.
EOO == 0
NumberDouble == 1
String == 2
Object == 3
Array == 4
BinData == 5
Undefined == 6
jstOID == 7
Bool == 8
Date == 9
jstNULL == 10
RegEx == 11
DBRef == 12
Code == 13
Symbol == 14
CodeWScope == 15
NumberInt == 16
Timestamp == 17
NumberLong == 18
MaxKey == 127
MinKey == -1

type(e) == e[1]
fieldName(e) == e[2]
value(e) == e[3]

\* BSONElement(): what a search that finds nothing returns.
NoElement == <<EOO, <<>>, 0>>
eoo(e) == type(e) = EOO
isNumber(e) == type(e) \in {NumberInt, NumberLong, NumberDouble}
isABSONObj(e) == type(e) \in {Object, Array}

(***************************************************************************)
(* Comparison.  All of it returns a sign.                                  *)
(***************************************************************************)

Sign(x) == IF x < 0 THEN -1 ELSE IF x = 0 THEN 0 ELSE 1

\* The loop of the two woCompare of BSONObj: cmp[i] is how the i-th elements of a and b
\* compare, neg are the places compared in reverse.
compareInOrder(a, b, cmp, neg) ==
  LET diff == {i \in DOMAIN a \cap DOMAIN b : cmp[i] # 0}
      first == Min(diff)
  IN IF diff = {} THEN Sign(Len(a) - Len(b))
     ELSE IF first \in neg THEN -cmp[first] ELSE cmp[first]

\* memcmp, and strcmp, which stops at the first NUL.
LexCmp(s, t) ==
  compareInOrder(s, t, [i \in DOMAIN s \cap DOMAIN t |-> Sign(s[i] - t[i])], {})
CString(s) ==
  LET nul == {i \in DOMAIN s : s[i] = 0}
  IN IF nul = {} THEN s ELSE SubSeq(s, 1, Min(nul) - 1)
strcmp(s, t) == LexCmp(CString(s), CString(t))

\* The codes of the infinities and of not-a-number, which are no doubles between -max and
\* max; no integer that is exact as a double has one.
Inf == 1000 * Mantissa
NegInf == -Inf
NaN == Inf + 1
NotFinite == {Inf, NegInf, NaN}

\* (double) n, in halves: past the mantissa an odd n goes to the neighbour that is even
\* in the mantissa's last bit.
toDouble(n) ==
  2 * (IF n \in -Mantissa..Mantissa \/ n % 2 = 0 THEN n
       ELSE IF (n - 1) % 4 = 0 THEN n - 1 ELSE n + 1)

\* BSONElement::number().
number(e) ==
  CASE type(e) = NumberDouble -> value(e)
    [] type(e) \in {NumberInt, NumberLong} -> toDouble(value(e))
    [] OTHER -> 0

canonicalType(e) ==
  LET t == type(e)
  IN CASE t \in {MinKey, MaxKey} -> t
       [] t \in {EOO, Undefined} -> 0
       [] t = jstNULL -> 5
       [] isNumber(e) -> 10
       [] t \in {String, Symbol} -> 15
       [] t = Object -> 20
       [] t = Array -> 25
       [] t = BinData -> 30
       [] t = jstOID -> 35
       [] t = Bool -> 40
       [] t \in {Date, Timestamp} -> 45
       [] t = RegEx -> 50
       [] t = DBRef -> 55
       [] t = Code -> 60
       [] t = CodeWScope -> 65

\* The numeric cases of compareElementValues: two longs exactly, all else as doubles, and
\* what is not finite before all finite numbers.
compareNumbers(l, r) ==
  LET x == number(l)
      y == number(r)
  IN IF type(l) = NumberLong /\ type(r) = NumberLong THEN Sign(value(l) - value(r))
     ELSE IF x \in NotFinite \/ y \in NotFinite
     THEN (IF y \in NotFinite THEN 1 ELSE 0) - (IF x \in NotFinite THEN 1 ELSE 0)
     ELSE Sign(x - y)

\* The DBRef and BinData cases: a memcmp of bytes that are equally many.
compareSized(s, t) == IF Len(s) # Len(t) THEN Sign(Len(s) - Len(t)) ELSE LexCmp(s, t)

\* Called for elements of one canonical type; nested is how the documents in them compare.
compareElementValues(l, r, nested) ==
  LET t == type(l)
      v == value(l)
      w == value(r)
  IN CASE t \in {EOO, Undefined, jstNULL, MaxKey, MinKey} -> Sign(canonicalType(l) - canonicalType(r))
       [] isNumber(l) -> compareNumbers(l, r)
       [] t \in {Bool, Timestamp, Date, jstOID} -> Sign(v - w)
       [] t \in {Code, Symbol, String} -> strcmp(v, w)
       [] t \in {Object, Array} -> nested
       [] t = DBRef -> compareSized(Append(v[1], v[2]), Append(w[1], w[2]))
       [] t = BinData -> compareSized(<<v[1]>> \o v[2], <<w[1]>> \o w[2])
       [] t = RegEx -> IF strcmp(v[1], w[1]) # 0 THEN strcmp(v[1], w[1]) ELSE strcmp(v[2], w[2])
       [] t = CodeWScope -> IF strcmp(v[1], w[1]) # 0 THEN strcmp(v[1], w[1]) ELSE nested

\* Variant: the names are compared before the types.
elementCompare_NamesFirst(l, r, considerFieldName, nested) ==
  LET x == canonicalType(l) - canonicalType(r)
      names == strcmp(fieldName(l), fieldName(r))
  IN CASE x < 0 -> -1
       [] considerFieldName /\ names # 0 -> names
       [] x > 0 -> 1
       [] OTHER -> compareElementValues(l, r, nested)

\* BSONElement::woCompare.
elementCompare(l, r, considerFieldName, nested) ==
  LET x == canonicalType(l) - canonicalType(r)
      names == strcmp(fieldName(l), fieldName(r))
  IN CASE x # 0 -> Sign(x)
       [] x = 0 /\ considerFieldName /\ names # 0 -> names
       [] OTHER -> compareElementValues(l, r, nested)
====
