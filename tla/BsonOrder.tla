------------------------------ MODULE BsonOrder ------------------------------
(***************************************************************************)
(* The orders of src/bson/src: of elements and of documents (woCompare,    *)
(* with a sort key or an Ordering; woSortOrder), and of field names        *)
(* (lexNumCmp, compareDottedFieldNames).  All of them return a sign.       *)
(***************************************************************************)
EXTENDS Bson

RECURSIVE woCompare(_, _, _, _)

\* How the documents in two elements compare: by woCompare, but scopes by a strcmp on
\* their bytes, which ends in their sizes.
nestedCompare(l, r) ==
  IF type(l) = CodeWScope
  THEN Sign(Len(Bytes(value(l)[2])) - Len(Bytes(value(r)[2])))
  ELSE woCompare(value(l), value(r), <<>>, TRUE)

\* How the elements of a and b compare, one by one.
Comparisons(a, b, considerFieldName) ==
  [i \in DOMAIN a \cap DOMAIN b |->
     elementCompare(a[i], b[i], considerFieldName, nestedCompare(a[i], b[i]))]

\* BSONObj::woCompare(r, idxKey, considerFieldName).
woCompare(a, b, idxKey, considerFieldName) ==
  compareInOrder(a, b, Comparisons(a, b, considerFieldName), {i \in DOMAIN idxKey : number(idxKey[i]) < 0})

\* Ordering::make: bit n is set for a descending n-th key; descending(1 << n) tests it.
Ordering(key) == MapThenSumSet(LAMBDA i : 2^(i - 1), {i \in DOMAIN key : number(key[i]) < 0})
descending(bits, n) == (bits \div 2^n) % 2 = 1

\* BSONObj::woCompare(r, Ordering, considerFieldName).
woCompareOrdering(a, b, o, considerFieldName) ==
  compareInOrder(a, b, Comparisons(a, b, considerFieldName), {i \in DOMAIN a : descending(o, i - 1)})

\* Variant: a missing field is left as the EOO element, which comes before null.
woSortOrder_Eoo(a, b, key) ==
  LET field(d, i) == getFieldDotted(d, fieldName(key[i]))
      cmp(i) == elementCompare(field(a, i), field(b, i), FALSE, nestedCompare(field(a, i), field(b, i)))
      diff == {i \in DOMAIN key : cmp(i) # 0}
  IN CASE a = <<>> \/ b = <<>> -> Sign(Len(a) - Len(b))
       [] diff = {} -> 0
       [] OTHER -> IF number(key[Min(diff)]) < 0 THEN -cmp(Min(diff)) ELSE cmp(Min(diff))

\* BSONObj::woSortOrder with useDotted: by the fields the key names, a missing one is null.
woSortOrder(a, b, key) ==
  LET field(d, i) == LET e == getFieldDotted(d, fieldName(key[i]))
                     IN IF eoo(e) THEN <<jstNULL, <<>>, 0>> ELSE e
      cmp(i) == elementCompare(field(a, i), field(b, i), FALSE, nestedCompare(field(a, i), field(b, i)))
      diff == {i \in DOMAIN key : cmp(i) # 0}
  IN CASE a = <<>> \/ b = <<>> -> Sign((IF a = <<>> THEN 0 ELSE 1) - (IF b = <<>> THEN 0 ELSE 1))
       [] diff = {} -> 0
       [] OTHER -> IF number(key[Min(diff)]) < 0 THEN -cmp(Min(diff)) ELSE cmp(Min(diff))

(***************************************************************************)
(* Field names.                                                            *)
(***************************************************************************)
isDigit(c) == c \in 48..57
signedChar(c) == IF c > 127 THEN c - 256 ELSE c

\* The digits s begins with, without leading zeros, and what is behind them.
Behind(s, S(_)) ==
  LET other == {i \in DOMAIN s : ~S(s[i])}
  IN IF other = {} THEN <<>> ELSE SubSeq(s, Min(other), Len(s))
SkipZeros(s) == Behind(s, LAMBDA c : c = 48)
AfterDigits(s) == Behind(s, isDigit)
Digits(s) == SubSeq(SkipZeros(s), 1, Len(SkipZeros(s)) - Len(AfterDigits(SkipZeros(s))))

RECURSIVE lexNumCmp(_, _)
lexNumCmp(s1, s2) ==
  LET c1 == Head(s1)
      c2 == Head(s2)
      d1 == Digits(s1)
      d2 == Digits(s2)
  IN CASE s1 = <<>> \/ s2 = <<>> -> Sign(Len(s1) - Len(s2))
       [] (c1 = 255) # (c2 = 255) -> IF c1 = 255 THEN 1 ELSE -1
       [] isDigit(c1) /\ isDigit(c2) ->
            IF Len(d1) # Len(d2) THEN Sign(Len(d1) - Len(d2))
            ELSE IF d1 # d2 THEN LexCmp(d1, d2)
            ELSE lexNumCmp(AfterDigits(SkipZeros(s1)), AfterDigits(SkipZeros(s2)))
       [] isDigit(c1) # isDigit(c2) -> IF isDigit(c1) THEN 1 ELSE -1
       [] OTHER -> IF c1 # c2 THEN Sign(signedChar(c1) - signedChar(c2))
                   ELSE lexNumCmp(Tail(s1), Tail(s2))

\* The part of a name before its first dot, and what is behind the dot.
FirstPart(n) ==
  LET dots == {i \in DOMAIN n : n[i] = Dot}
  IN IF dots = {} THEN n ELSE SubSeq(n, 1, Min(dots) - 1)
LaterParts(n) == SubSeq(n, Len(FirstPart(n)) + 2, Len(n))

RECURSIVE compareDottedFieldNames(_, _)
compareDottedFieldNames(l, r) ==
  LET x == lexNumCmp(FirstPart(l), FirstPart(r))
  IN CASE l = <<>> /\ r = <<>> -> "SAME"
       [] l = <<>> /\ r # <<>> -> "RIGHT_SUBFIELD"
       [] l # <<>> /\ r = <<>> -> "LEFT_SUBFIELD"
       [] OTHER -> IF x < 0 THEN "LEFT_BEFORE" ELSE IF x > 0 THEN "RIGHT_BEFORE"
                   ELSE compareDottedFieldNames(LaterParts(l), LaterParts(r))
====
