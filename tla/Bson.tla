-------------------------------- MODULE Bson --------------------------------
(***************************************************************************)
(* BSON documents (src/bson/src): the bytes the builder writes for the     *)
(* elements of a document, and what an iterator reads back from bytes.     *)
(*                                                                         *)
(* A document is the sequence of its elements.  Bytes are a sequence of    *)
(* cells: a number of w bytes is one cell with its value and w - 1 cells   *)
(* of Pad.                                                                 *)
(***************************************************************************)
EXTENDS BsonElement

Pad == -1000
Num(v, w) == [i \in 1..w |-> IF i = 1 THEN v ELSE Pad]
Str(s) == Append(s, 0)

RECURSIVE Bytes(_)

\* What the builder's append functions write after the type and the name, one part for
\* each call of the buffer.
ValueParts(t, v) ==
  CASE t \in {EOO, Undefined, jstNULL, MinKey, MaxKey} -> <<>>
    [] t = Bool -> <<<<v>>>>
    [] t = NumberInt -> <<Num(v, 4)>>
    [] t \in {NumberDouble, NumberLong, Date, Timestamp} -> <<Num(v, 8)>>
    [] t = jstOID -> <<Num(v, 12)>>
    [] t \in {String, Code, Symbol} -> <<Num(Len(v) + 1, 4), Str(v)>>
    [] t = DBRef -> <<Num(Len(v[1]) + 1, 4), Str(v[1]), Num(v[2], 12)>>
    [] t = BinData -> <<Num(Len(v[2]), 4), <<v[1]>>, v[2]>>
    [] t = RegEx -> <<Str(v[1]), Str(v[2])>>
    [] t = CodeWScope -> <<Num(4 + 4 + Len(v[1]) + 1 + Len(Bytes(v[2])), 4),
                           Num(Len(v[1]) + 1, 4), Str(v[1]), Bytes(v[2])>>
    [] t \in {Object, Array} -> <<Bytes(v)>>

ElementParts(e) == <<<<type(e)>>, Str(fieldName(e))>> \o ValueParts(type(e), value(e))

\* The bytes of a whole document, as append(name, BSONObj) copies them.
Bytes(d) ==
  LET body == FlattenSeq([i \in DOMAIN d |-> FlattenSeq(ElementParts(d[i]))])
  IN Num(4 + Len(body) + 1, 4) \o body \o <<EOO>>

(***************************************************************************)
(* Reading.  b is the buffer and p the place of an element or an object.   *)
(***************************************************************************)

\* strlen from p, and strnlen over at most n bytes: -1 if there is no NUL in them.
strlen(b, p) == (CHOOSE q \in p..Len(b) : b[q] = 0 /\ \A r \in p..(q - 1) : b[r] # 0) - p
strnlen(b, p, n) ==
  IF \E q \in p..(p + n - 1) : q <= Len(b) /\ b[q] = 0 THEN strlen(b, p) ELSE -1

fieldNameSize(b, p) == IF b[p] = EOO THEN 0 ELSE strlen(b, p + 1) + 1
valueAt(b, p) == p + 1 + fieldNameSize(b, p)

\* The bytes of the value of an element of type t whose value is at v.
valuesize(b, v, t) ==
  CASE t \in {EOO, Undefined, jstNULL, MinKey, MaxKey} -> 0
    [] t = Bool -> 1
    [] t = NumberInt -> 4
    [] t \in {NumberDouble, NumberLong, Date, Timestamp} -> 8
    [] t = jstOID -> 12
    [] t \in {String, Code, Symbol} -> b[v] + 4
    [] t = DBRef -> b[v] + 4 + 12
    [] t \in {CodeWScope, Object, Array} -> b[v]
    [] t = BinData -> b[v] + 4 + 1
    [] t = RegEx -> LET len1 == strlen(b, v)
                    IN len1 + 1 + strlen(b, v + len1 + 1) + 1

\* BSONElement::size().
size(b, p) == valuesize(b, valueAt(b, p), b[p]) + fieldNameSize(b, p) + 1

\* BSONElement(d, maxLen) and BSONElement::size(maxLen): -1 where one of them throws.
sizeWithin(b, p, maxLen) ==
  LET remain == maxLen - fieldNameSize(b, p) - 1
      v == valueAt(b, p)
      len1 == strnlen(b, v, remain)
      len2 == strnlen(b, v + len1 + 1, remain - len1 - 1)
  IN CASE b[p] = EOO -> 1
       [] b[p] # EOO /\ strnlen(b, p + 1, maxLen - 1) = -1 -> -1
       [] b[p] = RegEx -> (len1 + 1 + len2 + 1) + fieldNameSize(b, p) + 1
       [] /\ b[p] \in {String, Code, Symbol, DBRef, CodeWScope, Object, Array, BinData}
          /\ remain <= 3 -> -1
       [] OTHER -> size(b, p)

\* BSONElement::validate.
validate(b, p) ==
  LET v == valueAt(b, p)
  IN CASE b[p] \in {DBRef, Code, Symbol, String} -> b[v] > 0 /\ b[v + 4 + b[v] - 1] = 0
       [] b[p] = CodeWScope ->
            LET total == b[v]
                strSize == b[v + 4]
            IN /\ total >= 8 /\ total >= strSize + 4 + 4
               /\ strSize > 0 /\ strSize - 1 = strnlen(b, v + 8, strSize)
               /\ total >= strSize + 4 + 4 + 4
               /\ total = 4 + 4 + strSize + b[v + 8 + strSize]
       [] OTHER -> TRUE

RECURSIVE Elements(_, _, _), ValueAt(_, _, _), validFrom(_, _, _)

\* What the accessors of BSONElement give for a value of type t at v.
ValueAt(b, v, t) ==
  LET text == SubSeq(b, v + 4, v + 4 + b[v] - 2)
      len1 == strlen(b, v)
      len2 == strlen(b, v + len1 + 1)
      code == b[v + 4]
  IN CASE t \in {EOO, Undefined, jstNULL, MinKey, MaxKey} -> 0
       [] t \in {Bool, NumberInt, NumberDouble, NumberLong, Date, Timestamp, jstOID} -> b[v]
       [] t \in {String, Code, Symbol} -> text
       [] t = DBRef -> <<text, b[v + 4 + b[v]]>>
       [] t = BinData -> <<b[v + 4], SubSeq(b, v + 5, v + 4 + b[v])>>
       [] t = RegEx -> <<SubSeq(b, v, v + len1 - 1), SubSeq(b, v + len1 + 1, v + len1 + len2)>>
       [] t = CodeWScope -> <<SubSeq(b, v + 8, v + 8 + code - 2),
                              Elements(b, v + 8 + code + 4, v + b[v] - 1)>>
       [] t \in {Object, Array} -> Elements(b, v + 4, v + b[v] - 1)

\* BSONObjIterator: the elements from pos on, while more(), that is pos < theend.
Elements(b, pos, theend) ==
  IF pos >= theend THEN <<>>
  ELSE <<<<b[pos], SubSeq(b, pos + 1, valueAt(b, pos) - 2), ValueAt(b, valueAt(b, pos), b[pos])>>>>
         \o Elements(b, pos + size(b, pos), theend)

\* The elements of the object at p.
ElementsOf(b, p) == Elements(b, p + 4, p + b[p] - 1)

\* BSONObj::valid() from pos on: checked sizes, valid values, EOO at the end and only there.
validFrom(b, pos, theend) ==
  /\ pos <= theend
  /\ sizeWithin(b, pos, theend + 1 - pos) # -1
  /\ validate(b, pos)
  /\ LET next == pos + sizeWithin(b, pos, theend + 1 - pos)
         v == valueAt(b, pos)
         scope == v + 8 + b[v + 4]
     IN IF b[pos] = EOO THEN next > theend
        ELSE /\ b[pos] \in {Object, Array} => validFrom(b, v + 4, v + b[v] - 1)
             /\ b[pos] = CodeWScope => validFrom(b, scope + 4, scope + b[scope] - 1)
             /\ validFrom(b, next, theend)

valid(b, p) == validFrom(b, p + 4, p + b[p] - 1)

(***************************************************************************)
(* Fields.                                                                 *)
(***************************************************************************)

\* BSONObj::getField: the first field of that name.
getField(d, name) ==
  LET at == {i \in DOMAIN d : fieldName(d[i]) = name}
  IN IF at = {} THEN NoElement ELSE d[Min(at)]

\* BSONObj::getObjectField.
getObjectField(d, name) ==
  LET e == getField(d, name)
  IN IF isABSONObj(e) THEN value(e) ELSE <<>>

Dot == 46

\* BSONObj::getFieldDotted: the field of that whole name, or else into the object before
\* its first dot.
RECURSIVE getFieldDotted(_, _)
getFieldDotted(d, name) ==
  LET e == getField(d, name)
      dots == {i \in DOMAIN name : name[i] = Dot}
      p == Min(dots)
      sub == getObjectField(d, SubSeq(name, 1, p - 1))
  IN IF ~eoo(e) \/ dots = {} THEN e
     ELSE IF sub = <<>> THEN NoElement
     ELSE getFieldDotted(sub, SubSeq(name, p + 1, Len(name)))

\* BSONObj::extractFields(pattern, fillWithNull).
extractFields(d, pattern, fillWithNull) ==
  LET found(f) == getFieldDotted(d, fieldName(f))
      kept(f) == ~eoo(found(f)) \/ fillWithNull
      out(f) == IF eoo(found(f)) THEN <<jstNULL, fieldName(f), 0>>
                ELSE <<type(found(f)), fieldName(f), value(found(f))>>
      fields == SelectSeq(pattern, kept)
  IN [i \in DOMAIN fields |-> out(fields[i])]
====
