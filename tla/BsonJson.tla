------------------------------ MODULE BsonJson ------------------------------
(***************************************************************************)
(* Documents made in one buffer: BSONObjBuilder with its sub-builders on   *)
(* a shared BufBuilder, and fromjson, which drives them from text          *)
(* (src/bson/src/bsonobjbuilder.h, util/builder.h, util/json.cpp).         *)
(*                                                                         *)
(* The environment has a document `doc` and makes it either with calls of  *)
(* the builder, or by parsing what jsonString prints of it, of which the   *)
(* end may be missing (the shell splits its line at blanks).  Text is a    *)
(* sequence of tokens <<kind, payload>>; in a string token, \u and its     *)
(* four digits are two cells.                                              *)
(***************************************************************************)
EXTENDS BsonOrder

CONSTANTS
  Docs,           \* the documents
  Formats,        \* ways to make one: "calls", or a JsonStringFormat
  IntMax,         \* the largest int: 2^31 - 1 in the code
  PrintLimit,     \* from here on the 16 digits of a double leave none for a fraction: 10^15
  InitSize,       \* initsize of a builder's buffer: 512 in the code
  GrowStep,       \* 16 KB in the code
  BufferMaxSize,  \* 64 MB in the code
  Probes,         \* documents that a document is compared with
  Names,          \* field names that its names are compared with
  Keys            \* sort keys

ASSUME SizesAssumption ==
  /\ IntMax \in Nat /\ PrintLimit \in Nat \ {0} /\ InitSize \in Nat \ {0} /\ GrowStep \in Nat
  /\ BufferMaxSize \in Nat /\ InitSize + 4 <= BufferMaxSize

JsonFormats == {"Strict", "TenGen", "JS"}

VARIABLES
  doc, fmt,               \* the document, and the way it is made
  input, cut, want,       \* tokens or calls to come; text is missing; what the grammar expects
  builders,               \* the open builders: place of the object (_offset), _doneCalled, and
                          \* as history its type, its name and the elements appended to it
  fieldNames, indexes,    \* ObjectBuilder's, one for each builder
  buf, mem,               \* the bytes in BufBuilder; its length, size and `over`: grow threw
  peeked,                 \* asTempObj has been called
  stage, result,          \* what fromjson or the caller has; the bytes it returns
  touched                 \* a builder used the buffer after it was freed

vars == <<doc, fmt, input, cut, want, builders, fieldNames, indexes, buf, mem, peeked, stage,
          result, touched>>

(***************************************************************************)
(* Printing.                                                               *)
(***************************************************************************)

\* escape(s, escape_slash).
EscapeChar(c, escape_slash) ==
  CASE c \in {34, 92} -> <<92, c>>
    [] c = 47 /\ escape_slash -> <<92, 47>>
    [] c = 8 -> <<92, 98>>
    [] c = 12 -> <<92, 102>>
    [] c = 10 -> <<92, 110>>
    [] c = 13 -> <<92, 114>>
    [] c = 9 -> <<92, 116>>
    [] c \in (0..31) \ {8, 9, 10, 12, 13} -> <<92, 117, c>>
    [] OTHER -> <<c>>
escape(s, escape_slash) == FlattenSeq([i \in DOMAIN s |-> EscapeChar(s[i], escape_slash)])

T(kind) == <<kind, 0>>

\* Can str read the characters s, as they are, between quotes?  No \u is among the inputs.
RECURSIVE IsQuotable(_)
IsQuotable(s) ==
  CASE s = <<>> -> TRUE
    [] s # <<>> /\ s[1] = 92 -> /\ Len(s) > 1 /\ s[2] \notin {117, 120} \cup (48..57)
                               /\ IsQuotable(SubSeq(s, 3, Len(s)))
    [] OTHER -> s[1] # 34 /\ s[1] > 31 /\ IsQuotable(Tail(s))

\* BSONElement::jsonString for the types with a notation of their own.  A "broken" token is
\* text no rule of the grammar matches.
OidText(v, f) ==
  IF f = "TenGen" THEN <<T("ObjectId"), T("("), <<"hex", v>>, T(")")>>
  ELSE <<T("{"), T("$oid"), T(":"), <<"hex", v>>, T("}")>>
\* The ns is printed up to its first NUL and without escapes, so a quote ends it early.
DBRefText(v, f) ==
  LET ns == CString(v[1])
      quoted == <<IF IsQuotable(ns) THEN "str" ELSE "broken", ns>>
  IN IF f = "TenGen" THEN <<T("Dbref"), T("("), quoted, T(","), <<"hex", v[2]>>, T(")")>>
     ELSE <<T("{"), T("$ref"), T(":"), quoted, T(","), T("$id"), T(":"), <<"hex", v[2]>>, T("}")>>
DateText(v, f) ==
  IF f = "Strict" THEN <<T("{"), T("$date"), T(":"), <<"int", v>>, T("}")>>
  ELSE <<T("Date"), T("("), <<"int", v>>, T(")")>>
\* The sub-type is a signed char: from 128 on it is printed with eight digits.
BinDataText(v) ==
  <<T("{"), T("$binary"), T(":"), <<"base64", v[2]>>, T(","), T("$type"), T(":"),
    <<IF v[1] < 128 THEN "type" ELSE "broken", v[1]>>, T("}")>>

\* alpha_p, and the flags printed outside of the strict format: g, i, m.
IsAlpha(c) == c \in (65..90) \cup (97..122)
gim == {103, 105, 109}
RegExText(v, f) ==
  IF f = "Strict"
  THEN <<T("{"), T("$regex"), T(":"), <<"str", escape(v[1], FALSE)>>, T(","), T("$options"), T(":"),
         <<IF \A i \in DOMAIN v[2] : IsAlpha(v[2][i]) THEN "alpha" ELSE "broken", v[2]>>, T("}")>>
  ELSE <<<<"regex", <<escape(v[1], TRUE), SelectSeq(v[2], LAMBDA c : c \in gim)>>>>>>

\* precision( 16 ): the multiple of the last digit's unit next to v, the even one of two.
Nearest(v, unit) ==
  LET q == v \div unit
      r == v % unit
  IN unit * (IF 2 * r < unit \/ (2 * r = unit /\ q % 2 = 0) THEN q ELSE q + 1)
Rounded(v) ==
  LET unit == CASE v \in (-2 * PrintLimit)..(2 * PrintLimit) -> 1
                [] v \notin (-2 * PrintLimit)..(2 * PrintLimit)
                     /\ v \in (-20 * PrintLimit)..(20 * PrintLimit) -> 2
                [] OTHER -> 20
  IN Nearest(v, unit)

\* A double is printed with 16 digits, without a dot when it then has no fraction, and
\* with an exponent when 16 digits do not reach to the units.
DoubleText(v) ==
  LET r == Rounded(v)
  IN IF r % 2 = 0 /\ r \in (1 - 20 * PrintLimit)..(20 * PrintLimit - 1) THEN <<<<"int", r \div 2>>>>
     ELSE <<<<"real", r>>>>

Name(n) == <<<<"str", escape(n, FALSE)>>, T(":")>>
OneKey(n, v) == <<T("{")>> \o Name(n) \o <<<<"int", v>>, T("}")>>

RECURSIVE Text(_, _, _)

\* BSONElement::jsonString.  An Undefined element prints nothing, not even its name.
elementString(e, f, includeFieldNames) ==
  LET t == type(e)
      v == value(e)
  IN IF t = Undefined THEN <<>>
     ELSE (IF includeFieldNames THEN Name(fieldName(e)) ELSE <<>>) \o
       CASE t \in {String, Symbol} -> <<<<"str", escape(v, FALSE)>>>>
         [] t \in {NumberInt, NumberLong} -> <<<<"int", v>>>>
         [] t = NumberDouble -> DoubleText(v)
         [] t = Bool -> <<T(IF v = 1 THEN "true" ELSE "false")>>
         [] t = jstNULL -> <<T("null")>>
         [] t \in {Object, Array} -> Text(v, f, t = Array)
         [] t = DBRef -> DBRefText(v, f)
         [] t = jstOID -> OidText(v, f)
         [] t = BinData -> BinDataText(v)
         [] t = Date -> DateText(v, f)
         [] t = RegEx -> RegExText(v, f)
         [] t \in {Code, CodeWScope} -> <<T("code")>>
         [] t = Timestamp -> OneKey(<<116>>, v)
         [] t \in {MinKey, MaxKey} -> OneKey(<<36, 109>>, 1)

\* BSONObj::jsonString, and an array's elements without their names.
Text(d, f, isArray) ==
  LET item(i) == (IF i = 1 THEN <<>> ELSE <<T(",")>>) \o elementString(d[i], f, ~isArray)
  IN <<T(IF isArray THEN "[" ELSE "{")>> \o FlattenSeq([i \in DOMAIN d |-> item(i)])
       \o <<T(IF isArray THEN "]" ELSE "}")>>

jsonString(d, f) == Text(d, f, FALSE)

\* jsonString throws for a number that is not finite.
RECURSIVE Printable(_)
Printable(d) ==
  \A i \in DOMAIN d :
    /\ type(d[i]) = NumberDouble => value(d[i]) \notin NotFinite
    /\ isABSONObj(d[i]) => Printable(value(d[i]))

\* The calls that make a document: append, subobjStart or subarrayStart, done.
RECURSIVE Calls(_)
Calls(d) ==
  LET call(e) == IF isABSONObj(e)
                 THEN <<<<"open", <<type(e), fieldName(e)>>>>>> \o Calls(value(e)) \o <<T("done")>>
                 ELSE <<<<"append", e>>>>
  IN FlattenSeq([i \in DOMAIN d |-> call(d[i])])

Init ==
  /\ doc \in Docs
  /\ fmt \in {f \in Formats : f = "calls" \/ Printable(doc)}
  /\ input = IF fmt = "calls" THEN Calls(doc) ELSE jsonString(doc, fmt)
  /\ cut = FALSE /\ want = "value"
  /\ builders = <<>> /\ fieldNames = <<>> /\ indexes = <<>>
  /\ buf = <<>> /\ mem = [l |-> 0, size |-> 0, over |-> FALSE]
  /\ peeked = FALSE /\ stage = "building" /\ result = <<>> /\ touched = FALSE

(***************************************************************************)
(* BufBuilder and BSONObjBuilder.                                          *)
(***************************************************************************)

\* The new size of a buffer of that size that must hold l bytes.
grow_reallocate(size0, l) ==
  LET a == IF size0 = 0 THEN InitSize ELSE size0 * 2
  IN IF l > a THEN l + GrowStep ELSE a

\* Variant: the size is compared with the length before the write.
grow_OldLength(m, by) ==
  LET a == grow_reallocate(m.size, m.l + by)
  IN CASE m.over -> m
       [] ~m.over /\ m.l <= m.size -> [m EXCEPT !.l = @ + by]
       [] OTHER -> IF a > BufferMaxSize THEN [m EXCEPT !.l = @ + by, !.over = TRUE]
                   ELSE [m EXCEPT !.l = @ + by, !.size = a]

\* grow(by): the length is raised before the size is looked at.
grow(m, by) ==
  LET l == m.l + by
      a == grow_reallocate(m.size, l)
  IN CASE m.over -> m
       [] ~m.over /\ l <= m.size -> [m EXCEPT !.l = l]
       [] OTHER -> IF a > BufferMaxSize THEN [m EXCEPT !.l = l, !.over = TRUE]
                   ELSE [m EXCEPT !.l = l, !.size = a]

GrowAll(m, parts) == FoldLeft(LAMBDA x, p : grow(x, Len(p)), m, parts)

Owned(i) == i = 1
NewBuilder(off, e) == [off |-> off, done |-> FALSE, type |-> type(e), name |-> fieldName(e),
                       elems |-> <<>>]

\* The parts go to the buffer, or grow throws and the builders are unwound.
Written(parts) ==
  /\ mem' = GrowAll(mem, parts)
  /\ buf' = IF mem'.over THEN buf ELSE buf \o FlattenSeq(parts)
  /\ stage' = IF mem'.over THEN "unwinding" ELSE stage

\* append of an element to the builder at the back.
AppendElement(e) ==
  /\ Written(ElementParts(e))
  /\ builders' = IF mem'.over THEN builders
                 ELSE [builders EXCEPT ![Len(builders)].elems = Append(@, e)]

\* BSONObjBuilder(): the reference count, then the place of the size.
FirstBuilder ==
  /\ mem' = GrowAll([l |-> 0, size |-> InitSize + 4, over |-> FALSE], <<Num(0, 4), Num(Pad, 4)>>)
  /\ buf' = Num(0, 4) \o Num(Pad, 4)
  /\ builders' = <<NewBuilder(4, <<Object, <<>>, 0>>)>>
  /\ UNCHANGED stage

\* subobjStart or subarrayStart, and a BSONObjBuilder on the same buffer, which leaves
\* room for its size.
OpenSub(t, name) ==
  LET parts == <<<<t>>, Str(name), Num(Pad, 4)>>
  IN /\ Written(parts)
     /\ builders' = IF mem'.over THEN builders
                    ELSE Append(builders, NewBuilder(mem'.l - 4, <<t, name, 0>>))

\* The buffer after _done(): EOO, and the size at the builder's offset, the first time.
DoneMem(i) == IF builders[i].done THEN mem ELSE grow(mem, 1)
DoneBuf(i) ==
  IF builders[i].done THEN buf
  ELSE [Append(buf, EOO) EXCEPT ![builders[i].off + 1] = Len(buf) + 1 - builders[i].off]

\* ObjectBuilder::pop, with _done(), of a sub-builder: its parent goes on behind it.
CloseSub ==
  LET n == Len(builders)
      sub == builders[n]
  IN /\ n > 1
     /\ mem' = DoneMem(n)
     /\ IF mem'.over
        THEN /\ stage' = "unwinding"
             /\ builders' = [builders EXCEPT ![n].done = TRUE]
             /\ UNCHANGED <<buf, fieldNames, indexes>>
        ELSE /\ buf' = DoneBuf(n)
             /\ builders' = [Front(builders) EXCEPT
                               ![n - 1].elems = Append(@, <<sub.type, sub.name, sub.elems>>)]
             /\ fieldNames' = Front(fieldNames) /\ indexes' = Front(indexes)
             /\ UNCHANGED stage

\* obj() of the builder that owns the buffer; its bytes go to the caller.
CloseFirst ==
  /\ Len(builders) = 1
  /\ mem' = DoneMem(1)
  /\ IF mem'.over
     THEN /\ stage' = "unwinding"
          /\ builders' = [builders EXCEPT ![1].done = TRUE]
          /\ UNCHANGED <<buf, result, fieldNames, indexes>>
     ELSE /\ stage' = "returned" /\ buf' = <<>> /\ builders' = <<>>
          /\ result' = SubSeq(DoneBuf(1), builders[1].off + 1, Len(DoneBuf(1)))
          /\ fieldNames' = <<>> /\ indexes' = <<>>

\* asTempObj(): done, and back again before the EOO.
asTempObj ==
  LET n == Len(builders)
  IN /\ fmt = "calls" /\ stage = "building" /\ n > 0 /\ ~peeked
     /\ peeked' = TRUE
     /\ IF DoneMem(n).over
        THEN /\ mem' = DoneMem(n) /\ stage' = "unwinding" /\ UNCHANGED buf
             /\ builders' = [builders EXCEPT ![n].done = TRUE]
        ELSE /\ mem' = [DoneMem(n) EXCEPT !.l = @ - 1] /\ buf' = Front(DoneBuf(n))
             /\ builders' = [builders EXCEPT ![n].done = FALSE] /\ UNCHANGED stage
     /\ UNCHANGED <<doc, fmt, input, cut, want, fieldNames, indexes, result, touched>>

(***************************************************************************)
(* Calls of the builder.                                                   *)
(***************************************************************************)
NewObject ==
  /\ fmt = "calls" /\ stage = "building" /\ builders = <<>>
  /\ FirstBuilder /\ fieldNames' = <<<<>>>> /\ indexes' = <<0>>
  /\ UNCHANGED <<doc, fmt, input, cut, want, peeked, result, touched>>

Call(kind) ==
  /\ fmt = "calls" /\ stage = "building" /\ builders # <<>>
  /\ input # <<>> /\ input[1][1] = kind
  /\ input' = Tail(input)
  /\ UNCHANGED <<doc, fmt, cut, want, peeked, result, touched>>

CallAppend == Call("append") /\ AppendElement(input[1][2]) /\ UNCHANGED <<fieldNames, indexes>>

CallOpen ==
  /\ Call("open") /\ OpenSub(input[1][2][1], input[1][2][2])
  /\ fieldNames' = IF mem'.over THEN fieldNames ELSE Append(fieldNames, <<>>)
  /\ indexes' = IF mem'.over THEN indexes ELSE Append(indexes, 0)

CallDone == Call("done") /\ CloseSub

CallObj ==
  /\ fmt = "calls" /\ stage = "building" /\ input = <<>> /\ CloseFirst
  /\ UNCHANGED <<doc, fmt, input, cut, want, peeked, touched>>

(***************************************************************************)
(* fromjson: the grammar's actions, on the tokens.                         *)
(***************************************************************************)

\* BSONObjBuilder::numStr.
RECURSIVE numStr(_)
numStr(i) == IF i < 10 THEN <<48 + i>> ELSE numStr(i \div 10) \o <<48 + (i % 10)>>

\* chU: a code unit as UTF-8.
chU(u) ==
  CASE u < 128 -> <<u>>
    [] u \in 128..2047 -> <<192 + (u \div 64), 128 + (u % 64)>>
    [] OTHER -> <<224 + (u \div 4096), 128 + ((u \div 64) % 64), 128 + (u % 64)>>

\* ch and chE: what a backslash and c stand for.
chE(c) ==
  CASE c = 98 -> 8 [] c = 102 -> 12 [] c = 110 -> 10 [] c = 114 -> 13 [] c = 116 -> 9
    [] c = 118 -> 11 [] OTHER -> c

\* str: the characters between the quotes.
RECURSIVE str(_)
str(s) ==
  CASE s = <<>> -> <<>>
    [] s # <<>> /\ s[1] # 92 -> <<s[1]>> \o str(Tail(s))
    [] OTHER -> IF s[2] = 117 THEN chU(s[3]) \o str(SubSeq(s, 4, Len(s)))
                ELSE <<chE(s[2])>> \o str(SubSeq(s, 3, Len(s)))

\* intValue: the width by the number's size.
intValue(n) == IF n \in (-IntMax - 1)..IntMax THEN NumberInt ELSE NumberLong

\* The alternatives of `value` but array and object: how many tokens one takes (0 if none
\* matches), and the type and value it appends.
Scalar(in) ==
  LET is(kinds) == Len(in) >= Len(kinds) /\ \A i \in DOMAIN kinds : in[i][1] = kinds[i]
      p(i) == in[i][2]
  IN CASE is(<<"str">>) -> <<1, String, str(p(1))>>
       [] is(<<"real">>) -> <<1, NumberDouble, p(1)>>
       [] is(<<"int">>) -> <<1, intValue(p(1)), p(1)>>
       [] is(<<"true">>) -> <<1, Bool, 1>>
       [] is(<<"false">>) -> <<1, Bool, 0>>
       [] is(<<"null">>) -> <<1, jstNULL, 0>>
       [] is(<<"{", "$date", ":", "int", "}">>) -> <<5, Date, p(4)>>
       [] is(<<"Date", "(", "int", ")">>) -> <<4, Date, p(3)>>
       [] is(<<"{", "$oid", ":", "hex", "}">>) -> <<5, jstOID, p(4)>>
       [] is(<<"ObjectId", "(", "hex", ")">>) -> <<4, jstOID, p(3)>>
       [] is(<<"{", "$binary", ":", "base64", ",", "$type", ":", "type", "}">>) ->
            <<9, BinData, <<p(8), p(4)>>>>
       [] is(<<"{", "$ref", ":", "str", ",", "$id", ":", "hex", "}">>) ->
            <<9, DBRef, <<str(p(4)), p(8)>>>>
       [] is(<<"Dbref", "(", "str", ",", "hex", ")">>) -> <<6, DBRef, <<str(p(3)), p(5)>>>>
       [] is(<<"{", "$regex", ":", "str", ",", "$options", ":", "alpha", "}">>) ->
            <<9, RegEx, <<str(p(4)), p(8)>>>>
       [] is(<<"regex">>) -> <<1, RegEx, <<str(p(1)[1]), p(1)[2]>>>>
       [] OTHER -> <<0, EOO, 0>>

Parsing == fmt # "calls" /\ stage = "building"
At(kind) == input # <<>> /\ input[1][1] = kind
Back == builders[Len(builders)]
fieldNameBack == fieldNames[Len(fieldNames)]
InArray == builders # <<>> /\ Back.type = Array

\* The names fieldNameEnd refuses, and the literals of the notations above.
Reserved == {<<36, 111>>}
Literals == {"$oid", "$binary", "$type", "$date", "$regex", "$options"}

\* objectStart.
objectStart ==
  /\ Parsing /\ want = "value" /\ At("{") /\ Scalar(input)[1] = 0
  /\ IF builders = <<>> THEN FirstBuilder ELSE OpenSub(Object, fieldNameBack)
  /\ fieldNames' = IF mem'.over THEN fieldNames ELSE Append(fieldNames, <<>>)
  /\ indexes' = IF mem'.over THEN indexes ELSE Append(indexes, 0)
  /\ input' = Tail(input) /\ want' = "member"
  /\ UNCHANGED <<doc, fmt, cut, peeked, result, touched>>

\* arrayStart, with nameFromIndex.
arrayStart ==
  /\ Parsing /\ want = "value" /\ At("[") /\ builders # <<>>
  /\ OpenSub(Array, fieldNameBack)
  /\ fieldNames' = IF mem'.over THEN fieldNames ELSE Append(fieldNames, numStr(0))
  /\ indexes' = IF mem'.over THEN indexes ELSE Append(indexes, 0)
  /\ input' = Tail(input) /\ UNCHANGED want
  /\ UNCHANGED <<doc, fmt, cut, peeked, result, touched>>

\* fieldNameEnd, of a name that is not reserved.
fieldNameEnd ==
  /\ Parsing /\ want = "member" /\ At("str") /\ Len(input) > 1 /\ input[2][1] = ":"
  /\ str(input[1][2]) \notin Reserved
  /\ fieldNames' = [fieldNames EXCEPT ![Len(fieldNames)] = str(input[1][2])]
  /\ input' = SubSeq(input, 3, Len(input)) /\ want' = "value"
  /\ UNCHANGED <<doc, fmt, cut, builders, indexes, buf, mem, peeked, stage, result, touched>>

\* stringEnd, numberValue, intValue, trueValue, falseValue, nullValue, dateEnd, oidEnd,
\* binDataEnd, dbrefEnd, regexEnd.
AppendValue ==
  LET s == Scalar(input)
  IN /\ Parsing /\ want = "value" /\ builders # <<>> /\ s[1] > 0
     /\ AppendElement(<<s[2], fieldNameBack, s[3]>>)
     /\ input' = SubSeq(input, s[1] + 1, Len(input)) /\ want' = "after"
     /\ UNCHANGED <<doc, fmt, cut, fieldNames, indexes, peeked, result, touched>>

\* Variant: arrayNext does not name the element anew.
Comma_SameName ==
  /\ Parsing /\ want = "after" /\ At(",")
  /\ indexes' = [indexes EXCEPT ![Len(indexes)] = @ + 1]
  /\ want' = IF InArray THEN "value" ELSE "member"
  /\ input' = Tail(input)
  /\ UNCHANGED <<doc, fmt, cut, builders, fieldNames, buf, mem, peeked, stage, result, touched>>

\* A comma: in an array arrayNext counts and names the next element.
Comma ==
  /\ Parsing /\ want = "after" /\ At(",")
  /\ IF InArray
     THEN LET n == Len(indexes)
          IN /\ indexes' = [indexes EXCEPT ![n] = @ + 1]
             /\ fieldNames' = [fieldNames EXCEPT ![n] = numStr(indexes'[n])]
             /\ want' = "value"
     ELSE want' = "member" /\ UNCHANGED <<indexes, fieldNames>>
  /\ input' = Tail(input)
  /\ UNCHANGED <<doc, fmt, cut, builders, buf, mem, peeked, stage, result, touched>>

\* The closing bracket may follow a value, or the opening one.
MayClose ==
  \/ want = "after"
  \/ builders # <<>> /\ Back.elems = <<>> /\ indexes[Len(indexes)] = 0
       /\ want = IF InArray THEN "value" ELSE "member"

\* subobjectEnd and arrayEnd; the outermost object is left to fromjson.
End ==
  /\ Parsing /\ builders # <<>> /\ MayClose /\ At(IF InArray THEN "]" ELSE "}")
  /\ input' = Tail(input)
  /\ IF Len(builders) = 1
     THEN want' = "end" /\ UNCHANGED <<builders, fieldNames, indexes, buf, mem, stage>>
     ELSE CloseSub /\ want' = "after"
  /\ UNCHANGED <<doc, fmt, cut, peeked, result, touched>>

\* fromjson has read all of the text.
Finish ==
  /\ Parsing /\ want = "end" /\ input = <<>> /\ CloseFirst
  /\ UNCHANGED <<doc, fmt, input, cut, want, peeked, touched>>

\* fromjson of an empty string.
EmptyText ==
  /\ Parsing /\ builders = <<>> /\ input = <<>>
  /\ stage' = "returned" /\ result' = Bytes(<<>>)
  /\ UNCHANGED <<doc, fmt, input, cut, want, builders, fieldNames, indexes, buf, mem, peeked, touched>>

\* The rest of the text is missing.
CutText ==
  /\ Parsing /\ input # <<>> /\ ~cut
  /\ cut' = TRUE /\ input' = <<>>
  /\ UNCHANGED <<doc, fmt, want, builders, fieldNames, indexes, buf, mem, peeked, stage, result, touched>>

\* No alternative of the grammar goes on, or a reserved name: an exception.
ParseFails ==
  /\ Parsing /\ (builders # <<>> \/ input # <<>>)
  /\ ~(want = "end" /\ input = <<>>)
  /\ ~(MayClose /\ At(IF InArray THEN "]" ELSE "}"))
  /\ want = "value" => /\ Scalar(input)[1] = 0 \/ builders = <<>>
                       /\ ~At("{") /\ ~(At("[") /\ builders # <<>>)
  /\ want = "member" => ~(At("str") /\ Len(input) > 1 /\ input[2][1] = ":"
                            /\ str(input[1][2]) \notin Reserved)
  /\ want = "after" => ~At(",")
  /\ stage' = "unwinding"
  /\ UNCHANGED <<doc, fmt, input, cut, want, builders, fieldNames, indexes, buf, mem, peeked, result, touched>>

\* Variant: the loop starts one too low and leaves out the last.
FinishedFirst_ButLast(n) == 2..(n - 1)

\* The builders ~ObjectBuilder finishes: all but the one that owns the buffer.
FinishedFirst(n) == 2..n

\* An exception leaves the builders.  In fromjson ~ObjectBuilder finishes the sub-builders,
\* and the vector destroys its builders from the first: the owner frees the buffer, then a
\* sub-builder that is not done would use it.  A caller's builders go in reverse order, and
\* each one finishes itself.  Finishing may throw in turn, which terminates the process.
Unwind ==
  LET n == Len(builders)
      open == {i \in 2..n : ~builders[i].done}
      finished == IF fmt = "calls" THEN open ELSE open \cap FinishedFirst(n)
      after == GrowAll(mem, [i \in 1..Cardinality(finished) |-> <<EOO>>])
  IN /\ stage = "unwinding"
     /\ stage' = IF finished # {} /\ (mem.over \/ after.over) THEN "terminated" ELSE "threw"
     /\ touched' = (open \ finished # {})
     /\ builders' = <<>> /\ fieldNames' = <<>> /\ indexes' = <<>> /\ buf' = <<>>
     /\ UNCHANGED <<doc, fmt, input, cut, want, mem, peeked, result>>

Ended == stage \in {"returned", "threw", "terminated"} /\ UNCHANGED vars

Next ==
  \/ NewObject \/ CallAppend \/ CallOpen \/ CallDone \/ CallObj \/ asTempObj
  \/ objectStart \/ arrayStart \/ fieldNameEnd \/ AppendValue \/ Comma \/ End \/ Finish
  \/ EmptyText \/ CutText \/ ParseFails \/ Unwind
  \/ Ended

Spec == Init /\ [][Next]_vars

(***************************************************************************)
(* Properties.                                                             *)
(***************************************************************************)

\* The elements between a builder's offset and a place in the buffer.
Between(i, theend) == Elements(buf, builders[i].off + 5, theend)

\* BSONObjBuilder::iterator(), to the end of the buffer.
iterator(i) == Between(i, Len(buf))

\* Where the element begins whose object builder i makes: its type, name and NUL.
HeaderOf(i) == builders[i].off - (Len(builders[i].name) + 2)

\* While a document is made, BSONObjBuilder::iterator() of the innermost open builder shows
\* exactly the elements appended to it, finished sub-objects included, though they have no
\* EOO and no size yet.  The bytes of an outer builder, up to the header of the open
\* sub-builder, are still the elements appended to it, however often the shared buffer has
\* moved.  (Its iterator() would go on into that header, whose size is not written yet: it
\* is of no use before the sub-builder is done.)  And the buffer has room for what is in it.
BuildersShow ==
  stage = "building" =>
    /\ mem.l = Len(buf) /\ mem.l <= mem.size
    /\ \A i \in DOMAIN builders :
         IF i = Len(builders) THEN iterator(i) = builders[i].elems
         ELSE Between(i, HeaderOf(i + 1)) = builders[i].elems

\* What jsonString prints so that it can be read back in this format.  It prints nothing,
\* code or a nested object for some types, loses digits of a double that has more than 16
\* and the flags of a regular expression but g, i and m, prints the ns of a DBRef without
\* escapes, and a BinData sub-type from 128 on with too many digits; a name may be reserved,
\* and the strict format reads flags that are letters.
Faithful(e, f) ==
  LET v == value(e)
  IN /\ type(e) \notin {Undefined, MinKey, MaxKey, Timestamp, Code, CodeWScope}
     /\ fieldName(e) \notin Reserved
     /\ type(e) = NumberDouble => Rounded(v) = v
     /\ type(e) = RegEx =>
          \A i \in DOMAIN v[2] : IF f = "Strict" THEN IsAlpha(v[2][i]) ELSE v[2][i] \in gim
     /\ type(e) = DBRef => \A i \in DOMAIN v[1] : v[1][i] > 31 /\ v[1][i] \notin {34, 92}
     /\ type(e) = BinData => v[1] < 128
RECURSIVE InJson(_, _)
InJson(d, f) ==
  \A i \in DOMAIN d : Faithful(d[i], f) /\ (isABSONObj(d[i]) => InJson(value(d[i]), f))

\* What is returned is a valid object (BSONObj::valid) of the size it says.  Made by calls
\* it is the document.  Parsed from what jsonString prints of it, it compares equal to it,
\* whatever number types or notations the text went through, if all of its elements are
\* printed faithfully (see there for what is not); a text that lacks its end gives no
\* document, unless nothing at all was left (fromjson of an empty string).  And an
\* exception has a cause: the text, an element that is not, or a buffer at its limit.
RoundTrip ==
  /\ stage = "returned" =>
       LET d == ElementsOf(result, 1)
       IN /\ valid(result, 1) /\ result[1] = Len(result)
          /\ fmt = "calls" => d = doc
          /\ fmt # "calls" /\ ~cut /\ InJson(doc, fmt) => woCompare(d, doc, <<>>, TRUE) = 0
          /\ cut => d = <<>>
  /\ stage \in {"threw", "terminated"} => cut \/ ~InJson(doc, fmt) \/ mem.over

\* Leaving the builders by an exception never lets a sub-builder write to the buffer its
\* owner has freed, and ends the process only when the buffer could not grow.
UnwindIsSafe ==
  ~touched /\ (stage = "terminated" => grow_reallocate(mem.size, mem.size + 1) > BufferMaxSize)

\* Past the mantissa a long and a double compare as doubles, two longs do not.
RECURSIVE Exact(_)
Exact(d) ==
  \A i \in DOMAIN d :
    /\ type(d[i]) = NumberLong => value(d[i]) \in -Mantissa..Mantissa
    /\ isABSONObj(d[i]) => Exact(value(d[i]))

IsOrdered(cmp(_, _), x, y, z) ==
  /\ cmp(x, x) = 0 /\ cmp(x, y) = -cmp(y, x)
  /\ cmp(x, y) <= 0 /\ cmp(y, z) <= 0 => cmp(x, z) <= 0
  /\ cmp(y, x) <= 0 /\ cmp(x, z) <= 0 => cmp(y, z) <= 0

Mirror(c) ==
  CASE c = "SAME" -> "SAME"
    [] c = "LEFT_BEFORE" -> "RIGHT_BEFORE" [] c = "RIGHT_BEFORE" -> "LEFT_BEFORE"
    [] c = "LEFT_SUBFIELD" -> "RIGHT_SUBFIELD" [] c = "RIGHT_SUBFIELD" -> "LEFT_SUBFIELD"

\* woCompare is a total preorder of documents over all types, nestings and number widths,
\* as long as their longs are exact as doubles; so is lexNumCmp of field names, and
\* compareDottedFieldNames gives mirrored answers.
OrderIsTotal ==
  stage = "returned" /\ fmt = "calls" =>
    /\ Exact(doc) => \A y, z \in Probes :
         IsOrdered(LAMBDA a, b : woCompare(a, b, <<>>, TRUE), doc, y, z)
    /\ \A i \in DOMAIN doc : \A m, n \in Names :
         LET x == fieldName(doc[i])
         IN /\ IsOrdered(lexNumCmp, x, m, n)
            /\ compareDottedFieldNames(x, m) = Mirror(compareDottedFieldNames(m, x))

\* The three ways to sort by a key.  Of the keys extracted from two documents woCompare
\* with the key pattern and with the Ordering made from it say the same, for all documents.
\* woSortOrder of the documents says it too, missing fields included, but for one case: when
\* just one of them is empty it comes first, in every direction, though its extracted key
\* is a row of nulls, which need not be first and may be the other's key.
SortKeysAgree ==
  stage = "returned" /\ fmt = "calls" =>
    \A key \in Keys : \A d \in Probes :
      LET k1 == extractFields(doc, key, TRUE)
          k2 == extractFields(d, key, TRUE)
          byPattern == woCompare(k1, k2, key, FALSE)
      IN /\ woCompareOrdering(k1, k2, Ordering(key), FALSE) = byPattern
         /\ woSortOrder(doc, d, key) =
              IF doc = <<>> /\ d # <<>> THEN -1
              ELSE IF doc # <<>> /\ d = <<>> THEN 1
              ELSE byPattern
====
