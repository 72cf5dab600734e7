------------------------------- MODULE MCBson -------------------------------
(* Small documents for BsonJson. *)
EXTENDS BsonJson

\* a, b, 1, -, "a.b", and the index names.
nA == <<97>>
nB == <<98>>
nAB == <<97, 46, 98>>
Index(i) == <<48 + i>>

\* An Int of each width, around the limits; doubles with a fraction that is
\* printed, with one that is not, without one, too long for the digits printed, not finite.
Numbers == {<<NumberInt, -2>>, <<NumberInt, 3>>, <<NumberLong, 1>>, <<NumberLong, 4>>, <<NumberLong, -5>>,
            <<NumberLong, 9>>, <<NumberDouble, 3>>, <<NumberDouble, 5>>, <<NumberDouble, 8>>,
            <<NumberDouble, 48>>, <<NumberDouble, Inf>>, <<NumberDouble, NaN>>}
Texts == {<<>>, <<97>>, <<34, 92>>, <<97, 0>>, <<10, 1, 47>>}
Others == {<<Bool, 0>>, <<Bool, 1>>, <<jstNULL, 0>>, <<Undefined, 0>>, <<MinKey, 0>>, <<MaxKey, 0>>,
           <<jstOID, 7>>, <<Date, 5>>, <<Timestamp, 5>>}
Plain == Numbers \cup Others
  \cup {<<t, s>> : t \in {String, Symbol}, s \in Texts}
  \cup {<<Code, <<97>>>>, <<RegEx, <<<<47, 97>>, <<105>>>>>>, <<RegEx, <<<<97>>, <<>>>>>>,
        <<RegEx, <<<<97>>, <<120>>>>>>, <<RegEx, <<<<97>>, <<120, 49>>>>>>,
        <<DBRef, <<<<97>>, 7>>>>, <<DBRef, <<<<97, 34>>, 7>>>>,
        <<BinData, <<128, <<1>>>>>>, <<BinData, <<0, <<1, 0>>>>>>, <<BinData, <<5, <<>>>>>>,
        <<CodeWScope, <<<<97>>, <<>>>>>>, <<CodeWScope, <<<<97>>, <<<<NumberInt, <<98>>, 1>>>>>>>>}

E1(tv, n) == <<tv[1], n, tv[2]>>

\* Few values to nest.
Few == {<<NumberInt, 3>>, <<NumberDouble, 3>>, <<String, <<97>>>>, <<Undefined, 0>>, <<jstOID, 7>>}

Flat == {<<E1(x, nA)>> : x \in Plain} \cup {<<E1(x, nA), E1(y, nB)>> : x \in Plain, y \in Plain}
Inner == {<<>>} \cup {<<E1(x, nB)>> : x \in Few}
Lists == {<<>>} \cup {<<E1(x, Index(0)), E1(y, Index(1))>> : x \in Few, y \in Few}
Nested == {<<<<Object, nA, d>>>> : d \in Inner}
  \cup {<<<<Array, nA, d>>, E1(y, nB)>> : d \in Lists, y \in {<<Bool, 1>>}}
  \cup {<<<<Array, nA, <<<<Object, Index(0), d>>, <<Array, Index(1), <<E1(y, Index(0))>>>>, E1(y, Index(2))>>>>>> :
          d \in Inner, y \in Few}
  \cup {<<<<Object, nB, <<<<Object, nA, d>>>>>>>> : d \in Inner}
Named == {<<<<NumberInt, n, 1>>>> : n \in {<<36, 111>>, <<34>>, <<48, 49>>, <<49>>, nAB, <<97, 255>>, <<97, 49, 48>>,
                                            <<97, 50>>, <<97, 46>>, <<>>}}
MCDocs == {<<>>} \cup Flat \cup Nested \cup Named

MCProbes == {<<>>, <<<<NumberInt, nA, 3>>>>, <<<<NumberDouble, nA, 3>>>>, <<<<NumberLong, nA, 4>>>>,
             <<<<NumberDouble, nA, NaN>>>>, <<<<NumberInt, nB, 2>>>>, <<<<String, nA, <<97>>>>>>,
             <<<<Object, nA, <<<<NumberInt, nB, 3>>>>>>>>, <<<<Array, nA, <<<<NumberInt, <<48>>, 3>>>>>>>>,
             <<<<NumberInt, nA, 3>>, <<Bool, nB, 0>>>>, <<<<jstNULL, nA, 0>>>>,
             <<<<NumberInt, nAB, 9>>>>, <<<<RegEx, nA, <<<<97>>, <<105>>>>>>>>,
             <<<<BinData, nA, <<0, <<1, 2>>>>>>>>, <<<<CodeWScope, nA, <<<<97>>, <<<<NumberInt, nA, 2>>>>>>>>>>}
MCNames == {<<>>, <<48>>, <<49>>, <<48, 49>>, <<97>>, <<97, 48>>, <<97, 49, 48>>, <<97, 50>>, <<255>>,
            <<97, 255>>, nAB, <<97, 46>>, <<46>>}
MCKeys == {<<<<NumberInt, nA, 1>>>>, <<<<NumberInt, nA, -1>>>>, <<<<NumberInt, nAB, -1>>, <<NumberInt, nA, 1>>>>,
           <<<<NumberInt, nB, 1>>, <<NumberInt, nA, -1>>>>}
MCFormats == {"calls"} \cup JsonFormats
====
