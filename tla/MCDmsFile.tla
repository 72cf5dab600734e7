----------------------------- MODULE MCDmsFile -----------------------------
(* Small instances of DmsFile.                                             *)
EXTENDS DmsFile
CONSTANTS t1, t2, a, b, c
Threads1 == {t1}
Threads2 == {t1, t2}
Bodies2 == {a, c}
\* b is a record with no _id: HasId is always Bodies2.
Bodies3 == {a, b, c}
\* Records of two sizes.
Sizes2 == [x \in Bodies2 |-> IF x = c THEN 30 ELSE 15]
Sizes3 == [x \in Bodies3 |-> IF x = c THEN 30 ELSE 15]
ThreadSymmetry == Permutations(Threads2)
====
