------------------------------ MODULE MCEDUMgr ------------------------------
(***************************************************************************)
(* Small instances of EDUMgr for TLC.                                      *)
(***************************************************************************)
EXTENDS EDUMgr, TLC

CONSTANTS c1, c2, c3

\* The listener and two or three agents.
EDU3 == 1..3
EDU4 == 1..4

Conns2 == {c1, c2}
Conns3 == {c1, c2, c3}

\* The connections are interchangeable (used with safety properties only).
ConnSymmetry == Permutations(Conn)

=============================================================================
