---------------------------- MODULE RecordStore ----------------------------
(***************************************************************************)
(* What dmsFile promises to its callers: a store that gives every inserted *)
(* record an id of its own, and returns the record for that id until it is *)
(* removed.  An id is never given out twice.                               *)
(***************************************************************************)
CONSTANTS Client, Record, Rid, Gone

VARIABLES
  store,   \* the record of every id given out, Gone once it was removed
  answer   \* what each client was told last: operation, return code, id, record

RefusedInsert == {<<"insert", rc>> : rc \in {"INVALIDARG", "SYS", "IO", "OOM"}}
Answers ==
  {<<"none">>} \cup RefusedInsert
  \cup ({"insert", "find"} \X {"OK"} \X Rid \X Record)
  \cup ({"remove"} \X {"OK"} \X Rid) \cup ({"find", "remove"} \X {"SYS"} \X Rid)

StoreTypeOK ==
  /\ DOMAIN store \subseteq Rid
  /\ \A r \in DOMAIN store : store[r] \in Record \cup {Gone}
  /\ answer \in [Client -> Answers]

Init ==
  /\ store = << >>
  /\ answer = [c \in Client |-> <<"none">>]

Tell(c, a) == answer' = [answer EXCEPT ![c] = a]

Insert(c) ==
  \E r \in Rid \ DOMAIN store, b \in Record :
    /\ Tell(c, <<"insert", "OK", r, b>>)
    /\ store' = [q \in DOMAIN store \cup {r} |-> IF q = r THEN b ELSE store[q]]

\* An insert that fails leaves nothing behind.
Refuse(c) ==
  /\ \E a \in RefusedInsert : Tell(c, a)
  /\ UNCHANGED store

Find(c) ==
  /\ \E r \in DOMAIN store :
       Tell(c, IF store[r] = Gone THEN <<"find", "SYS", r>> ELSE <<"find", "OK", r, store[r]>>)
  /\ UNCHANGED store

Remove(c) ==
  \E r \in DOMAIN store :
    /\ store' = [store EXCEPT ![r] = Gone]
    /\ Tell(c, IF store[r] = Gone THEN <<"remove", "SYS", r>> ELSE <<"remove", "OK", r>>)

Next == \E c \in Client : Insert(c) \/ Refuse(c) \/ Find(c) \/ Remove(c)

Spec == Init /\ [][Next]_<<store, answer>>

====
