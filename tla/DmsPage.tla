------------------------------ MODULE DmsPage ------------------------------
(***************************************************************************)
(* The layout of a data page of dmsFile, and what its operations do to it. *)
(* A page holds a header, a list of slots that grows up from the header,   *)
(* and the records, which grow down from the end of the page.  A slot is   *)
(* the offset of its record.  Here a slot also carries what is found at    *)
(* the offset, and a write over a record's bytes spoils what is found.     *)
(***************************************************************************)
EXTENDS Integers, Sequences, SequencesExt, FiniteSetsExt

CONSTANTS
  Body,       \* the records clients insert
  BodySize,   \* objsize() of each of them
  HasId,      \* those with the key field _id
  PageSize    \* DMS_PAGESIZE, 4194304 in the code

ASSUME BodyAssumption == BodySize \in [Body -> Nat \ {0}] /\ HasId \subseteq Body

FileHeaderSize   == 16   \* sizeof(dmsHeader)
PageHeaderSize   == 28   \* sizeof(dmsPageHeader)
RecordHeaderSize == 8    \* sizeof(dmsRecord)
SlotSize         == 4    \* sizeof(SLOTOFF), sizeof(SLOTID)

ASSUME PageSizeAssumption == PageSize \in Nat /\ PageSize > PageHeaderSize

Empty   == "EMPTY"     \* no record
Garbage == "GARBAGE"   \* the bytes of a record that were written over

EmptySlot == [off |-> -1, size |-> 0, body |-> Empty]   \* DMS_SLOT_EMPTY

MaxRecord == PageSize - FileHeaderSize - RecordHeaderSize - SlotSize

\* The room a record takes in a page, with its header and its slot.
Need(b) == BodySize[b] + RecordHeaderSize + SlotSize

FormattedPage ==
  [valid |-> TRUE, slot |-> <<>>, slotOffset |-> PageHeaderSize,
   freeSpace |-> PageSize - PageHeaderSize, freeOffset |-> PageSize]
\* What _extendFile writes.
ZeroPage ==
  [valid |-> FALSE, slot |-> <<>>, slotOffset |-> 0, freeSpace |-> 0, freeOffset |-> 0]

NumSlots(pg) == Len(pg.slot)
Gap(pg) == pg.freeOffset - pg.slotOffset
Live(pg) == {i \in DOMAIN pg.slot : pg.slot[i] # EmptySlot}

\* The slots after size bytes at offset off were written for slot i.
Overwrite(slot, i, off, size) ==
  [j \in DOMAIN slot |->
     IF j # i /\ slot[j] # EmptySlot /\ slot[j].off < off + size /\ off < slot[j].off + slot[j].size
     THEN [slot[j] EXCEPT !.body = Garbage] ELSE slot[j]]

\* Variant: pRight moves over the records that are moved only.
RecoverSpace_SkipsUnmoved(pg) ==
  LET move(acc, i) ==
        IF pg.slot[i] = EmptySlot THEN [acc EXCEPT !.recover = TRUE]
        ELSE IF ~acc.recover THEN acc
        ELSE LET right == acc.right - pg.slot[i].size
             IN [acc EXCEPT !.right = right,
                            !.slot = [Overwrite(acc.slot, i, right, pg.slot[i].size)
                                        EXCEPT ![i].off = right]]
  IN [pg EXCEPT !.slot =
        FoldLeftDomain(move, [right |-> PageSize, recover |-> FALSE, slot |-> pg.slot], pg.slot).slot]

\* _recoverSpace: in slot order, every record behind the first empty slot is moved
\* up against the one before it.  The page header is left as it is.
RecoverSpace(pg) ==
  LET move(acc, i) ==
        IF pg.slot[i] = EmptySlot THEN [acc EXCEPT !.recover = TRUE]
        ELSE LET size  == acc.slot[i].size
                 right == acc.right - size
             IN IF ~acc.recover THEN [acc EXCEPT !.right = right]
                ELSE [acc EXCEPT !.right = right,
                                 !.slot = [Overwrite(acc.slot, i, right, size) EXCEPT ![i].off = right]]
  IN [pg EXCEPT !.slot =
        FoldLeftDomain(move, [right |-> PageSize, recover |-> FALSE, slot |-> pg.slot], pg.slot).slot]

\* insert recovers when there are holes, and too little room between slots and data.
Recovered(pg, b) ==
  IF pg.freeSpace > Gap(pg) /\ pg.slotOffset + Need(b) > pg.freeOffset
  THEN RecoverSpace(pg) ELSE pg

\* Variant: the test of the gap is missing.
HasRoom_FreeSpaceOnly(pg, b) == pg.freeSpace >= Need(b)

HasRoom(pg, b) == pg.freeSpace >= Need(b) /\ Gap(pg) >= Need(b)

\* Variant: the slot is not taken off the free space.
StoreRecord_FreeSlot(pg, b) ==
  LET size == BodySize[b] + RecordHeaderSize
      off  == pg.freeOffset - size
  IN [pg EXCEPT !.slot = Append(Overwrite(@, 0, off, size), [off |-> off, size |-> size, body |-> b]),
                !.slotOffset = @ + SlotSize, !.freeOffset = off, !.freeSpace = @ - size]

\* insert: the record goes below the data, its offset into a new slot.
StoreRecord(pg, b) ==
  LET size == BodySize[b] + RecordHeaderSize
      off  == pg.freeOffset - size
      at   == PageHeaderSize + NumSlots(pg) * SlotSize
  IN [pg EXCEPT !.slot = Append(Overwrite(Overwrite(@, 0, at, SlotSize), 0, off, size),
                                [off |-> off, size |-> size, body |-> b]),
                !.slotOffset = @ + SlotSize,
                !.freeOffset = off,
                !.freeSpace = @ - Need(b)]

\* remove: only the record's bytes become free, the slot is never used again.
DropRecord(pg, s) ==
  [pg EXCEPT !.slot[s + 1] = EmptySlot, !.freeSpace = @ + pg.slot[s + 1].size]

\* _searchSlot, and what find makes of the slot.  The slot number NumSlots passes
\* the range test, and what is there is taken for a slot.
FindInPage(pg, s) ==
  IF s > NumSlots(pg) THEN Empty
  ELSE IF s = NumSlots(pg) THEN Garbage
  ELSE pg.slot[s + 1].body

-----------------------------------------------------------------------------

\* The header says what is in the page: the slot list ends at slotOffset, below
\* the data, and freeSpace is all that is neither header, slot nor record.
PageAccounts(pg) ==
  /\ pg.slotOffset = PageHeaderSize + NumSlots(pg) * SlotSize
  /\ pg.slotOffset <= pg.freeOffset
  /\ pg.freeSpace = PageSize - pg.slotOffset - FoldFunction(+, 0, [i \in Live(pg) |-> pg.slot[i].size])

\* The records lie in the data area, in the order of their slots from the end of
\* the page down, and apart: that is why _recoverSpace may move them in that order.
RecordsApart(pg) ==
  /\ \A i \in Live(pg) : pg.freeOffset <= pg.slot[i].off /\ pg.slot[i].off + pg.slot[i].size <= PageSize
  /\ \A i, j \in Live(pg) : i < j => pg.slot[j].off + pg.slot[j].size <= pg.slot[i].off

====
