--------------------------------- MODULE Cdb ---------------------------------
(***************************************************************************)
(* cdb of libowfat: a constant database is written in one go - records,    *)
(* and behind them a hash table for each of 256 classes of hashes, which   *)
(* the head of the file points to - and then searched and walked through.  *)
(*                                                                         *)
(* The file is a sequence of cells, a number or a byte of a key or of data *)
(* in each; so 8 bytes, two numbers, are two cells.                        *)
(***************************************************************************)
EXTENDS Integers, SequencesExt, FiniteSetsExt, Bitwise

CONSTANTS
  Keys, Datas, \* sequences of bytes
  Classes,     \* 256
  HashBits,    \* 32: the width of a hash
  MaxPos,      \* 2^32: where a position overflows
  HpList,      \* 1000: entries for which memory is got at once
  MaxRecords   \* bound: records

CdbAssumption ==
  /\ Classes \in Nat \ {0} /\ HashBits \in Nat /\ MaxPos \in Nat /\ HpList \in Nat \ {0}
  /\ MaxRecords \in Nat

VARIABLES
  file,    \* the cells behind the head; at the end all of them
  entries, \* cdb_hplist: [h, p], in the order they were added
  pos,     \* of cdb_make
  records, \* history: [key, data, pos]
  c,       \* loop, khash, kpos, hpos, hslots, dpos, dlen of cdb
  cursor,  \* kpos of the caller of cdb_firstkey and cdb_nextkey
  got,     \* the last result: -1, 0, 1
  seen,    \* history: where the data was that the calls of a search found
  search,  \* history: [op, key] of the last calls
  phase

made == <<file, entries, pos, records, phase>>
vars == <<made, c, cursor, got, seen, search>>

HeadCells == 2 * Classes

Init ==
  /\ file = <<>> /\ entries = <<>> /\ pos = HeadCells /\ records = <<>> /\ phase = "make"
  /\ c = [loop |-> 0, khash |-> 0, kpos |-> 0, hpos |-> 0, hslots |-> 0, dpos |-> 0, dlen |-> 0]
  /\ cursor = 0 /\ got = 0 /\ seen = <<>> /\ search = [op |-> "none", key |-> <<>>]

(* cdb_hash. *)
HashAdd(h, b) == ((33 * h) % 2^HashBits) ^^ b
Hash(key) == FoldLeft(HashAdd, 5381 % 2^HashBits, key)
ClassOf(h) == h % Classes

-----------------------------------------------------------------------------
(* cdb_make_add: header, key and data are written, then the entry is       *)
(* listed.  When there is no memory for it, or the position overflows, the *)
(* record stays in the file; what a program makes of a file whose making   *)
(* has failed is not looked at.                                            *)
Cells(key, data) == <<Len(key), Len(data)>> \o key \o data

Add(key, data) ==
  /\ phase = "make" /\ Len(records) < MaxRecords
  /\ LET size == Len(Cells(key, data))
     IN  \/ /\ pos + size < MaxPos
            /\ file' = file \o Cells(key, data)
            /\ entries' = Append(entries, [h |-> Hash(key), p |-> pos])
            /\ records' = Append(records, [key |-> key, data |-> data, pos |-> pos])
            /\ pos' = pos + size /\ UNCHANGED phase
         \/ /\ pos + size >= MaxPos \/ Len(entries) % HpList = 0
            /\ phase' = "failed"
            /\ file' = file \o Cells(key, data) /\ UNCHANGED <<entries, pos, records>>
  /\ UNCHANGED <<c, cursor, got, seen, search>>

(* Mutant of Slot: the next entry goes to the end of the table, and over   *)
(* what is there.                                                          *)
SlotLast(table, h) ==
  LET n == Len(table)
      free == {k \in ((h \div Classes) % n) .. n - 1 : table[k + 1].p = 0}
  IN  IF free = {} THEN n ELSE Min(free) + 1
(* The first free slot from where the hash points to, around the end.      *)
Slot(table, h) ==
  LET n == Len(table)
      k == Min({k \in 0 .. n - 1 : table[(((h \div Classes) + k) % n) + 1].p = 0})
  IN  (((h \div Classes) + k) % n) + 1

Table(i) ==
  LET mine == SelectSeq(entries, LAMBDA e : ClassOf(e.h) = i)
  IN  FoldLeft(LAMBDA t, e : [t EXCEPT ![Slot(t, e.h)] = e],
               [k \in 1 .. 2 * Len(mine) |-> [h |-> 0, p |-> 0]], mine)

Flat(slots) == [k \in 1 .. 2 * Len(slots) |->
                  IF k % 2 = 1 THEN slots[(k + 1) \div 2].h ELSE slots[k \div 2].p]

(* cdb_make_finish: tables of twice the entries, and the head. *)
Finish ==
  /\ phase = "make"
  /\ LET tables == [i \in 1 .. Classes |-> Table(i - 1)]
         at(i) == pos + 2 * Len(FlattenSeq(SubSeq(tables, 1, i - 1)))
         head == FlattenSeq([i \in 1 .. Classes |-> <<at(i), Len(tables[i])>>])
         slots == FlattenSeq(tables)
     IN  IF pos + 2 * Len(slots) >= MaxPos
         THEN phase' = "failed" /\ UNCHANGED file
         ELSE /\ phase' = "read"
              /\ file' = head \o file \o Flat(slots)
  /\ UNCHANGED <<entries, pos, records, c, cursor, got, seen, search>>

-----------------------------------------------------------------------------
(* Reading; a cell beyond the end is an error.                             *)

CanRead(at, n) == at + n <= Len(file)
Cell(at) == file[at + 1]

Error == [c |-> c, got |-> -1]

(* cdb_findnext with loop = 0: where the table is, and the slot to begin.  *)
Begun(key) ==
  LET u == Hash(key)
      n == Cell(2 * ClassOf(u) + 1)
      h == Cell(2 * ClassOf(u))
  IN  IF n = 0 THEN [c EXCEPT !.hslots = 0]
      ELSE [c EXCEPT !.hslots = n, !.hpos = h, !.khash = u,
                     !.kpos = h + 2 * ((u \div Classes) % n)]

(* The record at "at" is of a key: -1 when it cannot be read.  (A key is   *)
(* read 32 bytes at a time; none here is longer.)                          *)
MatchAt(at, key) ==
  IF ~CanRead(at, 2) THEN -1
  ELSE IF Cell(at) # Len(key) THEN 0
  ELSE IF ~CanRead(at + 2, Len(key)) THEN -1
  ELSE IF SubSeq(file, at + 3, at + 2 + Len(key)) = key THEN 1 ELSE 0

(* Mutant of Around: the slots are not searched around their end. *)
Straight(d, k) == k
(* kpos, behind the last slot. *)
Around(d, k) == IF k = d.hpos + 2 * d.hslots THEN d.hpos ELSE k

RECURSIVE Probe(_, _)
Probe(d, key) ==
  IF d.loop >= d.hslots THEN [c |-> d, got |-> 0]
  ELSE IF ~CanRead(d.kpos, 2) THEN [c |-> d, got |-> -1]
  ELSE LET at == Cell(d.kpos + 1)
           e == [d EXCEPT !.loop = @ + 1, !.kpos = Around(d, @ + 2)]
       IN  IF at = 0 THEN [c |-> d, got |-> 0]
           ELSE IF Cell(d.kpos) # d.khash \/ MatchAt(at, key) = 0 THEN Probe(e, key)
           ELSE IF MatchAt(at, key) = -1 THEN [c |-> e, got |-> -1]
           ELSE [c |-> [e EXCEPT !.dlen = Cell(at + 1), !.dpos = at + 2 + Len(key)], got |-> 1]

FindFrom(d, key) == IF d.loop = 0 THEN Probe([Begun(key) EXCEPT !.loop = 0], key) ELSE Probe(d, key)

Call(op, key) ==
  /\ phase = "read"
  /\ search' = [op |-> op, key |-> key]
  /\ UNCHANGED made

Note(old) == seen' = IF got' = 1 THEN Append(old, c'.dpos) ELSE old

(* cdb_find; cdb_findnext goes on, for the same key. *)
Find(key) ==
  /\ Call("find", key)
  /\ LET r == FindFrom([c EXCEPT !.loop = 0], key) IN c' = r.c /\ got' = r.got
  /\ Note(<<>>) /\ UNCHANGED cursor

FindNext ==
  /\ search.op = "find" /\ got = 1
  /\ Call("find", search.key)
  /\ LET r == FindFrom(c, search.key) IN c' = r.c /\ got' = r.got
  /\ Note(seen) /\ UNCHANGED cursor

(* doit: the record at kpos, when it begins 8 bytes or more in front of    *)
(* the first table.                                                        *)
RecordAt(k) ==
  IF Cell(0) < 2 \/ Cell(0) - 2 < k THEN [c |-> c, got |-> 0, next |-> k]
  ELSE IF ~CanRead(k, 2) THEN [c |-> [c EXCEPT !.kpos = k + 2, !.loop = 0, !.hslots = 1],
                               got |-> -1, next |-> k]
  ELSE [c |-> [c EXCEPT !.kpos = k + 2, !.loop = 0, !.hslots = 1,
                        !.dlen = Cell(k + 1), !.dpos = k + 2 + Cell(k)],
        got |-> 1, next |-> k + 2 + Cell(k) + Cell(k + 1)]

Walk(op, k, old) ==
  /\ Call(op, <<>>)
  /\ LET r == RecordAt(k) IN c' = r.c /\ got' = r.got /\ cursor' = r.next
  /\ Note(old)

FirstKey == Walk("walk", HeadCells, <<>>)
NextKey == search.op = "walk" /\ got = 1 /\ Walk("walk", cursor, seen)

(* cdb_successor: the record behind the first of that key. *)
Successor(key) ==
  /\ Call("successor", key)
  /\ LET f == FindFrom([c EXCEPT !.loop = 0], key)
         r == RecordAt(f.c.dpos + f.c.dlen)
     IN  IF f.got < 1 THEN c' = f.c /\ got' = f.got ELSE c' = r.c /\ got' = r.got
  /\ Note(<<>>) /\ UNCHANGED cursor

Next ==
  \/ \E key \in Keys : Find(key) \/ Successor(key) \/ \E data \in Datas : Add(key, data)
  \/ Finish \/ FindNext \/ FirstKey \/ NextKey

Spec == Init /\ [][Next]_vars

-----------------------------------------------------------------------------
(* A search finds the data of the records with its key one after the       *)
(* other, in the order they were added and each once, and says when there  *)
(* are no more; a walk goes through all records; and the successor of a    *)
(* key is the record behind the first that has it - so a program that goes *)
(* from key to key by it never gets past a key that is there twice         *)
(* (cdb_successor.3 warns of that).                                        *)
TableFinds ==
  LET At(i) == records[i].pos + 2 + Len(records[i].key)
      all(key) == SelectSeq([i \in DOMAIN records |-> i], LAMBDA i : records[i].key = key)
      wanted == CASE search.op = "find" -> all(search.key)
                  [] search.op = "walk" -> [i \in DOMAIN records |-> i]
                  [] search.op = "successor" ->
                       IF all(search.key) = <<>> \/ all(search.key)[1] = Len(records) THEN <<>>
                       ELSE <<all(search.key)[1] + 1>>
                  [] OTHER -> <<>>
  IN  search.op # "none" =>
        /\ got # -1
        /\ Len(seen) <= Len(wanted) /\ \A k \in DOMAIN seen : seen[k] = At(wanted[k])
        /\ got = 0 => Len(seen) = Len(wanted)
        /\ got = 1 => /\ c.dpos = Last(seen)
                      /\ SubSeq(file, c.dpos + 1, c.dpos + c.dlen)
                           = records[wanted[Len(seen)]].data
=============================================================================
