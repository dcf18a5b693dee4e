-------------------------------- MODULE Bson --------------------------------
(***************************************************************************)
(* bson.c, the encoding of every query, row and command that edb.d and the *)
(* driver exchange with the database: the buffer that a document is built  *)
(* in, with room made ahead of each append and the sizes of nested objects *)
(* filled in when they end, and the iterator that walks the result.        *)
(*                                                                         *)
(* Documents are sequences of bytes, as in memory.  The program appends    *)
(* elements in any order the interface allows; what it meant is kept as a  *)
(* tree (history), with which the bytes are compared.  Of the eight bytes  *)
(* of a long, a double or a date only small integers are looked at.        *)
(***************************************************************************)
EXTENDS Integers, Sequences, SequencesExt, FiniteSetsExt

CONSTANTS
  InitialSize,  \* initialBufferSize
  Names,        \* keys: sequences of characters other than 0
  Values,       \* what is appended: [type, val], see Data
  MaxElems,     \* bound: elements of a document
  MaxDepth      \* bound: objects open at once.  The stack has 32 places, and
                \* the code does not look whether there is one left

BsonAssumption ==
  /\ InitialSize \in Nat /\ InitialSize >= 4 /\ MaxElems \in Nat
  /\ MaxDepth \in 0 .. 32

VARIABLES
  buf,       \* the bytes from buf to cur
  bufSize,
  finished,
  stack,     \* where the sizes of the open objects are
  tree,      \* history: the elements of each open object, outermost first
  count,     \* elements so far
  twice,     \* history: characters of a name that the last call wrote twice
  garbled    \* history: some call wrote a name twice

vars == <<buf, bufSize, finished, stack, tree, count, twice, garbled>>

(* bson_type *)
Double == 1      String == 2    Object == 3      Arr == 4       Bindata == 5
Undefined == 6   Oid == 7       Boolean == 8     Date == 9      Null == 10
Regex == 11      Code == 13     Symbol == 14     CodeWScope == 15
IntT == 16       Timestamp == 17                 Long == 18
(* Integers of n bytes, least significant first; below 2^16 here, so that  *)
(* the bytes from the third on only extend the sign.                       *)
Le(n, i) == [k \in 1 .. n |-> IF k = 1 THEN i % 256
                              ELSE IF k = 2 THEN (i \div 256) % 256
                              ELSE IF i < 0 THEN 255 ELSE 0]

(* The byte at offset p, which is 0 where nothing was written. *)
At(b, p) == IF p + 1 \in DOMAIN b THEN b[p + 1] ELSE 0
Bytes(b, p, n) == [k \in 1 .. n |-> At(b, p + k - 1)]
IntAt(b, p) == At(b, p) + 256 * At(b, p + 1) - (IF At(b, p + 2) = 255 THEN 65536 ELSE 0)
StrLen(b, p) == Min({k \in 0 .. Len(b) : At(b, p + k) = 0})
CStr(b, p) == Bytes(b, p, StrLen(b, p))

(* hexbyte, bson_oid_from_string and bson_oid_to_string on characters. *)
HexByte(c) == IF c \in 48 .. 57 THEN c - 48
              ELSE IF c \in 97 .. 102 THEN c - 87
              ELSE IF c \in 65 .. 70 THEN c - 55 ELSE 0
OidFromString(str) == [i \in 1 .. 12 |-> 16 * HexByte(str[2 * i - 1]) + HexByte(str[2 * i])]
HexDigit(n) == IF n < 10 THEN 48 + n ELSE 87 + n
OidToString(b) == [i \in 1 .. 24 |-> HexDigit(IF i % 2 = 1 THEN b[(i + 1) \div 2] \div 16
                                                         ELSE b[i \div 2] % 16)]

-----------------------------------------------------------------------------
(* Building.                                                               *)

Init ==
  /\ buf = <<0, 0, 0, 0>> /\ bufSize = InitialSize /\ finished = FALSE
  /\ stack = <<>> /\ count = 0 /\ twice = 0 /\ garbled = FALSE
  /\ tree = <<[type |-> Object, key |-> <<>>, val |-> <<>>]>>

(* What the bson_append_* functions write after the name ... *)
Data(v) ==
  CASE v.type = IntT -> Le(4, v.val)
    [] v.type \in {Long, Double, Date} -> Le(8, v.val)
    [] v.type = Boolean -> <<IF v.val # 0 THEN 1 ELSE 0>>
    [] v.type \in {Null, Undefined} -> <<>>
    [] v.type \in {String, Symbol, Code} -> Le(4, Len(v.val) + 1) \o v.val \o <<0>>
    [] v.type = CodeWScope ->
         Le(4, 4 + 4 + Len(v.val.code) + 1 + Len(v.val.scope.bytes))
           \o Le(4, Len(v.val.code) + 1) \o v.val.code \o <<0>> \o v.val.scope.bytes
    [] v.type = Bindata -> Le(4, Len(v.val.bytes)) \o <<v.val.sub>> \o v.val.bytes
    [] v.type = Oid -> OidFromString(v.val)
    [] v.type = Regex -> v.val.pattern \o <<0>> \o v.val.opts \o <<0>>
    [] v.type = Object -> v.val.bytes                       \* bson_append_bson

(* ... and the room they ask for it. *)
Room(v) ==
  CASE v.type = IntT -> 4
    [] v.type \in {Long, Double, Date} -> 8
    [] v.type = Boolean -> 1
    [] v.type \in {Null, Undefined} -> 0
    [] v.type \in {String, Symbol, Code} -> 4 + Len(v.val) + 1
    [] v.type = CodeWScope -> 4 + 4 + Len(v.val.code) + 1 + IntAt(v.val.scope.bytes, 0)
    [] v.type = Bindata -> 4 + 1 + Len(v.val.bytes)
    [] v.type = Oid -> 12
    [] v.type = Regex -> Len(v.val.pattern) + 1 + Len(v.val.opts) + 1
    [] v.type = Object -> IntAt(v.val.bytes, 0)

(* What such an element means. *)
Meaning(v) ==
  CASE v.type = Boolean -> IF v.val # 0 THEN 1 ELSE 0
    [] v.type = CodeWScope -> [code |-> v.val.code, scope |-> v.val.scope.tree]
    [] v.type = Oid -> [i \in 1 .. 24 |-> HexDigit(HexByte(v.val[i]))]
    [] v.type = Object -> v.val.tree
    [] v.type \in {Null, Undefined} -> 0
    [] OTHER -> v.val

(* bson_ensure_space. *)
EnsureSpace(n) ==
  bufSize' = IF Len(buf) + n <= bufSize THEN bufSize ELSE (3 * (bufSize + n)) \div 2

(* Mutant of HeaderRoom: the type byte is forgotten. *)
NameRoom(key) == Len(key) + 1
(* bson_append_estart: the type, the name and its 0. *)
HeaderRoom(key) == 1 + Len(key) + 1
Header(type, key) == <<type>> \o key \o <<0>>

Open == ~finished /\ count < MaxElems

(* Behind a write past the buffer nothing is known. *)
Intact == Len(buf) <= bufSize

AsMeant == twice' = 0 /\ UNCHANGED garbled

(* The element joins those of the innermost open object. *)
Joins(e, t) == [t EXCEPT ![Len(t)].val = Append(@, e)]

AppendValue(key, v) ==
  /\ Open /\ Intact
  /\ EnsureSpace(HeaderRoom(key) + Room(v))
  /\ buf' = buf \o Header(v.type, key) \o Data(v)
  /\ tree' = Joins([type |-> v.type, key |-> key, val |-> Meaning(v)], tree)
  /\ count' = count + 1
  /\ UNCHANGED <<finished, stack>>
  /\ AsMeant

(* bson_append_start_object and bson_append_start_array: the place of the  *)
(* size goes on the stack, and there is room for the 0 at the end.         *)
StartObject(key, type) ==
  /\ Open /\ Intact /\ Len(stack) < MaxDepth
  /\ EnsureSpace(HeaderRoom(key) + 5)
  /\ buf' = buf \o Header(type, key) \o Le(4, 0)
  /\ stack' = Append(stack, Len(buf) + HeaderRoom(key))
  /\ tree' = Append(tree, [type |-> type, key |-> key, val |-> <<>>])
  /\ count' = count + 1
  /\ UNCHANGED finished
  /\ AsMeant

Sized(b, start) == [k \in DOMAIN b |-> IF k \in start + 1 .. start + 4
                                       THEN Le(4, Len(b) - start)[k - start] ELSE b[k]]

FinishObject ==
  /\ ~finished /\ Intact /\ stack # <<>>
  /\ EnsureSpace(1)
  /\ buf' = Sized(Append(buf, 0), Last(stack))
  /\ stack' = Front(stack)
  /\ tree' = Joins(Last(tree), Front(tree))
  /\ UNCHANGED <<finished, count>>
  /\ AsMeant

(* bson_buffer_finish; a caller finishes its objects first. *)
Finish ==
  /\ ~finished /\ Intact /\ stack = <<>>
  /\ EnsureSpace(1)
  /\ buf' = Sized(Append(buf, 0), 0)
  /\ finished' = TRUE
  /\ UNCHANGED <<stack, tree, count>>
  /\ AsMeant

-----------------------------------------------------------------------------
(* The iterator, at offset p.                                              *)

ValueAt(b, p) == p + 1 + StrLen(b, p + 1) + 1

(* Mutant of DataSize: the byte of the subtype is not counted. *)
DataSizeNoSubtype(b, p) ==
  LET t == At(b, p)  v == ValueAt(b, p)
  IN  CASE t \in {Null, Undefined} -> 0
        [] t = Boolean -> 1
        [] t = IntT -> 4
        [] t \in {Long, Double, Timestamp, Date} -> 8
        [] t = Oid -> 12
        [] t \in {String, Symbol, Code, Bindata} -> 4 + IntAt(b, v)
        [] t = Regex -> StrLen(b, v) + 1 + StrLen(b, v + StrLen(b, v) + 1) + 1
        [] OTHER -> IntAt(b, v)

(* bson_iterator_next: how long the data of each type is. *)
DataSize(b, p) ==
  LET t == At(b, p)  v == ValueAt(b, p)
  IN  CASE t \in {Null, Undefined} -> 0
        [] t = Boolean -> 1
        [] t = IntT -> 4
        [] t \in {Long, Double, Timestamp, Date} -> 8
        [] t = Oid -> 12
        [] t \in {String, Symbol, Code} -> 4 + IntAt(b, v)
        [] t = Bindata -> 5 + IntAt(b, v)
        [] t \in {Object, Arr, CodeWScope} -> IntAt(b, v)
        [] t = Regex -> StrLen(b, v) + 1 + StrLen(b, v + StrLen(b, v) + 1) + 1

NextAt(b, p) == p + 1 + StrLen(b, p + 1) + 1 + DataSize(b, p)

(* bson_append_element without a name: an element of another document, as  *)
(* it is there.                                                            *)
AppendElement(d) ==
  LET size == NextAt(d.bytes, 4) - 4
  IN  /\ Open /\ Intact
      /\ EnsureSpace(size)
      /\ buf' = buf \o Bytes(d.bytes, 4, size)
      /\ tree' = Joins(d.tree[1], tree)
      /\ count' = count + 1
      /\ UNCHANGED <<finished, stack>>
      /\ AsMeant

(* The same with a name: room is made for the name once, and it is written *)
(* twice; what is copied of the value begins behind its name, and is a     *)
(* byte longer than it.                                                    *)
AppendRenamed(key, d) ==
  LET size == NextAt(d.bytes, 4) - 4
      dataSize == size - 1 - StrLen(d.bytes, 5)
  IN  /\ Open /\ Intact
      /\ EnsureSpace(HeaderRoom(key) + dataSize)
      /\ buf' = buf \o Header(At(d.bytes, 4), key) \o key
                    \o Bytes(d.bytes, ValueAt(d.bytes, 4), dataSize)
      /\ tree' = Joins([d.tree[1] EXCEPT !.key = key], tree)
      /\ count' = count + 1
      /\ twice' = Len(key) /\ garbled' = TRUE
      /\ UNCHANGED <<finished, stack>>

(* What the function for each type returns, of the data at offset v.       *)
RawInt(b, v) == IntAt(b, v)                          \* and the long, double and date
RawBool(b, v) == At(b, v)
OidOf(b, v) == OidToString(Bytes(b, v, 12))
StringOf(b, v) == Bytes(b, v + 4, IntAt(b, v) - 1)   \* bson_iterator_string_len
CodeOf(b, v) == CStr(b, v + 8)
ScopeAt(b, v) == v + 8 + IntAt(b, v + 4)
BinaryOf(b, v) == [sub |-> At(b, v + 4), bytes |-> Bytes(b, v + 5, IntAt(b, v))]
RegexOf(b, v) == [pattern |-> CStr(b, v), opts |-> CStr(b, v + StrLen(b, v) + 1)]
FirstIn(v) == v + 4                                  \* bson_iterator_init

(* The elements from offset p on. *)
RECURSIVE Elements(_, _)
Elements(b, p) ==
  LET t == At(b, p)  v == ValueAt(b, p)
      Value ==
        CASE t \in {IntT, Long, Double, Timestamp, Date} -> RawInt(b, v)
          [] t = Boolean -> RawBool(b, v)
          [] t \in {String, Symbol, Code} -> StringOf(b, v)
          [] t = CodeWScope -> [code |-> CodeOf(b, v),
                                scope |-> Elements(b, FirstIn(ScopeAt(b, v)))]
          [] t = Bindata -> BinaryOf(b, v)
          [] t = Oid -> OidOf(b, v)
          [] t = Regex -> RegexOf(b, v)
          [] t \in {Object, Arr} -> Elements(b, FirstIn(v))
          [] t \in {Null, Undefined} -> 0
  IN  IF t = 0 THEN <<>>
      ELSE <<[type |-> t, key |-> CStr(b, p + 1), val |-> Value]>>
             \o Elements(b, NextAt(b, p))

(* bson_find: where the first element of a name is, or the end. *)
RECURSIVE FindFrom(_, _, _)
FindFrom(b, p, name) ==
  IF At(b, p) = 0 \/ CStr(b, p + 1) = name THEN p
  ELSE FindFrom(b, NextAt(b, p), name)

(* bson_iterator_int and bson_iterator_long. *)
AsLong(b, p) == IF At(b, p) \in {IntT, Long, Double} THEN IntAt(b, ValueAt(b, p)) ELSE 0

(* Mutant of AsBool: null is not looked at. *)
AsBoolNullTrue(b, p) ==
  CASE At(b, p) = Boolean -> At(b, ValueAt(b, p)) # 0
    [] At(b, p) \in {IntT, Long, Double} -> IntAt(b, ValueAt(b, p)) # 0
    [] At(b, p) = 0 -> FALSE
    [] OTHER -> TRUE

(* bson_iterator_bool. *)
AsBool(b, p) ==
  CASE At(b, p) = Boolean -> At(b, ValueAt(b, p)) # 0
    [] At(b, p) \in {IntT, Long, Double} -> IntAt(b, ValueAt(b, p)) # 0
    [] At(b, p) \in {0, Null} -> FALSE
    [] OTHER -> TRUE

-----------------------------------------------------------------------------
Documents == {v.val : v \in {w \in Values : w.type = Object}}

Next ==
  \/ \E key \in Names : \/ \E v \in Values : AppendValue(key, v)
                        \/ \E type \in {Object, Arr} : StartObject(key, type)
  \/ \E d \in Documents : d.tree # <<>> /\ (AppendElement(d) \/ \E key \in Names : AppendRenamed(key, d))
  \/ FinishObject \/ Finish

Spec == Init /\ [][Next]_vars

(* No append writes past what was allocated, whatever was asked for before *)
(* it: the rooms of all appends, the terminators of objects that were      *)
(* started long ago, and the sizes that are filled in when they end.  One  *)
(* is excepted: bson_append_element with a name may write past the end by  *)
(* as many bytes as the name has characters, and by no more.               *)
WithinBuffer ==
  /\ Len(buf) <= bufSize + twice
  /\ \A k \in DOMAIN stack : stack[k] \in 4 .. Len(buf) - 4
  /\ Len(tree) = Len(stack) + 1

(* What the iterator reads from a finished buffer is what was appended, at *)
(* every depth, and bson_size is its length; unless an element was given   *)
(* another name, which spoils the document.                                *)
RoundTrip ==
  finished /\ ~garbled =>
    /\ IntAt(buf, 0) = Len(buf)
    /\ Elements(buf, 4) = tree[1].val

(* bson_find finds the first element of a name, and the conversions read   *)
(* 0 for what is not numeric, and false for false, 0, null and nothing     *)
(* (bson.h:86-96).                                                         *)
FoundAndRead ==
  finished /\ ~garbled => \A name \in Names :
    LET p == FindFrom(buf, 4, name)
        named == SelectSeq(tree[1].val, LAMBDA e : e.key = name)
        e == IF named = <<>> THEN [type |-> 0, val |-> 0] ELSE Head(named)
        zero == e.type = 0 \/ (e.type \in {IntT, Long, Double, Boolean, Null} /\ e.val = 0)
    IN  /\ At(buf, p) = e.type
        /\ AsLong(buf, p) = IF e.type \in {IntT, Long, Double} THEN e.val ELSE 0
        /\ AsBool(buf, p) = ~zero

=============================================================================
