------------------------------ MODULE EdbProofs ------------------------------
(***************************************************************************)
(* Proofs about module Edb: a loop hands out its page exactly, whatever    *)
(* other objects do in between, and a document changes only through an     *)
(* object that holds it.                                                   *)
(***************************************************************************)
EXTENDS Edb, FiniteSetTheorems, WellFoundedInduction, SequenceTheorems, TLAPS

Objects == [id : Int, val : Vals, cursor : Seq(Rows) \cup {NoCursor}, current : Int,
            pageSize : Nat \ {0}, got : BOOLEAN]

TypeOK ==
  /\ docs \in Docs
  /\ id \in [Objs -> Int] /\ val \in [Objs -> Vals]
  /\ cursor \in [Objs -> Seq(Rows) \cup {NoCursor}]
  /\ current \in [Objs -> Int] /\ pageSize \in [Objs -> Nat \ {0}]
  /\ skipLoop \in [Objs -> BOOLEAN]
  /\ page \in [Objs -> Seq(Rows)] /\ seen \in [Objs -> Seq(Ids)]

(* A cursor c stands behind row a + 1 of the page p, where n readable rows *)
(* of the page have come by, and holds the rest of the page.               *)
Follows(c, a, size, p, n) ==
  /\ a + 1 \in 0 .. Len(p) /\ Len(p) =< size
  /\ \A k \in 1 .. Len(c) : a + k < size => a + 1 + k =< Len(p) /\ p[a + 1 + k] = c[k]
  /\ Len(p) - (a + 1) =< Len(c)
  /\ Cardinality(ReadableIn(p) \cap 1 .. a + 1) = n

AtHand(i, a, p) == a + 1 \in ReadableIn(p) /\ i = p[a + 1].id

(* What an object x still has to hand out of its page, and what it did:    *)
(* the _ids s; skip says that the row at hand comes next.                  *)
LeftOf(x, skip, p, s) ==
  IF x.cursor = NoCursor
  THEN ~skip /\ Len(s) = Cardinality(ReadableIn(p))
  ELSE /\ Follows(x.cursor, x.current, x.pageSize, p, Len(s) + (IF skip THEN 1 ELSE 0))
       /\ AtHand(x.id, x.current, p)

GivenOf(p, s) ==
  \A n \in 1 .. Len(s) : \E k \in DOMAIN p : IsNth(n, k, p) /\ s[n] = p[k].id

Left(o) == LeftOf(Object(o), skipLoop[o], page[o], seen[o])
Given(o) == GivenOf(page[o], seen[o])

LoopInv == TypeOK /\ \A o \in Objs : Left(o) /\ Given(o)

-----------------------------------------------------------------------------
(* Rows.                                                                   *)

LEMMA LowestIn ==
  ASSUME NEW S \in SUBSET Nat, S # {}
  PROVE  Min(S) \in S /\ \A j \in S : Min(S) =< j
<1>0. S \subseteq Nat
  OBVIOUS
<1>1. PICK c \in S : \A d \in S : ~ (<<d, c>> \in OpToRel(<, Nat))
  BY <1>0, NatLessThanWellFounded, WFMin
<1>2. c \in Nat /\ \A d \in S : d \in Nat /\ ~ (d < c)
  BY <1>0, <1>1 DEF OpToRel
<1>3. \A d \in S : c =< d
  BY <1>0, <1>2
<1> QED
  BY <1>3 DEF Min

LEMMA HighestIn ==
  ASSUME NEW k \in Nat, NEW S \in SUBSET (1 .. k), S # {}
  PROVE  Max(S) \in S
<1> DEFINE T == {k - i : i \in S}
<1>1. T \in SUBSET Nat /\ T # {}
  <2>1. \A i \in S : i \in Int /\ i =< k
    OBVIOUS
  <2>2. \A i \in S : k - i \in Nat
    BY <2>1
  <2> QED
    BY <2>2
<1>2. Min(T) \in T /\ \A j \in T : Min(T) =< j
  BY <1>1, LowestIn
<1>3. PICK m \in S : Min(T) = k - m
  BY <1>2
<1>4. \A i \in S : k - m =< k - i
  BY <1>2, <1>3
<1>5. \A i \in S : m >= i
  BY <1>4
<1> QED
  BY <1>5 DEF Max

LEMMA RowsFromType ==
  ASSUME TypeOK, NEW found \in Answers, NEW first \in Nat \ {0}
  PROVE  RowsFrom(found[docs], first) \in Seq(Rows)
<1> DEFINE order == found[docs]
           rows == [k \in DOMAIN order |-> [id |-> order[k], val |-> docs[order[k]]]]
<1>1. docs \in Docs /\ order \in Seq(Ids) /\ \A k \in DOMAIN order : docs[order[k]] # NoDoc
  BY EdbAssumption DEF TypeOK
<1>2. DOMAIN order = 1 .. Len(order) /\ Len(order) \in Nat
  BY <1>1
<1>3. \A k \in 1 .. Len(order) : order[k] \in Ids
  BY <1>1
<1>4. \A k \in 1 .. Len(order) : docs[order[k]] \in Vals \cup {Missing}
  BY <1>1, <1>2, <1>3 DEF Docs
<1> HIDE DEF order
<1>5. \A k \in 1 .. Len(order) : [id |-> order[k], val |-> docs[order[k]]] \in Rows
  BY <1>3, <1>4 DEF Rows
<1>6. rows \in [1 .. Len(order) -> Rows]
  BY <1>2, <1>5
<1>7. rows \in Seq(Rows)
  BY <1>2, <1>6
<1> HIDE DEF rows
<1>8. Len(rows) \in Nat /\ \A i \in first .. Len(rows) : rows[i] \in Rows
  BY <1>7
<1>9. SubSeq(rows, first, Len(rows)) \in Seq(Rows)
  BY <1>8, SubSeqProperties
<1> QED
  BY <1>9 DEF RowsFrom, rows, order

-----------------------------------------------------------------------------
(* The page and the cursor.                                                *)

LEMMA ReadableFinite ==
  ASSUME NEW p \in Seq(Rows)
  PROVE  /\ ReadableIn(p) \subseteq 1 .. Len(p) /\ IsFiniteSet(ReadableIn(p))
         /\ Cardinality(ReadableIn(p)) \in Nat
<1>1. ReadableIn(p) \subseteq 1 .. Len(p) /\ Len(p) \in Nat
  BY DEF ReadableIn
<1>2. IsFiniteSet(1 .. Len(p))
  BY <1>1, FS_Interval
<1> QED
  BY <1>1, <1>2, FS_Subset, FS_CardinalityType

(* A new cursor stands before its page.                                    *)
LEMMA PageFollows ==
  ASSUME NEW rows \in Seq(Rows), NEW size \in Nat \ {0}
  PROVE  LET p == SubSeq(rows, 1, Min({size, Len(rows)}))
         IN  p \in Seq(Rows) /\ Follows(rows, -1, size, p, 0)
<1> DEFINE m == Min({size, Len(rows)})
           p == SubSeq(rows, 1, m)
<1>1. Len(rows) \in Nat /\ {size, Len(rows)} \in SUBSET Nat /\ {size, Len(rows)} # {}
  OBVIOUS
<1>2. m \in {size, Len(rows)} /\ m =< size /\ m =< Len(rows)
  BY <1>1, LowestIn
<1>3. m \in Nat /\ (m = size \/ m = Len(rows))
  BY <1>1, <1>2
<1> HIDE DEF m
<1>4. \A i \in 1 .. m : rows[i] \in Rows
  BY <1>1, <1>2, <1>3
<1>5. /\ p \in Seq(Rows) /\ Len(p) = m
      /\ \A i \in 1 .. m : p[i] = rows[i]
  <2>1. /\ p \in Seq(Rows) /\ Len(p) = IF 1 =< m THEN m - 1 + 1 ELSE 0
        /\ \A i \in 1 .. m - 1 + 1 : p[i] = rows[1 + i - 1]
    BY <1>3, <1>4, SubSeqProperties
  <2> QED
    BY <1>3, <2>1
<1> HIDE DEF p
<1>6. ReadableIn(p) \cap 1 .. 0 = {}
  OBVIOUS
<1>7. Cardinality(ReadableIn(p) \cap 1 .. 0) = 0
  BY <1>6, FS_EmptySet
<1>8. Follows(rows, -1, size, p, 0)
  <2>1. -1 + 1 = 0
    OBVIOUS
  <2>2. \A k \in 1 .. Len(rows) : -1 + k < size => k =< Len(p) /\ p[k] = rows[k]
    BY <1>1, <1>2, <1>3, <1>5
  <2>3. \A k \in 1 .. Len(rows) : -1 + 1 + k = k
    BY <1>1
  <2>4. \A k \in 1 .. Len(rows) :
          -1 + k < size => -1 + 1 + k =< Len(p) /\ p[-1 + 1 + k] = rows[k]
    BY <2>2, <2>3
  <2> QED
    BY <1>1, <1>2, <1>3, <1>5, <1>7, <2>1, <2>4 DEF Follows
<1> QED
  BY <1>5, <1>8 DEF p, m

(* The next readable row of the cursor is the next one of the page.        *)
LEMMA FollowsNext ==
  ASSUME NEW p \in Seq(Rows), NEW c \in Seq(Rows), NEW a \in Int, NEW size \in Nat,
         NEW n \in Nat, Follows(c, a, size, p, n),
         NEW k \in 1 .. Len(c), a + k < size, Readable(c[k]),
         \A j \in 1 .. k - 1 : ~Readable(c[j])
  PROVE  /\ SubSeq(c, k + 1, Len(c)) \in Seq(Rows)
         /\ Follows(SubSeq(c, k + 1, Len(c)), a + k, size, p, n + 1)
         /\ AtHand(c[k].id, a + k, p)
<1> DEFINE d == SubSeq(c, k + 1, Len(c))
           R == ReadableIn(p)
           S == R \cap 1 .. a + 1
           b == a + k
<1>1. /\ Len(c) \in Nat /\ k \in Nat /\ k >= 1 /\ k =< Len(c) /\ Len(p) \in Nat
      /\ a + 1 \in 0 .. Len(p) /\ Len(p) =< size /\ Len(p) - (a + 1) =< Len(c)
      /\ \A j \in 1 .. Len(c) : a + j < size => a + 1 + j =< Len(p) /\ p[a + 1 + j] = c[j]
      /\ Cardinality(S) = n
  BY DEF Follows
<1>2. \A i \in k + 1 .. Len(c) : c[i] \in Rows
  BY <1>1
<1>3. /\ d \in Seq(Rows) /\ Len(d) = Len(c) - k
      /\ \A i \in 1 .. Len(c) - k : d[i] = c[k + i]
  <2>1. /\ d \in Seq(Rows)
        /\ Len(d) = IF k + 1 =< Len(c) THEN Len(c) - (k + 1) + 1 ELSE 0
        /\ \A i \in 1 .. Len(c) - (k + 1) + 1 : d[i] = c[k + 1 + i - 1]
    BY <1>1, <1>2, SubSeqProperties
  <2> QED
    BY <1>1, <2>1
<1> HIDE DEF d
<1>4. a + 1 + k =< Len(p) /\ p[a + 1 + k] = c[k] /\ b + 1 = a + 1 + k /\ b + 1 \in 1 .. Len(p)
  BY <1>1
<1>5. b + 1 \in R
  BY <1>1, <1>4 DEF ReadableIn
<1>6. \A i \in a + 2 .. a + k : i \notin R
  <2> SUFFICES ASSUME NEW i \in a + 2 .. a + k
               PROVE  i \notin R
    OBVIOUS
  <2> DEFINE j == i - (a + 1)
  <2>1. j \in 1 .. k - 1 /\ j \in 1 .. Len(c) /\ a + j < size /\ a + 1 + j = i
    BY <1>1
  <2>2. p[i] = c[j] /\ ~Readable(c[j])
    BY <1>1, <2>1
  <2> QED
    BY <2>2 DEF ReadableIn
<1>7. R \subseteq 1 .. Len(p) /\ IsFiniteSet(R)
  BY ReadableFinite
<1> HIDE DEF R
<1>8. R \cap 1 .. b + 1 = S \cup {b + 1} /\ b + 1 \notin S
  <2>1. \A i \in 1 .. b + 1 : i \in 1 .. a + 1 \/ i \in a + 2 .. a + k \/ i = b + 1
    BY <1>1, <1>4
  <2>2. 1 .. a + 1 \subseteq 1 .. b + 1 /\ b + 1 \in 1 .. b + 1 /\ b + 1 \notin 1 .. a + 1
    BY <1>1, <1>4
  <2> HIDE DEF b
  <2>3. \A i \in R : i \in 1 .. b + 1 => i \in 1 .. a + 1 \/ i = b + 1
    BY <1>6, <2>1
  <2> QED
    BY <1>5, <2>2, <2>3
<1>9. IsFiniteSet(S)
  BY <1>7, FS_Subset
<1> HIDE DEF S
<1>10. Cardinality(R \cap 1 .. b + 1) = n + 1
  BY <1>1, <1>8, <1>9, FS_AddElement
<1>11. \A j \in 1 .. Len(d) : b + j < size => b + 1 + j =< Len(p) /\ p[b + 1 + j] = d[j]
  <2> SUFFICES ASSUME NEW j \in 1 .. Len(d), b + j < size
               PROVE  b + 1 + j =< Len(p) /\ p[b + 1 + j] = d[j]
    OBVIOUS
  <2>0. j \in Int /\ 1 =< j /\ j =< Len(c) - k
    BY <1>1, <1>3
  <2>1. k + j \in 1 .. Len(c) /\ a + (k + j) < size /\ a + 1 + (k + j) = b + 1 + j
    BY <1>1, <2>0
  <2>2. d[j] = c[k + j]
    BY <1>1, <1>3
  <2> QED
    BY <1>1, <2>1, <2>2
<1>12. Len(p) - (b + 1) =< Len(d) /\ b + 1 \in 0 .. Len(p) /\ b \in Int
  BY <1>1, <1>3, <1>4
<1> HIDE DEF b
<1>13. Follows(d, b, size, p, n + 1)
  BY <1>1, <1>10, <1>11, <1>12 DEF Follows, R
<1>14. AtHand(c[k].id, b, p)
  BY <1>4, <1>5 DEF AtHand, R
<1> QED
  BY <1>3, <1>13, <1>14 DEF d, b

(* Without a readable row left in the cursor all of the page have come by. *)
LEMMA FollowsEnd ==
  ASSUME NEW p \in Seq(Rows), NEW c \in Seq(Rows), NEW a \in Int, NEW size \in Nat,
         NEW n, Follows(c, a, size, p, n),
         \A k \in 1 .. Len(c) : a + k < size => ~Readable(c[k])
  PROVE  n = Cardinality(ReadableIn(p))
<1>1. /\ Len(c) \in Nat /\ Len(p) \in Nat /\ a + 1 \in 0 .. Len(p)
      /\ Len(p) =< size /\ Len(p) - (a + 1) =< Len(c)
      /\ \A j \in 1 .. Len(c) : a + j < size => p[a + 1 + j] = c[j]
      /\ Cardinality(ReadableIn(p) \cap 1 .. a + 1) = n
  BY DEF Follows
<1>2. ASSUME NEW i \in ReadableIn(p)
      PROVE  i \in 1 .. a + 1
  <2>1. i \in 1 .. Len(p) /\ Readable(p[i])
    BY DEF ReadableIn
  <2>2. ASSUME i > a + 1
        PROVE  FALSE
    <3> DEFINE k == i - (a + 1)
    <3>1. k \in 1 .. Len(c) /\ a + k < size /\ a + 1 + k = i
      BY <1>1, <2>1, <2>2
    <3> QED
      BY <1>1, <2>1, <3>1
  <2> QED
    BY <1>1, <2>1, <2>2
<1>3. ReadableIn(p) \cap 1 .. a + 1 = ReadableIn(p)
  BY <1>2
<1> QED
  BY <1>1, <1>3

-----------------------------------------------------------------------------
(* One call of loop() that fetches.                                        *)

LEMMA FieldType ==
  ASSUME NEW x \in Objects, NEW k \in 0 .. Len(x.cursor), x.cursor # NoCursor
  PROVE  FieldAfter(x, k) \in Vals
<1> DEFINE c == x.cursor
           S == {j \in 1 .. k : c[j].val # Missing}
<1>1. c \in Seq(Rows) /\ x.val \in Vals /\ k \in 0 .. Len(c)
  BY DEF Objects
<1>2. CASE S = {}
  BY <1>1, <1>2 DEF FieldAfter
<1>3. CASE S # {}
  <2>1. k \in Nat /\ S \in SUBSET (1 .. k) /\ k =< Len(c)
    BY <1>1
  <2> DEFINE m == Max(S)
  <2>2. m \in S
    BY <1>3, <2>1, HighestIn
  <2> HIDE DEF m
  <2>3. m \in 1 .. Len(c) /\ c[m].val # Missing
    BY <1>1, <2>1, <2>2
  <2>4. c[m] \in Rows
    BY <1>1, <2>3
  <2>5. c[m].val \in Vals
    BY <2>3, <2>4 DEF Rows
  <2> QED
    BY <1>3, <2>5 DEF FieldAfter, m
<1> QED
  BY <1>2, <1>3

(* The rows loop() stops at.                                               *)
Stops(x) == {k \in InPage(x) : Readable(x.cursor[k])}

LEMMA InPageIs ==
  ASSUME NEW x \in Objects, x.cursor # NoCursor
  PROVE  /\ x.cursor \in Seq(Rows) /\ Len(x.cursor) \in Nat
         /\ x.current \in Int /\ x.pageSize \in Nat
         /\ InPage(x) = {k \in 1 .. Len(x.cursor) : x.current + k < x.pageSize}
         /\ Cardinality(InPage(x)) \in 0 .. Len(x.cursor)
<1>1. /\ x.cursor \in Seq(Rows) /\ Len(x.cursor) \in Nat
      /\ x.current \in Int /\ x.pageSize \in Nat
  BY DEF Objects
<1>2. InPage(x) = {k \in 1 .. Len(x.cursor) : x.current + k < x.pageSize}
  BY <1>1 DEF InPage
<1> DEFINE n == Len(x.cursor)
           S == InPage(x)
<1>3. S \subseteq 1 .. n /\ n \in Nat
  BY <1>1, <1>2
<1> HIDE DEF S, n
<1>4. IsFiniteSet(1 .. n) /\ Cardinality(1 .. n) = n
  BY <1>3, FS_Interval
<1>5. IsFiniteSet(S) /\ Cardinality(S) \in Nat /\ Cardinality(S) =< n
  BY <1>3, <1>4, FS_Subset, FS_CardinalityType
<1> QED
  BY <1>1, <1>2, <1>3, <1>5 DEF S, n

LEMMA AdvanceGot ==
  ASSUME NEW x \in Objects, x.cursor # NoCursor, Stops(x) # {}
  PROVE  LET y == Advance(x)
         IN  /\ y \in Objects /\ y.got /\ y.pageSize = x.pageSize
             /\ \E k \in 1 .. Len(x.cursor) :
                  /\ x.current + k < x.pageSize /\ Readable(x.cursor[k])
                  /\ \A j \in 1 .. k - 1 : ~Readable(x.cursor[j])
                  /\ y.id = x.cursor[k].id /\ y.current = x.current + k
                  /\ y.cursor = SubSeq(x.cursor, k + 1, Len(x.cursor))
<1> DEFINE c == x.cursor
           k == Min(Stops(x))
           y == Advance(x)
<1>1. /\ c \in Seq(Rows) /\ Len(c) \in Nat /\ x.current \in Int /\ x.pageSize \in Nat
      /\ InPage(x) = {j \in 1 .. Len(c) : x.current + j < x.pageSize}
  BY InPageIs
<1>2. Stops(x) \in SUBSET Nat
  BY <1>1 DEF Stops
<1>3. k \in Stops(x) /\ \A j \in Stops(x) : k =< j
  BY <1>2, LowestIn
<1>4. y = NextRow(x, k)
  BY <1>3 DEF Advance, Stops
<1> HIDE DEF k, y
<1>5. k \in 1 .. Len(c) /\ x.current + k < x.pageSize /\ Readable(c[k])
  BY <1>1, <1>3 DEF Stops
<1>6. ASSUME NEW j \in 1 .. k - 1
      PROVE  ~Readable(c[j])
  <2>1. j \in 1 .. Len(c) /\ x.current + j < x.pageSize /\ ~(k =< j)
    BY <1>1, <1>5
  <2>2. j \notin Stops(x)
    BY <1>3, <2>1
  <2> QED
    BY <1>1, <2>1, <2>2 DEF Stops
<1>7. FieldAfter(x, k) \in Vals
  BY <1>5, FieldType
<1>8. c[k].id \in Int
  <2>1. c[k] \in Rows
    BY <1>1, <1>5
  <2> QED
    BY <2>1 DEF Rows, Ids
<1> DEFINE d == SubSeq(c, k + 1, Len(c))
<1>9. d \in Seq(Rows)
  <2>1. \A i \in k + 1 .. Len(c) : c[i] \in Rows
    BY <1>1, <1>5
  <2> QED
    BY <1>1, <1>5, <2>1, SubSeqProperties
<1>10. y = [x EXCEPT !.id = c[k].id, !.val = FieldAfter(x, k), !.cursor = d,
                     !.current = @ + k, !.got = TRUE]
  BY <1>4 DEF NextRow
<1> HIDE DEF d
<1>11. /\ y.id = c[k].id /\ y.current = x.current + k /\ y.cursor = d
       /\ y.got /\ y.pageSize = x.pageSize
  BY <1>10 DEF Objects
<1>12. y \in Objects
  <2>1. x.current + k \in Int
    BY <1>1, <1>5
  <2> QED
    BY <1>7, <1>8, <1>9, <1>10, <2>1 DEF Objects
<1> QED
  BY <1>5, <1>6, <1>11, <1>12 DEF y, d

LEMMA AdvanceDone ==
  ASSUME NEW x \in Objects, x.cursor = NoCursor \/ Stops(x) = {}
  PROVE  LET y == Advance(x)
         IN  y \in Objects /\ ~y.got /\ y.pageSize = x.pageSize /\ y.cursor = NoCursor
<1> DEFINE y == Advance(x)
           v == IF x.cursor = NoCursor THEN x.val ELSE FieldAfter(x, Cardinality(InPage(x)))
<1>1. y = LoopOver(x)
  BY DEF Advance, Stops
<1>2. v \in Vals
  <2>1. CASE x.cursor = NoCursor
    BY <2>1 DEF Objects
  <2>2. CASE x.cursor # NoCursor
    <3>1. Cardinality(InPage(x)) \in 0 .. Len(x.cursor)
      BY <2>2, InPageIs
    <3> QED
      BY <2>2, <3>1, FieldType
  <2> QED
    BY <2>1, <2>2
<1>3. y = [x EXCEPT !.id = 0, !.val = v, !.cursor = NoCursor, !.current = -1, !.got = FALSE]
  BY <1>1 DEF LoopOver
<1> HIDE DEF y, v
<1>4. y.got = FALSE /\ y.pageSize = x.pageSize /\ y.cursor = NoCursor
  BY <1>3 DEF Objects
<1>5. y \in Objects
  <2>1. x \in Objects
    OBVIOUS
  <2>2. 0 \in Int /\ -1 \in Int
    OBVIOUS
  <2> QED
    BY <1>2, <1>3, <2>1, <2>2 DEF Objects
<1> QED
  BY <1>4, <1>5 DEF y

-----------------------------------------------------------------------------
(* The operations.                                                         *)

(* An object that stands behind its n-th readable row fetches the next.    *)
LEMMA AdvanceLeft ==
  ASSUME NEW x \in Objects, x.cursor # NoCursor, NEW p \in Seq(Rows), NEW n \in Nat,
         Follows(x.cursor, x.current, x.pageSize, p, n)
  PROVE  LET y == Advance(x)
         IN  /\ y \in Objects
             /\ y.got => /\ y.cursor # NoCursor
                         /\ Follows(y.cursor, y.current, y.pageSize, p, n + 1)
                         /\ AtHand(y.id, y.current, p)
             /\ ~y.got => y.cursor = NoCursor /\ n = Cardinality(ReadableIn(p))
<1> DEFINE c == x.cursor
           a == x.current
           size == x.pageSize
           y == Advance(x)
<1>1. /\ c \in Seq(Rows) /\ Len(c) \in Nat /\ a \in Int /\ size \in Nat
      /\ InPage(x) = {k \in 1 .. Len(c) : a + k < size}
  BY InPageIs
<1>2. Follows(c, a, size, p, n)
  OBVIOUS
<1>3. CASE Stops(x) # {}
  <2>1. /\ y \in Objects /\ y.got /\ y.pageSize = size
        /\ \E k \in 1 .. Len(c) :
             /\ a + k < size /\ Readable(c[k])
             /\ \A j \in 1 .. k - 1 : ~Readable(c[j])
             /\ y.id = c[k].id /\ y.current = a + k
             /\ y.cursor = SubSeq(c, k + 1, Len(c))
    BY <1>3, AdvanceGot
  <2>2. PICK k \in 1 .. Len(c) :
             /\ a + k < size /\ Readable(c[k])
             /\ \A j \in 1 .. k - 1 : ~Readable(c[j])
             /\ y.id = c[k].id /\ y.current = a + k
             /\ y.cursor = SubSeq(c, k + 1, Len(c))
    BY <2>1
  <2> HIDE DEF c, a, size, y
  <2>3. /\ SubSeq(c, k + 1, Len(c)) \in Seq(Rows)
        /\ Follows(SubSeq(c, k + 1, Len(c)), a + k, size, p, n + 1)
        /\ AtHand(c[k].id, a + k, p)
    BY <1>1, <1>2, <2>2, FollowsNext
  <2>4. y.cursor \in Seq(Rows)
    BY <2>2, <2>3
  <2>5. y.cursor # NoCursor
    BY <2>4, EdbAssumption
  <2>6. Follows(y.cursor, y.current, y.pageSize, p, n + 1) /\ AtHand(y.id, y.current, p)
    BY <2>1, <2>2, <2>3
  <2> QED
    BY <2>1, <2>5, <2>6 DEF y
<1>4. CASE Stops(x) = {}
  <2>1. y \in Objects /\ ~y.got /\ y.cursor = NoCursor
    BY <1>4, AdvanceDone
  <2>2. \A k \in 1 .. Len(c) : a + k < size => ~Readable(c[k])
    BY <1>1, <1>4 DEF Stops
  <2> HIDE DEF c, a, size, y
  <2>3. n = Cardinality(ReadableIn(p))
    BY <1>1, <1>2, <2>2, FollowsEnd
  <2> QED
    BY <2>1, <2>3 DEF y
<1> QED
  BY <1>3, <1>4

(* What is handed out is the row at hand.                                  *)
LEMMA HandOut ==
  ASSUME NEW p \in Seq(Rows), NEW s \in Seq(Ids), NEW i, NEW a \in Int, NEW c, NEW size,
         Follows(c, a, size, p, Len(s) + 1), AtHand(i, a, p), GivenOf(p, s)
  PROVE  /\ Append(s, i) \in Seq(Ids) /\ Len(Append(s, i)) = Len(s) + 1
         /\ GivenOf(p, Append(s, i))
<1> DEFINE t == Append(s, i)
<1>1. a + 1 \in ReadableIn(p) /\ a + 1 \in DOMAIN p /\ i = p[a + 1].id
  BY DEF AtHand, ReadableIn
<1>2. i \in Ids
  <2>1. p[a + 1] \in Rows
    BY <1>1
  <2> QED
    BY <1>1, <2>1 DEF Rows
<1>3. /\ t \in Seq(Ids) /\ Len(t) = Len(s) + 1 /\ t[Len(s) + 1] = i
      /\ \A n \in 1 .. Len(s) : t[n] = s[n]
  BY <1>2, AppendProperties
<1>4. Len(s) \in Nat
  OBVIOUS
<1>5. IsNth(Len(s) + 1, a + 1, p)
  BY <1>1 DEF Follows, IsNth
<1> HIDE DEF t
<1>6. ASSUME NEW n \in 1 .. Len(t)
      PROVE  \E k \in DOMAIN p : IsNth(n, k, p) /\ t[n] = p[k].id
  <2>1. CASE n = Len(s) + 1
    BY <1>1, <1>3, <1>5, <2>1
  <2>2. CASE n # Len(s) + 1
    <3>1. n \in 1 .. Len(s)
      BY <1>3, <1>4, <2>2
    <3> QED
      BY <1>3, <3>1 DEF GivenOf
  <2> QED
    BY <2>1, <2>2
<1> QED
  BY <1>3, <1>6 DEF t, GivenOf

LEMMA AdvanceType ==
  ASSUME NEW x \in Objects
  PROVE  Advance(x) \in Objects /\ Advance(x).pageSize = x.pageSize
BY AdvanceGot, AdvanceDone

LEMMA ObjectType ==
  ASSUME TypeOK, NEW o \in Objs
  PROVE  /\ Object(o) \in Objects /\ Object(o).cursor = cursor[o]
         /\ Object(o).current = current[o] /\ Object(o).id = id[o]
         /\ Object(o).pageSize = pageSize[o]
BY DEF TypeOK, Object, Objects

(* One object becomes x, and the others are as they were.                  *)
LEMMA Replaced ==
  ASSUME LoopInv, NEW o \in Objs, NEW x \in Objects, NEW k \in BOOLEAN,
         NEW p \in Seq(Rows), NEW s \in Seq(Ids), Become(o, x), UNCHANGED docs,
         skipLoop' = [skipLoop EXCEPT ![o] = k], page' = [page EXCEPT ![o] = p],
         seen' = [seen EXCEPT ![o] = s], LeftOf(x, k, p, s), GivenOf(p, s)
  PROVE  LoopInv'
<1>1. TypeOK
  BY DEF LoopInv
<1>2. /\ x.id \in Int /\ x.val \in Vals /\ x.cursor \in Seq(Rows) \cup {NoCursor}
      /\ x.current \in Int /\ x.pageSize \in Nat \ {0}
  BY DEF Objects
<1>3. docs' \in Docs /\ id' \in [Objs -> Int] /\ val' \in [Objs -> Vals]
  BY <1>1, <1>2 DEF TypeOK, Become
<1>4. /\ cursor' \in [Objs -> Seq(Rows) \cup {NoCursor}]
      /\ current' \in [Objs -> Int] /\ pageSize' \in [Objs -> Nat \ {0}]
  BY <1>1, <1>2 DEF TypeOK, Become
<1>5. /\ skipLoop' \in [Objs -> BOOLEAN] /\ page' \in [Objs -> Seq(Rows)]
      /\ seen' \in [Objs -> Seq(Ids)]
  BY <1>1 DEF TypeOK
<1>6. TypeOK'
  BY <1>3, <1>4, <1>5 DEF TypeOK
<1>7. /\ id'[o] = x.id /\ cursor'[o] = x.cursor /\ current'[o] = x.current
      /\ pageSize'[o] = x.pageSize /\ skipLoop'[o] = k /\ page'[o] = p /\ seen'[o] = s
  BY <1>1 DEF TypeOK, Become
<1>8. Left(o)' /\ Given(o)'
  <2>1. /\ Object(o)'.cursor = x.cursor /\ Object(o)'.current = x.current
        /\ Object(o)'.id = x.id /\ Object(o)'.pageSize = x.pageSize
    BY <1>7 DEF Object
  <2> QED
    BY <1>7, <2>1 DEF Left, Given, LeftOf
<1>9. ASSUME NEW q \in Objs, q # o
      PROVE  Left(q)' /\ Given(q)'
  <2>1. /\ id'[q] = id[q] /\ cursor'[q] = cursor[q] /\ current'[q] = current[q]
        /\ pageSize'[q] = pageSize[q] /\ skipLoop'[q] = skipLoop[q]
        /\ page'[q] = page[q] /\ seen'[q] = seen[q] /\ val'[q] = val[q]
    BY <1>1, <1>9 DEF TypeOK, Become
  <2>2. Object(q)' = Object(q)
    BY <2>1 DEF Object
  <2>3. Left(q) /\ Given(q)
    BY DEF LoopInv
  <2> QED
    BY <2>1, <2>2, <2>3 DEF Left, Given
<1> QED
  BY <1>6, <1>8, <1>9 DEF LoopInv

LEMMA NothingRead ==
  /\ <<>> \in Seq(Rows) /\ <<>> \in Seq(Ids) /\ Cardinality(ReadableIn(<<>>)) = 0
  /\ \A p : GivenOf(p, <<>>)
<1>1. ReadableIn(<<>>) = {}
  BY DEF ReadableIn
<1>2. Cardinality(ReadableIn(<<>>)) = 0
  BY <1>1, FS_EmptySet
<1>3. Len(<<>>) = 0
  OBVIOUS
<1> QED
  BY <1>2, <1>3 DEF GivenOf

Moved(y, c, a) == [y EXCEPT !.cursor = c, !.current = a]
Paged(y, c, a, n) == [y EXCEPT !.cursor = c, !.current = a, !.pageSize = n]
Cursor == Seq(Rows) \cup {NoCursor}

LEMMA MovedType ==
  ASSUME NEW y \in Objects, NEW c \in Cursor, NEW a \in Int
  PROVE  Moved(y, c, a) \in Objects /\ Moved(y, c, a).cursor = c
<1>1. Objects = [id : Int, val : Vals, cursor : Cursor, current : Int,
                 pageSize : Nat \ {0}, got : BOOLEAN]
  BY DEF Objects, Cursor
<1>2. Moved(y, c, a) \in Objects
  BY <1>1 DEF Moved
<1> QED
  BY <1>1, <1>2 DEF Moved

LEMMA PagedType ==
  ASSUME NEW y \in Objects, NEW c \in Cursor, NEW a \in Int, NEW n \in Nat \ {0}
  PROVE  /\ Paged(y, c, a, n) \in Objects /\ Paged(y, c, a, n).cursor = c
         /\ Paged(y, c, a, n).current = a /\ Paged(y, c, a, n).pageSize = n
<1>1. Objects = [id : Int, val : Vals, cursor : Cursor, current : Int,
                 pageSize : Nat \ {0}, got : BOOLEAN]
  BY DEF Objects, Cursor
<1>2. Paged(y, c, a, n) \in Objects
  BY <1>1 DEF Paged
<1>3. Paged(y, c, a, n).cursor = c /\ Paged(y, c, a, n).current = a
  BY <1>1 DEF Paged
<1>4. Paged(y, c, a, n).pageSize = n
  BY <1>1 DEF Paged
<1> QED
  BY <1>2, <1>3, <1>4

(* A query and the first row of its page.                                  *)
LEMMA QueryKept ==
  ASSUME LoopInv, NEW o \in Objs, NEW y \in Objects, NEW found \in Answers,
         NEW size \in Nat \ {0}, NEW offset \in Nat, Query(o, y, found, size, offset)
  PROVE  LoopInv'
<1> DEFINE rows == RowsFrom(found[docs], offset * size + 1)
           z == [y EXCEPT !.cursor = rows, !.current = -1, !.pageSize = size]
           x == Advance(z)
           p == SubSeq(rows, 1, Min({size, Len(rows)}))
           k == x.got
           s == <<>>
<1>1. /\ Become(o, x) /\ skipLoop' = [skipLoop EXCEPT ![o] = k] /\ UNCHANGED docs
      /\ page' = [page EXCEPT ![o] = p] /\ seen' = [seen EXCEPT ![o] = s]
  BY DEF Query
<1>2. rows \in Seq(Rows)
  <2> DEFINE first == offset * size + 1
  <2>1. first \in Nat \ {0}
    OBVIOUS
  <2> HIDE DEF first
  <2>2. RowsFrom(found[docs], first) \in Seq(Rows)
    BY <2>1, RowsFromType DEF LoopInv
  <2> QED
    BY <2>2 DEF first
<1>3. s \in Seq(Ids) /\ GivenOf(p, s) /\ Len(s) = 0
  BY NothingRead
<1> HIDE DEF rows, s
<1>4. z \in Objects /\ z.cursor = rows /\ z.current = -1 /\ z.pageSize = size
  <2>1. rows \in Cursor /\ -1 \in Int
    BY <1>2 DEF Cursor
  <2>2. z = Paged(y, rows, -1, size)
    BY DEF Paged
  <2> HIDE DEF z
  <2> DEFINE a == -1
  <2>3. z = Paged(y, rows, a, size) /\ a \in Int
    BY <2>1, <2>2
  <2> HIDE DEF a
  <2>4. z \in Objects /\ z.cursor = rows /\ z.current = a /\ z.pageSize = size
    BY <2>1, <2>3, PagedType
  <2> QED
    BY <2>4 DEF a
<1>5. z.cursor = rows /\ z.current = -1 /\ z.pageSize = size
  BY <1>4
<1>6. p \in Seq(Rows) /\ Follows(rows, -1, size, p, 0)
  BY <1>2, PageFollows
<1> HIDE DEF z, p
<1>7. z.cursor # NoCursor /\ Follows(z.cursor, z.current, z.pageSize, p, 0)
  BY <1>2, <1>5, <1>6, EdbAssumption
<1>8. /\ x \in Objects
      /\ x.got => /\ x.cursor # NoCursor
                  /\ Follows(x.cursor, x.current, x.pageSize, p, 0 + 1)
                  /\ AtHand(x.id, x.current, p)
      /\ ~x.got => x.cursor = NoCursor /\ 0 = Cardinality(ReadableIn(p))
  BY <1>4, <1>6, <1>7, AdvanceLeft
<1> HIDE DEF x
<1>9. k \in BOOLEAN
  BY <1>8 DEF Objects
<1>10. LeftOf(x, k, p, s)
  BY <1>3, <1>8 DEF LeftOf
<1> HIDE DEF k
<1> QED
  BY <1>1, <1>3, <1>6, <1>8, <1>9, <1>10, Replaced

(* One document by its _id: no cursor is left.                             *)
LEMMA ByIdKept ==
  ASSUME LoopInv, NEW o \in Objs, NEW x \in Objects, x.cursor = NoCursor, ById(o, x)
  PROVE  LoopInv'
<1> DEFINE p == <<>>
           k == FALSE
<1>1. /\ Become(o, x) /\ skipLoop' = [skipLoop EXCEPT ![o] = k] /\ UNCHANGED docs
      /\ page' = [page EXCEPT ![o] = p] /\ seen' = [seen EXCEPT ![o] = p]
  BY DEF ById
<1>2. /\ p \in Seq(Rows) /\ p \in Seq(Ids) /\ Cardinality(ReadableIn(p)) = 0
      /\ GivenOf(p, p) /\ Len(p) = 0 /\ k \in BOOLEAN /\ ~k
  BY NothingRead
<1> HIDE DEF p, k
<1>3. LeftOf(x, k, p, p)
  BY <1>2 DEF LeftOf
<1> QED
  BY <1>1, <1>2, <1>3, Replaced

LEMMA LoadIdType ==
  ASSUME TypeOK, NEW y \in Objects, NEW i \in Ids
  PROVE  LoadId(y, i) \in Objects /\ LoadId(y, i).cursor = NoCursor
<1> DEFINE rows == IF docs[i] = NoDoc THEN <<>> ELSE <<[id |-> i, val |-> docs[i]]>>
           z == [y EXCEPT !.cursor = rows, !.current = -1]
           a == Advance(z)
           x == [a EXCEPT !.cursor = NoCursor, !.current = -1]
<1>1. rows \in Seq(Rows)
  <2>1. docs[i] \in Vals \cup {Missing, NoDoc}
    BY DEF TypeOK, Docs
  <2>2. docs[i] # NoDoc => [id |-> i, val |-> docs[i]] \in Rows
    BY <2>1 DEF Rows
  <2> QED
    BY <2>2
<1> HIDE DEF rows
<1> DEFINE t == -1
<1>2. z \in Objects
  <2>1. z = Moved(y, rows, t) /\ t \in Int
    BY DEF Moved
  <2> HIDE DEF z, t
  <2>2. rows \in Cursor
    BY <1>1 DEF Cursor
  <2> QED
    BY <2>1, <2>2, MovedType
<1> HIDE DEF z
<1>3. a \in Objects
  BY <1>2, AdvanceType
<1> HIDE DEF a
<1>4. x \in Objects /\ x.cursor = NoCursor
  <2>1. x = Moved(a, NoCursor, t) /\ t \in Int
    BY DEF Moved
  <2> HIDE DEF x, t
  <2>2. NoCursor \in Cursor
    BY DEF Cursor
  <2> QED
    BY <1>3, <2>1, <2>2, MovedType
<1> QED
  BY <1>4 DEF LoadId, x, a, z, rows

LEMMA FreshType ==
  ASSUME TypeOK, NEW o \in Objs
  PROVE  Fresh(o) \in Objects
<1> DEFINE x == Object(o)
<1>1. x \in Objects /\ Default \in Vals /\ 1 \in Nat \ {0} /\ 0 \in Int
  BY ObjectType, EdbAssumption
<1>2. Objects = [id : Int, val : Vals, cursor : Cursor, current : Int,
                 pageSize : Nat \ {0}, got : BOOLEAN]
  BY DEF Objects, Cursor
<1> HIDE DEF x
<1>3. [x EXCEPT !.id = 0, !.val = Default, !.pageSize = 1] \in Objects
  BY <1>1, <1>2
<1> QED
  BY <1>3 DEF Fresh, x

LEMMA NewByIdKept ==
  ASSUME LoopInv, NEW o \in Objs, NEW i \in {0} \cup Ids, NewById(o, i)
  PROVE  LoopInv'
<1> DEFINE f == Fresh(o)
           t == -1
           y == LoadId(f, i)
           n == IF y.got THEN i ELSE -i
           x == [y EXCEPT !.id = n]
<1>1. f \in Objects /\ TypeOK /\ t \in Int
  BY FreshType DEF LoopInv
<1>2. CASE i = 0
  <2>1. ById(o, Moved(f, NoCursor, t))
    BY <1>2 DEF NewById, Moved
  <2>2. NoCursor \in Cursor
    BY DEF Cursor
  <2> HIDE DEF f, t
  <2> QED
    BY <1>1, <2>1, <2>2, MovedType, ByIdKept
<1>3. CASE i # 0
  <2>1. ById(o, x)
    BY <1>3 DEF NewById
  <2>2. i \in Ids
    BY <1>3
  <2> HIDE DEF f
  <2>3. y \in Objects /\ y.cursor = NoCursor
    BY <1>1, <2>2, LoadIdType
  <2>4. n \in Int
    BY <2>2 DEF Ids
  <2> HIDE DEF y, n
  <2>5. x \in Objects /\ x.cursor = NoCursor
    BY <2>3, <2>4 DEF Objects
  <2> HIDE DEF x
  <2> QED
    BY <2>1, <2>5, ByIdKept
<1> QED
  BY <1>2, <1>3

LEMMA LoadsKept ==
  ASSUME LoopInv, NEW o \in Objs
  PROVE  /\ \A found \in Answers, size \in Nat \ {0}, offset \in Nat :
              NewByQuery(o, found, size, offset) \/ Load(o, found, size, offset) => LoopInv'
         /\ \A i \in {0} \cup Ids : LoadById(o, i) => LoopInv'
<1>1. TypeOK /\ Fresh(o) \in Objects /\ Object(o) \in Objects
  BY FreshType, ObjectType DEF LoopInv
<1>2. ASSUME NEW found \in Answers, NEW size \in Nat \ {0}, NEW offset \in Nat,
             NewByQuery(o, found, size, offset)
      PROVE  LoopInv'
  BY <1>1, <1>2, QueryKept DEF NewByQuery
<1>3. ASSUME NEW found \in Answers, NEW size \in Nat \ {0}, NEW offset \in Nat,
             Load(o, found, size, offset)
      PROVE  LoopInv'
  BY <1>1, <1>3, QueryKept DEF Load
<1>4. ASSUME NEW i \in {0} \cup Ids, LoadById(o, i)
      PROVE  LoopInv'
  <2>1. CASE i = 0
    <3>1. PICK found \in Answers : Load(o, found, 1, 0)
      BY <1>4, <2>1 DEF LoadById
    <3>2. 1 \in Nat \ {0} /\ 0 \in Nat
      OBVIOUS
    <3> QED
      BY <1>3, <3>1, <3>2
  <2>2. CASE i # 0
    <3>1. ById(o, LoadId(Object(o), i)) /\ i \in Ids
      BY <1>4, <2>2 DEF LoadById
    <3>2. LoadId(Object(o), i) \in Objects /\ LoadId(Object(o), i).cursor = NoCursor
      BY <1>1, <3>1, LoadIdType
    <3> QED
      BY <3>1, <3>2, ByIdKept
  <2> QED
    BY <2>1, <2>2
<1> QED
  BY <1>2, <1>3, <1>4

LEMMA LoopKept ==
  ASSUME LoopInv, NEW o \in Objs, Loop(o)
  PROVE  LoopInv'
<1> DEFINE y == Object(o)
           p == page[o]
           s == seen[o]
           k == FALSE
<1>1. /\ TypeOK /\ y \in Objects /\ p \in Seq(Rows) /\ s \in Seq(Ids) /\ k \in BOOLEAN
      /\ page \in [Objs -> Seq(Rows)] /\ seen \in [Objs -> Seq(Ids)]
  BY ObjectType DEF LoopInv, TypeOK
<1>2. LeftOf(y, skipLoop[o], p, s) /\ GivenOf(p, s)
  BY DEF LoopInv, Left, Given
<1>3. page' = [page EXCEPT ![o] = p] /\ UNCHANGED docs /\ skipLoop' = [skipLoop EXCEPT ![o] = k]
  BY <1>1 DEF Loop
<1>4. Len(s) \in Nat
  BY <1>1
<1>5. CASE skipLoop[o]
  <2> DEFINE x == [y EXCEPT !.got = TRUE]
             t == Append(s, x.id)
  <2>1. Become(o, x) /\ x.got /\ seen' = [seen EXCEPT ![o] = t]
    BY <1>1, <1>5 DEF Loop, Objects
  <2>2. /\ x \in Objects /\ x.id = y.id /\ x.cursor = y.cursor /\ x.current = y.current
        /\ x.pageSize = y.pageSize
    BY <1>1 DEF Objects
  <2> HIDE DEF x, y, p, s
  <2>3. /\ y.cursor # NoCursor /\ AtHand(y.id, y.current, p)
        /\ Follows(y.cursor, y.current, y.pageSize, p, Len(s) + 1)
    BY <1>2, <1>5 DEF LeftOf
  <2>4. x.current \in Int
    BY <2>2 DEF Objects
  <2>5. /\ AtHand(x.id, x.current, p)
        /\ Follows(x.cursor, x.current, x.pageSize, p, Len(s) + 1)
    BY <2>2, <2>3
  <2>6. t \in Seq(Ids) /\ Len(t) = Len(s) + 1 /\ GivenOf(p, t)
    BY <1>1, <1>2, <2>4, <2>5, HandOut
  <2> HIDE DEF t
  <2>7. Len(t) + 0 = Len(s) + 1
    BY <1>4, <2>6
  <2>8. LeftOf(x, k, p, t)
    BY <2>2, <2>3, <2>5, <2>7 DEF LeftOf
  <2> HIDE DEF k
  <2> QED
    BY <1>1, <1>3, <2>1, <2>2, <2>6, <2>8, Replaced
<1>6. CASE ~skipLoop[o]
  <2> DEFINE x == Advance(y)
             t == IF x.got THEN Append(s, x.id) ELSE s
  <2>1. Become(o, x) /\ seen' = [seen EXCEPT ![o] = t]
    BY <1>1, <1>6 DEF Loop
  <2> HIDE DEF y, p, s
  <2>2. x \in Objects
    BY <1>1, AdvanceType
  <2>3. CASE y.cursor = NoCursor
    <3>1. ~x.got /\ x.cursor = NoCursor
      BY <1>1, <2>3, AdvanceDone
    <3>2. Len(s) = Cardinality(ReadableIn(p))
      BY <1>2, <2>3 DEF LeftOf
    <3>3. t = s
      BY <3>1
    <3> HIDE DEF x, t
    <3>4. LeftOf(x, k, p, t)
      BY <3>1, <3>2, <3>3 DEF LeftOf
    <3> HIDE DEF k
    <3> QED
      BY <1>1, <1>2, <1>3, <2>1, <2>2, <3>3, <3>4, Replaced
  <2>4. CASE y.cursor # NoCursor
    <3>1. Follows(y.cursor, y.current, y.pageSize, p, Len(s))
      <4>1. Len(s) + 0 = Len(s)
        BY <1>4
      <4> QED
        BY <1>2, <1>6, <2>4, <4>1 DEF LeftOf
    <3>2. /\ x.got => /\ x.cursor # NoCursor
                      /\ Follows(x.cursor, x.current, x.pageSize, p, Len(s) + 1)
                      /\ AtHand(x.id, x.current, p)
          /\ ~x.got => x.cursor = NoCursor /\ Len(s) = Cardinality(ReadableIn(p))
      BY <1>1, <1>4, <2>4, <3>1, AdvanceLeft
    <3> HIDE DEF x
    <3>3. x.current \in Int
      BY <2>2 DEF Objects
    <3>4. ASSUME x.got
          PROVE  /\ t \in Seq(Ids) /\ Len(t) = Len(s) + 1 /\ GivenOf(p, t)
      BY <1>1, <1>2, <3>2, <3>3, <3>4, HandOut
    <3>5. t \in Seq(Ids) /\ GivenOf(p, t) /\ (~x.got => t = s)
      BY <1>1, <1>2, <3>4
    <3> HIDE DEF t
    <3>6. x.got => Len(t) + 0 = Len(s) + 1
      BY <1>4, <3>4
    <3>7. LeftOf(x, k, p, t)
      BY <3>2, <3>5, <3>6 DEF LeftOf
    <3> HIDE DEF k
    <3> QED
      BY <1>1, <1>3, <2>1, <2>2, <3>5, <3>7, Replaced
  <2> QED
    BY <2>3, <2>4
<1> QED
  BY <1>5, <1>6

(* What an object has of its page does not depend on its field, nor, as    *)
(* long as it has a row at hand, is its _id anything but that row's.       *)
LEMMA KeepsPlace ==
  ASSUME LoopInv, TypeOK', UNCHANGED <<cursor, current, pageSize, skipLoop, page, seen>>,
         \A o \in Objs : id[o] > 0 => id'[o] = id[o]
  PROVE  LoopInv'
<1> SUFFICES ASSUME NEW o \in Objs
             PROVE  Left(o)' /\ Given(o)'
  BY DEF LoopInv
<1>1. Left(o) /\ Given(o) /\ TypeOK
  BY DEF LoopInv
<1>2. Given(o)'
  BY <1>1 DEF Given
<1> DEFINE p == page[o]
           a == current[o]
           skip == skipLoop[o]
           s == seen[o]
<1>3. /\ page'[o] = p /\ current'[o] = a /\ skipLoop'[o] = skip /\ seen'[o] = s
      /\ p \in Seq(Rows) /\ a \in Int
  BY <1>1 DEF TypeOK
<1>4. AtHand(id[o], a, p) => id'[o] = id[o]
  <2>1. ASSUME AtHand(id[o], a, p)
        PROVE  id[o] > 0
    <3>1. a + 1 \in DOMAIN p /\ id[o] = p[a + 1].id
      BY <2>1 DEF AtHand, ReadableIn
    <3> HIDE DEF p, a
    <3>2. p[a + 1] \in Rows
      BY <1>3, <3>1
    <3>3. p[a + 1].id \in Ids
      BY <3>2 DEF Rows
    <3> QED
      BY <3>1, <3>3, EdbAssumption DEF Ids
  <2> QED
    BY <2>1
<1>5. /\ Object(o)'.cursor = Object(o).cursor /\ Object(o)'.current = a
      /\ Object(o)'.pageSize = Object(o).pageSize /\ Object(o).current = a
      /\ Object(o).id = id[o] /\ Object(o)'.id = id'[o]
  BY DEF Object
<1>6. LeftOf(Object(o), skip, p, s)
  BY <1>1 DEF Left
<1> DEFINE x == Object(o)
           y == Object(o)'
<1>7. /\ y.cursor = x.cursor /\ y.current = x.current /\ y.pageSize = x.pageSize
      /\ (AtHand(x.id, x.current, p) => y.id = x.id) /\ LeftOf(x, skip, p, s)
  BY <1>4, <1>5, <1>6
<1> HIDE DEF x, y, p, s, skip
<1>8. LeftOf(y, skip, p, s)
  BY <1>7 DEF LeftOf
<1>9. Left(o)'
  BY <1>3, <1>8 DEF Left, y, p, s, skip
<1> QED
  BY <1>2, <1>9

LEMMA DocumentsKept ==
  ASSUME LoopInv, NEW o \in Objs
  PROVE  /\ \A v \in Vals : Assign(o, v) => LoopInv'
         /\ \A i \in Ids : Save(o, i) => LoopInv'
         /\ Destroy(o) => LoopInv'
<1>1. TypeOK
  BY DEF LoopInv
<1>2. ASSUME NEW v \in Vals, Assign(o, v)
      PROVE  LoopInv'
  <2>1. /\ UNCHANGED <<docs, id, cursor, current, pageSize, skipLoop, page, seen>>
        /\ val' = [val EXCEPT ![o] = v]
    BY <1>2 DEF Assign
  <2>2. TypeOK'
    BY <1>1, <2>1 DEF TypeOK
  <2> QED
    BY <2>1, <2>2, KeepsPlace
<1>3. ASSUME NEW i \in Ids, Save(o, i)
      PROVE  LoopInv'
  <2>1. /\ UNCHANGED <<val, cursor, current, pageSize, skipLoop, page, seen>>
        /\ docs' = [docs EXCEPT ![i] = val[o]] /\ id' = [id EXCEPT ![o] = i]
        /\ i \in SaveIds(o)
    BY <1>3 DEF Save
  <2>2. i \in Int /\ val[o] \in Vals
    BY <1>1 DEF Ids, TypeOK
  <2>3. docs' \in Docs /\ id' \in [Objs -> Int]
    BY <1>1, <2>1, <2>2 DEF TypeOK, Docs
  <2>4. TypeOK'
    BY <1>1, <2>1, <2>3 DEF TypeOK
  <2>5. \A q \in Objs : id[q] > 0 => id'[q] = id[q]
    BY <1>1, <2>1 DEF SaveIds, TypeOK
  <2> QED
    BY <2>1, <2>4, <2>5, KeepsPlace
<1>4. ASSUME Destroy(o)
      PROVE  LoopInv'
  <2>1. /\ UNCHANGED <<id, val, cursor, current, pageSize, skipLoop, page, seen>>
        /\ docs' = IF id[o] > 0 THEN [docs EXCEPT ![id[o]] = NoDoc] ELSE docs
    BY <1>4 DEF Destroy, objVars
  <2>2. docs' \in Docs
    BY <1>1, <2>1 DEF TypeOK, Docs
  <2>3. TypeOK'
    BY <1>1, <2>1, <2>2 DEF TypeOK
  <2> QED
    BY <2>1, <2>3, KeepsPlace
<1> QED
  BY <1>2, <1>3, <1>4

-----------------------------------------------------------------------------
(* The invariant.                                                          *)

LEMMA InitLoop == Init => LoopInv
<1> SUFFICES ASSUME Init
             PROVE  LoopInv
  OBVIOUS
<1>1. <<>> \in Seq(Rows) /\ <<>> \in Seq(Ids) /\ Cardinality(ReadableIn(<<>>)) = 0
  BY NothingRead
<1>2. TypeOK
  BY <1>1, EdbAssumption DEF Init, TypeOK
<1>3. ASSUME NEW o \in Objs
      PROVE  Left(o) /\ Given(o)
  <2>1. Object(o).cursor = NoCursor /\ ~skipLoop[o] /\ page[o] = <<>> /\ seen[o] = <<>>
    BY DEF Init, Object
  <2>2. Len(seen[o]) = 0
    BY <2>1
  <2> QED
    BY <1>1, <2>1, <2>2, NothingRead DEF Left, LeftOf, Given
<1> QED
  BY <1>2, <1>3 DEF LoopInv

LEMMA LoopInvKept == LoopInv /\ [Next]_vars => LoopInv'
<1> SUFFICES ASSUME LoopInv, [Next]_vars
             PROVE  LoopInv'
  OBVIOUS
<1>1. CASE UNCHANGED vars
  <2>1. UNCHANGED <<docs, id, val, cursor, current, pageSize, skipLoop, page, seen>>
    BY <1>1 DEF vars, objVars
  <2>2. TypeOK'
    BY <2>1 DEF LoopInv, TypeOK
  <2> QED
    BY <2>1, <2>2, KeepsPlace
<1>2. CASE Next
  <2> SUFFICES ASSUME NEW o \in Objs,
                      \/ \E found \in Answers, size \in PageSizes, offset \in PageOffsets :
                           NewByQuery(o, found, size, offset) \/ Load(o, found, size, offset)
                      \/ \E i \in {0} \cup Ids : NewById(o, i)
                      \/ \E i \in {0} \cup Ids : LoadById(o, i)
                      \/ Loop(o)
                      \/ \E v \in Vals \ Unreadable : Assign(o, v)
                      \/ \E i \in Ids : Save(o, i)
                      \/ Destroy(o)
               PROVE  LoopInv'
    BY <1>2 DEF Next
  <2>1. ASSUME NEW found \in Answers, NEW size \in PageSizes, NEW offset \in PageOffsets,
               NewByQuery(o, found, size, offset) \/ Load(o, found, size, offset)
        PROVE  LoopInv'
    <3>1. size \in Nat \ {0} /\ offset \in Nat
      BY EdbAssumption
    <3> QED
      BY <2>1, <3>1, LoadsKept
  <2> QED
    BY <2>1, NewByIdKept, LoadsKept, LoopKept, DocumentsKept
<1> QED
  BY <1>1, <1>2

(* Types and the place of every object in its page, in every state.        *)
THEOREM LoopInvHolds == Spec => []LoopInv
BY InitLoop, LoopInvKept, PTL DEF Spec

(* For any number of objects and documents, any pages and queries: a loop  *)
(* hands out the readable rows of its page, each once and in order, ends   *)
(* after the last, and the object is the row at hand.                      *)
THEOREM EdbLoopExact == Spec => []LoopExact
<1>1. ASSUME LoopInv, NEW o \in Objs
      PROVE  LET p == page[o]
                 atHand == Len(seen[o]) + (IF skipLoop[o] THEN 1 ELSE 0)
             IN  /\ \A n \in DOMAIN seen[o] :
                      \E k \in DOMAIN p : IsNth(n, k, p) /\ seen[o][n] = p[k].id
                 /\ cursor[o] = NoCursor => Len(seen[o]) = Cardinality(ReadableIn(p))
                 /\ cursor[o] # NoCursor =>
                      \E k \in DOMAIN p : IsNth(atHand, k, p) /\ id[o] = p[k].id
  <2> DEFINE p == page[o]
             s == seen[o]
             a == current[o]
             atHand == Len(s) + (IF skipLoop[o] THEN 1 ELSE 0)
  <2>1. s \in Seq(Ids) /\ DOMAIN s = 1 .. Len(s)
    BY <1>1 DEF LoopInv, TypeOK
  <2>2. /\ GivenOf(p, s) /\ LeftOf(Object(o), skipLoop[o], p, s)
        /\ Object(o).cursor = cursor[o] /\ Object(o).current = a /\ Object(o).id = id[o]
    BY <1>1, ObjectType DEF LoopInv, Left, Given
  <2>3. \A n \in DOMAIN s : \E k \in DOMAIN p : IsNth(n, k, p) /\ s[n] = p[k].id
    BY <2>1, <2>2 DEF GivenOf
  <2>4. cursor[o] = NoCursor => Len(s) = Cardinality(ReadableIn(p))
    BY <2>2 DEF LeftOf
  <2>5. ASSUME cursor[o] # NoCursor
        PROVE  \E k \in DOMAIN p : IsNth(atHand, k, p) /\ id[o] = p[k].id
    <3>1. AtHand(id[o], a, p) /\ Cardinality(ReadableIn(p) \cap 1 .. a + 1) = atHand
      BY <2>2, <2>5 DEF LeftOf, Follows
    <3>2. a + 1 \in ReadableIn(p) /\ a + 1 \in DOMAIN p /\ id[o] = p[a + 1].id
      BY <3>1 DEF AtHand, ReadableIn
    <3> HIDE DEF p, a, atHand
    <3>3. IsNth(atHand, a + 1, p)
      BY <3>1, <3>2 DEF IsNth
    <3> QED
      BY <3>2, <3>3
  <2> QED
    BY <2>3, <2>4, <2>5
<1>2. LoopInv => LoopExact
  BY <1>1 DEF LoopExact
<1> QED
  BY <1>2, LoopInvHolds, PTL

(* A step changes a document only through an object that holds it before   *)
(* and after; what a new object is saved as is no document's _id.          *)
LEMMA OwnOnly ==
  ASSUME TypeOK, Next, NEW i \in Ids, docs'[i] # docs[i], docs[i] # NoDoc
  PROVE  \E o \in Objs : id[o] = i /\ id'[o] = i
<1>1. \A o, y, found, size, offset : Query(o, y, found, size, offset) => docs' = docs
  BY DEF Query
<1>2. \A o, x : ById(o, x) => docs' = docs
  BY DEF ById
<1>3. \A o, found, size, offset :
        NewByQuery(o, found, size, offset) \/ Load(o, found, size, offset) => docs' = docs
  BY <1>1 DEF NewByQuery, Load
<1>4. \A o, k : NewById(o, k) \/ LoadById(o, k) => docs' = docs
  BY <1>2, <1>3 DEF NewById, LoadById
<1>5. \A o, v : Loop(o) \/ Assign(o, v) => docs' = docs
  BY DEF Loop, Assign
<1>6. ASSUME NEW o \in Objs, NEW k \in Ids, Save(o, k)
      PROVE  id[o] = i /\ id'[o] = i
  <2>1. k \in SaveIds(o) /\ docs' = [docs EXCEPT ![k] = val[o]] /\ id' = [id EXCEPT ![o] = k]
    BY <1>6 DEF Save
  <2>2. i = k
    BY <2>1 DEF TypeOK, Docs
  <2>3. i \notin Free
    BY DEF Free
  <2>4. id[o] = k
    BY <2>1, <2>2, <2>3 DEF SaveIds
  <2> QED
    BY <2>1, <2>2, <2>4 DEF TypeOK
<1>7. ASSUME NEW o \in Objs, Destroy(o)
      PROVE  id[o] = i /\ id'[o] = i
  <2>1. /\ docs' = IF id[o] > 0 THEN [docs EXCEPT ![id[o]] = NoDoc] ELSE docs
        /\ id' = id
    BY <1>7 DEF Destroy, objVars
  <2>2. id[o] = i
    BY <2>1 DEF TypeOK, Docs
  <2> QED
    BY <2>1, <2>2
<1> QED
  BY <1>3, <1>4, <1>5, <1>6, <1>7 DEF Next

THEOREM EdbOwnDocOnly == Spec => OwnDocOnly
<1>1. LoopInv /\ [Next]_vars =>
        [ \A i \in Ids : docs'[i] # docs[i] /\ docs[i] # NoDoc =>
            \E o \in Objs : id[o] = i /\ id'[o] = i ]_vars
  BY OwnOnly DEF LoopInv
<1> QED
  BY <1>1, LoopInvHolds, PTL DEF Spec, OwnDocOnly

=============================================================================
