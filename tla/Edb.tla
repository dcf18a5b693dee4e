--------------------------------- MODULE Edb ---------------------------------
(***************************************************************************)
(* EdbObject and GenDataModel of core/edb.d: objects that query a Mongo    *)
(* collection, loop over the rows of a page, and save or destroy the       *)
(* document they hold.  Objects are used in turn (nested loops of panels,  *)
(* a session saved while rows are looped over), by one thread.             *)
(*                                                                         *)
(* A document is the value of one field, or Missing when it was written    *)
(* before the data model had that field.  The first reply to a query holds *)
(* page_size rows, so the rows of a page do not change while they are      *)
(* looped over; the cursor goes on behind them.  num_results, column and   *)
(* the translation of queries are left out, and so is current when there   *)
(* is no cursor: it is -1 then.                                            *)
(***************************************************************************)
EXTENDS Integers, Sequences, FiniteSets, FiniteSetsExt

CONSTANTS
  Objs,        \* objects of one data model
  MaxId,       \* bound: _ids (31 bits of rand)
  Vals,        \* values of the field
  Default,     \* its value in a new object
  Missing,     \* a document without the field
  Unreadable,  \* values whose rows verify_readable of the model rejects
  NoDoc,
  NoCursor,    \* cursor is null
  PageSizes, PageOffsets,
  Collections, \* what the collection may contain at the start
  Answers      \* queries: what each finds, in the order it asks for

Ids == 1 .. MaxId

Docs == [Ids -> Vals \cup {Missing, NoDoc}]
Rows == [id : Ids, val : Vals \cup {Missing}]

ASSUME EdbAssumption ==
  /\ MaxId \in Nat /\ Default \in Vals /\ Unreadable \subseteq Vals
  /\ Missing \notin Vals /\ NoDoc \notin Vals /\ Missing # NoDoc
  /\ PageSizes \subseteq Nat \ {0} /\ PageOffsets \subseteq Nat
  /\ Collections \subseteq Docs /\ NoCursor \notin Seq(Rows)
  /\ Answers \subseteq [Docs -> Seq(Ids)]
  /\ \A found \in Answers, ds \in Docs :
       \A k \in DOMAIN found[ds] : ds[found[ds][k]] # NoDoc

VARIABLES
  docs,      \* the collection
  id,        \* per object: _id; 0 no document, negative: to be inserted
  val,       \* per object: the field
  cursor,    \* per object: the rows not fetched yet, or NoCursor
  current,   \* per object: index of the row at hand in the page
  pageSize,  \* per object: page_size
  skipLoop,  \* per object: the row at hand was not handed out yet
  page,      \* history: the rows of the page of the last query
  seen       \* history: the _ids loop() has handed out since

objVars == <<id, val, cursor, current, pageSize, skipLoop>>
vars == <<docs, objVars, page, seen>>

Init ==
  /\ docs \in Collections
  /\ id = [o \in Objs |-> 0] /\ val = [o \in Objs |-> Default]
  /\ cursor = [o \in Objs |-> NoCursor]
  /\ current = [o \in Objs |-> -1] /\ pageSize = [o \in Objs |-> 1]
  /\ skipLoop = [o \in Objs |-> FALSE]
  /\ page = [o \in Objs |-> <<>>] /\ seen = [o \in Objs |-> <<>>]

-----------------------------------------------------------------------------
(* The documents a query finds, from the first of a page on.               *)
RowsFrom(order, first) ==
  LET rows == [k \in DOMAIN order |-> [id |-> order[k], val |-> docs[order[k]]]]
  IN  SubSeq(rows, first, Len(rows))

Readable(row) == row.val \notin Unreadable

(* loop() of an object x once skip_loop is out of the way: it fetches rows *)
(* up to one that is readable, and no more than page_size in all; one that *)
(* is not takes up its place in the page.  A field that a row lacks stays  *)
(* as it was.  At the end the cursor is gone and _id is 0.                 *)
(* Mutant of InPage: ++current is compared with <=. *)
InPageAndOne(x) == {k \in DOMAIN x.cursor : x.current + k <= x.pageSize}

InPage(x) == {k \in DOMAIN x.cursor : x.current + k < x.pageSize}

FieldAfter(x, k) ==
  LET given == {j \in 1 .. k : x.cursor[j].val # Missing}
  IN  IF given = {} THEN x.val ELSE x.cursor[Max(given)].val

NextRow(x, k) ==
  [x EXCEPT !.id = x.cursor[k].id, !.val = FieldAfter(x, k),
            !.cursor = SubSeq(x.cursor, k + 1, Len(x.cursor)),
            !.current = @ + k, !.got = TRUE]

LoopOver(x) ==
  [x EXCEPT !.id = 0,
            !.val = IF x.cursor = NoCursor THEN @
                    ELSE FieldAfter(x, Cardinality(InPage(x))),
            !.cursor = NoCursor, !.current = -1, !.got = FALSE]

Advance(x) ==
  IF x.cursor # NoCursor /\ \E k \in InPage(x) : Readable(x.cursor[k])
  THEN NextRow(x, Min({k \in InPage(x) : Readable(x.cursor[k])}))
  ELSE LoopOver(x)

Object(o) ==
  [id |-> id[o], val |-> val[o], cursor |-> cursor[o], current |-> current[o],
   pageSize |-> pageSize[o], got |-> FALSE]

Become(o, x) ==
  /\ id' = [id EXCEPT ![o] = x.id] /\ val' = [val EXCEPT ![o] = x.val]
  /\ cursor' = [cursor EXCEPT ![o] = x.cursor]
  /\ current' = [current EXCEPT ![o] = x.current]
  /\ pageSize' = [pageSize EXCEPT ![o] = x.pageSize]

(* What the constructor with a query does to a new object and load() of a  *)
(* template object to the old one: the first row is fetched at once.       *)
Query(o, y, found, size, offset) ==
  LET rows == RowsFrom(found[docs], offset * size + 1)
      x == Advance([y EXCEPT !.cursor = rows, !.current = -1, !.pageSize = size])
  IN
  /\ Become(o, x)
  /\ skipLoop' = [skipLoop EXCEPT ![o] = x.got]
  /\ page' = [page EXCEPT ![o] = SubSeq(rows, 1, Min({size, Len(rows)}))]
  /\ seen' = [seen EXCEPT ![o] = <<>>]
  /\ UNCHANGED docs

Fresh(o) == [Object(o) EXCEPT !.id = 0, !.val = Default, !.pageSize = 1]

NewByQuery(o, found, size, offset) == Query(o, Fresh(o), found, size, offset)

(* load_id, the result of the object y: no cursor is left behind.          *)
LoadId(y, i) ==
  LET rows == IF docs[i] = NoDoc THEN <<>> ELSE <<[id |-> i, val |-> docs[i]]>>
  IN  [Advance([y EXCEPT !.cursor = rows, !.current = -1])
         EXCEPT !.cursor = NoCursor, !.current = -1]

ById(o, x) ==
  /\ Become(o, x)
  /\ skipLoop' = [skipLoop EXCEPT ![o] = FALSE]
  /\ page' = [page EXCEPT ![o] = <<>>] /\ seen' = [seen EXCEPT ![o] = <<>>]
  /\ UNCHANGED docs

(* The constructor with an id: one that is not there will be given to the  *)
(* document when it is saved.                                              *)
NewById(o, i) ==
  ById(o, IF i = 0 THEN [Fresh(o) EXCEPT !.cursor = NoCursor, !.current = -1]
          ELSE LET x == LoadId(Fresh(o), i) IN [x EXCEPT !.id = IF x.got THEN i ELSE -i])

(* load() of a template object, each time its panel is rendered: by its    *)
(* query; or by an _id, that of a variable or its own, and by no condition *)
(* at all when that is 0.                                                  *)
Load(o, found, size, offset) == Query(o, Object(o), found, size, offset)

LoadById(o, i) ==
  /\ pageSize[o] = 1
  /\ IF i = 0 THEN \E found \in Answers : Load(o, found, 1, 0) ELSE ById(o, LoadId(Object(o), i))

Loop(o) ==
  LET x == IF skipLoop[o] THEN [Object(o) EXCEPT !.got = TRUE] ELSE Advance(Object(o))
  IN
  /\ Become(o, x)
  /\ skipLoop' = [skipLoop EXCEPT ![o] = FALSE]
  /\ seen' = IF x.got THEN [seen EXCEPT ![o] = Append(@, x.id)] ELSE seen
  /\ UNCHANGED <<docs, page>>

Assign(o, v) ==
  /\ val' = [val EXCEPT ![o] = v]
  /\ UNCHANGED <<docs, id, cursor, current, pageSize, skipLoop, page, seen>>

(* save(): an insert is tried again with another random _id as long as the *)
(* database reports an error; an update also inserts.                      *)
Free == {i \in Ids : docs[i] = NoDoc}

(* Mutant of SaveIds: the error of the insert is not looked at. *)
SaveIdsUnchecked(o) ==
  IF id[o] > 0 THEN {id[o]} ELSE IF id[o] < 0 THEN {-id[o]} ELSE Ids

SaveIds(o) ==
  IF id[o] > 0 THEN {id[o]}
  ELSE IF id[o] < 0 /\ -id[o] \in Free THEN {-id[o]} ELSE Free

Save(o, i) ==
  /\ i \in SaveIds(o)
  /\ docs' = [docs EXCEPT ![i] = val[o]]
  /\ id' = [id EXCEPT ![o] = i]
  /\ UNCHANGED <<val, cursor, current, pageSize, skipLoop, page, seen>>

Destroy(o) ==
  /\ docs' = IF id[o] > 0 THEN [docs EXCEPT ![id[o]] = NoDoc] ELSE docs
  /\ UNCHANGED <<objVars, page, seen>>

Next ==
  \E o \in Objs :
    \/ \E found \in Answers, size \in PageSizes, offset \in PageOffsets :
         NewByQuery(o, found, size, offset) \/ Load(o, found, size, offset)
    \/ \E i \in {0} \cup Ids : NewById(o, i)
    \/ \E i \in {0} \cup Ids : LoadById(o, i)
    \/ Loop(o)
    \/ \E v \in Vals \ Unreadable : Assign(o, v)
    \/ \E i \in Ids : Save(o, i)
    \/ Destroy(o)

Spec == Init /\ [][Next]_vars

-----------------------------------------------------------------------------
(* Row k is the n-th readable one of the rows p.                           *)
ReadableIn(p) == {k \in DOMAIN p : Readable(p[k])}
IsNth(n, k, p) == k \in ReadableIn(p) /\ Cardinality(ReadableIn(p) \cap 1 .. k) = n

(* A loop hands out the readable rows of its page, each once and in order, *)
(* and is over only after the last; the object is the row at hand -- even  *)
(* though the first row is fetched before the first loop(), and whatever   *)
(* is queried, saved and destroyed by other objects in between.            *)
LoopExact ==
  \A o \in Objs :
    LET p == page[o]
        atHand == Len(seen[o]) + (IF skipLoop[o] THEN 1 ELSE 0)
    IN
    /\ \A n \in DOMAIN seen[o] : \E k \in DOMAIN p : IsNth(n, k, p) /\ seen[o][n] = p[k].id
    /\ cursor[o] = NoCursor => Len(seen[o]) = Cardinality(ReadableIn(p))
    /\ cursor[o] # NoCursor => \E k \in DOMAIN p : IsNth(atHand, k, p) /\ id[o] = p[k].id

(* A document changes only by a save or destroy of an object that holds    *)
(* it; a new object, and one that has looped to its end, takes an _id that *)
(* no document has.                                                        *)
OwnDocOnly ==
  [][ \A i \in Ids : docs'[i] # docs[i] /\ docs[i] # NoDoc =>
        \E o \in Objs : id[o] = i /\ id'[o] = i ]_vars

=============================================================================
