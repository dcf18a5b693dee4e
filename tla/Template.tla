------------------------------ MODULE Template ------------------------------
(***************************************************************************)
(* What a panel template promises (core/panel.d): its texts appear in      *)
(* order, those of an if where its conditions say so, those of a loop once *)
(* for each row.  No bytecode, no jumps: only the tags, matched with each  *)
(* other, and the part of the page shown so far.                           *)
(*                                                                         *)
(* A comparison that names no variable is reported and left out of its     *)
(* condition.  A condition with none left counts as true in an if and as   *)
(* false in an elseif, as does one joined by || there; a loop over an      *)
(* object that does not exist ("badloop") is an error message and nothing  *)
(* else.                                                                   *)
(***************************************************************************)
EXTENDS Integers, Sequences, FiniteSets, FiniteSetsExt, Functions

VARIABLES
  tags,       \* the template: tags and the texts between them
  rendering,  \* whether a page is being made from it
  env,        \* the values of the variables
  shown       \* texts printed and calls of loop functions, in order

vars == <<tags, rendering, env, shown>>

(* A condition joins parts by && (all) or ||; a part is a comparison, or   *)
(* several, joined likewise, in parentheses.                               *)
Compares(x, rel, y) ==
  CASE rel = "==" -> x = y
    [] rel = "!=" -> x # y
    [] rel = ">"  -> x > y
    [] rel = ">=" -> x >= y
    [] rel = "<"  -> x < y
    [] rel = "<=" -> x <= y

Known(p) == {a \in Range(p.atoms) : a.rel # "unknown"}

PartHolds(p) ==
  LET Atom(a) == Compares(env[a.var], a.rel, a.num)
  IN  IF p.all THEN \A a \in Known(p) : Atom(a) ELSE \E a \in Known(p) : Atom(a)

Named(c) == \E p \in Range(c.parts) : Known(p) # {}

Holds(c) ==
  IF c.all THEN \A p \in Range(c.parts) : PartHolds(p)
  ELSE \E p \in Range(c.parts) : Known(p) # {} /\ PartHolds(p)

-----------------------------------------------------------------------------
(* How tags match. *)
Openers == {k \in DOMAIN tags : tags[k].kind \in {"if", "loop"}}
Closers == {k \in DOMAIN tags : tags[k].kind \in {"endif", "endloop"}}

Depth(k) == Cardinality({o \in Openers : o <= k}) - Cardinality({c \in Closers : c <= k})

Close(o) ==
  Min({c \in Closers : c > o /\ Depth(c) = Depth(o) - 1} \cup {Len(tags) + 1})

OpenOf(c) == Max({o \in Openers : o < c /\ Close(o) = c})

(* The branches of an if begin at it, at its elseifs and at its else.      *)
Branches(o) ==
  {o} \cup {k \in DOMAIN tags : /\ o < k /\ k < Close(o) /\ Depth(k) = Depth(o)
                                /\ tags[k].kind \in {"elseif", "else"}}

BranchOf(o, k) == Max({b \in Branches(o) : b <= k})

Wanted(b) ==
  \/ tags[b].kind = "else"
  \/ tags[b].kind = "if" /\ (Named(tags[b].cond) => Holds(tags[b].cond))
  \/ /\ tags[b].kind = "elseif" /\ tags[b].cond.all
     /\ Named(tags[b].cond) /\ Holds(tags[b].cond)

Taken(o, b) == Wanted(b) /\ \A e \in Branches(o) : e < b => ~Wanted(e)

(* j is reached from k: of each if around j, the branch with j is the one  *)
(* k is in, or the one its conditions choose now.                          *)
Reached(k, j) ==
  \A o \in {i \in Openers : i < j} :
    LET c == Close(o) IN
    tags[o].kind = "if" /\ j < c =>
      IF o <= k /\ k < c THEN BranchOf(o, k) = BranchOf(o, j)
      ELSE Taken(o, BranchOf(o, j))

(* Where the page has come to, and the tags it can stop at next. *)
Position ==
  IF shown = <<>> THEN 0
  ELSE LET last == shown[Len(shown)]
       IN  IF last.what = "end" THEN Close(last.at) ELSE last.at

Stop ==
  LET ahead == {k \in DOMAIN tags : k > Position /\ tags[k].kind \in {"text", "loop", "endloop"}}
      reached == {k \in ahead : Reached(Position, k)}
  IN  IF reached = {} THEN {} ELSE {Min(reached)}

-----------------------------------------------------------------------------
Init == tags = <<>> /\ ~rendering /\ shown = <<>>

Written ==
  /\ ~rendering /\ ~rendering'
  /\ Len(tags') = Len(tags) + 1 /\ SubSeq(tags', 1, Len(tags)) = tags
  /\ UNCHANGED <<env, shown>>

Begin == ~rendering /\ rendering' /\ UNCHANGED <<tags, shown>>

Show(what, k) ==
  /\ shown' = Append(shown, [what |-> what, at |-> k])
  /\ UNCHANGED tags

PrintText(s) == tags[s].kind = "text" /\ Show("text", s) /\ UNCHANGED env

(* A loop asks for its next row when the page comes to it and each time it *)
(* comes to its end; the row sets variables.                               *)
LoopAt(s) == IF tags[s].kind = "loop" THEN s ELSE OpenOf(s)

NextRow(s) == tags[s].kind # "text" /\ Show("row", LoopAt(s))

LoopEnds(s) == tags[s].kind # "text" /\ Show("end", LoopAt(s)) /\ UNCHANGED env

GoOn ==
  /\ rendering /\ rendering' /\ shown' # shown
  /\ \E s \in Stop : PrintText(s) \/ NextRow(s) \/ LoopEnds(s)

Finish == rendering /\ ~rendering' /\ Stop = {} /\ shown' = <<>> /\ UNCHANGED tags

Next == Written \/ Begin \/ GoOn \/ Finish

Spec == Init /\ [][Next]_vars
=============================================================================
