------------------------------- MODULE Panel --------------------------------
(***************************************************************************)
(* Panels of core/panel.d: parse_indent compiles a template, tag by tag,   *)
(* to bytecode (PNLByte) whose jumps are filled in when the tag they lead  *)
(* to is met; render runs the bytecode.                                    *)
(*                                                                         *)
(* A recursion level of parse_indent is a frame.  A tag that closes or     *)
(* splits something no frame of this level has opened ends the level and   *)
(* is looked at again by the one above.                                    *)
(*                                                                         *)
(* Texts, variables and every other tag that appends one byte that prints  *)
(* are "text"; inline errors are not told apart.  A comparison is of a     *)
(* variable with a number ($x is x != 0, !$x is x == 0); the data objects  *)
(* of loops have a loop function.  Locations are counted from 0, as in the *)
(* code: pb_count is Len(code).                                            *)
(***************************************************************************)
EXTENDS Integers, Sequences, FiniteSets, SequencesExt

CONSTANTS
  Vars, Values,   \* variables and the values they take
  RowVars,        \* those that the row of a loop sets
  Conds,          \* the conditions of templates (see Template)
  ElseifConds,    \* those that follow an elseif
  UintMod,        \* 2^32: variables are compared as uint
  MaxTags,        \* bound: tags of a template, texts not counted
  MaxRows,        \* bound: rows of a loop
  NoTag, NoCond

Rels == {"==", "!=", ">", ">=", "<", "<=", "unknown"}

(* A condition joins parts, and a part comparisons, by && (all) or ||.     *)
Atoms == [var : Vars, rel : Rels, num : Int]
Parts == [all : BOOLEAN, atoms : Seq(Atoms) \ {<<>>}]

ASSUME PanelAssumption ==
  /\ RowVars \subseteq Vars /\ Vars # {} /\ Values \subseteq Int /\ Values # {}
  /\ UintMod \in Nat \ {0} /\ MaxTags \in Nat /\ MaxRows \in Nat
  /\ NoCond \notin Conds /\ ElseifConds \subseteq Conds
  /\ Conds \subseteq [all : BOOLEAN, parts : Seq(Parts) \ {<<>>}]

Kinds == {"text", "if", "elseif", "else", "endif", "loop", "badloop", "endloop"}

Tags == [kind : Kinds, cond : Conds \cup {NoCond}]

Places == 1 .. 2 * MaxTags + 1

(* PNLByte: to is new_location; at is the tag it was made for.             *)
Bytes == [op : {"text", "error", "jmp", "cmp", "load", "loop"}, at : Places, to : Nat,
          var : Vars, rel : Rels, num : Int]

(* The locals of parse_indent: condition_jump, jmp_list, loop_return,      *)
(* just_if and start_new_scope.                                            *)
Frames == [conditionJump : SUBSET Nat, jmpList : SUBSET Nat, loopReturn : Int,
           justIf : BOOLEAN, startNewScope : BOOLEAN]

VARIABLES
  tags,    \* the tags compiled so far
  hand,    \* the tag parse_indent looks at
  open,    \* what the author of the template has opened
  frames,  \* the recursion levels of parse_indent
  code,    \* pb
  phase,
  ip,      \* render: the local i
  env,     \* values of the variables
  left,    \* per loop tag: rows its object still has
  shown    \* history: texts printed and calls of loop functions

parseVars == <<tags, hand, open, frames, code>>
renderVars == <<ip, env, left, shown>>
vars == <<parseVars, phase, renderVars>>

Event == [what : {"text", "row", "end"}, at : Places]

(* A jump leads into the code or just behind it.                           *)
TypeOK ==
  /\ tags \in Seq(Tags) /\ hand \in Tags \cup {NoTag}
  /\ open \in Seq({"if", "else", "bad", "loop", "badloop"})
  /\ frames \in Seq(Frames) /\ code \in Seq(Bytes)
  /\ \A n \in DOMAIN code : code[n].to <= Len(code)
  /\ phase \in {"parse", "ready", "render"}
  /\ ip \in 0 .. Len(code)
  /\ env \in [Vars -> Values] /\ left \in [Places -> 0 .. MaxRows]
  /\ shown \in Seq(Event)

NewFrame ==
  [conditionJump |-> {}, jmpList |-> {}, loopReturn |-> -1,
   justIf |-> FALSE, startNewScope |-> TRUE]

Start == [v \in Vars |-> CHOOSE x \in Values : TRUE]

Init ==
  /\ tags = <<>> /\ hand = NoTag /\ open = <<>>
  /\ frames = <<NewFrame>> /\ code = <<>>
  /\ phase = "parse"
  /\ ip = 0 /\ env = Start
  /\ left = [k \in Places |-> 0] /\ shown = <<>>

-----------------------------------------------------------------------------
(* The author writes the next tag: tags match, branches and loops begin    *)
(* with a text, and there is room to close what is open.  What stands      *)
(* behind a condition that does not compile, or in a loop that does not    *)
(* exist, is text.  An elseif compiles no condition joined by ||.          *)
Opened(kinds) == open # <<>> /\ Last(open) \in kinds

Simple == Opened({"bad", "badloop"})

After(kinds) == tags # <<>> /\ Last(tags).kind \in kinds

Room(n) ==
  /\ ~After({"if", "elseif", "else", "loop", "badloop"})
  /\ Cardinality({k \in DOMAIN tags : tags[k].kind # "text"}) + Len(open) + n <= MaxTags

Unknown(c) == \A i \in DOMAIN c.parts : \A j \in DOMAIN c.parts[i].atoms :
                c.parts[i].atoms[j].rel = "unknown"

Opens(k, c) == IF Unknown(c) \/ (k = "elseif" /\ ~c.all) THEN "bad" ELSE "if"

AuthorWrites(t, o) ==
  /\ phase = "parse" /\ hand = NoTag
  /\ hand' = t /\ open' = o
  /\ UNCHANGED <<tags, frames, code, phase, renderVars>>

Plain(k) == [kind |-> k, cond |-> NoCond]

Author ==
  \/ /\ ~After({"text"})
     /\ AuthorWrites(Plain("text"), open)
  \/ /\ Room(2) /\ ~Simple
     /\ \E c \in Conds :
          AuthorWrites([kind |-> "if", cond |-> c], Append(open, Opens("if", c)))
  \/ /\ Room(1) /\ Opened({"if", "bad"})
     /\ \E c \in ElseifConds :
          AuthorWrites([kind |-> "elseif", cond |-> c], Append(Front(open), Opens("elseif", c)))
  \/ /\ Room(1) /\ Opened({"if", "bad"})
     /\ AuthorWrites(Plain("else"), Append(Front(open), "else"))
  \/ /\ Room(0) /\ Opened({"if", "bad", "else"})
     /\ AuthorWrites(Plain("endif"), Front(open))
  \/ /\ Room(2) /\ ~Simple
     /\ AuthorWrites(Plain("loop"), Append(open, "loop"))
  \/ /\ Room(2) /\ open = <<>>
     /\ AuthorWrites(Plain("badloop"), Append(open, "badloop"))
  \/ /\ Room(0) /\ Opened({"loop", "badloop"})
     /\ AuthorWrites(Plain("endloop"), Front(open))

-----------------------------------------------------------------------------
(* Bytecode. *)
Byte(op, to) ==
  [op |-> op, at |-> Len(tags) + 1, to |-> to,
   var |-> CHOOSE v \in Vars : TRUE, rel |-> "==", num |-> 0]

Error == Byte("error", 0)
Jmp(to) == Byte("jmp", to)

(* new_location of the bytes in places is set.                             *)
Patch(bytes, places, to) ==
  [n \in DOMAIN bytes |->
     IF n - 1 \in places THEN [bytes[n] EXCEPT !.to = to] ELSE bytes[n]]

Opposite(rel) ==
  CASE rel = "==" -> "!=" [] rel = "!=" -> "=="
    [] rel = ">"  -> "<=" [] rel = "<=" -> ">"
    [] rel = "<"  -> ">=" [] rel = ">=" -> "<"

(* parse_condition: a comparison jumps out of the if when it fails, or,    *)
(* among those joined by ||, into it when it holds.                        *)
ParseCondition(s, a, isAnd) ==
  IF a.rel = "unknown" THEN [s EXCEPT !.code = Append(@, Error)]
  ELSE
  LET cmp == [Byte("cmp", 0) EXCEPT !.var = a.var, !.num = a.num,
                                    !.rel = IF isAnd THEN Opposite(a.rel) ELSE a.rel]
      n == {Len(s.code)}
  IN  [code |-> Append(s.code, cmp),
       outside |-> IF isAnd THEN s.outside \cup n ELSE s.outside,
       inside |-> IF isAnd THEN s.inside ELSE s.inside \cup n]

AtomsParsed(s, p) ==
  LET upTo[n \in 0 .. Len(p.atoms)] ==
        IF n = 0 THEN [s EXCEPT !.outside = {}, !.inside = {}]
        ELSE ParseCondition(upTo[n - 1], p.atoms[n], p.all)
  IN  upTo[Len(p.atoms)]

(* parse_conditions on a part.  Of a part in parentheses, the jumps        *)
(* outside are forgotten when it is one of several joined by ||.           *)
ParsePart(s, p, isAnd) ==
  IF Len(p.atoms) = 1 THEN ParseCondition(s, p.atoms[1], isAnd)
  ELSE
  LET l == AtomsParsed(s, p)
      jmp == isAnd /\ ~p.all
      bytes == IF jmp THEN Append(l.code, Jmp(0)) ELSE l.code
  IN  [code |-> Patch(bytes, l.inside, Len(bytes)),
       outside |-> IF isAnd
                   THEN s.outside \cup l.outside \cup (IF jmp THEN {Len(l.code)} ELSE {})
                   ELSE s.outside,
       inside |-> s.inside]

ParseConditions(bytes, c) ==
  LET upTo[n \in 0 .. Len(c.parts)] ==
        IF n = 0 THEN [code |-> bytes, outside |-> {}, inside |-> {}]
        ELSE ParsePart(upTo[n - 1], c.parts[n], c.all)
  IN  upTo[Len(c.parts)]

-----------------------------------------------------------------------------
(* parse_indent, one tag. *)
Frame == Last(frames)

Looks(kinds) == phase = "parse" /\ hand # NoTag /\ hand.kind \in kinds

(* The tag is dealt with; bytes is the code and f this level after it.     *)
Compiled(bytes, f) ==
  /\ code' = bytes
  /\ frames' = Append(Front(frames), f)
  /\ tags' = Append(tags, hand) /\ hand' = NoTag
  /\ UNCHANGED <<open, phase, renderVars>>

(* The same, and parse_indent calls itself for what follows.               *)
CompiledNested(bytes, f) ==
  /\ code' = bytes
  /\ frames' = Front(frames) \o <<f, NewFrame>>
  /\ tags' = Append(tags, hand) /\ hand' = NoTag
  /\ UNCHANGED <<open, phase, renderVars>>

Text == Looks({"text"}) /\ Compiled(Append(code, Byte("text", 0)), Frame)

If ==
  LET l == ParseConditions(code, hand.cond)
      f == [Frame EXCEPT !.startNewScope = FALSE, !.justIf = TRUE]
      bytes == IF hand.cond.all THEN l.code ELSE Append(l.code, Jmp(0))
      jmp == IF hand.cond.all THEN {} ELSE {Len(l.code)}
  IN
  /\ Looks({"if"})
  /\ IF l.outside # {} \/ l.inside # {}
     THEN CompiledNested(Patch(bytes, l.inside, Len(bytes)),
                         [f EXCEPT !.conditionJump = @ \cup jmp \cup l.outside])
     ELSE Compiled(Append(l.code, Error), f)

(* The jumps that led past the branch before are sent to the last byte of  *)
(* the new condition.                                                      *)
Elseif ==
  LET l == ParseConditions(Append(code, Jmp(0)), hand.cond)
      f == [Frame EXCEPT !.justIf = TRUE, !.jmpList = @ \cup {Len(code)}]
      last == Len(l.code) - 1
  IN
  /\ Looks({"elseif"}) /\ ~Frame.startNewScope
  /\ IF l.outside = {} THEN Compiled(Append(l.code, Error), f)
     ELSE IF Frame.conditionJump = {} THEN CompiledNested(l.code, f)
     ELSE CompiledNested(Patch(l.code, l.inside \cup Frame.conditionJump, last),
                         [f EXCEPT !.conditionJump = l.outside])

(* Mutant of Else: the jumps are sent to the jmp before it. *)
ElseAtJump ==
  LET bytes == Append(code, Jmp(0)) IN
  /\ Looks({"else"}) /\ ~Frame.startNewScope
  /\ CompiledNested(Patch(bytes, Frame.conditionJump, Len(code)),
                    [Frame EXCEPT !.justIf = FALSE, !.jmpList = @ \cup {Len(code)},
                                  !.conditionJump = {}])

Else ==
  LET bytes == Append(code, Jmp(0)) IN
  /\ Looks({"else"}) /\ ~Frame.startNewScope
  /\ CompiledNested(Patch(bytes, Frame.conditionJump, Len(bytes)),
                    [Frame EXCEPT !.justIf = FALSE, !.jmpList = @ \cup {Len(code)},
                                  !.conditionJump = {}])

(* Mutants of Endif: only the ends of branches are filled in; the jumps    *)
(* lead one byte too far.                                                  *)
EndifEndsOnly ==
  /\ Looks({"endif"}) /\ ~Frame.startNewScope
  /\ Compiled(Patch(code, Frame.jmpList, Len(code)),
              [Frame EXCEPT !.startNewScope = TRUE, !.conditionJump = {},
                            !.justIf = FALSE, !.jmpList = {}])

EndifTooFar ==
  /\ Looks({"endif"}) /\ ~Frame.startNewScope
  /\ Compiled(Patch(code, Frame.conditionJump \cup Frame.jmpList, Len(code) + 1),
              [Frame EXCEPT !.startNewScope = TRUE, !.conditionJump = {},
                            !.justIf = FALSE, !.jmpList = {}])

Endif ==
  LET behind == IF Frame.justIf THEN Len(code) ELSE Len(code) - 1 IN
  /\ Looks({"endif"}) /\ ~Frame.startNewScope
  /\ Compiled(Patch(Patch(code, Frame.conditionJump, behind), Frame.jmpList, Len(code)),
              [Frame EXCEPT !.startNewScope = TRUE, !.conditionJump = {},
                            !.justIf = FALSE, !.jmpList = {}])

Loop ==
  /\ Looks({"loop"})
  /\ CompiledNested(code \o <<Byte("load", 0), Byte("loop", 0)>>,
                    [Frame EXCEPT !.startNewScope = FALSE, !.loopReturn = Len(code) + 1])

LoopUnknown == Looks({"badloop"}) /\ Compiled(Append(code, Error), Frame)

Endloop ==
  LET f == [Frame EXCEPT !.startNewScope = TRUE, !.loopReturn = -1]
      bytes == Append(code, Jmp(Frame.loopReturn))
  IN
  /\ Looks({"endloop"}) /\ ~Frame.startNewScope
  /\ IF Frame.loopReturn >= 0
     THEN Compiled(Patch(bytes, {Frame.loopReturn}, Len(bytes)), f)
     ELSE Compiled(Append(code, Error), f)

(* The rest of the template is not looked at when the first level returns. *)
ParseEnds ==
  /\ phase' = "ready" /\ hand' = NoTag /\ frames' = <<>> /\ open' = <<>>
  /\ UNCHANGED <<tags, code, renderVars>>

ReturnTextEnd ==
  /\ Looks({"elseif", "else", "endif", "endloop"}) /\ Frame.startNewScope
  /\ \/ /\ Len(frames) > 1
        /\ frames' = Front(frames)
        /\ UNCHANGED <<tags, hand, open, code, phase, renderVars>>
     \/ Len(frames) = 1 /\ ParseEnds

EndOfText == phase = "parse" /\ hand = NoTag /\ open = <<>> /\ ParseEnds

ParseIndent ==
  \/ Text \/ If \/ Elseif \/ Else \/ Endif \/ Loop \/ LoopUnknown \/ Endloop
  \/ ReturnTextEnd \/ EndOfText

-----------------------------------------------------------------------------
(* render, one byte.  The variables have any values when it begins.        *)
Request ==
  /\ phase = "ready"
  /\ phase' = "render" /\ env' \in [Vars -> Values]
  /\ UNCHANGED <<parseVars, ip, left, shown>>

Running(op) == phase = "render" /\ ip < Len(code) /\ code[ip + 1].op = op

It == code[ip + 1]

Holding(x, rel, y) ==
  CASE rel = "==" -> x = y  [] rel = "!=" -> x # y
    [] rel = ">"  -> x > y  [] rel = ">=" -> x >= y
    [] rel = "<"  -> x < y  [] rel = "<=" -> x <= y

Jumps == Holding(env[It.var] % UintMod, It.rel, It.num % UintMod)

PrintText ==
  /\ Running("text")
  /\ shown' = Append(shown, [what |-> "text", at |-> It.at])
  /\ ip' = ip + 1
  /\ UNCHANGED <<parseVars, phase, env, left>>

PrintError ==
  /\ Running("error")
  /\ ip' = ip + 1
  /\ UNCHANGED <<parseVars, phase, env, left, shown>>

Jump ==
  /\ \/ Running("jmp") /\ ip' = It.to
     \/ Running("cmp") /\ ip' = IF Jumps THEN It.to ELSE ip + 1
  /\ UNCHANGED <<parseVars, phase, env, left, shown>>

(* The object of a loop is queried, and asked for its rows one by one.     *)
LoadObject ==
  /\ Running("load")
  /\ \E n \in 0 .. MaxRows : left' = [left EXCEPT ![It.at] = n]
  /\ ip' = ip + 1
  /\ UNCHANGED <<parseVars, phase, env, shown>>

CallLoop ==
  /\ Running("loop")
  /\ \/ /\ left[It.at] > 0
        /\ left' = [left EXCEPT ![It.at] = @ - 1]
        /\ \E row \in [RowVars -> Values] :
             env' = [v \in Vars |-> IF v \in RowVars THEN row[v] ELSE env[v]]
        /\ shown' = Append(shown, [what |-> "row", at |-> It.at])
        /\ ip' = ip + 1
     \/ /\ left[It.at] = 0
        /\ shown' = Append(shown, [what |-> "end", at |-> It.at])
        /\ ip' = It.to
        /\ UNCHANGED <<left, env>>
  /\ UNCHANGED <<parseVars, phase>>

(* The values are forgotten, since the next request may bring any.         *)
RenderEnds ==
  /\ phase = "render" /\ ip = Len(code)
  /\ phase' = "ready" /\ ip' = 0 /\ env' = Start /\ shown' = <<>>
  /\ UNCHANGED <<parseVars, left>>

Render == PrintText \/ PrintError \/ Jump \/ LoadObject \/ CallLoop \/ RenderEnds

Next == Author \/ ParseIndent \/ Request \/ Render

Spec == Init /\ [][Next]_vars

(* render is a loop that nothing interrupts. *)
FairSpec == Spec /\ WF_vars(Render)

-----------------------------------------------------------------------------
(* What the compiler gets wrong.  Of parentheses in a condition joined by  *)
(* ||, no jump out of them is kept, and the jumps into the if lead to what *)
(* follows the parentheses ("BAD LOGIC").  The jumps past the branch       *)
(* before an elseif are sent to the last of its comparisons, so the others *)
(* are not looked at.                                                      *)
Joined(p) == Len(p.atoms) > 1

LosesParentheses(t) ==
  t.kind = "if" /\ ~t.cond.all /\ \E i \in DOMAIN t.cond.parts : Joined(t.cond.parts[i])

SkipsComparisons(t) ==
  t.kind = "elseif" /\ (Len(t.cond.parts) > 1 \/ Joined(t.cond.parts[1]))

(* What the renderer gets wrong: a negative number counts as a large one   *)
(* where order is asked for.                                               *)
OrdersNegative(t) ==
  /\ t.kind \in {"if", "elseif"}
  /\ \E i \in DOMAIN t.cond.parts : \E a \in Range(t.cond.parts[i].atoms) :
       a.rel \in {">", ">=", "<", "<="} /\ (a.num < 0 \/ env[a.var] < 0)

Excepted ==
  \E t \in Range(tags) : LosesParentheses(t) \/ SkipsComparisons(t) \/ OrdersNegative(t)

Meaning == INSTANCE Template WITH rendering <- phase = "render"

(* The page is what the template says: every jump that was filled in when  *)
(* its tag was met leads where the matching tags lead, through nested ifs, *)
(* their elseifs and elses, loops and conditions in parentheses.  Nothing  *)
(* is said of a page whose template has one of the conditions above.       *)
ImplementsTemplate ==
  Meaning!Init /\ [][Excepted \/ Meaning!Next]_(Meaning!vars)

(* The comment at parse_conditions (panel.d:1609) compiles the condition   *)
(* (a && b) || c of an if: the page goes on with c where a or b fails, and *)
(* does not look at c where both hold.  The code leaves the jumps of a and *)
(* b as they are, to the first byte, and has none past c.                  *)
DocumentedConditions == Meaning!Init /\ [][Meaning!Next]_(Meaning!vars)

(* Every page is finished.  A jump that was never filled in leads to the   *)
(* first byte, and the one thread of the server would go round for ever;   *)
(* as it does where parentheses joined by && are one side of an ||.        *)
PageIsFinished ==
  (phase = "render" /\ ~(\E t \in Range(tags) : LosesParentheses(t))) ~> phase = "ready"
=============================================================================
