------------------------------ MODULE MCPanel -------------------------------
(* Two variables, one of them set by the rows of loops, and conditions     *)
(* with every comparison, with && and with ||, in parentheses and not, and *)
(* one with a comparison that names no variable.                           *)
EXTENDS Panel

CONSTANTS x, row

MCValues == -1 .. 1

Is(v, rel, n) == [var |-> v, rel |-> rel, num |-> n]
One(a) == [all |-> TRUE, atoms |-> <<a>>]
And(a, b) == [all |-> TRUE, atoms |-> <<a, b>>]
Or(a, b) == [all |-> FALSE, atoms |-> <<a, b>>]

Each(parts) == [all |-> TRUE, parts |-> parts]
Either(parts) == [all |-> FALSE, parts |-> parts]

MCConds ==
  {Each(<<One(Is(row, "==", 1))>>),
   Each(<<One(Is(x, "unknown", 0))>>),
   Either(<<One(Is(x, "<", 1)), One(Is(row, "!=", 1)), One(Is(x, "unknown", 0))>>),
   Each(<<Or(Is(x, "<=", 0), Is(row, ">=", 1)), One(Is(x, ">", 0))>>)}

(* One joined by || is not compiled after an elseif, like one that names   *)
(* no variable: the first stands for both.                                 *)
MCElseifConds == {c \in MCConds : ~Unknown(c)}

(* The condition of the comment at parse_conditions. *)
MCParentheses ==
  {Either(<<And(Is(x, "==", 1), Is(row, "!=", 1)), One(Is(row, "==", 1))>>)}
=============================================================================
