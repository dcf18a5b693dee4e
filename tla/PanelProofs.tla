---------------------------- MODULE PanelProofs -----------------------------
(***************************************************************************)
(* Whatever a template is and whatever its variables and rows are, render  *)
(* stays inside the bytecode: every jump, filled in or not, leads into it  *)
(* or just behind it, and what is printed was made for a tag there is.     *)
(***************************************************************************)
EXTENDS Panel, FiniteSetTheorems, SequenceTheorems, WellFoundedInduction, TLAPS

-----------------------------------------------------------------------------
(* Iterations over the numbers from 0 to n.                                *)

LEMMA LeastNumber ==
  ASSUME NEW T \in SUBSET Nat, T # {}
  PROVE  \E c \in T : \A d \in T : c =< d
<1>0. T \subseteq Nat
  OBVIOUS
<1>1. PICK c \in T : \A d \in T : ~ (<<d, c>> \in OpToRel(<, Nat))
  BY <1>0, NatLessThanWellFounded, WFMin
<1>2. c \in Nat /\ \A d \in T : d \in Nat /\ ~ (d < c)
  BY <1>0, <1>1 DEF OpToRel
<1> QED
  BY <1>2

LEMMA NumbersIn ==
  ASSUME NEW S, 0 \in S, \A n \in Nat : n \in S => n + 1 \in S
  PROVE  \A n \in Nat : n \in S
<1>1. SUFFICES ASSUME Nat \ S # {} PROVE FALSE
  OBVIOUS
<1>2. PICK c \in Nat \ S : \A d \in Nat \ S : c =< d
  BY <1>1, LeastNumber
<1>3. c \in Nat /\ c # 0
  BY <1>2
<1>4. c - 1 \in Nat /\ ~ (c =< c - 1) /\ (c - 1) + 1 = c
  BY <1>3
<1>5. c - 1 \in S
  BY <1>2, <1>4
<1> QED
  BY <1>2, <1>4, <1>5

(* F[n][w] is what the n-th turn makes of w.                               *)
Turns(g, N, X, x, F) ==
  /\ g \in [0 .. N -> X]
  /\ g[0] = x
  /\ \A n \in 1 .. N : g[n] = F[n][g[n - 1]]

LEMMA TurnsExist ==
  ASSUME NEW X, NEW x \in X, NEW F \in [Nat -> [X -> X]]
  PROVE  \A n \in Nat : \E g : Turns(g, n, X, x, F)
<1> DEFINE S == {n \in Nat : \E g : Turns(g, n, X, x, F)}
<1>1. 0 \in S
  <2>1. Turns([m \in 0 .. 0 |-> x], 0, X, x, F)
    BY DEF Turns
  <2> QED
    BY <2>1
<1>2. ASSUME NEW n \in Nat, n \in S PROVE n + 1 \in S
  <2>1. PICK g : Turns(g, n, X, x, F)
    BY <1>2
  <2> DEFINE h == [m \in 0 .. n + 1 |-> IF m = n + 1 THEN F[n + 1][g[n]] ELSE g[m]]
  <2>2. F[n + 1][g[n]] \in X
    BY <2>1 DEF Turns
  <2>3. h \in [0 .. n + 1 -> X]
    BY <2>1, <2>2 DEF Turns
  <2>4. \A m \in 0 .. n : h[m] = g[m]
    OBVIOUS
  <2>5. h[n + 1] = F[n + 1][g[n]]
    OBVIOUS
  <2> HIDE DEF h
  <2>6. ASSUME NEW m \in 1 .. n + 1 PROVE h[m] = F[m][h[m - 1]]
    <3>1. CASE m = n + 1
      <4>1. m - 1 = n /\ n \in 0 .. n
        BY <3>1
      <4> QED
        BY <3>1, <4>1, <2>4, <2>5
    <3>2. CASE m # n + 1
      <4>1. m \in 1 .. n /\ m \in 0 .. n /\ m - 1 \in 0 .. n
        BY <3>2
      <4> QED
        BY <4>1, <2>1, <2>4 DEF Turns
    <3> QED
      BY <3>1, <3>2
  <2>7. h[0] = x
    BY <2>1, <2>4 DEF Turns
  <2>8. Turns(h, n + 1, X, x, F)
    BY <2>3, <2>6, <2>7 DEF Turns
  <2> QED
    BY <2>8
<1> HIDE DEF S
<1>3. \A n \in Nat : n \in S
  BY <1>1, <1>2, NumbersIn
<1> QED
  BY <1>3 DEF S

-----------------------------------------------------------------------------
(* Bytecode of at least k bytes whose jumps lead into it or just behind.   *)
JumpsInside(bytes) == \A n \in DOMAIN bytes : bytes[n].to =< Len(bytes)
Programs(k) == {bytes \in Seq(Bytes) : JumpsInside(bytes) /\ k =< Len(bytes)}

(* What the parsing of conditions carries along.                           *)
Compiles(k) == [code : Programs(k), outside : SUBSET Nat, inside : SUBSET Nat]

(* The tag at hand has a place.                                            *)
HasPlace == tags \in Seq(Tags) /\ Len(tags) + 1 \in Places

LEMMA Appended ==
  ASSUME NEW k \in Nat, NEW bytes \in Programs(k), NEW x \in Bytes, x.to =< Len(bytes) + 1
  PROVE  /\ Append(bytes, x) \in Programs(k)
         /\ Len(Append(bytes, x)) = Len(bytes) + 1
<1>1. bytes \in Seq(Bytes) /\ Len(bytes) \in Nat /\ k =< Len(bytes) /\ JumpsInside(bytes)
  BY DEF Programs
<1> DEFINE b == Append(bytes, x)
<1>2. /\ b \in Seq(Bytes) /\ Len(b) = Len(bytes) + 1
      /\ \A n \in 1 .. Len(bytes) : b[n] = bytes[n]
      /\ b[Len(bytes) + 1] = x
  BY <1>1
<1>3. ASSUME NEW n \in DOMAIN b PROVE b[n].to =< Len(b)
  <2>1. n \in 1 .. Len(bytes) + 1
    BY <1>2, <1>3
  <2>2. CASE n = Len(bytes) + 1
    BY <1>2, <2>2
  <2>3. CASE n # Len(bytes) + 1
    <3>1. n \in 1 .. Len(bytes) /\ bytes[n] \in Bytes
      BY <1>1, <2>1, <2>3
    <3>2. bytes[n].to \in Nat /\ bytes[n].to =< Len(bytes)
      BY <1>1, <3>1 DEF JumpsInside, Bytes
    <3> QED
      BY <1>1, <1>2, <3>1, <3>2
  <2> QED
    BY <2>1, <2>2, <2>3
<1> HIDE DEF b
<1>4. b \in Programs(k)
  BY <1>1, <1>2, <1>3 DEF Programs, JumpsInside
<1> QED
  BY <1>2, <1>4 DEF b

(* Places behind the bytes are not written, so that the location need not  *)
(* be one when there are no bytes.                                         *)
LEMMA Patched ==
  ASSUME NEW k \in Nat, NEW bytes \in Programs(k), NEW places, NEW to \in Int,
         to =< Len(bytes), Len(bytes) > 0 => to >= 0
  PROVE  /\ Patch(bytes, places, to) \in Programs(k)
         /\ Len(Patch(bytes, places, to)) = Len(bytes)
<1>1. /\ bytes \in Seq(Bytes) /\ Len(bytes) \in Nat /\ k =< Len(bytes) /\ JumpsInside(bytes)
      /\ DOMAIN bytes = 1 .. Len(bytes)
  BY DEF Programs
<1> DEFINE b == Patch(bytes, places, to)
<1>2. DOMAIN b = 1 .. Len(bytes)
  BY <1>1 DEF Patch
<1>3. ASSUME NEW n \in 1 .. Len(bytes)
      PROVE  b[n] \in Bytes /\ b[n].to =< Len(bytes)
  <2>1. bytes[n] \in Bytes /\ bytes[n].to =< Len(bytes)
    BY <1>1 DEF JumpsInside
  <2>2. to \in Nat
    BY <1>1
  <2>3. [bytes[n] EXCEPT !.to = to] \in Bytes /\ [bytes[n] EXCEPT !.to = to].to = to
    BY <2>1, <2>2 DEF Bytes
  <2>4. b[n] = IF n - 1 \in places THEN [bytes[n] EXCEPT !.to = to] ELSE bytes[n]
    BY <1>1 DEF Patch
  <2> QED
    BY <2>1, <2>3, <2>4
<1>4. b \in [1 .. Len(bytes) -> Bytes]
  BY <1>1, <1>3 DEF Patch
<1> HIDE DEF b
<1>5. b \in Seq(Bytes) /\ Len(b) = Len(bytes)
  BY <1>1, <1>4
<1> QED
  BY <1>1, <1>2, <1>3, <1>5 DEF Programs, JumpsInside, b

LEMMA ByteType ==
  ASSUME HasPlace, NEW op \in {"text", "error", "jmp", "cmp", "load", "loop"}, NEW to \in Nat
  PROVE  Byte(op, to) \in Bytes /\ Byte(op, to).to = to
<1>1. (CHOOSE v \in Vars : TRUE) \in Vars
  BY PanelAssumption
<1>2. "==" \in Rels
  BY DEF Rels
<1> QED
  BY <1>1, <1>2 DEF Byte, Bytes, HasPlace

LEMMA OppositeType ==
  ASSUME NEW rel \in Rels, rel # "unknown"
  PROVE  Opposite(rel) \in Rels
BY DEF Rels, Opposite

-----------------------------------------------------------------------------
(* Conditions.                                                             *)

LEMMA ConditionParsed ==
  ASSUME HasPlace, NEW k \in Nat, NEW s \in Compiles(k), NEW a \in Atoms, NEW isAnd
  PROVE  ParseCondition(s, a, isAnd) \in Compiles(k)
<1>1. /\ s = [code |-> s.code, outside |-> s.outside, inside |-> s.inside]
      /\ s.code \in Programs(k) /\ s.outside \in SUBSET Nat /\ s.inside \in SUBSET Nat
      /\ Len(s.code) \in Nat
  BY DEF Compiles, Programs
<1>2. CASE a.rel = "unknown"
  <2>1. Error \in Bytes /\ Error.to = 0
    BY ByteType DEF Error
  <2>2. Append(s.code, Error) \in Programs(k)
    BY <1>1, <2>1, Appended
  <2>3. [s EXCEPT !.code = Append(@, Error)] \in Compiles(k)
    BY <1>1, <2>2 DEF Compiles
  <2> QED
    BY <1>2, <2>3 DEF ParseCondition
<1>3. CASE a.rel # "unknown"
  <2> DEFINE rel == IF isAnd THEN Opposite(a.rel) ELSE a.rel
             cmp == [Byte("cmp", 0) EXCEPT !.var = a.var, !.num = a.num, !.rel = rel]
  <2>1. a.var \in Vars /\ a.rel \in Rels /\ a.num \in Int
    BY DEF Atoms
  <2>2. rel \in Rels
    BY <1>3, <2>1, OppositeType
  <2>3. Byte("cmp", 0) \in Bytes /\ Byte("cmp", 0).to = 0
    BY ByteType
  <2> HIDE DEF rel
  <2>4. cmp \in Bytes /\ cmp.to = 0
    BY <2>1, <2>2, <2>3 DEF Bytes
  <2> HIDE DEF cmp
  <2>5. Append(s.code, cmp) \in Programs(k)
    BY <1>1, <2>4, Appended
  <2>6. ParseCondition(s, a, isAnd) =
          [code |-> Append(s.code, cmp),
           outside |-> IF isAnd THEN s.outside \cup {Len(s.code)} ELSE s.outside,
           inside |-> IF isAnd THEN s.inside ELSE s.inside \cup {Len(s.code)}]
    BY <1>3 DEF ParseCondition, cmp, rel
  <2>7. /\ (IF isAnd THEN s.outside \cup {Len(s.code)} ELSE s.outside) \in SUBSET Nat
        /\ (IF isAnd THEN s.inside ELSE s.inside \cup {Len(s.code)}) \in SUBSET Nat
    BY <1>1
  <2> QED
    BY <2>5, <2>6, <2>7 DEF Compiles
<1> QED
  BY <1>2, <1>3

LEMMA AtomsAllParsed ==
  ASSUME HasPlace, NEW k \in Nat, NEW s \in Compiles(k), NEW p \in Parts
  PROVE  AtomsParsed(s, p) \in Compiles(k)
<1> DEFINE X == Compiles(k)
           N == Len(p.atoms)
           x == [s EXCEPT !.outside = {}, !.inside = {}]
           F == [n \in Nat |-> [w \in X |-> IF n \in 1 .. N THEN ParseCondition(w, p.atoms[n], p.all)
                                            ELSE w]]
           P(f) == f = [n \in 0 .. N |-> IF n = 0 THEN x
                                         ELSE ParseCondition(f[n - 1], p.atoms[n], p.all)]
<1>1. p.atoms \in Seq(Atoms) /\ N \in Nat /\ \A n \in 1 .. N : p.atoms[n] \in Atoms
  BY DEF Parts
<1>2. x \in X
  BY DEF Compiles
<1>3. \A n \in 1 .. N : \A w \in X : ParseCondition(w, p.atoms[n], p.all) \in X
  BY <1>1, ConditionParsed
<1>4. F \in [Nat -> [X -> X]]
  BY <1>3
<1>5. \A n \in 1 .. N : \A w \in X : F[n][w] = ParseCondition(w, p.atoms[n], p.all)
  BY <1>1
<1> HIDE DEF X, N, x, F
<1>6. PICK g : Turns(g, N, X, x, F)
  BY <1>1, <1>2, <1>4, TurnsExist
<1>7. g \in [0 .. N -> X] /\ g[0] = x /\ \A n \in 1 .. N : g[n] = F[n][g[n - 1]]
  BY <1>6 DEF Turns
<1>8. ASSUME NEW n \in 0 .. N, n # 0 PROVE g[n] = ParseCondition(g[n - 1], p.atoms[n], p.all)
  <2>1. n \in 1 .. N /\ n - 1 \in 0 .. N
    BY <1>1, <1>8
  <2> QED
    BY <1>5, <1>7, <2>1
<1>9. P(g)
  BY <1>7, <1>8
<1> DEFINE upTo == CHOOSE f : P(f)
<1>10. P(upTo)
  BY <1>9
<1>11. AtomsParsed(s, p) = upTo[N]
  BY DEF AtomsParsed, N, x
<1>12. upTo = [n \in 0 .. N |-> IF n = 0 THEN x
                                ELSE ParseCondition(upTo[n - 1], p.atoms[n], p.all)]
  BY <1>10
<1> HIDE DEF upTo, P
<1>13. upTo[0] = x
  BY <1>1, <1>12
<1>14. ASSUME NEW n \in 1 .. N PROVE upTo[n] = ParseCondition(upTo[n - 1], p.atoms[n], p.all)
  <2>1. n \in 0 .. N /\ n # 0
    BY <1>1
  <2> QED
    BY <1>12, <2>1
<1> DEFINE S == {n \in Nat : n =< N => upTo[n] \in X}
<1>15. 0 \in S
  BY <1>2, <1>13
<1>16. ASSUME NEW n \in Nat, n \in S PROVE n + 1 \in S
  <2>1. SUFFICES ASSUME n + 1 =< N PROVE upTo[n + 1] \in X
    OBVIOUS
  <2>2. n + 1 \in 1 .. N /\ (n + 1) - 1 = n /\ n =< N
    BY <1>1, <2>1
  <2>3. upTo[n] \in X
    BY <1>16, <2>2
  <2>4. upTo[n + 1] = ParseCondition(upTo[n], p.atoms[n + 1], p.all)
    BY <1>14, <2>2
  <2> QED
    BY <1>3, <2>2, <2>3, <2>4
<1> HIDE DEF S
<1>17. \A n \in Nat : n \in S
  BY <1>15, <1>16, NumbersIn
<1> QED
  BY <1>1, <1>11, <1>17 DEF S, X

LEMMA PartParsed ==
  ASSUME HasPlace, NEW k \in Nat, NEW s \in Compiles(k), NEW p \in Parts, NEW isAnd
  PROVE  ParsePart(s, p, isAnd) \in Compiles(k)
<1>1. /\ s.code \in Programs(k) /\ s.outside \in SUBSET Nat /\ s.inside \in SUBSET Nat
      /\ p.atoms \in Seq(Atoms) /\ p.atoms # <<>>
  BY DEF Compiles, Parts
<1>2. CASE Len(p.atoms) = 1
  <2>1. p.atoms[1] \in Atoms
    BY <1>1, <1>2
  <2> QED
    BY <1>2, <2>1, ConditionParsed DEF ParsePart
<1>3. CASE Len(p.atoms) # 1
  <2> DEFINE l == AtomsParsed(s, p)
             jmp == isAnd /\ ~p.all
             bytes == IF jmp THEN Append(l.code, Jmp(0)) ELSE l.code
             outside == IF isAnd
                        THEN s.outside \cup l.outside \cup (IF jmp THEN {Len(l.code)} ELSE {})
                        ELSE s.outside
  <2>1. l \in Compiles(k)
    BY AtomsAllParsed
  <2> HIDE DEF l
  <2>2. l.code \in Programs(k) /\ l.outside \in SUBSET Nat /\ Len(l.code) \in Nat
    BY <2>1 DEF Compiles, Programs
  <2>3. Jmp(0) \in Bytes /\ Jmp(0).to = 0
    BY ByteType DEF Jmp
  <2>4. Append(l.code, Jmp(0)) \in Programs(k)
    BY <2>2, <2>3, Appended
  <2>5. bytes \in Programs(k)
    BY <2>2, <2>4
  <2>6. outside \in SUBSET Nat
    BY <1>1, <2>2
  <2> HIDE DEF bytes, outside
  <2>7. Len(bytes) \in Nat
    BY <2>5 DEF Programs
  <2>8. Patch(bytes, l.inside, Len(bytes)) \in Programs(k)
    BY <2>5, <2>7, Patched
  <2>9. ParsePart(s, p, isAnd) =
          [code |-> Patch(bytes, l.inside, Len(bytes)), outside |-> outside, inside |-> s.inside]
    BY <1>3 DEF ParsePart, l, bytes, outside
  <2> QED
    BY <1>1, <2>6, <2>8, <2>9 DEF Compiles
<1> QED
  BY <1>2, <1>3

LEMMA ConditionsParsed ==
  ASSUME HasPlace, NEW k \in Nat, NEW bytes \in Programs(k), NEW c \in Conds
  PROVE  ParseConditions(bytes, c) \in Compiles(k)
<1> DEFINE X == Compiles(k)
           N == Len(c.parts)
           x == [code |-> bytes, outside |-> {}, inside |-> {}]
           F == [n \in Nat |-> [w \in X |-> IF n \in 1 .. N THEN ParsePart(w, c.parts[n], c.all)
                                            ELSE w]]
           P(f) == f = [n \in 0 .. N |-> IF n = 0 THEN x
                                         ELSE ParsePart(f[n - 1], c.parts[n], c.all)]
<1>1. c.parts \in Seq(Parts) /\ N \in Nat /\ \A n \in 1 .. N : c.parts[n] \in Parts
  <2>1. c \in [all : BOOLEAN, parts : Seq(Parts) \ {<<>>}]
    BY PanelAssumption
  <2> QED
    BY <2>1
<1>2. x \in X
  BY DEF Compiles
<1>3. \A n \in 1 .. N : \A w \in X : ParsePart(w, c.parts[n], c.all) \in X
  BY <1>1, PartParsed
<1>4. F \in [Nat -> [X -> X]]
  BY <1>3
<1>5. \A n \in 1 .. N : \A w \in X : F[n][w] = ParsePart(w, c.parts[n], c.all)
  BY <1>1
<1> HIDE DEF X, N, x, F
<1>6. PICK g : Turns(g, N, X, x, F)
  BY <1>1, <1>2, <1>4, TurnsExist
<1>7. g \in [0 .. N -> X] /\ g[0] = x /\ \A n \in 1 .. N : g[n] = F[n][g[n - 1]]
  BY <1>6 DEF Turns
<1>8. ASSUME NEW n \in 0 .. N, n # 0 PROVE g[n] = ParsePart(g[n - 1], c.parts[n], c.all)
  <2>1. n \in 1 .. N /\ n - 1 \in 0 .. N
    BY <1>1, <1>8
  <2> QED
    BY <1>5, <1>7, <2>1
<1>9. P(g)
  BY <1>7, <1>8
<1> DEFINE upTo == CHOOSE f : P(f)
<1>10. P(upTo)
  BY <1>9
<1>11. ParseConditions(bytes, c) = upTo[N]
  BY DEF ParseConditions, N, x
<1>12. upTo = [n \in 0 .. N |-> IF n = 0 THEN x
                                ELSE ParsePart(upTo[n - 1], c.parts[n], c.all)]
  BY <1>10
<1> HIDE DEF upTo, P
<1>13. upTo[0] = x
  BY <1>1, <1>12
<1>14. ASSUME NEW n \in 1 .. N PROVE upTo[n] = ParsePart(upTo[n - 1], c.parts[n], c.all)
  <2>1. n \in 0 .. N /\ n # 0
    BY <1>1
  <2> QED
    BY <1>12, <2>1
<1> DEFINE S == {n \in Nat : n =< N => upTo[n] \in X}
<1>15. 0 \in S
  BY <1>2, <1>13
<1>16. ASSUME NEW n \in Nat, n \in S PROVE n + 1 \in S
  <2>1. SUFFICES ASSUME n + 1 =< N PROVE upTo[n + 1] \in X
    OBVIOUS
  <2>2. n + 1 \in 1 .. N /\ (n + 1) - 1 = n /\ n =< N
    BY <1>1, <2>1
  <2>3. upTo[n] \in X
    BY <1>16, <2>2
  <2>4. upTo[n + 1] = ParsePart(upTo[n], c.parts[n + 1], c.all)
    BY <1>14, <2>2
  <2> QED
    BY <1>3, <2>2, <2>3, <2>4
<1> HIDE DEF S
<1>17. \A n \in Nat : n \in S
  BY <1>15, <1>16, NumbersIn
<1> QED
  BY <1>1, <1>11, <1>17 DEF S, X

-----------------------------------------------------------------------------
(* The invariant.  A loop is returned to inside the code; the first level  *)
(* is left only when parsing ends; tags are counted, and so are the texts  *)
(* between them, since a text is followed by a tag.                        *)
Structure == {k \in DOMAIN tags : tags[k].kind # "text"}

Counted ==
  LET n == Cardinality(Structure) IN
  /\ n =< MaxTags
  /\ Len(tags) =< 2 * n + 1
  /\ ~After({"text"}) => Len(tags) =< 2 * n
  /\ hand # NoTag => IF hand.kind = "text" THEN ~After({"text"}) ELSE n < MaxTags

LoopsReturnInside == \A i \in DOMAIN frames : frames[i].loopReturn =< Len(code)

PanelInv ==
  /\ TypeOK /\ Counted /\ LoopsReturnInside
  /\ phase = "parse" => frames # <<>>
  /\ hand # NoTag /\ hand.kind \in {"if", "elseif"} => hand.cond \in Conds

LEMMA Facts ==
  ASSUME PanelInv
  PROVE  /\ MaxTags \in Nat /\ MaxRows \in Nat
         /\ tags \in Seq(Tags) /\ Len(tags) \in Nat /\ DOMAIN tags = 1 .. Len(tags)
         /\ Cardinality(Structure) \in Nat
         /\ code \in Programs(Len(code)) /\ Len(code) \in Nat
         /\ code \in Seq(Bytes) /\ DOMAIN code = 1 .. Len(code) /\ JumpsInside(code)
         /\ frames \in Seq(Frames) /\ Len(frames) \in Nat /\ DOMAIN frames = 1 .. Len(frames)
<1>1. MaxTags \in Nat /\ MaxRows \in Nat
  BY PanelAssumption
<1>2. tags \in Seq(Tags) /\ Len(tags) \in Nat /\ DOMAIN tags = 1 .. Len(tags)
  BY DEF PanelInv, TypeOK
<1>3. Cardinality(Structure) \in Nat
  <2>1. Structure \subseteq 1 .. Len(tags)
    BY <1>2 DEF Structure
  <2>2. IsFiniteSet(1 .. Len(tags))
    BY <1>2, FS_Interval
  <2> QED
    BY <2>1, <2>2, FS_Subset, FS_CardinalityType
<1>4. code \in Seq(Bytes) /\ JumpsInside(code)
  BY DEF PanelInv, TypeOK, JumpsInside
<1>5. Len(code) \in Nat /\ DOMAIN code = 1 .. Len(code)
  BY <1>4
<1>6. code \in Programs(Len(code))
  BY <1>4, <1>5 DEF Programs
<1>7. frames \in Seq(Frames)
  BY DEF PanelInv, TypeOK
<1> QED
  BY <1>1, <1>2, <1>3, <1>4, <1>5, <1>6, <1>7

LEMMA AtHand ==
  ASSUME PanelInv, hand # NoTag
  PROVE  HasPlace /\ hand \in Tags
<1>1. Len(tags) + 1 =< 2 * MaxTags + 1
  <2>1. CASE hand.kind = "text"
    BY <2>1, Facts DEF PanelInv, Counted
  <2>2. CASE hand.kind # "text"
    BY <2>2, Facts DEF PanelInv, Counted
  <2> QED
    BY <2>1, <2>2
<1> QED
  BY <1>1, Facts DEF PanelInv, TypeOK, HasPlace, Places

(* A tag that has been dealt with joins the others.                        *)
LEMMA TagCounted ==
  ASSUME PanelInv, hand # NoTag, tags' = Append(tags, hand), hand' = NoTag
  PROVE  tags' \in Seq(Tags) /\ Counted'
<1> DEFINE n == Cardinality(Structure)
           L == Len(tags)
<1>1. /\ L \in Nat /\ n \in Nat /\ MaxTags \in Nat /\ tags \in Seq(Tags) /\ hand \in Tags
      /\ DOMAIN tags = 1 .. L
  BY Facts, AtHand
<1>2. /\ tags' \in Seq(Tags) /\ Len(tags') = L + 1 /\ DOMAIN tags' = 1 .. L + 1
      /\ \A k \in 1 .. L : tags'[k] = tags[k]
      /\ tags'[L + 1] = hand
  BY <1>1
<1>3. /\ n =< MaxTags /\ L =< 2 * n + 1
      /\ ~After({"text"}) => L =< 2 * n
      /\ IF hand.kind = "text" THEN ~After({"text"}) ELSE n < MaxTags
  BY DEF PanelInv, Counted
<1>4. IsFiniteSet(Structure) /\ L + 1 \notin Structure
  <2>1. Structure \subseteq 1 .. L
    BY <1>1 DEF Structure
  <2>2. IsFiniteSet(1 .. L)
    BY <1>1, FS_Interval
  <2>3. L + 1 \notin 1 .. L
    BY <1>1
  <2> QED
    BY <2>1, <2>2, <2>3, FS_Subset
<1>5. tags' # <<>> /\ Last(tags)' = hand
  BY <1>1, <1>2 DEF Last
<1>6. After({"text"})' <=> hand.kind = "text"
  BY <1>5 DEF After
<1>7. CASE hand.kind = "text"
  <2>1. Structure' = Structure
    BY <1>1, <1>2, <1>7 DEF Structure
  <2>2. Cardinality(Structure)' = n
    BY <2>1
  <2> HIDE DEF n, L
  <2> QED
    BY <1>1, <1>2, <1>3, <1>6, <1>7, <2>2 DEF Counted
<1>8. CASE hand.kind # "text"
  <2>1. Structure' = Structure \cup {L + 1}
    BY <1>1, <1>2, <1>8 DEF Structure
  <2>2. Cardinality(Structure)' = n + 1
    BY <1>4, <2>1, FS_AddElement
  <2> HIDE DEF n, L
  <2> QED
    BY <1>1, <1>2, <1>3, <1>6, <1>8, <2>2 DEF Counted
<1> QED
  BY <1>2, <1>7, <1>8

(* The stacks.                                                             *)
LEMMA FrontType ==
  ASSUME NEW S, NEW s \in Seq(S), s # <<>>
  PROVE  /\ Front(s) \in Seq(S) /\ Last(s) \in S
         /\ Len(Front(s)) = Len(s) - 1
         /\ \A i \in 1 .. Len(s) - 1 : Front(s)[i] = s[i]
<1>1. Len(s) \in Nat /\ Len(s) > 0
  BY EmptySeq
<1>2. \A i \in 1 .. Len(s) - 1 : s[i] \in S
  OBVIOUS
<1>3. Len(s) - 1 \in Int /\ 1 \in Int
  BY <1>1
<1>4. /\ SubSeq(s, 1, Len(s) - 1) \in Seq(S)
      /\ Len(SubSeq(s, 1, Len(s) - 1)) = IF 1 =< Len(s) - 1 THEN (Len(s) - 1) - 1 + 1 ELSE 0
      /\ \A i \in 1 .. (Len(s) - 1) - 1 + 1 : SubSeq(s, 1, Len(s) - 1)[i] = s[1 + i - 1]
  BY <1>2, <1>3, SubSeqProperties
<1>5. Last(s) \in S
  BY <1>1 DEF Last
<1>6. (Len(s) - 1) - 1 + 1 = Len(s) - 1
  BY <1>1
<1>7. Len(SubSeq(s, 1, Len(s) - 1)) = Len(s) - 1
  <2> DEFINE n == Len(s)
             m == Len(SubSeq(s, 1, Len(s) - 1))
  <2>1. n \in Nat /\ n > 0 /\ m = IF 1 =< n - 1 THEN (n - 1) - 1 + 1 ELSE 0
    BY <1>1, <1>4
  <2> HIDE DEF n, m
  <2>2. m = n - 1
    BY <2>1
  <2> QED
    BY <2>2 DEF n, m
<1>8. ASSUME NEW i \in 1 .. Len(s) - 1 PROVE SubSeq(s, 1, Len(s) - 1)[i] = s[i]
  <2>1. 1 + i - 1 = i
    OBVIOUS
  <2> QED
    BY <1>4, <1>6, <2>1
<1> QED
  BY <1>4, <1>5, <1>7, <1>8 DEF Front

LEMMA FramesChanged ==
  ASSUME PanelInv, frames # <<>>, NEW f \in Frames, NEW bytes \in Programs(Len(code)),
         f.loopReturn =< Len(bytes)
  PROVE  LET one == Append(Front(frames), f)
             two == Front(frames) \o <<f, NewFrame>>
         IN  /\ one \in Seq(Frames) /\ one # <<>>
             /\ \A i \in DOMAIN one : one[i].loopReturn =< Len(bytes)
             /\ two \in Seq(Frames) /\ two # <<>>
             /\ \A i \in DOMAIN two : two[i].loopReturn =< Len(bytes)
<1> DEFINE r == Front(frames)
           one == Append(r, f)
           two == r \o <<f, NewFrame>>
<1>1. /\ r \in Seq(Frames) /\ Len(r) = Len(frames) - 1 /\ Len(frames) \in Nat
      /\ \A i \in 1 .. Len(frames) - 1 : r[i] = frames[i]
  BY Facts, FrontType
<1>2. Len(bytes) \in Nat /\ Len(code) \in Nat /\ Len(code) =< Len(bytes)
  BY Facts DEF Programs
<1>3. ASSUME NEW i \in 1 .. Len(r) PROVE r[i].loopReturn =< Len(bytes)
  <2>1. i \in 1 .. Len(frames) - 1 /\ i \in DOMAIN frames /\ frames[i] \in Frames
    BY <1>1, Facts
  <2>2. frames[i].loopReturn \in Int /\ frames[i].loopReturn =< Len(code)
    BY <2>1 DEF PanelInv, LoopsReturnInside, Frames
  <2> QED
    BY <1>1, <1>2, <2>1, <2>2
<1>4. NewFrame \in Frames /\ NewFrame.loopReturn = -1
  BY DEF NewFrame, Frames
<1> HIDE DEF r
<1>5. /\ one \in Seq(Frames) /\ Len(one) = Len(r) + 1
      /\ \A i \in 1 .. Len(r) : one[i] = r[i]
      /\ one[Len(r) + 1] = f
  BY <1>1
<1>6. /\ two \in Seq(Frames) /\ Len(two) = Len(r) + 2
      /\ \A i \in 1 .. Len(r) : two[i] = r[i]
      /\ two[Len(r) + 1] = f /\ two[Len(r) + 2] = NewFrame
  BY <1>1, <1>4
<1> HIDE DEF one, two
<1>7. Len(r) \in Nat
  BY <1>1
<1>8. one # <<>> /\ two # <<>>
  BY <1>5, <1>6, <1>7
<1>9. ASSUME NEW i \in DOMAIN one PROVE one[i].loopReturn =< Len(bytes)
  <2>1. i \in 1 .. Len(r) \/ i = Len(r) + 1
    BY <1>5, <1>7
  <2> QED
    BY <1>3, <1>5, <2>1
<1>10. ASSUME NEW i \in DOMAIN two PROVE two[i].loopReturn =< Len(bytes)
  <2>1. i \in 1 .. Len(r) \/ i = Len(r) + 1 \/ i = Len(r) + 2
    BY <1>6, <1>7
  <2>2. NewFrame.loopReturn =< Len(bytes)
    BY <1>2, <1>4
  <2>3. CASE i = Len(r) + 2
    BY <1>6, <2>2, <2>3
  <2> QED
    BY <1>3, <1>6, <2>1, <2>3
<1> QED
  BY <1>5, <1>6, <1>8, <1>9, <1>10 DEF one, two, r

(* What the compiling of a tag leaves.                                     *)
LEMMA CompiledKeeps ==
  ASSUME PanelInv, phase = "parse", hand # NoTag,
         NEW bytes \in Programs(Len(code)), NEW f \in Frames, f.loopReturn =< Len(bytes),
         Compiled(bytes, f) \/ CompiledNested(bytes, f)
  PROVE  PanelInv'
<1>1. frames # <<>>
  BY DEF PanelInv
<1>2. /\ frames' \in Seq(Frames) /\ frames' # <<>> /\ code' = bytes
      /\ \A i \in DOMAIN frames' : frames'[i].loopReturn =< Len(bytes)
  BY <1>1, FramesChanged DEF Compiled, CompiledNested
<1>3. /\ tags' = Append(tags, hand) /\ hand' = NoTag
      /\ open' = open /\ phase' = phase /\ ip' = ip /\ env' = env /\ left' = left
      /\ shown' = shown
  BY DEF Compiled, CompiledNested, renderVars
<1>4. tags' \in Seq(Tags) /\ Counted'
  BY <1>3, TagCounted
<1>5. bytes \in Seq(Bytes) /\ JumpsInside(bytes) /\ Len(code) =< Len(bytes) /\ Len(bytes) \in Nat
  BY DEF Programs
<1>6. ip' \in 0 .. Len(bytes)
  <2>1. ip \in 0 .. Len(code)
    BY DEF PanelInv, TypeOK
  <2> QED
    BY <1>3, <1>5, <2>1, Facts
<1>7. TypeOK'
  BY <1>2, <1>3, <1>4, <1>5, <1>6 DEF PanelInv, TypeOK, JumpsInside
<1>8. LoopsReturnInside'
  BY <1>2 DEF LoopsReturnInside
<1> QED
  BY <1>2, <1>3, <1>4, <1>7, <1>8 DEF PanelInv

-----------------------------------------------------------------------------
(* The author's tags.                                                      *)

LEMMA AuthorStep ==
  ASSUME PanelInv, Author
  PROVE  PanelInv'
<1> DEFINE OpenTags == {"if", "else", "bad", "loop", "badloop"}
           n == Cardinality(Structure)
<1>1. \E t, o : /\ AuthorWrites(t, o) /\ t \in Tags /\ o \in Seq(OpenTags)
                /\ t.kind \in {"if", "elseif"} => t.cond \in Conds
                /\ IF t.kind = "text" THEN ~After({"text"}) ELSE n < MaxTags
  <2>1. /\ open \in Seq(OpenTags) /\ Len(open) \in Nat /\ n \in Nat /\ MaxTags \in Nat
        /\ open # <<>> => Len(open) > 0 /\ Front(open) \in Seq(OpenTags)
    <3>1. open \in Seq(OpenTags)
      BY DEF PanelInv, TypeOK
    <3> HIDE DEF OpenTags
    <3>2. open # <<>> => Front(open) \in Seq(OpenTags)
      BY <3>1, FrontType
    <3>3. open # <<>> => Len(open) > 0
      BY <3>1, EmptySeq
    <3> QED
      BY <3>1, <3>2, <3>3, Facts
  <2>2. \A m \in 0 .. 2 : Room(m) => n + Len(open) + m =< MaxTags
    BY DEF Room, Structure
  <2>3. \A k \in Kinds : Plain(k) \in Tags /\ Plain(k).kind = k
    BY DEF Plain, Tags
  <2>4. \A k \in Kinds, c \in Conds :
          /\ [kind |-> k, cond |-> c] \in Tags
          /\ [kind |-> k, cond |-> c].kind = k /\ [kind |-> k, cond |-> c].cond = c
    BY DEF Tags
  <2>5. \A kinds : Opened(kinds) => open # <<>>
    BY DEF Opened
  <2>6. \A k, c : Opens(k, c) \in OpenTags
    BY DEF Opens
  <2>7. Kinds = {"text", "if", "elseif", "else", "endif", "loop", "badloop", "endloop"}
    BY DEF Kinds
  <2> DEFINE Witness(t, o) ==
               /\ AuthorWrites(t, o) /\ t \in Tags /\ o \in Seq(OpenTags)
               /\ t.kind \in {"if", "elseif"} => t.cond \in Conds
               /\ IF t.kind = "text" THEN ~After({"text"}) ELSE n < MaxTags
  <2>8. CASE ~After({"text"}) /\ AuthorWrites(Plain("text"), open)
    <3>1. Witness(Plain("text"), open)
      BY <2>1, <2>3, <2>7, <2>8
    <3> QED
      BY <3>1
  <2>9. CASE /\ Room(2) /\ ~Simple
             /\ \E c \in Conds :
                  AuthorWrites([kind |-> "if", cond |-> c], Append(open, Opens("if", c)))
    <3>1. PICK c \in Conds :
            AuthorWrites([kind |-> "if", cond |-> c], Append(open, Opens("if", c)))
      BY <2>9
    <3>2. Append(open, Opens("if", c)) \in Seq(OpenTags)
      BY <2>1, <2>6
    <3>3. n < MaxTags
      BY <2>1, <2>2, <2>9
    <3>4. Witness([kind |-> "if", cond |-> c], Append(open, Opens("if", c)))
      BY <2>4, <2>7, <3>1, <3>2, <3>3
    <3> QED
      BY <3>4
  <2>10. CASE /\ Room(1) /\ Opened({"if", "bad"})
              /\ \E c \in ElseifConds :
                   AuthorWrites([kind |-> "elseif", cond |-> c],
                                Append(Front(open), Opens("elseif", c)))
    <3>1. PICK c \in ElseifConds :
            AuthorWrites([kind |-> "elseif", cond |-> c],
                         Append(Front(open), Opens("elseif", c)))
      BY <2>10
    <3>2. c \in Conds
      BY PanelAssumption
    <3>3. Append(Front(open), Opens("elseif", c)) \in Seq(OpenTags)
      BY <2>1, <2>5, <2>6, <2>10
    <3>4. n < MaxTags
      BY <2>1, <2>2, <2>10
    <3>5. Witness([kind |-> "elseif", cond |-> c], Append(Front(open), Opens("elseif", c)))
      BY <2>4, <2>7, <3>1, <3>2, <3>3, <3>4
    <3> QED
      BY <3>5
  <2>11. CASE /\ Room(1) /\ Opened({"if", "bad"})
              /\ AuthorWrites(Plain("else"), Append(Front(open), "else"))
    <3>1. Append(Front(open), "else") \in Seq(OpenTags) /\ n < MaxTags
      BY <2>1, <2>2, <2>5, <2>11
    <3>2. Witness(Plain("else"), Append(Front(open), "else"))
      BY <2>3, <2>7, <2>11, <3>1
    <3> QED
      BY <3>2
  <2>12. CASE /\ Room(0) /\ Opened({"if", "bad", "else"})
              /\ AuthorWrites(Plain("endif"), Front(open))
    <3>1. Front(open) \in Seq(OpenTags) /\ n < MaxTags
      BY <2>1, <2>2, <2>5, <2>12
    <3>2. Witness(Plain("endif"), Front(open))
      BY <2>3, <2>7, <2>12, <3>1
    <3> QED
      BY <3>2
  <2>13. CASE Room(2) /\ ~Simple /\ AuthorWrites(Plain("loop"), Append(open, "loop"))
    <3>1. Append(open, "loop") \in Seq(OpenTags) /\ n < MaxTags
      BY <2>1, <2>2, <2>13
    <3>2. Witness(Plain("loop"), Append(open, "loop"))
      BY <2>3, <2>7, <2>13, <3>1
    <3> QED
      BY <3>2
  <2>14. CASE /\ Room(2) /\ open = <<>>
              /\ AuthorWrites(Plain("badloop"), Append(open, "badloop"))
    <3>1. Append(open, "badloop") \in Seq(OpenTags) /\ n < MaxTags
      BY <2>1, <2>2, <2>14
    <3>2. Witness(Plain("badloop"), Append(open, "badloop"))
      BY <2>3, <2>7, <2>14, <3>1
    <3> QED
      BY <3>2
  <2>15. CASE /\ Room(0) /\ Opened({"loop", "badloop"})
              /\ AuthorWrites(Plain("endloop"), Front(open))
    <3>1. Front(open) \in Seq(OpenTags) /\ n < MaxTags
      BY <2>1, <2>2, <2>5, <2>15
    <3>2. Witness(Plain("endloop"), Front(open))
      BY <2>3, <2>7, <2>15, <3>1
    <3> QED
      BY <3>2
  <2> QED
    BY <2>8, <2>9, <2>10, <2>11, <2>12, <2>13, <2>14, <2>15 DEF Author
<1>2. PICK t, o : /\ AuthorWrites(t, o) /\ t \in Tags /\ o \in Seq(OpenTags)
                  /\ t.kind \in {"if", "elseif"} => t.cond \in Conds
                  /\ IF t.kind = "text" THEN ~After({"text"}) ELSE n < MaxTags
  BY <1>1
<1>3. /\ hand' = t /\ open' = o /\ tags' = tags /\ frames' = frames /\ code' = code
      /\ phase' = phase /\ ip' = ip /\ env' = env /\ left' = left /\ shown' = shown
  BY <1>2 DEF AuthorWrites, renderVars
<1>4. TypeOK'
  BY <1>2, <1>3 DEF PanelInv, TypeOK
<1>5. Counted'
  BY <1>2, <1>3 DEF PanelInv, Counted, Structure, After
<1>6. LoopsReturnInside'
  BY <1>3 DEF PanelInv, LoopsReturnInside
<1> QED
  BY <1>2, <1>3, <1>4, <1>5, <1>6 DEF PanelInv

-----------------------------------------------------------------------------
(* parse_indent.                                                           *)

LEMMA ByteAppended ==
  ASSUME PanelInv, hand # NoTag, NEW k \in Nat, NEW bytes \in Programs(k),
         NEW op \in {"text", "error", "jmp", "cmp", "load", "loop"},
         NEW to \in Nat, to =< Len(bytes) + 1
  PROVE  /\ Append(bytes, Byte(op, to)) \in Programs(k)
         /\ Len(Append(bytes, Byte(op, to))) = Len(bytes) + 1
BY AtHand, ByteType, Appended

LEMMA FrameType ==
  ASSUME PanelInv, phase = "parse"
  PROVE  /\ Frame \in Frames /\ Frame.loopReturn \in Int /\ Frame.loopReturn =< Len(code)
         /\ Frame.conditionJump \in SUBSET Nat /\ Frame.jmpList \in SUBSET Nat
<1>1. frames # <<>>
  BY DEF PanelInv
<1>2. Frame \in Frames /\ Len(frames) \in DOMAIN frames
  <2>1. Last(frames) \in Frames
    BY <1>1, Facts, FrontType
  <2>2. Len(frames) > 0
    BY <1>1, Facts, EmptySeq
  <2> QED
    BY <2>1, <2>2, Facts DEF Frame
<1>3. Frame.loopReturn =< Len(code)
  BY <1>2 DEF PanelInv, LoopsReturnInside, Frame, Last
<1> QED
  BY <1>2, <1>3 DEF Frames

(* Of the parts of a program, and of one grown from another.               *)
LEMMA Grown ==
  ASSUME NEW k \in Nat, NEW bytes \in Programs(k)
  PROVE  /\ Len(bytes) \in Nat /\ k =< Len(bytes)
         /\ bytes \in Programs(Len(bytes))
         /\ \A j \in Nat : j =< k => bytes \in Programs(j)
<1>1. bytes \in Seq(Bytes) /\ JumpsInside(bytes) /\ k =< Len(bytes) /\ Len(bytes) \in Nat
  BY DEF Programs
<1> QED
  BY <1>1 DEF Programs

LEMMA TextStep ==
  ASSUME PanelInv, Text PROVE PanelInv'
<1>1. phase = "parse" /\ hand # NoTag
  BY DEF Text, Looks
<1>2. Append(code, Byte("text", 0)) \in Programs(Len(code))
  BY <1>1, Facts, ByteAppended
<1>3. Frame.loopReturn =< Len(Append(code, Byte("text", 0)))
  BY <1>1, <1>2, Facts, FrameType, ByteAppended
<1> QED
  BY <1>1, <1>2, <1>3, FrameType, CompiledKeeps DEF Text

LEMMA LoopUnknownStep ==
  ASSUME PanelInv, LoopUnknown PROVE PanelInv'
<1>1. phase = "parse" /\ hand # NoTag
  BY DEF LoopUnknown, Looks
<1>2. Append(code, Error) \in Programs(Len(code)) /\ Len(Append(code, Error)) = Len(code) + 1
  BY <1>1, Facts, ByteAppended DEF Error
<1>3. Frame.loopReturn =< Len(Append(code, Error))
  BY <1>1, <1>2, Facts, FrameType
<1> QED
  BY <1>1, <1>2, <1>3, FrameType, CompiledKeeps DEF LoopUnknown

LEMMA IfStep ==
  ASSUME PanelInv, If PROVE PanelInv'
<1> DEFINE l == ParseConditions(code, hand.cond)
           f == [Frame EXCEPT !.startNewScope = FALSE, !.justIf = TRUE]
           bytes == IF hand.cond.all THEN l.code ELSE Append(l.code, Jmp(0))
           jmp == IF hand.cond.all THEN {} ELSE {Len(l.code)}
           g == [f EXCEPT !.conditionJump = @ \cup jmp \cup l.outside]
<1>1. phase = "parse" /\ hand # NoTag /\ hand.cond \in Conds
  BY DEF If, Looks, PanelInv
<1>2. l \in Compiles(Len(code))
  BY <1>1, AtHand, Facts, ConditionsParsed
<1> HIDE DEF l
<1>3. l.code \in Programs(Len(code)) /\ l.outside \in SUBSET Nat
  BY <1>2 DEF Compiles
<1>4. Len(l.code) \in Nat /\ Len(code) =< Len(l.code)
  BY <1>3, Facts, Grown
<1>5. /\ Append(l.code, Jmp(0)) \in Programs(Len(code))
      /\ Append(l.code, Error) \in Programs(Len(code))
      /\ Len(Append(l.code, Error)) = Len(l.code) + 1
  BY <1>1, <1>3, <1>4, Facts, ByteAppended DEF Jmp, Error
<1>6. bytes \in Programs(Len(code))
  BY <1>3, <1>5
<1>7. jmp \in SUBSET Nat
  BY <1>4
<1> HIDE DEF bytes, jmp
<1>8. Len(bytes) \in Nat /\ Len(code) =< Len(bytes)
  BY <1>6, Facts, Grown
<1>9. /\ Patch(bytes, l.inside, Len(bytes)) \in Programs(Len(code))
      /\ Len(Patch(bytes, l.inside, Len(bytes))) = Len(bytes)
  BY <1>6, <1>8, Facts, Patched
<1>10. f \in Frames /\ f.loopReturn = Frame.loopReturn
  BY <1>1, FrameType DEF Frames
<1>11. g \in Frames /\ g.loopReturn = Frame.loopReturn
  <2> HIDE DEF f
  <2> QED
    BY <1>3, <1>7, <1>10 DEF Frames
<1>12. Frame.loopReturn =< Len(bytes) /\ Frame.loopReturn =< Len(l.code) + 1
  BY <1>1, <1>4, <1>8, Facts, FrameType
<1>13. IF l.outside # {} \/ l.inside # {}
       THEN CompiledNested(Patch(bytes, l.inside, Len(bytes)), g)
       ELSE Compiled(Append(l.code, Error), f)
  BY DEF If, l, bytes, jmp
<1> HIDE DEF f, g
<1>14. CASE CompiledNested(Patch(bytes, l.inside, Len(bytes)), g)
  BY <1>1, <1>9, <1>11, <1>12, <1>14, CompiledKeeps
<1>15. CASE Compiled(Append(l.code, Error), f)
  BY <1>1, <1>5, <1>10, <1>12, <1>15, CompiledKeeps
<1> QED
  BY <1>13, <1>14, <1>15

LEMMA ElseifStep ==
  ASSUME PanelInv, Elseif PROVE PanelInv'
<1> DEFINE b == Append(code, Jmp(0))
           l == ParseConditions(b, hand.cond)
           f == [Frame EXCEPT !.justIf = TRUE, !.jmpList = @ \cup {Len(code)}]
           g == [f EXCEPT !.conditionJump = l.outside]
           last == Len(l.code) - 1
           patched == Patch(l.code, l.inside \cup Frame.conditionJump, last)
<1>1. phase = "parse" /\ hand # NoTag /\ hand.cond \in Conds /\ Len(code) \in Nat
  BY Facts DEF Elseif, Looks, PanelInv
<1>2. b \in Programs(Len(code)) /\ Len(b) = Len(code) + 1
  BY <1>1, Facts, ByteAppended DEF Jmp
<1> HIDE DEF b
<1>3. b \in Programs(Len(b)) /\ Len(b) \in Nat
  BY <1>1, <1>2, Grown
<1>4. l \in Compiles(Len(b))
  BY <1>1, <1>3, AtHand, ConditionsParsed
<1> HIDE DEF l
<1>5. l.code \in Programs(Len(b)) /\ l.outside \in SUBSET Nat
  BY <1>4 DEF Compiles
<1>6. Len(l.code) \in Nat /\ Len(b) =< Len(l.code) /\ l.code \in Programs(Len(code))
  BY <1>1, <1>2, <1>3, <1>5, Grown
<1>7. /\ Append(l.code, Error) \in Programs(Len(code))
      /\ Len(Append(l.code, Error)) = Len(l.code) + 1
  BY <1>1, <1>6, ByteAppended DEF Error
<1>8. last \in Nat /\ last =< Len(l.code)
  BY <1>1, <1>2, <1>6
<1>9. patched \in Programs(Len(code)) /\ Len(patched) = Len(l.code)
  <2> HIDE DEF last
  <2> QED
    BY <1>1, <1>6, <1>8, Patched
<1>10. f \in Frames /\ f.loopReturn = Frame.loopReturn
  <2>1. Frame \in Frames
    BY <1>1, FrameType
  <2> QED
    BY <1>1, <2>1 DEF Frames
<1>11. g \in Frames /\ g.loopReturn = Frame.loopReturn
  <2> HIDE DEF f
  <2> QED
    BY <1>5, <1>10 DEF Frames
<1>12. Frame.loopReturn =< Len(l.code) /\ Frame.loopReturn =< Len(l.code) + 1
  BY <1>1, <1>2, <1>6, FrameType
<1>13. IF l.outside = {} THEN Compiled(Append(l.code, Error), f)
       ELSE IF Frame.conditionJump = {} THEN CompiledNested(l.code, f)
       ELSE CompiledNested(patched, g)
  BY DEF Elseif, l, b
<1> HIDE DEF f, g, patched
<1>14. CASE Compiled(Append(l.code, Error), f)
  BY <1>1, <1>7, <1>10, <1>12, <1>14, CompiledKeeps
<1>15. CASE CompiledNested(l.code, f)
  BY <1>1, <1>6, <1>10, <1>12, <1>15, CompiledKeeps
<1>16. CASE CompiledNested(patched, g)
  BY <1>1, <1>9, <1>11, <1>12, <1>16, CompiledKeeps
<1> QED
  BY <1>13, <1>14, <1>15, <1>16

LEMMA ElseStep ==
  ASSUME PanelInv, Else PROVE PanelInv'
<1> DEFINE bytes == Append(code, Jmp(0))
           patched == Patch(bytes, Frame.conditionJump, Len(bytes))
           f == [Frame EXCEPT !.justIf = FALSE, !.jmpList = @ \cup {Len(code)},
                              !.conditionJump = {}]
<1>1. phase = "parse" /\ hand # NoTag /\ Len(code) \in Nat
  BY Facts DEF Else, Looks
<1>2. bytes \in Programs(Len(code)) /\ Len(bytes) = Len(code) + 1
  BY <1>1, Facts, ByteAppended DEF Jmp
<1>3. CompiledNested(patched, f)
  BY DEF Else
<1> HIDE DEF bytes
<1>4. Len(bytes) \in Nat
  BY <1>1, <1>2
<1>5. patched \in Programs(Len(code)) /\ Len(patched) = Len(code) + 1
  BY <1>1, <1>2, <1>4, Patched
<1>6. f \in Frames /\ f.loopReturn = Frame.loopReturn
  <2>1. Frame \in Frames
    BY <1>1, FrameType
  <2> QED
    BY <1>1, <2>1 DEF Frames
<1> HIDE DEF f, patched
<1>7. f.loopReturn =< Len(patched)
  BY <1>1, <1>5, <1>6, FrameType
<1> QED
  BY <1>1, <1>3, <1>5, <1>6, <1>7, CompiledKeeps

LEMMA EndifStep ==
  ASSUME PanelInv, Endif PROVE PanelInv'
<1> DEFINE behind == IF Frame.justIf THEN Len(code) ELSE Len(code) - 1
           once == Patch(code, Frame.conditionJump, behind)
           twice == Patch(once, Frame.jmpList, Len(code))
           f == [Frame EXCEPT !.startNewScope = TRUE, !.conditionJump = {},
                              !.justIf = FALSE, !.jmpList = {}]
<1>1. phase = "parse" /\ hand # NoTag /\ Len(code) \in Nat
  BY Facts DEF Endif, Looks
<1>2. behind \in Int /\ behind =< Len(code) /\ (Len(code) > 0 => behind >= 0)
  BY <1>1
<1>3. Compiled(twice, f)
  BY DEF Endif
<1> HIDE DEF behind
<1>4. once \in Programs(Len(code)) /\ Len(once) = Len(code)
  BY <1>1, <1>2, Facts, Patched
<1> HIDE DEF once
<1>5. twice \in Programs(Len(code)) /\ Len(twice) = Len(code)
  BY <1>1, <1>4, Patched
<1>6. f \in Frames /\ f.loopReturn = Frame.loopReturn
  BY <1>1, FrameType DEF Frames
<1> HIDE DEF f, twice
<1>7. f.loopReturn =< Len(twice)
  BY <1>1, <1>5, <1>6, FrameType
<1> QED
  BY <1>1, <1>3, <1>5, <1>6, <1>7, CompiledKeeps

LEMMA ReturnSet ==
  ASSUME NEW x \in Frames, NEW b \in BOOLEAN, NEW n \in Int
  PROVE  /\ [x EXCEPT !.startNewScope = b, !.loopReturn = n] \in Frames
         /\ [x EXCEPT !.startNewScope = b, !.loopReturn = n].loopReturn = n
<1> DEFINE y == [x EXCEPT !.startNewScope = b]
<1>1. y \in Frames
  BY DEF Frames
<1> HIDE DEF y
<1>2. [y EXCEPT !.loopReturn = n] \in Frames /\ [y EXCEPT !.loopReturn = n].loopReturn = n
  BY <1>1 DEF Frames
<1> QED
  BY <1>2 DEF y

LEMMA LoopStep ==
  ASSUME PanelInv, Loop PROVE PanelInv'
<1> DEFINE b == Append(code, Byte("load", 0))
           bytes == code \o <<Byte("load", 0), Byte("loop", 0)>>
           f == [Frame EXCEPT !.startNewScope = FALSE, !.loopReturn = Len(code) + 1]
<1>1. phase = "parse" /\ hand # NoTag /\ Len(code) \in Nat /\ code \in Seq(Bytes)
  BY Facts DEF Loop, Looks
<1>2. b \in Programs(Len(code)) /\ Len(b) = Len(code) + 1
  BY <1>1, Facts, ByteAppended
<1>3. /\ Append(b, Byte("loop", 0)) \in Programs(Len(code))
      /\ Len(Append(b, Byte("loop", 0))) = Len(code) + 2
  <2> HIDE DEF b
  <2>1. Len(b) + 1 = Len(code) + 2 /\ 0 =< Len(b) + 1
    BY <1>1, <1>2
  <2> QED
    BY <1>1, <1>2, <2>1, ByteAppended
<1>4. Byte("load", 0) \in Bytes /\ Byte("loop", 0) \in Bytes
  BY <1>1, AtHand, ByteType
<1>5. bytes = Append(b, Byte("loop", 0))
  BY <1>1, <1>4
<1>6. CompiledNested(bytes, f)
  BY DEF Loop
<1>7. f \in Frames /\ f.loopReturn = Len(code) + 1
  <2>1. Frame \in Frames /\ Len(code) + 1 \in Int
    BY <1>1, FrameType
  <2> QED
    BY <2>1, ReturnSet
<1> HIDE DEF bytes, f, b
<1>8. bytes \in Programs(Len(code)) /\ f.loopReturn =< Len(bytes)
  BY <1>1, <1>3, <1>5, <1>7
<1> QED
  BY <1>1, <1>6, <1>7, <1>8, CompiledKeeps

LEMMA EndloopStep ==
  ASSUME PanelInv, Endloop PROVE PanelInv'
<1> DEFINE f == [Frame EXCEPT !.startNewScope = TRUE, !.loopReturn = -1]
           bytes == Append(code, Jmp(Frame.loopReturn))
           patched == Patch(bytes, {Frame.loopReturn}, Len(bytes))
<1>1. phase = "parse" /\ hand # NoTag /\ Len(code) \in Nat
  BY Facts DEF Endloop, Looks
<1>2. f \in Frames /\ f.loopReturn = -1
  <2>1. Frame \in Frames /\ -1 \in Int
    BY <1>1, FrameType
  <2> QED
    BY <2>1, ReturnSet
<1>3. IF Frame.loopReturn >= 0 THEN Compiled(patched, f) ELSE Compiled(Append(code, Error), f)
  BY DEF Endloop
<1>4. Append(code, Error) \in Programs(Len(code)) /\ Len(Append(code, Error)) = Len(code) + 1
  BY <1>1, Facts, ByteAppended DEF Error
<1>5. CASE Frame.loopReturn >= 0
  <2>1. Frame.loopReturn \in Nat /\ Frame.loopReturn =< Len(code) + 1
    BY <1>1, <1>5, FrameType
  <2>2. bytes \in Programs(Len(code)) /\ Len(bytes) = Len(code) + 1
    BY <1>1, <2>1, Facts, ByteAppended DEF Jmp
  <2> HIDE DEF bytes
  <2>3. Len(bytes) \in Nat
    BY <1>1, <2>2
  <2>4. patched \in Programs(Len(code)) /\ Len(patched) = Len(code) + 1
    BY <1>1, <2>2, <2>3, Patched
  <2> HIDE DEF f, patched
  <2>5. f.loopReturn =< Len(patched)
    BY <1>1, <1>2, <2>4
  <2> QED
    BY <1>1, <1>2, <1>3, <1>5, <2>4, <2>5, CompiledKeeps
<1>6. CASE ~(Frame.loopReturn >= 0)
  <2> HIDE DEF f
  <2>1. f.loopReturn =< Len(Append(code, Error))
    BY <1>1, <1>2, <1>4
  <2> QED
    BY <1>1, <1>2, <1>3, <1>4, <1>6, <2>1, CompiledKeeps
<1> QED
  BY <1>5, <1>6

LEMMA ParseEndsStep ==
  ASSUME PanelInv, ParseEnds PROVE PanelInv'
<1>1. /\ phase' = "ready" /\ hand' = NoTag /\ frames' = <<>> /\ open' = <<>>
      /\ tags' = tags /\ code' = code /\ ip' = ip /\ env' = env /\ left' = left
      /\ shown' = shown
  BY DEF ParseEnds, renderVars
<1>2. <<>> \in Seq(Frames) /\ <<>> \in Seq({"if", "else", "bad", "loop", "badloop"})
  BY EmptySeq
<1>3. TypeOK'
  BY <1>1, <1>2 DEF PanelInv, TypeOK
<1>4. Counted'
  BY <1>1 DEF PanelInv, Counted, Structure, After
<1>5. LoopsReturnInside'
  BY <1>1 DEF LoopsReturnInside
<1> QED
  BY <1>1, <1>3, <1>4, <1>5 DEF PanelInv

LEMMA ReturnTextEndStep ==
  ASSUME PanelInv, ReturnTextEnd PROVE PanelInv'
<1>1. CASE ParseEnds
  BY <1>1, ParseEndsStep
<1>2. CASE /\ Len(frames) > 1
           /\ frames' = Front(frames)
           /\ UNCHANGED <<tags, hand, open, code, phase, renderVars>>
  <2>1. /\ tags' = tags /\ hand' = hand /\ open' = open /\ code' = code /\ phase' = phase
        /\ ip' = ip /\ env' = env /\ left' = left /\ shown' = shown
    BY <1>2 DEF renderVars
  <2>2. frames # <<>>
    BY <1>2
  <2>3. /\ frames' \in Seq(Frames) /\ Len(frames') = Len(frames) - 1
        /\ \A i \in 1 .. Len(frames) - 1 : frames'[i] = frames[i]
    BY <1>2, <2>2, Facts, FrontType
  <2>4. frames' # <<>>
    BY <1>2, <2>3
  <2>5. DOMAIN frames' = 1 .. Len(frames) - 1 /\ DOMAIN frames' \subseteq DOMAIN frames
    BY <2>3, Facts
  <2>6. LoopsReturnInside'
    BY <2>1, <2>3, <2>5 DEF PanelInv, LoopsReturnInside
  <2>7. TypeOK'
    BY <2>1, <2>3 DEF PanelInv, TypeOK
  <2>8. Counted'
    BY <2>1 DEF PanelInv, Counted, Structure, After
  <2> QED
    BY <2>1, <2>4, <2>6, <2>7, <2>8 DEF PanelInv
<1> QED
  BY <1>1, <1>2 DEF ReturnTextEnd

-----------------------------------------------------------------------------
(* render.                                                                 *)

LEMMA RenderKeeps ==
  ASSUME PanelInv, UNCHANGED parseVars, phase' \in {"ready", "render"},
         ip' \in 0 .. Len(code), env' \in [Vars -> Values],
         left' \in [Places -> 0 .. MaxRows], shown' \in Seq(Event)
  PROVE  PanelInv'
<1>1. tags' = tags /\ hand' = hand /\ open' = open /\ frames' = frames /\ code' = code
  BY DEF parseVars
<1>2. TypeOK'
  BY <1>1 DEF PanelInv, TypeOK
<1>3. Counted'
  BY <1>1 DEF PanelInv, Counted, Structure, After
<1>4. LoopsReturnInside'
  BY <1>1 DEF PanelInv, LoopsReturnInside
<1> QED
  BY <1>1, <1>2, <1>3, <1>4 DEF PanelInv

LEMMA AtByte ==
  ASSUME PanelInv, phase = "render", ip < Len(code)
  PROVE  /\ It \in Bytes /\ It.at \in Places /\ It.to \in 0 .. Len(code)
         /\ ip + 1 \in 0 .. Len(code)
<1>1. ip \in 0 .. Len(code) /\ Len(code) \in Nat
  BY Facts DEF PanelInv, TypeOK
<1>2. ip + 1 \in DOMAIN code
  BY <1>1, Facts
<1>3. It \in Bytes
  BY <1>1, <1>2, Facts DEF It
<1>4. It.to =< Len(code)
  BY <1>2, Facts DEF It, JumpsInside
<1> QED
  BY <1>1, <1>3, <1>4 DEF Bytes

LEMMA EventAppended ==
  ASSUME PanelInv, NEW what \in {"text", "row", "end"}, NEW at \in Places
  PROVE  Append(shown, [what |-> what, at |-> at]) \in Seq(Event)
<1>1. shown \in Seq(Event)
  BY DEF PanelInv, TypeOK
<1>2. [what |-> what, at |-> at] \in Event
  BY DEF Event
<1> QED
  BY <1>1, <1>2

LEMMA RenderStep ==
  ASSUME PanelInv, Render PROVE PanelInv'
<1>1. /\ ip \in 0 .. Len(code) /\ env \in [Vars -> Values] /\ left \in [Places -> 0 .. MaxRows]
      /\ shown \in Seq(Event)
      /\ MaxRows \in Nat
  BY Facts DEF PanelInv, TypeOK
<1>2. \A op : Running(op) => phase = "render" /\ ip < Len(code)
  BY DEF Running
<1>3. CASE PrintText
  <2>1. Append(shown, [what |-> "text", at |-> It.at]) \in Seq(Event) /\ ip + 1 \in 0 .. Len(code)
    BY <1>2, <1>3, AtByte, EventAppended DEF PrintText
  <2> QED
    BY <1>1, <1>2, <1>3, <2>1, RenderKeeps DEF PrintText
<1>4. CASE PrintError
  BY <1>1, <1>2, <1>4, AtByte, RenderKeeps DEF PrintError
<1>5. CASE Jump
  <2>1. phase = "render" /\ ip' \in 0 .. Len(code)
    BY <1>2, <1>5, AtByte DEF Jump
  <2> QED
    BY <1>1, <1>5, <2>1, RenderKeeps DEF Jump
<1>6. CASE LoadObject
  <2>1. PICK n \in 0 .. MaxRows : left' = [left EXCEPT ![It.at] = n]
    BY <1>6 DEF LoadObject
  <2>2. left' \in [Places -> 0 .. MaxRows]
    BY <1>1, <2>1
  <2> QED
    BY <1>1, <1>2, <1>6, <2>2, AtByte, RenderKeeps DEF LoadObject
<1>7. CASE CallLoop
  <2>1. phase = "render" /\ ip < Len(code)
    BY <1>2, <1>7 DEF CallLoop
  <2>2. It.at \in Places /\ It.to \in 0 .. Len(code) /\ ip + 1 \in 0 .. Len(code)
    BY <2>1, AtByte
  <2>3. CASE left[It.at] > 0
    <3>1. /\ left' = [left EXCEPT ![It.at] = @ - 1]
          /\ \E row \in [RowVars -> Values] :
               env' = [v \in Vars |-> IF v \in RowVars THEN row[v] ELSE env[v]]
          /\ shown' = Append(shown, [what |-> "row", at |-> It.at])
          /\ ip' = ip + 1
      BY <1>7, <2>3 DEF CallLoop
    <3>2. left[It.at] \in 0 .. MaxRows
      BY <1>1, <2>2
    <3>3. left[It.at] - 1 \in 0 .. MaxRows
      BY <1>1, <2>3, <3>2
    <3>4. left' \in [Places -> 0 .. MaxRows]
      BY <1>1, <2>2, <3>1, <3>3
    <3>5. env' \in [Vars -> Values]
      BY <1>1, <3>1
    <3>6. shown' \in Seq(Event)
      BY <2>2, <3>1, EventAppended
    <3> QED
      BY <1>7, <2>1, <2>2, <3>1, <3>4, <3>5, <3>6, RenderKeeps DEF CallLoop
  <2>4. CASE left[It.at] = 0
    <3>1. /\ shown' = Append(shown, [what |-> "end", at |-> It.at])
          /\ ip' = It.to /\ left' = left /\ env' = env
      BY <1>7, <2>4 DEF CallLoop
    <3>2. shown' \in Seq(Event)
      BY <2>2, <3>1, EventAppended
    <3> QED
      BY <1>1, <1>7, <2>1, <2>2, <3>1, <3>2, RenderKeeps DEF CallLoop
  <2> QED
    BY <1>7, <2>3, <2>4 DEF CallLoop
<1>8. CASE RenderEnds
  <2>1. Start \in [Vars -> Values]
    <3>1. (CHOOSE x \in Values : TRUE) \in Values
      BY PanelAssumption
    <3> QED
      BY <3>1 DEF Start
  <2>2. <<>> \in Seq(Event) /\ 0 \in 0 .. Len(code)
    BY EmptySeq, Facts
  <2> QED
    BY <1>1, <1>8, <2>1, <2>2, RenderKeeps DEF RenderEnds
<1> QED
  BY <1>3, <1>4, <1>5, <1>6, <1>7, <1>8 DEF Render

LEMMA RequestStep ==
  ASSUME PanelInv, Request PROVE PanelInv'
<1>1. /\ ip \in 0 .. Len(code) /\ left \in [Places -> 0 .. MaxRows] /\ shown \in Seq(Event)
  BY DEF PanelInv, TypeOK
<1> QED
  BY <1>1, RenderKeeps DEF Request

-----------------------------------------------------------------------------
LEMMA Initially == Init => PanelInv
<1> SUFFICES ASSUME Init PROVE PanelInv
  OBVIOUS
<1>1. NewFrame \in Frames /\ NewFrame.loopReturn = -1
  BY DEF NewFrame, Frames
<1>2. <<NewFrame>> \in Seq(Frames) /\ DOMAIN <<NewFrame>> = {1} /\ <<NewFrame>>[1] = NewFrame
  BY <1>1
<1>3. Start \in [Vars -> Values]
  <2>1. (CHOOSE x \in Values : TRUE) \in Values
    BY PanelAssumption
  <2> QED
    BY <2>1 DEF Start
<1>4. /\ tags = <<>> /\ hand = NoTag /\ open = <<>> /\ frames = <<NewFrame>> /\ code = <<>>
      /\ phase = "parse" /\ ip = 0 /\ env = Start /\ left = [k \in Places |-> 0]
      /\ shown = <<>>
  BY DEF Init
<1>5. /\ tags \in Seq(Tags) /\ open \in Seq({"if", "else", "bad", "loop", "badloop"})
      /\ code \in Seq(Bytes) /\ shown \in Seq(Event) /\ Len(code) = 0 /\ DOMAIN code = {}
      /\ Len(tags) = 0 /\ DOMAIN tags = {}
  BY <1>4, EmptySeq
<1>6. left \in [Places -> 0 .. MaxRows]
  BY <1>4, PanelAssumption
<1>7. TypeOK
  BY <1>2, <1>3, <1>4, <1>5, <1>6 DEF TypeOK
<1>8. Counted
  <2>1. Cardinality(Structure) = 0
    BY <1>5, FS_EmptySet DEF Structure
  <2> QED
    BY <1>4, <1>5, <2>1, PanelAssumption DEF Counted
<1>9. LoopsReturnInside
  <2>1. \A i \in DOMAIN frames : i = 1 /\ frames[i] = NewFrame
    BY <1>2, <1>4
  <2>2. NewFrame.loopReturn =< Len(code)
    BY <1>1, <1>5
  <2> QED
    BY <2>1, <2>2 DEF LoopsReturnInside
<1> QED
  BY <1>4, <1>7, <1>8, <1>9 DEF PanelInv

LEMMA PanelInvStep == PanelInv /\ [Next]_vars => PanelInv'
<1> SUFFICES ASSUME PanelInv, [Next]_vars PROVE PanelInv'
  OBVIOUS
<1>1. CASE Author
  BY <1>1, AuthorStep
<1>2. CASE ParseIndent
  <2>1. CASE EndOfText
    BY <2>1, ParseEndsStep DEF EndOfText
  <2> QED
    BY <1>2, <2>1, TextStep, IfStep, ElseifStep, ElseStep, EndifStep, LoopStep,
       LoopUnknownStep, EndloopStep, ReturnTextEndStep DEF ParseIndent
<1>3. CASE Request
  BY <1>3, RequestStep
<1>4. CASE Render
  BY <1>4, RenderStep
<1>5. CASE UNCHANGED vars
  <2>1. /\ tags' = tags /\ hand' = hand /\ open' = open /\ frames' = frames /\ code' = code
        /\ phase' = phase /\ ip' = ip /\ env' = env /\ left' = left /\ shown' = shown
    BY <1>5 DEF vars, parseVars, renderVars
  <2> QED
    BY <2>1 DEF PanelInv, TypeOK, Counted, Structure, After, LoopsReturnInside
<1> QED
  BY <1>1, <1>2, <1>3, <1>4, <1>5 DEF Next

(* Every jump of the compiled bytecode leads into it or just behind it,    *)
(* render is always at a byte or at the end, and a text printed or a loop  *)
(* called belongs to a tag of the template, whatever the template.         *)
THEOREM PanelTypes == Spec => []TypeOK
<1>1. PanelInv => TypeOK
  BY DEF PanelInv
<1> QED
  BY <1>1, Initially, PanelInvStep, PTL DEF Spec
=============================================================================
