--------------------------- MODULE RequestProofs ----------------------------
(***************************************************************************)
(* However the bytes of a request are cut into reads, what is posted is    *)
(* acted on once and whole, and a request that has arrived is answered:    *)
(* for requests with any number of arguments, lines, cookies and excess    *)
(* bytes, and any memory behind the input.                                 *)
(***************************************************************************)
EXTENDS Request, SequenceTheorems, WellFoundedInduction, TLAPS

-----------------------------------------------------------------------------
(* Iterations over the numbers from 0 to n.                                *)

LEMMA LeastNumber ==
  ASSUME NEW S \in SUBSET Nat, S # {}
  PROVE  \E c \in S : \A d \in S : c =< d
<1>0. S \subseteq Nat
  OBVIOUS
<1>1. PICK c \in S : \A d \in S : ~ (<<d, c>> \in OpToRel(<, Nat))
  BY <1>0, NatLessThanWellFounded, WFMin
<1>2. c \in Nat /\ \A d \in S : d \in Nat /\ ~ (d < c)
  BY <1>0, <1>1 DEF OpToRel
<1> QED
  BY <1>2

LEMMA NumbersIn ==
  ASSUME NEW S, 0 \in S, \A n \in Nat : n \in S => n + 1 \in S
  PROVE  \A n \in Nat : n \in S
<1>1. SUFFICES ASSUME Nat \ S # {} PROVE FALSE
  OBVIOUS
<1>2. PICK c \in Nat \ S : \A d \in Nat \ S : c =< d
  BY <1>1, LeastNumber
<1>3. c \in Nat /\ c # 0
  BY <1>2
<1>4. c - 1 \in Nat /\ ~ (c =< c - 1) /\ (c - 1) + 1 = c
  BY <1>3
<1>5. c - 1 \in S
  BY <1>2, <1>4
<1> QED
  BY <1>2, <1>4, <1>5

(* F[n][w] is what the n-th turn makes of w.                               *)
Turns(g, N, X, x, F) ==
  /\ g \in [0 .. N -> X]
  /\ g[0] = x
  /\ \A n \in 1 .. N : g[n] = F[n][g[n - 1]]

LEMMA TurnsExist ==
  ASSUME NEW X, NEW x \in X, NEW F \in [Nat -> [X -> X]]
  PROVE  \A n \in Nat : \E g : Turns(g, n, X, x, F)
<1> DEFINE S == {n \in Nat : \E g : Turns(g, n, X, x, F)}
<1>1. 0 \in S
  <2>1. Turns([m \in 0 .. 0 |-> x], 0, X, x, F)
    BY DEF Turns
  <2> QED
    BY <2>1
<1>2. ASSUME NEW n \in Nat, n \in S PROVE n + 1 \in S
  <2>1. PICK g : Turns(g, n, X, x, F)
    BY <1>2
  <2> DEFINE h == [m \in 0 .. n + 1 |-> IF m = n + 1 THEN F[n + 1][g[n]] ELSE g[m]]
  <2>2. F[n + 1][g[n]] \in X
    BY <2>1 DEF Turns
  <2>3. h \in [0 .. n + 1 -> X]
    BY <2>1, <2>2 DEF Turns
  <2>4. \A m \in 0 .. n : h[m] = g[m]
    OBVIOUS
  <2>5. h[n + 1] = F[n + 1][g[n]]
    OBVIOUS
  <2> HIDE DEF h
  <2>6. ASSUME NEW m \in 1 .. n + 1 PROVE h[m] = F[m][h[m - 1]]
    <3>1. CASE m = n + 1
      <4>1. m - 1 = n /\ n \in 0 .. n
        BY <3>1
      <4> QED
        BY <3>1, <4>1, <2>4, <2>5
    <3>2. CASE m # n + 1
      <4>1. m \in 1 .. n /\ m \in 0 .. n /\ m - 1 \in 0 .. n
        BY <3>2
      <4> QED
        BY <4>1, <2>1, <2>4 DEF Turns
    <3> QED
      BY <3>1, <3>2
  <2>7. h[0] = x
    BY <2>1, <2>4 DEF Turns
  <2>8. Turns(h, n + 1, X, x, F)
    BY <2>3, <2>6, <2>7 DEF Turns
  <2> QED
    BY <2>8
<1> HIDE DEF S
<1>3. \A n \in Nat : n \in S
  BY <1>1, <1>2, NumbersIn
<1> QED
  BY <1>3 DEF S

LEMMA GreatestNumber ==
  ASSUME NEW n \in Nat, NEW S \in SUBSET (1 .. n), S # {}
  PROVE  Max(S) \in S /\ \A y \in S : Max(S) >= y
<1> DEFINE U == {u \in Nat : \A y \in S : y <= u}
<1>1. n \in U
  OBVIOUS
<1> HIDE DEF U
<1>2. U # {} /\ U \in SUBSET Nat
  BY <1>1 DEF U
<1>3. PICK c \in U : \A d \in U : c =< d
  BY <1>2, LeastNumber
<1>4. c \in Nat /\ \A y \in S : y <= c
  BY <1>3 DEF U
<1>5. c \in S
  <2>1. SUFFICES ASSUME c \notin S PROVE FALSE
    OBVIOUS
  <2>2. PICK s \in S : s \in 1 .. n
    OBVIOUS
  <2>3. c # 0 /\ c - 1 \in Nat
    BY <1>4, <2>2
  <2>4. \A y \in S : y <= c - 1
    BY <1>4, <2>1
  <2>5. c - 1 \in U
    BY <2>3, <2>4 DEF U
  <2> QED
    BY <1>3, <1>4, <2>5
<1>6. \E x \in S : \A y \in S : x >= y
  BY <1>4, <1>5
<1> QED
  BY <1>6 DEF Max

LEMMA SmallestNumber ==
  ASSUME NEW S \in SUBSET Nat, S # {}
  PROVE  Min(S) \in S /\ \A y \in S : Min(S) =< y
BY LeastNumber DEF Min

-----------------------------------------------------------------------------
(* The maps that arguments are put into.                                   *)

LEMMA LastNamed ==
  ASSUME NEW xs \in Seq(Argument), NEW key, Named(xs, key) # {}
  PROVE  /\ Max(Named(xs, key)) \in 1 .. Len(xs)
         /\ xs[Max(Named(xs, key))].key = key
         /\ xs[Max(Named(xs, key))] \in Argument
         /\ \A i \in 1 .. Len(xs) : xs[i].key = key => i =< Max(Named(xs, key))
<1>1. Len(xs) \in Nat /\ DOMAIN xs = 1 .. Len(xs) /\ \A i \in 1 .. Len(xs) : xs[i] \in Argument
  BY LenProperties, ElementOfSeq
<1>2. Named(xs, key) \in SUBSET (1 .. Len(xs))
  BY <1>1 DEF Named
<1>3. /\ Max(Named(xs, key)) \in Named(xs, key)
      /\ \A y \in Named(xs, key) : Max(Named(xs, key)) >= y
  BY <1>1, <1>2, GreatestNumber
<1> HIDE DEF Argument
<1> QED
  BY <1>1, <1>3 DEF Named

(* The last argument of a name, by the arguments behind it.                *)
LEMMA IsLast ==
  ASSUME NEW xs \in Seq(Argument), NEW i \in 1 .. Len(xs),
         \A j \in 1 .. Len(xs) : xs[j].key = xs[i].key => j =< i
  PROVE  Named(xs, xs[i].key) # {} /\ Max(Named(xs, xs[i].key)) = i
<1>1. Len(xs) \in Nat /\ DOMAIN xs = 1 .. Len(xs)
  BY LenProperties
<1>2. i \in Named(xs, xs[i].key)
  BY <1>1 DEF Named
<1>3. /\ Max(Named(xs, xs[i].key)) \in 1 .. Len(xs)
      /\ xs[Max(Named(xs, xs[i].key))].key = xs[i].key
      /\ i =< Max(Named(xs, xs[i].key))
  BY <1>2, LastNamed
<1> DEFINE m == Max(Named(xs, xs[i].key))
<1> HIDE DEF m
<1>4. m \in 1 .. Len(xs) /\ xs[m].key = xs[i].key /\ i =< m
  BY <1>3 DEF m
<1>5. m =< i
  BY <1>4
<1>6. m = i
  BY <1>1, <1>4, <1>5
<1> QED
  BY <1>2, <1>6 DEF m

LEMMA ConcatIs ==
  ASSUME NEW X, NEW s \in Seq(X), NEW u \in Seq(X)
  PROVE  /\ s \o u \in Seq(X) /\ Len(s \o u) = Len(s) + Len(u)
         /\ DOMAIN (s \o u) = 1 .. Len(s \o u)
         /\ \A i \in 1 .. Len(s) : i \in 1 .. Len(s \o u) /\ (s \o u)[i] = s[i]
         /\ \A i \in 1 .. Len(u) :
              Len(s) + i \in 1 .. Len(s \o u) /\ (s \o u)[Len(s) + i] = u[i]
<1> DEFINE c == s \o u
<1>1. Len(s) \in Nat /\ Len(u) \in Nat
  BY LenProperties
<1>2. /\ c \in Seq(X) /\ Len(c) = Len(s) + Len(u)
      /\ \A i \in 1 .. Len(s) + Len(u) : c[i] = IF i <= Len(s) THEN s[i] ELSE u[i - Len(s)]
  BY ConcatProperties
<1>3. DOMAIN c = 1 .. Len(c)
  BY <1>2, LenProperties
<1> HIDE DEF c
<1>4. \A i \in 1 .. Len(s) : i \in 1 .. Len(c) /\ c[i] = s[i]
  BY <1>1, <1>2
<1>5. ASSUME NEW i \in 1 .. Len(u)
      PROVE  Len(s) + i \in 1 .. Len(c) /\ c[Len(s) + i] = u[i]
  <2>1. /\ Len(s) + i \in 1 .. Len(s) + Len(u) /\ ~(Len(s) + i <= Len(s))
        /\ (Len(s) + i) - Len(s) = i
    BY <1>1
  <2> QED
    BY <1>2, <2>1
<1> QED
  BY <1>2, <1>3, <1>4, <1>5 DEF c

LEMMA NamedConcat ==
  ASSUME NEW xs \in Seq(Argument), NEW ys \in Seq(Argument), NEW key
  PROVE  /\ xs \o ys \in Seq(Argument)
         /\ Named(ys, key) = {} =>
              (Named(xs \o ys, key) = {} <=> Named(xs, key) = {})
         /\ Named(ys, key) = {} /\ Named(xs, key) # {} =>
              Max(Named(xs \o ys, key)) = Max(Named(xs, key))
         /\ Named(ys, key) # {} =>
              /\ Named(xs \o ys, key) # {}
              /\ Max(Named(xs \o ys, key)) = Len(xs) + Max(Named(ys, key))
         /\ Named(xs, key) # {} => Named(xs \o ys, key) # {}
<1> DEFINE cs == xs \o ys
<1>1. /\ Len(xs) \in Nat /\ DOMAIN xs = 1 .. Len(xs)
      /\ Len(ys) \in Nat /\ DOMAIN ys = 1 .. Len(ys)
  BY LenProperties
<1>2. /\ cs \in Seq(Argument) /\ Len(cs) = Len(xs) + Len(ys) /\ DOMAIN cs = 1 .. Len(cs)
      /\ \A i \in 1 .. Len(xs) : cs[i] = xs[i]
      /\ \A i \in 1 .. Len(ys) : cs[Len(xs) + i] = ys[i]
  BY ConcatIs
<1>3. \A i \in 1 .. Len(cs) :
        i \in 1 .. Len(xs) \/ (i - Len(xs) \in 1 .. Len(ys) /\ i = Len(xs) + (i - Len(xs)))
  BY <1>1, <1>2
<1> HIDE DEF cs
<1>4. \A i \in 1 .. Len(xs) : i \in 1 .. Len(cs) /\ (i \in Named(cs, key) <=> i \in Named(xs, key))
  BY <1>1, <1>2 DEF Named
<1>5. \A i \in 1 .. Len(ys) :
        Len(xs) + i \in 1 .. Len(cs) /\ (Len(xs) + i \in Named(cs, key) <=> i \in Named(ys, key))
  BY <1>1, <1>2 DEF Named
<1>6. /\ Named(cs, key) \subseteq 1 .. Len(cs) /\ Named(xs, key) \subseteq 1 .. Len(xs)
      /\ Named(ys, key) \subseteq 1 .. Len(ys)
  BY <1>1, <1>2 DEF Named
<1>7. ASSUME Named(ys, key) = {} PROVE Named(cs, key) = Named(xs, key)
  BY <1>3, <1>4, <1>5, <1>6, <1>7
<1>8. ASSUME Named(ys, key) # {}
      PROVE  Named(cs, key) # {} /\ Max(Named(cs, key)) = Len(xs) + Max(Named(ys, key))
  <2> DEFINE m == Max(Named(ys, key))
             i == Len(xs) + m
  <2>1. m \in 1 .. Len(ys) /\ ys[m].key = key /\ \A j \in 1 .. Len(ys) : ys[j].key = key => j =< m
    BY <1>8, LastNamed
  <2>2. i \in 1 .. Len(cs) /\ cs[i].key = key
    BY <1>1, <1>2, <2>1
  <2>3. ASSUME NEW j \in 1 .. Len(cs), cs[j].key = key PROVE j =< i
    <3>1. CASE j \in 1 .. Len(xs)
      BY <1>1, <2>1, <3>1
    <3>2. CASE j - Len(xs) \in 1 .. Len(ys) /\ j = Len(xs) + (j - Len(xs))
      <4>1. ys[j - Len(xs)].key = key
        BY <1>2, <2>3, <3>2
      <4>2. j - Len(xs) =< m
        BY <2>1, <3>2, <4>1
      <4> QED
        BY <1>1, <2>1, <4>2
    <3> QED
      BY <1>3, <3>1, <3>2
  <2> HIDE DEF i, m
  <2>4. Named(cs, key) # {} /\ Max(Named(cs, key)) = i
    BY <1>2, <2>2, <2>3, IsLast
  <2> QED
    BY <2>4 DEF i, m
<1> QED
  BY <1>1, <1>2, <1>4, <1>6, <1>7, <1>8 DEF cs

LEMMA PutTwice ==
  ASSUME NEW map \in SUBSET Argument, NEW xs \in Seq(Argument), NEW ys \in Seq(Argument)
  PROVE  Put(Put(map, xs), ys) = Put(map, xs \o ys)
<1> DEFINE zs == xs \o ys
           p == Put(map, xs)
<1>1. /\ Len(xs) \in Nat /\ DOMAIN xs = 1 .. Len(xs)
      /\ Len(ys) \in Nat /\ DOMAIN ys = 1 .. Len(ys)
  BY LenProperties
<1>2. /\ zs \in Seq(Argument) /\ Len(zs) = Len(xs) + Len(ys) /\ DOMAIN zs = 1 .. Len(zs)
      /\ \A i \in 1 .. Len(xs) : i \in 1 .. Len(zs) /\ zs[i] = xs[i]
      /\ \A i \in 1 .. Len(ys) : Len(xs) + i \in 1 .. Len(zs) /\ zs[Len(xs) + i] = ys[i]
  BY ConcatIs
<1>3. \A key :
        /\ Named(ys, key) = {} => (Named(zs, key) = {} <=> Named(xs, key) = {})
        /\ Named(ys, key) = {} /\ Named(xs, key) # {} =>
             Max(Named(zs, key)) = Max(Named(xs, key))
        /\ Named(ys, key) # {} =>
             Named(zs, key) # {} /\ Max(Named(zs, key)) = Len(xs) + Max(Named(ys, key))
        /\ Named(xs, key) # {} => Named(zs, key) # {}
  BY NamedConcat
<1>4. \A i \in 1 .. Len(xs) : Named(xs, xs[i].key) # {}
  BY <1>1 DEF Named
<1>5. \A i \in 1 .. Len(ys) : Named(ys, ys[i].key) # {}
  BY <1>1 DEF Named
<1>6. \A key : Named(ys, key) # {} => Max(Named(ys, key)) \in 1 .. Len(ys)
  BY LastNamed
<1>7. \A key : Named(xs, key) # {} => Max(Named(xs, key)) \in 1 .. Len(xs)
  BY LastNamed
<1>8. \A i \in 1 .. Len(zs) :
        \/ i \in 1 .. Len(xs)
        \/ i - Len(xs) \in 1 .. Len(ys) /\ i = Len(xs) + (i - Len(xs))
  BY <1>1, <1>2
<1>9. \A b :
        b \in p <=>
          \/ b \in map /\ Named(xs, b.key) = {}
          \/ \E i \in 1 .. Len(xs) : b = xs[i] /\ i = Max(Named(xs, xs[i].key))
  BY <1>1 DEF Put
<1>10. \A b :
         b \in Put(p, ys) <=>
           \/ b \in p /\ Named(ys, b.key) = {}
           \/ \E i \in 1 .. Len(ys) : b = ys[i] /\ i = Max(Named(ys, ys[i].key))
  BY <1>1 DEF Put
<1>11. \A b :
         b \in Put(map, zs) <=>
           \/ b \in map /\ Named(zs, b.key) = {}
           \/ \E i \in 1 .. Len(zs) : b = zs[i] /\ i = Max(Named(zs, zs[i].key))
  BY <1>2 DEF Put
<1> HIDE DEF zs, p
<1>12. ASSUME NEW b, b \in Put(p, ys) PROVE b \in Put(map, zs)
  <2>1. CASE b \in map /\ Named(xs, b.key) = {} /\ Named(ys, b.key) = {}
    BY <1>3, <1>11, <2>1
  <2>2. ASSUME Named(ys, b.key) = {},
               NEW i \in 1 .. Len(xs), b = xs[i], i = Max(Named(xs, xs[i].key))
        PROVE  b \in Put(map, zs)
    <3>1. i \in 1 .. Len(zs) /\ b = zs[i]
      BY <1>2, <2>2
    <3>2. i = Max(Named(zs, zs[i].key))
      BY <1>3, <1>4, <2>2, <3>1
    <3> QED
      BY <1>11, <3>1, <3>2
  <2>3. ASSUME NEW i \in 1 .. Len(ys), b = ys[i], i = Max(Named(ys, ys[i].key))
        PROVE  b \in Put(map, zs)
    <3>1. Len(xs) + i \in 1 .. Len(zs) /\ b = zs[Len(xs) + i]
      BY <1>2, <2>3
    <3>2. Len(xs) + i = Max(Named(zs, zs[Len(xs) + i].key))
      BY <1>3, <1>5, <2>3, <3>1
    <3> QED
      BY <1>11, <3>1, <3>2
  <2> QED
    BY <1>9, <1>10, <1>12, <2>1, <2>2, <2>3
<1>13. ASSUME NEW b, b \in Put(map, zs) PROVE b \in Put(p, ys)
  <2>1. CASE b \in map /\ Named(zs, b.key) = {}
    <3>1. Named(xs, b.key) = {} /\ Named(ys, b.key) = {}
      BY <1>3, <2>1
    <3> QED
      BY <1>9, <1>10, <2>1, <3>1
  <2>2. ASSUME NEW i \in 1 .. Len(zs), b = zs[i], i = Max(Named(zs, zs[i].key))
        PROVE  b \in Put(p, ys)
    <3>1. CASE i \in 1 .. Len(xs)
      <4>1. b = xs[i] /\ Named(xs, b.key) # {}
        BY <1>2, <1>4, <2>2, <3>1
      <4>2. Named(ys, b.key) = {}
        <5>1. SUFFICES ASSUME Named(ys, b.key) # {} PROVE FALSE
          OBVIOUS
        <5>2. i = Len(xs) + Max(Named(ys, b.key)) /\ Max(Named(ys, b.key)) \in 1 .. Len(ys)
          BY <1>3, <1>6, <2>2, <5>1
        <5> QED
          BY <1>1, <3>1, <5>2
      <4>3. i = Max(Named(xs, b.key))
        BY <1>3, <2>2, <4>1, <4>2
      <4> QED
        BY <1>9, <1>10, <3>1, <4>1, <4>2, <4>3
    <3>2. ASSUME NEW j \in 1 .. Len(ys), i = Len(xs) + j PROVE b \in Put(p, ys)
      <4>1. b = ys[j] /\ Named(ys, b.key) # {}
        BY <1>2, <1>5, <2>2, <3>2
      <4>2. Len(xs) + j = Len(xs) + Max(Named(ys, b.key)) /\ Max(Named(ys, b.key)) \in 1 .. Len(ys)
        BY <1>3, <1>6, <2>2, <3>2, <4>1
      <4>3. j = Max(Named(ys, b.key))
        BY <1>1, <4>2
      <4> QED
        BY <1>10, <4>1, <4>3
    <3> QED
      BY <1>8, <3>1, <3>2
  <2> QED
    BY <1>11, <1>13, <2>1, <2>2
<1>14. Put(p, ys) = Put(map, zs)
  BY <1>12, <1>13
<1> QED
  BY <1>14 DEF zs, p

LEMMA CalledTwice ==
  ASSUME NEW f, NEW xs \in Seq(Argument), NEW ys \in Seq(Argument)
  PROVE  Called(Called(f, xs), ys) = Called(f, xs \o ys)
<1> DEFINE zs == xs \o ys
<1>1. /\ Len(xs) \in Nat /\ Len(ys) \in Nat
      /\ \A i \in 1 .. Len(xs) : zs[i] = xs[i]
      /\ \A i \in 1 .. Len(ys) : zs[Len(xs) + i] = ys[i]
  BY ConcatIs, LenProperties
<1>2. /\ Named(ys, "f") = {} => (Named(zs, "f") = {} <=> Named(xs, "f") = {})
      /\ Named(ys, "f") = {} /\ Named(xs, "f") # {} =>
           Max(Named(zs, "f")) = Max(Named(xs, "f"))
      /\ Named(ys, "f") # {} =>
           Named(zs, "f") # {} /\ Max(Named(zs, "f")) = Len(xs) + Max(Named(ys, "f"))
  BY NamedConcat
<1>3. /\ Named(xs, "f") # {} => Max(Named(xs, "f")) \in 1 .. Len(xs)
      /\ Named(ys, "f") # {} => Max(Named(ys, "f")) \in 1 .. Len(ys)
  BY LastNamed
<1> HIDE DEF zs
<1>4. CASE Named(ys, "f") # {}
  BY <1>1, <1>2, <1>3, <1>4 DEF Called, zs
<1>5. CASE Named(ys, "f") = {} /\ Named(xs, "f") # {}
  BY <1>1, <1>2, <1>3, <1>5 DEF Called, zs
<1>6. CASE Named(ys, "f") = {} /\ Named(xs, "f") = {}
  BY <1>2, <1>6 DEF Called, zs
<1> QED
  BY <1>4, <1>5, <1>6

(* Arguments that come again leave nothing of what was there.              *)
LEMMA PutOver ==
  ASSUME NEW map, NEW xs, \A b \in map : Named(xs, b.key) # {}
  PROVE  Put(map, xs) = Put({}, xs)
BY DEF Put

LEMMA CalledOver ==
  ASSUME NEW f, NEW xs, f = "" \/ Named(xs, "f") # {}
  PROVE  Called(f, xs) = Called("", xs)
BY DEF Called

LEMMA PutKeys ==
  ASSUME NEW map \in SUBSET Argument, NEW xs \in Seq(Argument)
  PROVE  /\ Put(map, xs) \in SUBSET Argument
         /\ \A b \in Put(map, xs) : b \in map \/ Named(xs, b.key) # {}
<1>1. /\ Len(xs) \in Nat /\ DOMAIN xs = 1 .. Len(xs)
      /\ \A i \in 1 .. Len(xs) : xs[i] \in Argument
  BY LenProperties, ElementOfSeq
<1>2. \A i \in 1 .. Len(xs) : Named(xs, xs[i].key) # {}
  BY <1>1 DEF Named
<1> QED
  BY <1>1, <1>2 DEF Put

LEMMA CalledType ==
  ASSUME NEW f \in STRING \cup {""}, NEW xs \in Seq(Argument)
  PROVE  /\ Called(f, xs) \in STRING \cup {""}
         /\ Called(f, xs) = f \/ Named(xs, "f") # {}
<1>1. ASSUME Named(xs, "f") # {} PROVE xs[Max(Named(xs, "f"))] \in Argument
  BY <1>1, LastNamed
<1> QED
  BY <1>1 DEF Called, Argument

(* No arguments.                                                           *)
LEMMA TakeNone ==
  ASSUME NEW map, NEW f
  PROVE  Put(map, <<>>) = map /\ Called(f, <<>>) = f
<1>1. \A key : Named(<<>>, key) = {}
  BY DEF Named
<1> QED
  BY <1>1 DEF Put, Called

-----------------------------------------------------------------------------
(* Sequences of sequences.                                                 *)

(* g[i] is the concatenation of the first i sequences of s.                *)
Flattens(g, n, s, X) ==
  /\ g \in [1 .. n -> Seq(X)] /\ g[1] = s[1]
  /\ \A i \in 2 .. n : g[i] = g[i - 1] \o s[i]

LEMMA FlattenIs ==
  ASSUME NEW X, NEW n \in Nat, n # 0, NEW s \in [1 .. n -> Seq(X)]
  PROVE  \E g : Flattens(g, n, s, X) /\ FlattenSeq(s) = g[n]
<1> DEFINE Y == Seq(X)
           x == s[1]
           F == [k \in Nat |-> [w \in Y |-> IF k + 1 \in 1 .. n THEN w \o s[k + 1] ELSE w]]
           P(f) == f = [i \in 1 .. n |-> IF i = 1 THEN s[i] ELSE f[i - 1] \o s[i]]
<1>1. x \in Y /\ \A i \in 1 .. n : s[i] \in Y
  OBVIOUS
<1>2. \A k \in Nat : k + 1 \in 1 .. n => \A w \in Y : w \o s[k + 1] \in Y
  BY <1>1, ConcatProperties
<1>3. F \in [Nat -> [Y -> Y]]
  BY <1>2
<1>4. \A k \in Nat : k + 1 \in 1 .. n => \A w \in Y : F[k][w] = w \o s[k + 1]
  OBVIOUS
<1>5. s \in Seq(Y) /\ Len(s) = n
  OBVIOUS
<1> HIDE DEF Y, x, F
<1>6. PICK h : Turns(h, n - 1, Y, x, F)
  <2>1. n - 1 \in Nat
    OBVIOUS
  <2> QED
    BY <1>1, <1>3, <2>1, TurnsExist
<1>7. h \in [0 .. n - 1 -> Y] /\ h[0] = x /\ \A k \in 1 .. n - 1 : h[k] = F[k][h[k - 1]]
  BY <1>6 DEF Turns
<1> DEFINE g == [i \in 1 .. n |-> h[i - 1]]
<1>8. g \in [1 .. n -> Y] /\ g[1] = s[1]
  BY <1>7 DEF x
<1>9. ASSUME NEW i \in 1 .. n, i # 1 PROVE g[i] = g[i - 1] \o s[i]
  <2>1. /\ i - 1 \in 1 .. n - 1 /\ i - 1 \in 1 .. n /\ (i - 1) + 1 = i /\ i - 1 \in Nat
        /\ (i - 1) - 1 \in 0 .. n - 1
    BY <1>9
  <2>2. g[i] = F[i - 1][h[(i - 1) - 1]] /\ g[i - 1] = h[(i - 1) - 1] /\ h[(i - 1) - 1] \in Y
    BY <1>7, <2>1
  <2> QED
    BY <1>4, <2>1, <2>2
<1>10. DOMAIN g = 1 .. n
  OBVIOUS
<1> HIDE DEF g
<1>11. P(g)
  BY <1>8, <1>9, <1>10
<1> DEFINE flatten == CHOOSE f : P(f)
<1>12. P(flatten)
  BY <1>11
<1>13. FlattenSeq(s) = flatten[n]
  BY <1>5 DEF FlattenSeq
<1>14. flatten = [i \in 1 .. n |-> IF i = 1 THEN s[i] ELSE flatten[i - 1] \o s[i]]
  BY <1>12
<1> HIDE DEF flatten, P
<1>15. \A i \in 1 .. n : flatten[i] = IF i = 1 THEN s[i] ELSE flatten[i - 1] \o s[i]
  BY <1>14
<1> DEFINE S == {i \in Nat : i + 1 \in 1 .. n => flatten[i + 1] \in Y}
<1>16. 0 \in S
  BY <1>1, <1>15 DEF x
<1>17. ASSUME NEW i \in Nat, i \in S PROVE i + 1 \in S
  <2>1. SUFFICES ASSUME (i + 1) + 1 \in 1 .. n PROVE flatten[(i + 1) + 1] \in Y
    OBVIOUS
  <2>2. i + 1 \in 1 .. n /\ (i + 1) + 1 # 1 /\ ((i + 1) + 1) - 1 = i + 1
    BY <2>1
  <2>3. flatten[(i + 1) + 1] = flatten[i + 1] \o s[(i + 1) + 1]
    BY <1>15, <2>1, <2>2
  <2>4. flatten[i + 1] \in Y
    BY <1>17, <2>2
  <2> QED
    BY <1>1, <2>1, <2>3, <2>4, ConcatProperties DEF Y
<1> HIDE DEF S
<1>18. \A i \in Nat : i \in S
  BY <1>16, <1>17, NumbersIn
<1>19. ASSUME NEW i \in 1 .. n PROVE flatten[i] \in Y
  <2>1. i - 1 \in Nat /\ (i - 1) + 1 = i
    OBVIOUS
  <2> QED
    BY <1>18, <2>1 DEF S
<1>20. flatten \in [1 .. n -> Y]
  BY <1>14, <1>19
<1>21. flatten[1] = s[1] /\ \A i \in 2 .. n : flatten[i] = flatten[i - 1] \o s[i]
  <2>1. 1 \in 1 .. n /\ \A i \in 2 .. n : i \in 1 .. n /\ i # 1
    OBVIOUS
  <2> QED
    BY <1>15, <2>1
<1>22. Flattens(flatten, n, s, X)
  BY <1>20, <1>21 DEF Y, Flattens
<1> QED
  BY <1>13, <1>22

LEMMA FlattenGrows ==
  ASSUME NEW X, NEW n \in Nat, NEW s \in [1 .. n + 1 -> Seq(X)]
  PROVE  FlattenSeq(s) = FlattenSeq([i \in 1 .. n |-> s[i]]) \o s[n + 1]
<1> DEFINE u == [i \in 1 .. n |-> s[i]]
<1>0. n + 1 \in Nat /\ n + 1 # 0
  OBVIOUS
<1>1. PICK g : Flattens(g, n + 1, s, X) /\ FlattenSeq(s) = g[n + 1]
  BY <1>0, FlattenIs
<1>2. CASE n = 0
  <2>1. u = <<>> /\ Len(u) = 0
    BY <1>2
  <2>2. FlattenSeq(u) = <<>>
    BY <2>1 DEF FlattenSeq
  <2> QED
    BY <1>1, <1>2, <2>2, ConcatEmptySeq DEF Flattens
<1>3. CASE n # 0
  <2>1. u \in [1 .. n -> Seq(X)] /\ u[1] = s[1] /\ \A i \in 1 .. n : u[i] = s[i]
    BY <1>3
  <2> HIDE DEF u
  <2>2. PICK h : Flattens(h, n, u, X) /\ FlattenSeq(u) = h[n]
    BY <1>3, <2>1, FlattenIs
  <2> DEFINE S == {i \in Nat : i + 1 \in 1 .. n => h[i + 1] = g[i + 1]}
  <2>3. 0 \in S
    BY <1>1, <2>1, <2>2 DEF Flattens
  <2>4. ASSUME NEW i \in Nat, i \in S PROVE i + 1 \in S
    <3>1. SUFFICES ASSUME (i + 1) + 1 \in 1 .. n PROVE h[(i + 1) + 1] = g[(i + 1) + 1]
      OBVIOUS
    <3>2. /\ i + 1 \in 1 .. n /\ (i + 1) + 1 \in 2 .. n /\ (i + 1) + 1 \in 2 .. n + 1
          /\ ((i + 1) + 1) - 1 = i + 1
      BY <3>1
    <3>3. h[i + 1] = g[i + 1]
      BY <2>4, <3>2
    <3>4. h[(i + 1) + 1] = h[i + 1] \o u[(i + 1) + 1]
      BY <2>2, <3>2 DEF Flattens
    <3>5. g[(i + 1) + 1] = g[i + 1] \o s[(i + 1) + 1]
      BY <1>1, <3>2 DEF Flattens
    <3> QED
      BY <2>1, <3>1, <3>3, <3>4, <3>5
  <2> HIDE DEF S
  <2>5. \A i \in Nat : i \in S
    BY <2>3, <2>4, NumbersIn
  <2>6. n - 1 \in Nat /\ (n - 1) + 1 = n /\ n \in 1 .. n /\ n + 1 \in 2 .. n + 1 /\ (n + 1) - 1 = n
    BY <1>3
  <2>7. h[n] = g[n]
    BY <2>5, <2>6 DEF S
  <2>8. g[n + 1] = g[n] \o s[n + 1]
    BY <1>1, <2>6 DEF Flattens
  <2> QED
    BY <1>1, <2>2, <2>7, <2>8 DEF u
<1> QED
  BY <1>2, <1>3

LEMMA FlattenType ==
  ASSUME NEW X, NEW n \in Nat, NEW s \in [1 .. n -> Seq(X)]
  PROVE  FlattenSeq(s) \in Seq(X)
<1>1. CASE n = 0
  <2>1. s = <<>> /\ Len(s) = 0
    BY <1>1
  <2> QED
    BY <2>1, EmptySeq DEF FlattenSeq
<1>2. CASE n # 0
  <2>1. PICK g : Flattens(g, n, s, X) /\ FlattenSeq(s) = g[n]
    BY <1>2, FlattenIs
  <2> QED
    BY <1>2, <2>1 DEF Flattens
<1> QED
  BY <1>1, <1>2

-----------------------------------------------------------------------------
(* What a request names.                                                   *)

LEMMA RequestType ==
  ASSUME NEW r \in Requests
  PROVE  /\ r.method \in {"GET", "POST"} /\ r.doc \in STRING
         /\ r.args \in Seq(Argument) /\ r.lines \in Seq(HeaderLines) /\ r.body \in Seq(Argument)
         /\ r.extra \in Nat /\ Len(r.lines) \in Nat /\ Len(r.lines) >= 1 /\ Len(r.body) \in Nat
         /\ DOMAIN r.lines = 1 .. Len(r.lines)
         /\ \A i \in 1 .. Len(r.lines) : r.lines[i] \in HeaderLines
         /\ \A i \in 1 .. Len(r.lines) :
              r.method = "POST" /\ r.lines[i].name = "Content-Length" =>
                r.lines[i].length = Len(r.body)
<1>1. /\ r.method \in {"GET", "POST"} /\ r.doc \in STRING
      /\ r.args \in Seq(Argument) /\ r.lines \in Seq(HeaderLines) /\ r.body \in Seq(Argument)
      /\ r.extra \in Nat
  BY RequestAssumption
<1>2. /\ Len(r.lines) \in Nat /\ Len(r.body) \in Nat /\ DOMAIN r.lines = 1 .. Len(r.lines)
      /\ \A i \in 1 .. Len(r.lines) : r.lines[i] \in HeaderLines
  BY <1>1, LenProperties, ElementOfSeq
<1>3. /\ r.lines # <<>>
      /\ \A i \in DOMAIN r.lines :
           r.method = "POST" /\ r.lines[i].name = "Content-Length" => r.lines[i].length = Len(r.body)
  BY RequestAssumption
<1>4. Len(r.lines) >= 1
  BY <1>1, <1>2, <1>3, EmptySeq
<1> QED
  BY <1>1, <1>2, <1>3, <1>4

LEMMA GetsType ==
  ASSUME NEW cookies \in Seq(Cookies)
  PROVE  Gets(cookies) \in Seq(Argument)
<1> DEFINE s == [i \in DOMAIN cookies |-> IF cookies[i].key = "GET" THEN cookies[i].args ELSE <<>>]
<1>1. /\ Len(cookies) \in Nat /\ DOMAIN cookies = 1 .. Len(cookies)
      /\ \A i \in 1 .. Len(cookies) : cookies[i] \in Cookies
  BY LenProperties, ElementOfSeq
<1>2. <<>> \in Seq(Argument)
  BY EmptySeq
<1>3. \A i \in 1 .. Len(cookies) : cookies[i].args \in Seq(Argument)
  BY <1>1 DEF Cookies
<1>4. s \in [1 .. Len(cookies) -> Seq(Argument)]
  BY <1>1, <1>2, <1>3
<1> HIDE DEF s
<1>5. FlattenSeq(s) \in Seq(Argument)
  BY <1>1, <1>4, FlattenType
<1> QED
  BY <1>5 DEF Gets, s

(* What line i of a request names.                                         *)
NamesOf(r, i) == IF r.lines[i].name = "Cookie" THEN Gets(r.lines[i].cookies) ELSE <<>>

LEMMA NamesOfType ==
  ASSUME NEW r \in Requests, NEW i \in 1 .. Len(r.lines)
  PROVE  NamesOf(r, i) \in Seq(Argument)
<1>1. r.lines[i].cookies \in Seq(Cookies)
  BY RequestType DEF HeaderLines
<1> QED
  BY <1>1, GetsType, EmptySeq DEF NamesOf

LEMMA NamedInIs ==
  ASSUME NEW r \in Requests
  PROVE  /\ NamedIn(r, 0) = r.args
         /\ \A k \in 0 .. Len(r.lines) : NamedIn(r, k) \in Seq(Argument)
         /\ \A k \in Nat : k + 1 =< Len(r.lines) =>
              NamedIn(r, k + 1) = NamedIn(r, k) \o NamesOf(r, k + 1)
<1> DEFINE s(k) == [i \in 1 .. k |-> NamesOf(r, i)]
<1>1. r.args \in Seq(Argument) /\ Len(r.lines) \in Nat
  BY RequestType
<1>2. \A k : NamedIn(r, k) = r.args \o FlattenSeq(s(k))
  BY DEF NamedIn, NamesOf
<1>3. \A k \in 0 .. Len(r.lines) : s(k) \in [1 .. k -> Seq(Argument)]
  BY <1>1, NamesOfType
<1>4. s(0) = <<>> /\ Len(s(0)) = 0
  OBVIOUS
<1>5. \A k \in Nat : /\ [i \in 1 .. k |-> s(k + 1)[i]] = s(k)
                     /\ s(k + 1)[k + 1] = NamesOf(r, k + 1)
  OBVIOUS
<1> HIDE DEF s
<1>6. \A k \in 0 .. Len(r.lines) : FlattenSeq(s(k)) \in Seq(Argument)
  BY <1>3, FlattenType
<1>7. FlattenSeq(s(0)) = <<>>
  BY <1>4 DEF FlattenSeq
<1>8. NamedIn(r, 0) = r.args
  BY <1>1, <1>2, <1>7, ConcatEmptySeq
<1>9. ASSUME NEW k \in Nat, k + 1 =< Len(r.lines)
      PROVE  NamedIn(r, k + 1) = NamedIn(r, k) \o NamesOf(r, k + 1)
  <2>1. k \in 0 .. Len(r.lines) /\ k + 1 \in 0 .. Len(r.lines) /\ k + 1 \in 1 .. Len(r.lines)
    BY <1>1, <1>9
  <2>2. s(k + 1) \in [1 .. k + 1 -> Seq(Argument)]
    BY <1>3, <2>1
  <2>3. FlattenSeq(s(k + 1)) = FlattenSeq([i \in 1 .. k |-> s(k + 1)[i]]) \o s(k + 1)[k + 1]
    BY <2>2, FlattenGrows
  <2>4. FlattenSeq(s(k + 1)) = FlattenSeq(s(k)) \o NamesOf(r, k + 1)
    BY <1>5, <2>3
  <2>5. r.args \o (FlattenSeq(s(k)) \o NamesOf(r, k + 1))
          = (r.args \o FlattenSeq(s(k))) \o NamesOf(r, k + 1)
    <3>1. FlattenSeq(s(k)) \in Seq(Argument) /\ NamesOf(r, k + 1) \in Seq(Argument)
      BY <1>6, <2>1, NamesOfType
    <3> DEFINE u == FlattenSeq(s(k))
               v == NamesOf(r, k + 1)
               w == r.args
    <3>2. u \in Seq(Argument) /\ v \in Seq(Argument) /\ w \in Seq(Argument)
      BY <1>1, <3>1
    <3> HIDE DEF u, v, w
    <3>3. w \o (u \o v) = (w \o u) \o v
      BY <3>2, ConcatAssociative
    <3> QED
      BY <3>3 DEF u, v, w
  <2> QED
    BY <1>2, <2>4, <2>5
<1>10. \A k \in 0 .. Len(r.lines) : NamedIn(r, k) \in Seq(Argument)
  BY <1>1, <1>2, <1>6, ConcatProperties
<1> QED
  BY <1>8, <1>9, <1>10

(* What the first lines name, more lines do too.                           *)
LEMMA NamedInGrows ==
  ASSUME NEW r \in Requests, NEW j \in 0 .. Len(r.lines), NEW k \in 0 .. Len(r.lines), j =< k, NEW key,
         Named(NamedIn(r, j), key) # {}
  PROVE  Named(NamedIn(r, k), key) # {}
<1> DEFINE S == {d \in Nat : j + d =< Len(r.lines) => Named(NamedIn(r, j + d), key) # {}}
<1>1. Len(r.lines) \in Nat
  BY RequestType
<1>2. 0 \in S
  BY <1>1
<1>3. ASSUME NEW d \in Nat, d \in S PROVE d + 1 \in S
  <2>1. SUFFICES ASSUME j + (d + 1) =< Len(r.lines)
                 PROVE  Named(NamedIn(r, j + (d + 1)), key) # {}
    OBVIOUS
  <2>2. j + d \in Nat /\ j + (d + 1) = (j + d) + 1 /\ (j + d) + 1 =< Len(r.lines)
        /\ j + d \in 0 .. Len(r.lines) /\ (j + d) + 1 \in 1 .. Len(r.lines)
    BY <1>1, <2>1
  <2>3. Named(NamedIn(r, j + d), key) # {}
    BY <1>1, <1>3, <2>2
  <2>4. NamedIn(r, (j + d) + 1) = NamedIn(r, j + d) \o NamesOf(r, (j + d) + 1)
    BY <2>2, NamedInIs
  <2>5. NamedIn(r, j + d) \in Seq(Argument) /\ NamesOf(r, (j + d) + 1) \in Seq(Argument)
    BY <2>2, NamedInIs, NamesOfType
  <2> DEFINE u == NamedIn(r, j + d)
             v == NamesOf(r, (j + d) + 1)
  <2> HIDE DEF u, v
  <2>6. u \in Seq(Argument) /\ v \in Seq(Argument) /\ Named(u, key) # {}
    BY <2>3, <2>5 DEF u, v
  <2>7. Named(u \o v, key) # {}
    BY <2>6, NamedConcat
  <2> QED
    BY <2>2, <2>4, <2>7 DEF u, v
<1> HIDE DEF S
<1>4. \A d \in Nat : d \in S
  BY <1>2, <1>3, NumbersIn
<1>5. k - j \in Nat /\ j + (k - j) = k /\ k =< Len(r.lines)
  BY <1>1
<1> QED
  BY <1>4, <1>5 DEF S

-----------------------------------------------------------------------------
(* Where the tokens of a request are.                                      *)
Marks == {"GET", "POST", "?", "SP", "version", "CR", "LF", "extra"}
Tokens ==
  [t : Marks] \cup [t : {"doc"}, doc : STRING] \cup [t : {"arg"}, arg : Argument]
    \cup [t : {"name"}, name : STRING] \cup [t : {"value"}, line : HeaderLines]

(* The position of SP, of the name of line i and of the end of the header. *)
SpAt(r) == IF r.args = <<>> THEN 3 ELSE 4 + Len(r.args)
NameAt(r, i) == SpAt(r) + 4 * i
EndAt(r) == NameAt(r, Len(r.lines)) + 5

Begins(p, s) ==
  /\ p \in Seq(Tokens) /\ s \in Seq(Tokens) /\ Len(p) =< Len(s)
  /\ \A i \in 1 .. Len(p) : s[i] = p[i]

LEMMA BeginsConcat ==
  ASSUME NEW p \in Seq(Tokens), NEW u \in Seq(Tokens)
  PROVE  Begins(p, p \o u)
<1>1. Len(p) \in Nat /\ Len(u) \in Nat
  BY LenProperties
<1> QED
  BY <1>1, ConcatIs DEF Begins

LEMMA BeginsTransitive ==
  ASSUME NEW p, NEW q, NEW s, Begins(p, q), Begins(q, s)
  PROVE  Begins(p, s)
<1>1. Len(p) \in Nat /\ Len(q) \in Nat /\ Len(s) \in Nat
  BY LenProperties DEF Begins
<1> QED
  BY <1>1 DEF Begins

LEMMA TokensConcat ==
  ASSUME NEW s \in Seq(Tokens), NEW u \in Seq(Tokens)
  PROVE  /\ s \o u \in Seq(Tokens) /\ Len(s \o u) = Len(s) + Len(u)
         /\ \A i \in 1 .. Len(s) : (s \o u)[i] = s[i]
         /\ \A i \in 1 .. Len(u) : (s \o u)[Len(s) + i] = u[i]
BY ConcatIs

LEMMA MarkType ==
  ASSUME NEW mark \in Marks
  PROVE  T(mark) \in Tokens /\ T(mark).t = mark
BY DEF T, Tokens

LEMMA ArgsType ==
  ASSUME NEW xs \in Seq(Argument)
  PROVE  /\ Args(xs) \in Seq(Tokens) /\ Len(Args(xs)) = Len(xs)
         /\ \A i \in 1 .. Len(xs) : Args(xs)[i] = Arg(xs[i])
<1>1. /\ Len(xs) \in Nat /\ DOMAIN xs = 1 .. Len(xs)
      /\ \A i \in 1 .. Len(xs) : xs[i] \in Argument
  BY LenProperties, ElementOfSeq
<1>2. \A i \in 1 .. Len(xs) : Arg(xs[i]) \in Tokens
  BY <1>1 DEF Arg, Tokens
<1>3. Args(xs) \in [1 .. Len(xs) -> Tokens]
  BY <1>1, <1>2 DEF Args
<1> QED
  BY <1>1, <1>3 DEF Args

LEMMA LineType ==
  ASSUME NEW l \in HeaderLines
  PROVE  /\ Line(l) \in Seq(Tokens) /\ Len(Line(l)) = 4
         /\ Line(l)[1].t = "name" /\ Line(l)[1].name = l.name
         /\ Line(l)[2].t = "value" /\ Line(l)[2].line = l
         /\ Line(l)[3] = CR /\ Line(l)[4] = LF
<1> DEFINE n == [t |-> "name", name |-> l.name]
           v == [t |-> "value", line |-> l]
<1>1. n \in Tokens /\ v \in Tokens /\ CR \in Tokens /\ LF \in Tokens
  <2>1. l.name \in STRING
    BY DEF HeaderLines
  <2>2. n \in Tokens
    BY <2>1 DEF Tokens
  <2>3. v \in Tokens
    BY DEF Tokens
  <2>4. "CR" \in Marks /\ "LF" \in Marks
    BY DEF Marks
  <2>5. T("CR") \in Tokens /\ T("LF") \in Tokens
    BY <2>4, MarkType
  <2> QED
    BY <2>2, <2>3, <2>5 DEF CR, LF
<1>2. n.t = "name" /\ n.name = l.name /\ v.t = "value" /\ v.line = l
  OBVIOUS
<1> HIDE DEF n, v
<1>3. Line(l) = <<n, v>> \o <<CR, LF>>
  BY DEF Line, CRLF, n, v
<1> DEFINE a == <<n, v>>
           b == <<CR, LF>>
<1>4. /\ a \in Seq(Tokens) /\ Len(a) = 2 /\ a[1] = n /\ a[2] = v
      /\ b \in Seq(Tokens) /\ Len(b) = 2 /\ b[1] = CR /\ b[2] = LF
  BY <1>1
<1> HIDE DEF a, b
<1>5. /\ a \o b \in Seq(Tokens) /\ Len(a \o b) = Len(a) + Len(b)
      /\ \A i \in 1 .. Len(a) : (a \o b)[i] = a[i]
      /\ \A i \in 1 .. Len(b) : (a \o b)[Len(a) + i] = b[i]
  BY <1>4, TokensConcat
<1>6. /\ a \o b \in Seq(Tokens) /\ Len(a \o b) = 4
      /\ (a \o b)[1] = n /\ (a \o b)[2] = v /\ (a \o b)[3] = CR /\ (a \o b)[4] = LF
  <2>1. 1 \in 1 .. Len(a) /\ 2 \in 1 .. Len(a) /\ 1 \in 1 .. Len(b) /\ 2 \in 1 .. Len(b)
        /\ Len(a) + 1 = 3 /\ Len(a) + 2 = 4
    BY <1>4
  <2>2. /\ (a \o b)[1] = a[1] /\ (a \o b)[2] = a[2]
        /\ (a \o b)[Len(a) + 1] = b[1] /\ (a \o b)[Len(a) + 2] = b[2]
    BY <1>5, <2>1
  <2> QED
    BY <1>4, <1>5, <2>1, <2>2
<1> QED
  BY <1>2, <1>3, <1>6 DEF a, b

(* The tokens of the first k lines.                                        *)
LEMMA LinesAre ==
  ASSUME NEW r \in Requests, NEW k \in 0 .. Len(r.lines)
  PROVE  LET s == FlattenSeq([i \in 1 .. k |-> Line(r.lines[i])])
         IN  /\ s \in Seq(Tokens) /\ Len(s) = 4 * k
             /\ \A j \in 1 .. k : \A m \in 1 .. 4 : s[4 * (j - 1) + m] = Line(r.lines[j])[m]
<1> DEFINE u(i) == Line(r.lines[i])
           s(d) == [i \in 1 .. d |-> u(i)]
           P(d) == /\ FlattenSeq(s(d)) \in Seq(Tokens) /\ Len(FlattenSeq(s(d))) = 4 * d
                   /\ \A j \in 1 .. d : \A m \in 1 .. 4 : FlattenSeq(s(d))[4 * (j - 1) + m] = u(j)[m]
           S == {d \in Nat : d =< Len(r.lines) => P(d)}
<1>1. Len(r.lines) \in Nat /\ \A i \in 1 .. Len(r.lines) : r.lines[i] \in HeaderLines
  BY RequestType
<1>2. \A i \in 1 .. Len(r.lines) : u(i) \in Seq(Tokens) /\ Len(u(i)) = 4
  BY <1>1, LineType
<1> HIDE DEF u
<1>3. 0 \in S
  <2>1. s(0) = <<>> /\ Len(s(0)) = 0
    OBVIOUS
  <2>2. FlattenSeq(s(0)) = <<>>
    BY <2>1 DEF FlattenSeq
  <2>3. <<>> \in Seq(Tokens) /\ Len(<<>>) = 0
    BY EmptySeq
  <2> DEFINE a == FlattenSeq(s(0))
  <2>4. a \in Seq(Tokens) /\ Len(a) = 4 * 0
    <3>1. a = <<>>
      BY <2>2
    <3> HIDE DEF a
    <3> QED
      BY <2>3, <3>1
  <2>5. \A j \in 1 .. 0 : FALSE
    OBVIOUS
  <2>6. P(0)
    BY <2>4, <2>5
  <2> QED
    BY <2>6
<1>4. ASSUME NEW d \in Nat, d \in S PROVE d + 1 \in S
  <2>1. SUFFICES ASSUME d + 1 =< Len(r.lines) PROVE P(d + 1)
    OBVIOUS
  <2>2. d =< Len(r.lines) /\ d + 1 \in 1 .. Len(r.lines)
    BY <1>1, <2>1
  <2>3. P(d)
    BY <1>4, <2>2
  <2>4. s(d + 1) \in [1 .. d + 1 -> Seq(Tokens)]
    BY <1>1, <1>2, <2>1
  <2>5. [i \in 1 .. d |-> s(d + 1)[i]] = s(d) /\ s(d + 1)[d + 1] = u(d + 1)
    OBVIOUS
  <2> DEFINE a == FlattenSeq(s(d))
             b == u(d + 1)
             c == FlattenSeq(s(d + 1))
  <2>6. /\ a \in Seq(Tokens) /\ Len(a) = 4 * d
        /\ \A j \in 1 .. d : \A m \in 1 .. 4 : a[4 * (j - 1) + m] = u(j)[m]
    BY <2>3
  <2>7. b \in Seq(Tokens) /\ Len(b) = 4
    BY <1>2, <2>2
  <2> HIDE DEF s
  <2>8. c = a \o b
    BY <2>4, <2>5, FlattenGrows
  <2>9. P(d + 1) <=> /\ c \in Seq(Tokens) /\ Len(c) = 4 * (d + 1)
                     /\ \A j \in 1 .. d + 1 : \A m \in 1 .. 4 : c[4 * (j - 1) + m] = u(j)[m]
    OBVIOUS
  <2>10. b = u(d + 1)
    OBVIOUS
  <2> HIDE DEF a, b, c, P
  <2>11. /\ c \in Seq(Tokens) /\ Len(c) = Len(a) + Len(b)
         /\ \A i \in 1 .. Len(a) : c[i] = a[i]
         /\ \A i \in 1 .. Len(b) : c[Len(a) + i] = b[i]
    <3>1. /\ a \o b \in Seq(Tokens) /\ Len(a \o b) = Len(a) + Len(b)
          /\ \A i \in 1 .. Len(a) : (a \o b)[i] = a[i]
          /\ \A i \in 1 .. Len(b) : (a \o b)[Len(a) + i] = b[i]
      BY <2>6, <2>7, TokensConcat
    <3> QED
      BY <2>8, <3>1
  <2>12. ASSUME NEW j \in 1 .. d + 1, NEW m \in 1 .. 4 PROVE c[4 * (j - 1) + m] = u(j)[m]
    <3>1. CASE j = d + 1
      <4>1. 4 * (j - 1) + m = Len(a) + m /\ m \in 1 .. Len(b)
        BY <2>6, <2>7, <3>1
      <4> QED
        BY <2>10, <2>11, <3>1, <4>1
    <3>2. CASE j # d + 1
      <4>1. j \in 1 .. d /\ 4 * (j - 1) + m \in 1 .. Len(a)
        BY <2>6, <3>2
      <4> QED
        BY <2>6, <2>11, <4>1
    <3> QED
      BY <3>1, <3>2
  <2>13. Len(c) = 4 * (d + 1)
    BY <2>6, <2>7, <2>11
  <2> QED
    BY <2>9, <2>11, <2>12, <2>13
<1> HIDE DEF S
<1>5. \A d \in Nat : d \in S
  BY <1>3, <1>4, NumbersIn
<1>6. k \in Nat /\ k =< Len(r.lines)
  BY <1>1
<1>7. P(k)
  BY <1>5, <1>6 DEF S
<1> QED
  BY <1>7 DEF u

LEMMA PairAfter ==
  ASSUME NEW p \in Seq(Tokens), NEW x \in Tokens, NEW y \in Tokens
  PROVE  /\ p \o <<x, y>> \in Seq(Tokens) /\ Len(p \o <<x, y>>) = Len(p) + 2
         /\ (p \o <<x, y>>)[Len(p) + 1] = x /\ (p \o <<x, y>>)[Len(p) + 2] = y
         /\ Begins(p, p \o <<x, y>>)
<1> DEFINE u == <<x, y>>
<1>1. u \in Seq(Tokens) /\ Len(u) = 2 /\ u[1] = x /\ u[2] = y
  OBVIOUS
<1> HIDE DEF u
<1>2. /\ p \o u \in Seq(Tokens) /\ Len(p \o u) = Len(p) + Len(u)
      /\ \A i \in 1 .. Len(u) : (p \o u)[Len(p) + i] = u[i]
  BY <1>1, TokensConcat
<1>3. 1 \in 1 .. Len(u) /\ 2 \in 1 .. Len(u)
  BY <1>1
<1>4. Begins(p, p \o u)
  BY <1>1, BeginsConcat
<1> QED
  BY <1>1, <1>2, <1>3, <1>4 DEF u

(* The first tokens, up to the space before the version.                   *)
LEMMA StartIs ==
  ASSUME NEW r \in Requests
  PROVE  LET s == <<T(r.method), [t |-> "doc", doc |-> r.doc]>>
                    \o (IF r.args = <<>> THEN <<>> ELSE <<T("?")>> \o Args(r.args))
         IN  /\ s \in Seq(Tokens) /\ Len(s) = SpAt(r) - 1 /\ SpAt(r) \in Nat /\ SpAt(r) >= 3
             /\ s[1] \in [t : {"GET", "POST"}] /\ s[2] = [t |-> "doc", doc |-> r.doc]
             /\ r.args = <<>> <=> SpAt(r) = 3
             /\ r.args # <<>> =>
                  /\ s[3].t = "?" /\ Len(r.args) = SpAt(r) - 4
                  /\ \A i \in 1 .. Len(r.args) : s[3 + i] = Arg(r.args[i])
<1> DEFINE d == [t |-> "doc", doc |-> r.doc]
           m == T(r.method)
           p == <<m, d>>
           a == IF r.args = <<>> THEN <<>> ELSE <<T("?")>> \o Args(r.args)
           s == p \o a
<1>1. r.method \in {"GET", "POST"} /\ r.doc \in STRING /\ r.args \in Seq(Argument)
  BY RequestType
<1>2. d \in Tokens
  BY <1>1 DEF Tokens
<1>3. m \in Tokens /\ m \in [t : {"GET", "POST"}]
  <2>1. r.method \in Marks
    BY <1>1 DEF Marks
  <2> QED
    BY <1>1, <2>1, MarkType DEF T
<1>4. T("?") \in Tokens /\ T("?").t = "?"
  <2>1. "?" \in Marks
    BY DEF Marks
  <2> QED
    BY <2>1, MarkType
<1>5. d = [t |-> "doc", doc |-> r.doc]
  OBVIOUS
<1> HIDE DEF m, d
<1>6. p \in Seq(Tokens) /\ Len(p) = 2 /\ p[1] = m /\ p[2] = d
  BY <1>2, <1>3
<1> HIDE DEF p
<1>7. CASE r.args = <<>>
  <2>1. a = <<>> /\ SpAt(r) = 3
    BY <1>7 DEF SpAt
  <2>2. s = p
    BY <1>6, <2>1, ConcatEmptySeq
  <2> HIDE DEF s, a
  <2>3. /\ s \in Seq(Tokens) /\ Len(s) = SpAt(r) - 1 /\ SpAt(r) \in Nat /\ SpAt(r) >= 3
        /\ s[1] \in [t : {"GET", "POST"}] /\ s[2] = d
    BY <1>3, <1>6, <2>1, <2>2
  <2> QED
    BY <1>5, <1>7, <2>1, <2>3 DEF s, a, p, m, d
<1>8. CASE r.args # <<>>
  <2> DEFINE q == <<T("?")>>
             b == Args(r.args)
  <2>1. SpAt(r) = 4 + Len(r.args) /\ Len(r.args) \in Nat /\ Len(r.args) >= 1
    BY <1>1, <1>8, EmptySeq DEF SpAt
  <2>2. q \in Seq(Tokens) /\ Len(q) = 1 /\ q[1] = T("?")
    BY <1>4
  <2>3. b \in Seq(Tokens) /\ Len(b) = Len(r.args) /\ \A i \in 1 .. Len(r.args) : b[i] = Arg(r.args[i])
    BY <1>1, ArgsType
  <2>4. a = q \o b
    BY <1>8
  <2> HIDE DEF q, b, a
  <2>5. /\ a \in Seq(Tokens) /\ Len(a) = 1 + Len(r.args) /\ a[1] = T("?")
        /\ \A i \in 1 .. Len(r.args) : a[1 + i] = Arg(r.args[i])
    <3>1. /\ q \o b \in Seq(Tokens) /\ Len(q \o b) = Len(q) + Len(b)
          /\ \A i \in 1 .. Len(q) : (q \o b)[i] = q[i]
          /\ \A i \in 1 .. Len(b) : (q \o b)[Len(q) + i] = b[i]
      BY <2>2, <2>3, TokensConcat
    <3> QED
      BY <2>2, <2>3, <2>4, <3>1
  <2>6. /\ s \in Seq(Tokens) /\ Len(s) = Len(p) + Len(a)
        /\ \A i \in 1 .. Len(p) : s[i] = p[i]
        /\ \A i \in 1 .. Len(a) : s[Len(p) + i] = a[i]
    BY <1>6, <2>5, TokensConcat
  <2> HIDE DEF s
  <2>7. ASSUME NEW i \in 1 .. Len(r.args) PROVE s[3 + i] = Arg(r.args[i])
    <3>1. 3 + i = Len(p) + (1 + i) /\ 1 + i \in 1 .. Len(a)
      BY <1>6, <2>1, <2>5
    <3> QED
      BY <2>5, <2>6, <3>1
  <2>8. s[1] = m /\ s[2] = d /\ s[3] = T("?")
    <3>1. 1 \in 1 .. Len(p) /\ 2 \in 1 .. Len(p) /\ 3 = Len(p) + 1 /\ 1 \in 1 .. Len(a)
      BY <1>6, <2>1, <2>5
    <3> QED
      BY <1>6, <2>5, <2>6, <3>1
  <2>9. Len(s) = SpAt(r) - 1 /\ SpAt(r) \in Nat /\ SpAt(r) >= 3 /\ SpAt(r) # 3
        /\ Len(r.args) = SpAt(r) - 4
    BY <1>6, <2>1, <2>5, <2>6
  <2>10. s[1] \in [t : {"GET", "POST"}] /\ s[3].t = "?"
    BY <1>3, <1>4, <2>8
  <2> QED
    BY <1>5, <1>8, <2>6, <2>7, <2>8, <2>9, <2>10 DEF s, a, p, m, d
<1> QED
  BY <1>7, <1>8

(* Which token is where.                                                   *)
Placed(s, r) ==
  /\ s \in Seq(Tokens) /\ Len(s) = EndAt(r) + Len(r.body) + r.extra
  /\ s[1] \in [t : {"GET", "POST"}] /\ s[2] = [t |-> "doc", doc |-> r.doc]
  /\ r.args # <<>> => s[3].t = "?" /\ \A i \in 1 .. Len(r.args) : s[3 + i] = Arg(r.args[i])
  /\ s[SpAt(r)] = T("SP") /\ s[SpAt(r) + 1] = T("version")
  /\ s[SpAt(r) + 2] = CR /\ s[SpAt(r) + 3] = LF
  /\ \A j \in 1 .. Len(r.lines) :
       /\ s[NameAt(r, j)].t = "name" /\ s[NameAt(r, j)].name = r.lines[j].name
       /\ s[NameAt(r, j) + 1].t = "value" /\ s[NameAt(r, j) + 1].line = r.lines[j]
       /\ s[NameAt(r, j) + 2] = CR /\ s[NameAt(r, j) + 3] = LF
  /\ s[EndAt(r) - 1] = CR /\ s[EndAt(r)] = LF
  /\ \A i \in 1 .. Len(r.body) : s[EndAt(r) + i] = Arg(r.body[i])
  /\ \A i \in 1 .. r.extra : s[EndAt(r) + Len(r.body) + i] = T("extra")

LEMMA SpType ==
  ASSUME NEW r \in Requests
  PROVE  SpAt(r) \in Nat /\ SpAt(r) >= 3
<1>1. r.args \in Seq(Argument)
  BY RequestType
<1>2. Len(r.args) \in Nat
  BY <1>1, LenProperties
<1> QED
  BY <1>2 DEF SpAt

LEMMA StreamIs ==
  ASSUME NEW r \in Requests
  PROVE  Placed(Stream(r), r)
<1> DEFINE N == Len(r.lines)
           S == SpAt(r)
           p1 == <<T(r.method), [t |-> "doc", doc |-> r.doc]>>
                   \o (IF r.args = <<>> THEN <<>> ELSE <<T("?")>> \o Args(r.args))
           p2 == p1 \o <<T("SP"), T("version")>>
           p3 == p2 \o <<CR, LF>>
           f == FlattenSeq([i \in DOMAIN r.lines |-> Line(r.lines[i])])
           p4 == p3 \o f
           p5 == p4 \o <<CR, LF>>
           p6 == p5 \o Args(r.body)
           e == [i \in 1 .. r.extra |-> T("extra")]
           s == p6 \o e
<1>0. N \in Nat /\ S \in Nat /\ S >= 3 /\ r.extra \in Nat /\ r.body \in Seq(Argument)
      /\ Len(r.body) \in Nat /\ r.args \in Seq(Argument)
  BY RequestType, SpType
<1>1. Stream(r) = s
  BY DEF Stream, CRLF
<1>2. T("SP") \in Tokens /\ T("version") \in Tokens /\ CR \in Tokens /\ LF \in Tokens
      /\ T("extra") \in Tokens
  <2>1. "SP" \in Marks /\ "version" \in Marks /\ "CR" \in Marks /\ "LF" \in Marks /\ "extra" \in Marks
    BY DEF Marks
  <2> QED
    BY <2>1, MarkType DEF CR, LF
<1>3. /\ p1 \in Seq(Tokens) /\ Len(p1) = S - 1
      /\ p1[1] \in [t : {"GET", "POST"}] /\ p1[2] = [t |-> "doc", doc |-> r.doc]
      /\ r.args # <<>> =>
           /\ p1[3].t = "?" /\ Len(r.args) = S - 4
           /\ \A i \in 1 .. Len(r.args) : p1[3 + i] = Arg(r.args[i])
  BY StartIs
<1> HIDE DEF p1
<1>4. /\ p2 \in Seq(Tokens) /\ Len(p2) = S + 1 /\ p2[S] = T("SP") /\ p2[S + 1] = T("version")
      /\ Begins(p1, p2)
  <2>1. /\ p2 \in Seq(Tokens) /\ Len(p2) = Len(p1) + 2 /\ p2[Len(p1) + 1] = T("SP")
        /\ p2[Len(p1) + 2] = T("version") /\ Begins(p1, p2)
    BY <1>2, <1>3, PairAfter
  <2>2. Len(p1) + 1 = S /\ Len(p1) + 2 = S + 1
    BY <1>0, <1>3
  <2> QED
    BY <2>1, <2>2
<1> HIDE DEF p2
<1>5. /\ p3 \in Seq(Tokens) /\ Len(p3) = S + 3 /\ p3[S + 2] = CR /\ p3[S + 3] = LF
      /\ Begins(p2, p3)
  <2>1. /\ p3 \in Seq(Tokens) /\ Len(p3) = Len(p2) + 2 /\ p3[Len(p2) + 1] = CR
        /\ p3[Len(p2) + 2] = LF /\ Begins(p2, p3)
    BY <1>2, <1>4, PairAfter
  <2>2. Len(p2) + 1 = S + 2 /\ Len(p2) + 2 = S + 3
    BY <1>0, <1>4
  <2> QED
    BY <2>1, <2>2
<1> HIDE DEF p3
<1>6. /\ f \in Seq(Tokens) /\ Len(f) = 4 * N
      /\ \A j \in 1 .. N : \A m \in 1 .. 4 : f[4 * (j - 1) + m] = Line(r.lines[j])[m]
  <2>1. DOMAIN r.lines = 1 .. N /\ N \in 0 .. Len(r.lines)
    BY <1>0, RequestType
  <2> DEFINE F == FlattenSeq([i \in 1 .. N |-> Line(r.lines[i])])
  <2>2. /\ F \in Seq(Tokens) /\ Len(F) = 4 * N
        /\ \A j \in 1 .. N : \A m \in 1 .. 4 : F[4 * (j - 1) + m] = Line(r.lines[j])[m]
    BY <2>1, LinesAre
  <2>3. f = F
    BY <2>1
  <2> QED
    BY <2>2, <2>3
<1> HIDE DEF f
<1>7. /\ p4 \in Seq(Tokens) /\ Len(p4) = S + 3 + 4 * N /\ Begins(p3, p4)
      /\ \A i \in 1 .. Len(f) : p4[Len(p3) + i] = f[i]
  <2>1. /\ p4 \in Seq(Tokens) /\ Len(p4) = Len(p3) + Len(f) /\ Begins(p3, p4)
        /\ \A i \in 1 .. Len(f) : p4[Len(p3) + i] = f[i]
    BY <1>5, <1>6, TokensConcat, BeginsConcat
  <2> QED
    BY <1>0, <1>5, <1>6, <2>1
<1>8. ASSUME NEW j \in 1 .. N, NEW m \in 1 .. 4
      PROVE  /\ NameAt(r, j) + (m - 1) \in 1 .. Len(p4)
             /\ p4[NameAt(r, j) + (m - 1)] = Line(r.lines[j])[m]
  <2>0. NameAt(r, j) = S + 4 * j
    BY DEF NameAt
  <2>3. S \in Nat /\ N \in Nat /\ Len(p3) = S + 3 /\ Len(f) = 4 * N /\ Len(p4) = S + 3 + 4 * N
    BY <1>0, <1>5, <1>6, <1>7
  <2> DEFINE n == NameAt(r, j)
             l3 == Len(p3)
             lf == Len(f)
             l4 == Len(p4)
  <2>4. n = S + 4 * j
    BY <2>0
  <2> HIDE DEF n, S, N, l3, lf, l4
  <2>5. S \in Nat /\ N \in Nat /\ l3 = S + 3 /\ lf = 4 * N /\ l4 = S + 3 + 4 * N
    BY <2>3 DEF S, N, l3, lf, l4
  <2>6. j \in 1 .. N
    BY DEF N
  <2>7. /\ n + (m - 1) = l3 + (4 * (j - 1) + m) /\ 4 * (j - 1) + m \in 1 .. lf
        /\ n + (m - 1) \in 1 .. l4
    BY <2>4, <2>5, <2>6
  <2>1. /\ NameAt(r, j) + (m - 1) = Len(p3) + (4 * (j - 1) + m)
        /\ 4 * (j - 1) + m \in 1 .. Len(f)
    BY <2>7 DEF n, l3, lf
  <2>2. NameAt(r, j) + (m - 1) \in 1 .. Len(p4)
    BY <2>7 DEF n, l4
  <2> QED
    BY <1>6, <1>7, <2>1, <2>2
<1> HIDE DEF p4
<1>9. /\ p5 \in Seq(Tokens) /\ Len(p5) = EndAt(r) /\ EndAt(r) \in Nat /\ EndAt(r) >= 8
      /\ p5[EndAt(r) - 1] = CR /\ p5[EndAt(r)] = LF /\ Begins(p4, p5)
  <2>1. /\ p5 \in Seq(Tokens) /\ Len(p5) = Len(p4) + 2 /\ p5[Len(p4) + 1] = CR
        /\ p5[Len(p4) + 2] = LF /\ Begins(p4, p5)
    BY <1>2, <1>7, PairAfter
  <2>2. Len(p4) + 1 = EndAt(r) - 1 /\ Len(p4) + 2 = EndAt(r) /\ EndAt(r) \in Nat /\ EndAt(r) >= 8
    <3>1. EndAt(r) = (S + 4 * N) + 5
      BY DEF EndAt, NameAt
    <3>2. S \in Nat /\ S >= 3 /\ N \in Nat /\ Len(p4) = S + 3 + 4 * N
      BY <1>0, <1>7
    <3> HIDE DEF S, N
    <3> QED
      BY <3>1, <3>2
  <2> QED
    BY <2>1, <2>2
<1> HIDE DEF p5
<1>10. /\ p6 \in Seq(Tokens) /\ Len(p6) = EndAt(r) + Len(r.body) /\ Begins(p5, p6)
       /\ \A i \in 1 .. Len(r.body) :
            EndAt(r) + i \in 1 .. Len(p6) /\ p6[EndAt(r) + i] = Arg(r.body[i])
  <2> DEFINE b == Args(r.body)
  <2>1. /\ b \in Seq(Tokens) /\ Len(b) = Len(r.body)
        /\ \A i \in 1 .. Len(r.body) : b[i] = Arg(r.body[i])
    BY <1>0, ArgsType
  <2> HIDE DEF b
  <2>2. /\ p5 \o b \in Seq(Tokens) /\ Len(p5 \o b) = Len(p5) + Len(b)
        /\ \A i \in 1 .. Len(b) : (p5 \o b)[Len(p5) + i] = b[i]
    BY <1>9, <2>1, TokensConcat
  <2>3. Begins(p5, p5 \o b)
    BY <1>9, <2>1, BeginsConcat
  <2>4. \A i \in 1 .. Len(r.body) : EndAt(r) + i \in 1 .. EndAt(r) + Len(r.body)
    BY <1>0, <1>9
  <2> QED
    BY <1>9, <2>1, <2>2, <2>3, <2>4 DEF b
<1> HIDE DEF p6
<1>11. /\ s \in Seq(Tokens) /\ Len(s) = EndAt(r) + Len(r.body) + r.extra /\ Begins(p6, s)
       /\ \A i \in 1 .. r.extra : s[EndAt(r) + Len(r.body) + i] = T("extra")
  <2>1. e \in Seq(Tokens) /\ Len(e) = r.extra /\ \A i \in 1 .. r.extra : e[i] = T("extra")
    <3>1. e \in [1 .. r.extra -> Tokens]
      BY <1>2
    <3> QED
      BY <1>0, <3>1
  <2> HIDE DEF e
  <2>2. /\ p6 \o e \in Seq(Tokens) /\ Len(p6 \o e) = Len(p6) + Len(e)
        /\ \A i \in 1 .. Len(e) : (p6 \o e)[Len(p6) + i] = e[i]
    BY <1>10, <2>1, TokensConcat
  <2>3. Begins(p6, p6 \o e)
    BY <1>10, <2>1, BeginsConcat
  <2> QED
    BY <1>10, <2>1, <2>2, <2>3
<1> HIDE DEF s
<1>12. Begins(p5, s) /\ Begins(p4, s) /\ Begins(p3, s) /\ Begins(p2, s) /\ Begins(p1, s)
  <2>1. Begins(p5, s)
    BY <1>10, <1>11, BeginsTransitive
  <2>2. Begins(p4, s)
    BY <1>9, <2>1, BeginsTransitive
  <2>3. Begins(p3, s)
    BY <1>7, <2>2, BeginsTransitive
  <2>4. Begins(p2, s)
    BY <1>5, <2>3, BeginsTransitive
  <2>5. Begins(p1, s)
    BY <1>4, <2>4, BeginsTransitive
  <2> QED
    BY <2>1, <2>2, <2>3, <2>4, <2>5
<1>13. /\ s[1] \in [t : {"GET", "POST"}] /\ s[2] = [t |-> "doc", doc |-> r.doc]
       /\ r.args # <<>> => s[3].t = "?" /\ \A i \in 1 .. Len(r.args) : s[3 + i] = Arg(r.args[i])
  <2>1. 1 \in 1 .. Len(p1) /\ 2 \in 1 .. Len(p1)
    BY <1>0, <1>3
  <2>2. s[1] = p1[1] /\ s[2] = p1[2]
    BY <1>12, <2>1 DEF Begins
  <2>3. ASSUME r.args # <<>>
        PROVE  s[3].t = "?" /\ \A i \in 1 .. Len(r.args) : s[3 + i] = Arg(r.args[i])
    <3>1. Len(r.args) = S - 4 /\ Len(r.args) \in Nat /\ Len(r.args) >= 1
      BY <1>0, <1>3, <2>3, LenProperties, EmptySeq
    <3>2. 3 \in 1 .. Len(p1) /\ \A i \in 1 .. Len(r.args) : 3 + i \in 1 .. Len(p1)
      BY <1>0, <1>3, <3>1
    <3>3. s[3] = p1[3] /\ \A i \in 1 .. Len(r.args) : s[3 + i] = p1[3 + i]
      BY <1>12, <3>2 DEF Begins
    <3> QED
      BY <1>3, <2>3, <3>3
  <2> QED
    BY <1>3, <2>2, <2>3
<1>14. /\ s[S] = T("SP") /\ s[S + 1] = T("version") /\ s[S + 2] = CR /\ s[S + 3] = LF
  <2>1. S \in 1 .. Len(p2) /\ S + 1 \in 1 .. Len(p2) /\ S + 2 \in 1 .. Len(p3) /\ S + 3 \in 1 .. Len(p3)
    BY <1>0, <1>4, <1>5
  <2> QED
    BY <1>4, <1>5, <1>12, <2>1 DEF Begins
<1>15. ASSUME NEW j \in 1 .. N
       PROVE  /\ s[NameAt(r, j)].t = "name" /\ s[NameAt(r, j)].name = r.lines[j].name
              /\ s[NameAt(r, j) + 1].t = "value" /\ s[NameAt(r, j) + 1].line = r.lines[j]
              /\ s[NameAt(r, j) + 2] = CR /\ s[NameAt(r, j) + 3] = LF
  <2>1. r.lines[j] \in HeaderLines
    BY RequestType
  <2> DEFINE l == Line(r.lines[j])
  <2>2. /\ l[1].t = "name" /\ l[1].name = r.lines[j].name
        /\ l[2].t = "value" /\ l[2].line = r.lines[j] /\ l[3] = CR /\ l[4] = LF
    BY <2>1, LineType
  <2> HIDE DEF l
  <2>3. \A m \in 1 .. 4 : s[NameAt(r, j) + (m - 1)] = l[m]
    BY <1>8, <1>12 DEF Begins, l
  <2>4. /\ NameAt(r, j) + (1 - 1) = NameAt(r, j) /\ 2 - 1 = 1 /\ 3 - 1 = 2 /\ 4 - 1 = 3
        /\ 1 \in 1 .. 4 /\ 2 \in 1 .. 4 /\ 3 \in 1 .. 4 /\ 4 \in 1 .. 4
    BY <1>0 DEF NameAt
  <2>5. /\ s[NameAt(r, j)] = l[1] /\ s[NameAt(r, j) + 1] = l[2]
        /\ s[NameAt(r, j) + 2] = l[3] /\ s[NameAt(r, j) + 3] = l[4]
    BY <2>3, <2>4
  <2> QED
    BY <2>2, <2>5
<1>16. s[EndAt(r) - 1] = CR /\ s[EndAt(r)] = LF
  <2>1. EndAt(r) - 1 \in 1 .. Len(p5) /\ EndAt(r) \in 1 .. Len(p5)
    BY <1>9
  <2> QED
    BY <1>9, <1>12, <2>1 DEF Begins
<1>17. \A i \in 1 .. Len(r.body) : s[EndAt(r) + i] = Arg(r.body[i])
  BY <1>10, <1>11 DEF Begins
<1> QED
  BY <1>1, <1>11, <1>13, <1>14, <1>15, <1>16, <1>17 DEF Placed
(* Distances.                                                              *)
LEMMA PlacesAre ==
  ASSUME NEW r \in Requests
  PROVE  /\ Len(r.lines) \in Nat /\ Len(r.lines) >= 1 /\ Len(r.body) \in Nat /\ r.extra \in Nat
         /\ SpAt(r) \in Nat /\ SpAt(r) >= 3 /\ NameAt(r, 0) = SpAt(r)
         /\ EndAt(r) \in Nat /\ EndAt(r) = NameAt(r, Len(r.lines)) + 5
         /\ \A j \in 0 .. Len(r.lines) :
              /\ NameAt(r, j) \in Nat /\ NameAt(r, j) = SpAt(r) + 4 * j
              /\ NameAt(r, j) + 5 =< EndAt(r)
              /\ NameAt(r, j) + 5 = EndAt(r) => j = Len(r.lines)
         /\ \A i, j \in 0 .. Len(r.lines) :
              /\ i < j => NameAt(r, i) + 4 =< NameAt(r, j)
              /\ i + 1 = j => NameAt(r, i) + 4 = NameAt(r, j)
<1>1. /\ Len(r.lines) \in Nat /\ Len(r.lines) >= 1 /\ Len(r.body) \in Nat /\ r.extra \in Nat
      /\ SpAt(r) \in Nat /\ SpAt(r) >= 3
  BY RequestType, SpType
<1> DEFINE S == SpAt(r)
           N == Len(r.lines)
           E == EndAt(r)
           at(j) == NameAt(r, j)
<1>2. \A j : at(j) = S + 4 * j
  BY DEF NameAt
<1>3. E = at(N) + 5
  BY DEF EndAt
<1>4. S \in Nat /\ S >= 3 /\ N \in Nat
  BY <1>1
<1> HIDE DEF S, N, E, at
<1>5. at(0) = S /\ at(N) = S + 4 * N
  BY <1>2, <1>4
<1>6. E \in Nat
  BY <1>3, <1>4, <1>5
<1>7. ASSUME NEW j \in 0 .. N
      PROVE  /\ at(j) \in Nat /\ at(j) = S + 4 * j /\ at(j) + 5 =< E
             /\ at(j) + 5 = E => j = N
  <2>1. at(j) = S + 4 * j /\ E = S + 4 * N + 5
    BY <1>2, <1>3, <1>4, <1>5
  <2> HIDE DEF at
  <2> QED
    BY <1>4, <2>1
<1>8. ASSUME NEW i \in 0 .. N, NEW j \in 0 .. N
      PROVE  /\ i < j => at(i) + 4 =< at(j)
             /\ i + 1 = j => at(i) + 4 = at(j)
  <2>1. at(i) = S + 4 * i /\ at(j) = S + 4 * j
    BY <1>2
  <2> QED
    BY <1>4, <2>1
<1> QED
  BY <1>1, <1>3, <1>5, <1>6, <1>7, <1>8 DEF S, N, E, at

LEMMA Fours ==
  ASSUME NEW d \in Nat
  PROVE  \E q \in Nat : \E m \in 0 .. 3 : d = 4 * q + m
<1> DEFINE S == {e \in Nat : \E q \in Nat : \E m \in 0 .. 3 : e = 4 * q + m}
<1>1. 0 \in S
  <2>1. 0 = 4 * 0 + 0
    OBVIOUS
  <2> QED
    BY <2>1
<1>2. ASSUME NEW e \in Nat, e \in S PROVE e + 1 \in S
  <2>1. PICK q \in Nat, m \in 0 .. 3 : e = 4 * q + m
    BY <1>2
  <2>2. CASE m = 3
    <3> DEFINE u == q + 1
    <3>1. e + 1 = 4 * u + 0 /\ u \in Nat /\ 0 \in 0 .. 3
      BY <2>1, <2>2
    <3> HIDE DEF u
    <3> QED
      BY <3>1
  <2>3. CASE m # 3
    <3>1. e + 1 = 4 * q + (m + 1) /\ m + 1 \in 0 .. 3
      BY <2>1, <2>3
    <3> QED
      BY <3>1
  <2> QED
    BY <2>2, <2>3
<1> HIDE DEF S
<1>3. d \in S
  BY <1>1, <1>2, NumbersIn
<1> QED
  BY <1>3 DEF S

(* The token at any position.                                              *)
LEMMA PositionIs ==
  ASSUME NEW r \in Requests, NEW s, Placed(s, r), NEW i \in 1 .. Len(s)
  PROVE  \/ i < SpAt(r) /\ s[i].t \in {"GET", "POST", "doc", "?", "arg"}
         \/ i = SpAt(r) \/ i = SpAt(r) + 1 \/ i = SpAt(r) + 2 \/ i = SpAt(r) + 3
         \/ \E j \in 1 .. Len(r.lines) : \E m \in 0 .. 3 : i = NameAt(r, j) + m
         \/ i = EndAt(r) - 1 \/ i = EndAt(r)
         \/ i > EndAt(r) /\ s[i].t \in {"arg", "extra"}
<1> DEFINE S == SpAt(r)
           N == Len(r.lines)
           E == EndAt(r)
           B == Len(r.body)
           X == r.extra
<1>1. /\ S \in Nat /\ S >= 3 /\ N \in Nat /\ N >= 1 /\ B \in Nat /\ X \in Nat
      /\ E = NameAt(r, N) + 5 /\ NameAt(r, N) = S + 4 * N /\ E \in Nat
  BY PlacesAre
<1>2. Len(s) = E + B + X
  BY DEF Placed
<1>3. CASE i < S
  <2>1. CASE i = 1
    BY <1>3, <2>1 DEF Placed
  <2>2. CASE i = 2
    BY <1>3, <2>2 DEF Placed
  <2>3. CASE i # 1 /\ i # 2
    <3>1. r.args # <<>> /\ S = 4 + Len(r.args) /\ Len(r.args) \in Nat
      <4>1. S # 3
        BY <1>1, <1>3, <2>3
      <4> QED
        BY <4>1, RequestType, LenProperties DEF SpAt
    <3>2. i = 3 \/ \E k \in 1 .. Len(r.args) : i = 3 + k
      <4> DEFINE l == Len(r.args)
      <4>1. S = 4 + l /\ l \in Nat
        BY <3>1
      <4>2. i = 3 \/ (i - 3 \in 1 .. l /\ i = 3 + (i - 3))
        <5> HIDE DEF S, l
        <5> QED
          BY <1>3, <2>3, <4>1
      <4> DEFINE k == i - 3
      <4>3. i = 3 \/ (k \in 1 .. l /\ i = 3 + k)
        BY <4>2
      <4> HIDE DEF k
      <4> QED
        BY <4>3
    <3>3. s[3].t = "?" /\ \A k \in 1 .. Len(r.args) : s[3 + k] = Arg(r.args[k])
      BY <3>1 DEF Placed
    <3>4. s[i].t \in {"?", "arg"}
      <4>1. ASSUME NEW k \in 1 .. Len(r.args), i = 3 + k PROVE s[i].t = "arg"
        <5>1. s[3 + k] = Arg(r.args[k])
          BY <3>3
        <5>2. s[i] = Arg(r.args[k])
          BY <4>1, <5>1
        <5> QED
          BY <5>2 DEF Arg
      <4> QED
        BY <3>2, <3>3, <4>1
    <3> QED
      BY <1>3, <3>4
  <2> QED
    BY <2>1, <2>2, <2>3
<1>4. CASE i >= S + 4 /\ i < E - 1
  <2>1. i - S \in Nat
    BY <1>1, <1>4
  <2>2. PICK q \in Nat, m \in 0 .. 3 : i - S = 4 * q + m
    BY <2>1, Fours
  <2>3. q \in 1 .. N
    <3> HIDE DEF S, N, E
    <3>1. E = S + 4 * N + 5
      BY <1>1
    <3> QED
      BY <1>1, <1>4, <2>2, <3>1
  <2>4. q \in 0 .. N
    BY <2>3
  <2>5. NameAt(r, q) = S + 4 * q
    BY <2>4, PlacesAre
  <2>6. i = NameAt(r, q) + m
    <3> DEFINE a == NameAt(r, q)
    <3>1. a = S + 4 * q /\ S \in Nat
      BY <1>1, <2>5
    <3> HIDE DEF a, S
    <3>2. i = a + m
      BY <2>2, <3>1 DEF S
    <3> QED
      BY <3>2 DEF a
  <2> QED
    BY <2>3, <2>6
<1>5. CASE i > E
  <2>0. E \in Nat /\ B \in Nat /\ X \in Nat /\ i \in 1 .. E + B + X
    BY <1>1, <1>2
  <2> HIDE DEF E, B, X
  <2>1. (\E k \in 1 .. B : i = E + k) \/ (\E k \in 1 .. X : i = E + B + k)
    <3> DEFINE k == i - E
               l == i - E - B
    <3>1. (k \in 1 .. B /\ i = E + k) \/ (l \in 1 .. X /\ i = E + B + l)
      BY <1>5, <2>0 DEF E
    <3> HIDE DEF k, l
    <3> QED
      BY <3>1
  <2>2. /\ \A k \in 1 .. B : s[E + k] = Arg(r.body[k])
        /\ \A k \in 1 .. X : s[E + B + k] = T("extra")
    BY DEF Placed, E, B, X
  <2>3. s[i].t \in {"arg", "extra"}
    <3>1. ASSUME NEW k \in 1 .. B, i = E + k PROVE s[i].t = "arg"
      <4>1. s[E + k] = Arg(r.body[k])
        BY <2>2
      <4>2. s[i] = Arg(r.body[k])
        BY <3>1, <4>1
      <4> QED
        BY <4>2 DEF Arg
    <3>2. ASSUME NEW k \in 1 .. X, i = E + B + k PROVE s[i].t = "extra"
      BY <2>2, <3>2 DEF T
    <3> QED
      BY <2>1, <3>1, <3>2
  <2> QED
    BY <1>5, <2>3 DEF E
<1>6. \/ i < S \/ i = S \/ i = S + 1 \/ i = S + 2 \/ i = S + 3
      \/ (i >= S + 4 /\ i < E - 1) \/ i = E - 1 \/ i = E \/ i > E
  <2> HIDE DEF S, E
  <2> QED
    BY <1>1
<1> QED
  BY <1>3, <1>4, <1>5, <1>6

LEMMA KindsAre ==
  ASSUME NEW r \in Requests, NEW s, Placed(s, r), NEW i \in 1 .. Len(s)
  PROVE  /\ s[i].t = "SP" <=> i = SpAt(r)
         /\ s[i].t = "name" => \E j \in 1 .. Len(r.lines) : i = NameAt(r, j)
         /\ s[i].t = "CR" => \/ i = SpAt(r) + 2 \/ i = EndAt(r) - 1
                             \/ \E j \in 1 .. Len(r.lines) : i = NameAt(r, j) + 2
<1>1. /\ s[SpAt(r)].t = "SP" /\ s[SpAt(r) + 1].t = "version" /\ s[SpAt(r) + 2].t = "CR"
      /\ s[SpAt(r) + 3].t = "LF" /\ s[EndAt(r) - 1].t = "CR" /\ s[EndAt(r)].t = "LF"
  BY DEF Placed, T, CR, LF
<1>2. \A j \in 1 .. Len(r.lines) :
        /\ s[NameAt(r, j)].t = "name" /\ s[NameAt(r, j) + 1].t = "value"
        /\ s[NameAt(r, j) + 2].t = "CR" /\ s[NameAt(r, j) + 3].t = "LF"
  BY DEF Placed, T, CR, LF
<1>3. CASE i < SpAt(r) /\ s[i].t \in {"GET", "POST", "doc", "?", "arg"}
  <2>1. i # SpAt(r)
    BY <1>3, PlacesAre
  <2> QED
    BY <1>3, <2>1
<1>4. CASE i \in {SpAt(r), SpAt(r) + 1, SpAt(r) + 2, SpAt(r) + 3}
  <2>1. i # SpAt(r) => s[i].t # "SP"
    BY <1>1, <1>4
  <2> QED
    BY <1>1, <1>4, <2>1
<1>5. ASSUME NEW j \in 1 .. Len(r.lines), NEW m \in 0 .. 3, i = NameAt(r, j) + m
      PROVE  /\ s[i].t \in {"name", "value", "CR", "LF"} /\ i # SpAt(r)
             /\ s[i].t = "name" => i = NameAt(r, j)
             /\ s[i].t = "CR" => i = NameAt(r, j) + 2
  <2>1. NameAt(r, j) >= SpAt(r) + 4 /\ SpAt(r) \in Nat /\ NameAt(r, j) \in Nat
    <3>1. 0 \in 0 .. Len(r.lines) /\ j \in 0 .. Len(r.lines) /\ 0 < j
      OBVIOUS
    <3> QED
      BY <3>1, PlacesAre
  <2> DEFINE a == NameAt(r, j)
  <2>2. s[a].t = "name" /\ s[a + 1].t = "value" /\ s[a + 2].t = "CR" /\ s[a + 3].t = "LF"
    BY <1>2
  <2>3. a \in Nat /\ a >= SpAt(r) + 4 /\ i = a + m
    BY <1>5, <2>1
  <2> HIDE DEF a
  <2>4. i = a \/ i = a + 1 \/ i = a + 2 \/ i = a + 3
    BY <2>3
  <2>5. i # SpAt(r)
    BY <2>1, <2>3
  <2>6. /\ s[i].t \in {"name", "value", "CR", "LF"}
        /\ s[i].t = "name" => i = a
        /\ s[i].t = "CR" => i = a + 2
    BY <2>2, <2>4
  <2> QED
    BY <2>5, <2>6 DEF a
<1>6. CASE \E j \in 1 .. Len(r.lines) : \E m \in 0 .. 3 : i = NameAt(r, j) + m
  BY <1>5, <1>6
<1>7. EndAt(r) >= SpAt(r) + 9
  <2>1. /\ 0 \in 0 .. Len(r.lines) /\ Len(r.lines) \in 0 .. Len(r.lines) /\ 0 < Len(r.lines)
        /\ NameAt(r, 0) = SpAt(r) /\ EndAt(r) = NameAt(r, Len(r.lines)) + 5
        /\ SpAt(r) \in Nat
    BY PlacesAre
  <2>2. NameAt(r, 0) + 4 =< NameAt(r, Len(r.lines)) /\ NameAt(r, Len(r.lines)) \in Nat
    BY <2>1, PlacesAre
  <2> QED
    BY <2>1, <2>2
<1>8. CASE i = EndAt(r) - 1 \/ i = EndAt(r)
  <2>1. i # SpAt(r)
    BY <1>7, <1>8, PlacesAre
  <2> QED
    BY <1>1, <1>8, <2>1
<1>9. CASE i > EndAt(r) /\ s[i].t \in {"arg", "extra"}
  <2>1. i # SpAt(r)
    BY <1>7, <1>9, PlacesAre
  <2> QED
    BY <1>9, <2>1
<1> QED
  BY <1>3, <1>4, <1>6, <1>8, <1>9, PositionIs

-----------------------------------------------------------------------------
(* One pass over what has arrived: t is the first n tokens of the request. *)
Cut(t, n, s) ==
  /\ t \in Seq(Tokens) /\ Len(t) = n /\ DOMAIN t = 1 .. n
  /\ \A i \in 1 .. n : t[i] = s[i]

LEMMA CutIs ==
  ASSUME NEW s \in Seq(Tokens), NEW n \in 1 .. Len(s)
  PROVE  Cut(SubSeq(s, 1, n), n, s)
<1>1. Len(s) \in Nat /\ \A i \in 1 .. Len(s) : s[i] \in Tokens
  BY LenProperties, ElementOfSeq
<1>2. SubSeq(s, 1, n) = [i \in 1 .. n |-> s[i]]
  BY <1>1
<1>3. [i \in 1 .. n |-> s[i]] \in [1 .. n -> Tokens]
  BY <1>1
<1> DEFINE u == [i \in 1 .. n |-> s[i]]
<1>4. u \in Seq(Tokens) /\ Len(u) = n /\ DOMAIN u = 1 .. n /\ \A i \in 1 .. n : u[i] = s[i]
  BY <1>1, <1>3
<1> QED
  BY <1>2, <1>4 DEF Cut

(* What is behind it changes nothing of it.                                *)
LEMMA AllIs ==
  ASSUME NEW s, NEW n \in Nat, NEW t, Cut(t, n, s), NEW mem \in Seq(Tokens)
  PROVE  \A i \in 1 .. n : \A mark : Is(t \o mem, i, mark) <=> s[i].t = mark
<1>1. t \in Seq(Tokens) /\ Len(t) = n /\ \A i \in 1 .. n : t[i] = s[i]
  BY DEF Cut
<1> DEFINE all == t \o mem
<1>2. DOMAIN all = 1 .. Len(all) /\ \A i \in 1 .. n : i \in 1 .. Len(all) /\ all[i] = t[i]
  BY <1>1, ConcatIs
<1> HIDE DEF all
<1>3. \A i \in 1 .. n : i \in DOMAIN all /\ all[i] = s[i]
  BY <1>1, <1>2
<1> QED
  BY <1>3 DEF Is, all

LEMMA FirstSpace ==
  ASSUME NEW r \in Requests, NEW s, Placed(s, r), NEW n \in 1 .. Len(s), NEW t, Cut(t, n, s)
  PROVE  First(t, 1, "SP") = IF n < SpAt(r) THEN 0 ELSE SpAt(r)
<1> DEFINE at == {i \in 1 .. Len(t) : t[i].t = "SP"}
<1>1. Len(t) = n /\ n \in Nat /\ \A i \in 1 .. n : t[i] = s[i] /\ i \in 1 .. Len(s)
  <2>1. Len(s) \in Nat
    BY LenProperties DEF Placed
  <2> QED
    BY <2>1 DEF Cut
<1>2. \A i : i \in at <=> i \in 1 .. n /\ i = SpAt(r)
  BY <1>1, KindsAre
<1>3. SpAt(r) \in Nat /\ SpAt(r) >= 3
  BY SpType
<1>4. First(t, 1, "SP") = IF at = {} THEN 0 ELSE Min(at)
  BY DEF First
<1> HIDE DEF at
<1>5. CASE n < SpAt(r)
  <2>1. at = {}
    BY <1>1, <1>2, <1>3, <1>5
  <2> QED
    BY <1>4, <1>5, <2>1
<1>6. CASE ~(n < SpAt(r))
  <2>1. SpAt(r) \in at /\ \A i \in at : i = SpAt(r)
    BY <1>1, <1>2, <1>3, <1>6
  <2>2. at \in SUBSET Nat /\ at # {}
    BY <1>3, <2>1
  <2>3. Min(at) = SpAt(r)
    BY <2>1, <2>2, SmallestNumber
  <2> QED
    BY <1>4, <1>6, <2>1, <2>3
<1> QED
  BY <1>5, <1>6

EndsOf(t, a, mem) == {e \in a .. Len(t) : Is(t, e, "CR") /\ Is(t \o mem, e + 1, "LF")}

(* The end of a line is its own: if it is noticed, it has arrived up to CR *)
(* and if it has arrived, it is noticed.                                   *)
LEMMA LineEnds ==
  ASSUME NEW r \in Requests, NEW s, Placed(s, r), NEW n \in 1 .. Len(s), NEW t, Cut(t, n, s),
         NEW mem \in Seq(Tokens), NEW j \in 1 .. Len(r.lines), NameAt(r, j) =< n
  PROVE  /\ NameAt(r, j) + 3 =< n => EndsOf(t, NameAt(r, j), mem) # {}
         /\ EndsOf(t, NameAt(r, j), mem) # {} =>
              NameAt(r, j) + 2 =< n /\ Min(EndsOf(t, NameAt(r, j), mem)) = NameAt(r, j) + 2
<1> DEFINE a == NameAt(r, j)
           all == t \o mem
           ends == {e \in a .. Len(t) : Is(t, e, "CR") /\ Is(all, e + 1, "LF")}
<1>1. /\ Len(t) = n /\ n \in Nat /\ DOMAIN t = 1 .. n /\ Len(s) \in Nat
      /\ \A i \in 1 .. n : t[i] = s[i] /\ i \in 1 .. Len(s)
  <2>1. Len(s) \in Nat
    BY LenProperties DEF Placed
  <2> QED
    BY <2>1 DEF Cut
<1>2. s[a].t = "name" /\ s[a + 1].t = "value" /\ s[a + 2].t = "CR" /\ s[a + 3].t = "LF"
  BY DEF Placed, T, CR, LF
<1>3. \A i \in 1 .. n : Is(all, i, "LF") <=> s[i].t = "LF"
  <2> HIDE DEF all
  <2> QED
    BY <1>1, AllIs DEF all
<1>4. a \in Nat /\ a >= 1
  <2>1. j \in 0 .. Len(r.lines) /\ 0 < j
    OBVIOUS
  <2> QED
    BY <2>1, PlacesAre
<1>5. a =< n
  OBVIOUS
<1>6. \A e : e \in ends <=> e \in a .. n /\ t[e].t = "CR" /\ Is(all, e + 1, "LF")
  <2>1. \A e \in a .. n : e \in 1 .. n
    BY <1>1, <1>4
  <2> QED
    BY <1>1, <2>1 DEF Is
<1> HIDE DEF a, all, ends
<1>7. ASSUME NEW e \in ends PROVE e \in Nat /\ e >= a + 2
  <2>1. e \in a .. n /\ e \in 1 .. n /\ s[e].t = "CR"
    BY <1>1, <1>4, <1>6
  <2>2. e # a /\ e # a + 1
    BY <1>2, <2>1
  <2> QED
    BY <1>1, <1>4, <2>1, <2>2
<1>8. ASSUME a + 3 =< n PROVE a + 2 \in ends
  <2>1. a + 2 \in a .. n /\ a + 2 \in 1 .. n /\ a + 3 \in 1 .. n /\ (a + 2) + 1 = a + 3
    BY <1>1, <1>4, <1>8
  <2>2. t[a + 2].t = "CR"
    BY <1>1, <1>2, <2>1
  <2>3. Is(all, (a + 2) + 1, "LF")
    BY <1>2, <1>3, <2>1
  <2> QED
    BY <1>6, <2>1, <2>2, <2>3
<1>9. ASSUME ends # {} PROVE a + 2 =< n /\ Min(ends) = a + 2
  <2>1. ends \in SUBSET Nat
    BY <1>7
  <2>2. Min(ends) \in ends /\ \A y \in ends : Min(ends) =< y
    BY <1>9, <2>1, SmallestNumber
  <2> DEFINE m == Min(ends)
  <2>3. m \in ends /\ (\A y \in ends : m =< y) /\ m \in a .. n /\ m >= a + 2 /\ m \in Nat
    BY <1>6, <1>7, <2>2
  <2> HIDE DEF m
  <2>4. a + 2 =< n
    BY <1>1, <1>4, <2>3
  <2>5. CASE a + 3 =< n
    <3>1. a + 2 \in ends
      BY <1>8, <2>5
    <3>2. m =< a + 2
      BY <2>3, <3>1
    <3>3. m = a + 2
      BY <1>4, <2>3, <3>2
    <3> QED
      BY <2>4, <3>3 DEF m
  <2>6. CASE ~(a + 3 =< n)
    <3>1. m = a + 2
      BY <1>1, <1>4, <2>3, <2>6
    <3> QED
      BY <2>4, <3>1 DEF m
  <2> QED
    BY <2>5, <2>6
<1> QED
  BY <1>8, <1>9 DEF a, all, ends, EndsOf

-----------------------------------------------------------------------------
(* What a line of the header does to the connection.                       *)
Conns == [headerLen : Int, contentLen : Int, doc : STRING \cup {""}, origQs : BOOLEAN,
          browser : BOOLEAN, gzip : BOOLEAN, post : SUBSET Argument,
          func : STRING \cup {""}, sid : STRING \cup {""},
          file : BOOLEAN]

(* d is c with the arguments taken.                                        *)
Took(c, d, args) ==
  /\ d \in Conns /\ d.doc = c.doc /\ d.file = c.file
  /\ d.post = Put(c.post, args) /\ d.func = Called(c.func, args)

LengthKnown(c, r) == c.contentLen \in IF r.method = "GET" THEN {0} ELSE {Unset, Len(r.body)}

LEMMA TookNone ==
  ASSUME NEW c, NEW d \in Conns, d.doc = c.doc, d.file = c.file, d.post = c.post, d.func = c.func
  PROVE  Took(c, d, <<>>)
BY TakeNone DEF Took

LEMMA TookTwice ==
  ASSUME NEW c \in Conns, NEW d, NEW e, NEW xs \in Seq(Argument), NEW ys \in Seq(Argument),
         Took(c, d, xs), Took(d, e, ys)
  PROVE  Took(c, e, xs \o ys)
<1>1. c.post \in SUBSET Argument
  BY DEF Conns
<1>2. /\ Put(Put(c.post, xs), ys) = Put(c.post, xs \o ys)
      /\ Called(Called(c.func, xs), ys) = Called(c.func, xs \o ys)
  BY <1>1, PutTwice, CalledTwice
<1> QED
  BY <1>2 DEF Took

LEMMA TakeArgsDoes ==
  ASSUME NEW c \in Conns, NEW args \in Seq(Argument)
  PROVE  /\ Took(c, TakeArgs(c, args), args) /\ TakeArgs(c, args).contentLen = c.contentLen
         /\ Took(c, process_qs(c, args), args) /\ process_qs(c, args).contentLen = c.contentLen
<1> DEFINE p == Put(c.post, args)
           f == Called(c.func, args)
<1>1. c.post \in SUBSET Argument /\ c.func \in STRING \cup {""}
  BY DEF Conns
<1>2. p \in SUBSET Argument /\ f \in STRING \cup {""}
  BY <1>1, PutKeys, CalledType
<1> HIDE DEF p, f
<1>3. TakeArgs(c, args) = [c EXCEPT !.post = p, !.func = f]
  BY DEF TakeArgs, p, f
<1>4. process_qs(c, args) = [c EXCEPT !.post = p, !.func = f, !.origQs = TRUE]
  BY <1>3 DEF process_qs, Conns
<1>5. /\ TakeArgs(c, args) \in Conns /\ TakeArgs(c, args).contentLen = c.contentLen
      /\ TakeArgs(c, args).doc = c.doc /\ TakeArgs(c, args).file = c.file
      /\ TakeArgs(c, args).post = p /\ TakeArgs(c, args).func = f
  BY <1>2, <1>3 DEF Conns
<1>6. /\ process_qs(c, args) \in Conns /\ process_qs(c, args).contentLen = c.contentLen
      /\ process_qs(c, args).doc = c.doc /\ process_qs(c, args).file = c.file
      /\ process_qs(c, args).post = p /\ process_qs(c, args).func = f
  BY <1>2, <1>4 DEF Conns
<1> QED
  BY <1>5, <1>6 DEF Took, p, f

LEMMA CookieDoes ==
  ASSUME NEW c \in Conns, NEW cookies \in Seq(Cookies)
  PROVE  /\ Took(c, process_cookie(c, cookies), Gets(cookies))
         /\ process_cookie(c, cookies).contentLen = c.contentLen
<1> DEFINE d == IF Named(cookies, "GET") = {} THEN c ELSE process_qs(c, Gets(cookies))
<1>1. /\ Len(cookies) \in Nat /\ DOMAIN cookies = 1 .. Len(cookies)
      /\ \A i \in 1 .. Len(cookies) : cookies[i] \in Cookies
  BY LenProperties, ElementOfSeq
<1>2. Took(c, d, Gets(cookies)) /\ d.contentLen = c.contentLen
  <2>1. CASE Named(cookies, "GET") = {}
    <3> DEFINE u == [i \in DOMAIN cookies |-> IF cookies[i].key = "GET" THEN cookies[i].args ELSE <<>>]
    <3>1. <<>> \in Seq({})
      BY EmptySeq
    <3>2. u \in [1 .. Len(cookies) -> Seq({})]
      BY <1>1, <2>1, <3>1 DEF Named
    <3> HIDE DEF u
    <3>3. FlattenSeq(u) \in Seq({})
      BY <1>1, <3>2, FlattenType
    <3> DEFINE f == FlattenSeq(u)
    <3>4. f = <<>>
      <4>0. f \in Seq({})
        BY <3>3
      <4> HIDE DEF f
      <4>1. Len(f) \in Nat /\ \A i \in 1 .. Len(f) : f[i] \in {}
        BY <4>0, LenProperties, ElementOfSeq
      <4>2. Len(f) = 0
        BY <4>1
      <4> QED
        BY <4>0, <4>2, EmptySeq
    <3>5. Gets(cookies) = <<>>
      BY <3>4 DEF Gets, u
    <3>6. d = c /\ Took(c, c, <<>>)
      BY <2>1, TookNone
    <3> QED
      BY <3>5, <3>6
  <2>2. CASE Named(cookies, "GET") # {}
    BY <2>2, GetsType, TakeArgsDoes
  <2> QED
    BY <2>1, <2>2
<1>3. d \in Conns
  BY <1>2 DEF Took
<1> DEFINE m == Max(Named(cookies, "SID"))
<1>4. CASE Named(cookies, "SID") = {}
  BY <1>2, <1>4 DEF process_cookie
<1>5. CASE Named(cookies, "SID") # {}
  <2>1. Named(cookies, "SID") \in SUBSET (1 .. Len(cookies))
    BY <1>1 DEF Named
  <2>2. m \in 1 .. Len(cookies)
    BY <1>1, <1>5, <2>1, GreatestNumber
  <2>3. cookies[m].value \in STRING
    BY <1>1, <2>2 DEF Cookies
  <2> DEFINE v == cookies[m].value
  <2>4. process_cookie(c, cookies) = [d EXCEPT !.sid = v]
    BY <1>5 DEF process_cookie
  <2>5. v \in STRING
    BY <2>3
  <2> HIDE DEF d, v
  <2>6. /\ [d EXCEPT !.sid = v] \in Conns /\ [d EXCEPT !.sid = v].contentLen = d.contentLen
        /\ [d EXCEPT !.sid = v].doc = d.doc /\ [d EXCEPT !.sid = v].file = d.file
        /\ [d EXCEPT !.sid = v].post = d.post /\ [d EXCEPT !.sid = v].func = d.func
    BY <1>3, <2>5 DEF Conns
  <2> QED
    BY <1>2, <2>4, <2>6 DEF Took
<1> QED
  BY <1>4, <1>5

HandledAs(w, c, name, l, whole, found) ==
  /\ name = "If-Modified-Since" => w = Result(c, -1)
  /\ ~whole /\ (Slices(c, name) \/ (name = "Accept-Encoding" /\ ~found)) => w = Dies(c)
  /\ name = "Accept-Encoding" /\ (whole \/ found) =>
       w = Result([c EXCEPT !.gzip = ~whole \/ l.text = "gzip"], 0)
  /\ whole /\ name = "Cookie" =>
       w = IF CookieNeedsSession(l.cookies) /\ ~session THEN Dies(c)
           ELSE Result(process_cookie(c, l.cookies), 0)
  /\ whole /\ name # "Cookie" /\ Slices(c, name) =>
       w = Result(IF name = "User-Agent" THEN [c EXCEPT !.browser = TRUE]
                  ELSE [c EXCEPT !.contentLen = l.length], 0)
  /\ name \notin {"If-Modified-Since", "Accept-Encoding"} /\ ~Slices(c, name) =>
       w = Result(c, 0)

LEMMA HandleIs ==
  ASSUME NEW c, NEW name, NEW l, NEW whole \in BOOLEAN, NEW found \in BOOLEAN
  PROVE  HandledAs(Handle(c, name, l, whole, found), c, name, l, whole, found)
<1> DEFINE a1 == Result(c, -1)
           a2 == Dies(c)
           a3 == Result([c EXCEPT !.gzip = ~whole \/ l.text = "gzip"], 0)
           a4 == IF CookieNeedsSession(l.cookies) /\ ~session THEN Dies(c)
                 ELSE Result(process_cookie(c, l.cookies), 0)
           a5 == Result(IF name = "User-Agent" THEN [c EXCEPT !.browser = TRUE]
                        ELSE [c EXCEPT !.contentLen = l.length], 0)
           a6 == Result(c, 0)
           w == Handle(c, name, l, whole, found)
<1>1. w = CASE name = "If-Modified-Since" -> a1
            [] ~whole /\ (Slices(c, name) \/ (name = "Accept-Encoding" /\ ~found)) -> a2
            [] name = "Accept-Encoding" /\ (whole \/ found) -> a3
            [] whole /\ name = "Cookie" -> a4
            [] whole /\ name # "Cookie" /\ Slices(c, name) -> a5
            [] OTHER -> a6
  BY DEF Handle
<1>2. /\ Slices(c, name) => name \in {"Cookie", "Content-Length", "User-Agent"}
      /\ name = "Cookie" => Slices(c, name)
  BY DEF Slices
<1> DEFINE sl == Slices(c, name)
<1>3. w = CASE name = "If-Modified-Since" -> a1
            [] ~whole /\ (sl \/ (name = "Accept-Encoding" /\ ~found)) -> a2
            [] name = "Accept-Encoding" /\ (whole \/ found) -> a3
            [] whole /\ name = "Cookie" -> a4
            [] whole /\ name # "Cookie" /\ sl -> a5
            [] OTHER -> a6
  BY <1>1
<1>4. /\ sl => name \in {"Cookie", "Content-Length", "User-Agent"}
      /\ name = "Cookie" => sl
      /\ sl \in BOOLEAN
  BY <1>2 DEF Slices
<1> HIDE DEF a1, a2, a3, a4, a5, a6, w, sl
<1>5. /\ name = "If-Modified-Since" => w = a1
      /\ ~whole /\ (sl \/ (name = "Accept-Encoding" /\ ~found)) => w = a2
      /\ name = "Accept-Encoding" /\ (whole \/ found) => w = a3
      /\ whole /\ name = "Cookie" => w = a4
      /\ whole /\ name # "Cookie" /\ sl => w = a5
      /\ name \notin {"If-Modified-Since", "Accept-Encoding"} /\ ~sl => w = a6
  BY <1>3, <1>4
<1> QED
  BY <1>5 DEF HandledAs, a1, a2, a3, a4, a5, a6, w, sl

LineHandled(w, c, r, j, whole) ==
  /\ w.dead \in BOOLEAN
  /\ ~w.dead => /\ LengthKnown(w.c, r)
                /\ \/ w.ret = -1 /\ Took(c, w.c, <<>>)
                   \/ w.ret = 0 /\ Took(c, w.c, IF whole THEN NamesOf(r, j) ELSE <<>>)

LEMMA HandleDoes ==
  ASSUME NEW r \in Requests, NEW j \in 1 .. Len(r.lines), NEW c \in Conns, LengthKnown(c, r),
         NEW whole \in BOOLEAN, NEW found \in BOOLEAN, NEW l, whole => l = r.lines[j]
  PROVE  LineHandled(Handle(c, r.lines[j].name, l, whole, found), c, r, j, whole)
<1> DEFINE name == r.lines[j].name
           w == Handle(c, name, l, whole, found)
           xs == IF whole THEN NamesOf(r, j) ELSE <<>>
           Good(u) == /\ u.dead \in BOOLEAN
                      /\ ~u.dead => /\ LengthKnown(u.c, r)
                                    /\ \/ u.ret = -1 /\ Took(c, u.c, <<>>)
                                       \/ u.ret = 0 /\ Took(c, u.c, xs)
<1>1. Took(c, c, <<>>)
  BY TookNone
<1>2. r.lines[j] \in HeaderLines
  BY RequestType
<1>3. name # "Cookie" => xs = <<>>
  BY DEF NamesOf
<1>4. name = "Cookie" /\ whole => xs = Gets(l.cookies) /\ l.cookies \in Seq(Cookies)
  BY <1>2 DEF NamesOf, HeaderLines
<1>5. whole /\ name = "Content-Length" /\ r.method # "GET" => l.length = Len(r.body) /\ l.length \in Nat
  BY <1>2, RequestType DEF HeaderLines
<1>6. \A d : Good(Dies(d))
  BY DEF Dies, Result
<1> HIDE DEF xs, name
<1>13. HandledAs(w, c, name, l, whole, found)
  BY HandleIs
<1> HIDE DEF w
<1>14. Good(w) => /\ w.dead \in BOOLEAN
                  /\ ~w.dead => /\ LengthKnown(w.c, r)
                                /\ \/ w.ret = -1 /\ Took(c, w.c, <<>>)
                                   \/ w.ret = 0 /\ Took(c, w.c, xs)
  OBVIOUS
<1>7. ASSUME name = "If-Modified-Since"
      PROVE  Good(w)
  <2>1. w = Result(c, -1)
    BY <1>7, <1>13 DEF HandledAs
  <2> QED
    BY <1>1, <2>1 DEF Result
<1>8. ASSUME name # "If-Modified-Since" /\ ~whole,
             (Slices(c, name) \/ (name = "Accept-Encoding" /\ ~found))
      PROVE  Good(w)
  <2>1. w = Dies(c)
    BY <1>8, <1>13 DEF HandledAs
  <2> QED
    BY <1>6, <2>1
<1>9. ASSUME name = "Accept-Encoding",
             ~(~whole /\ (Slices(c, name) \/ (name = "Accept-Encoding" /\ ~found)))
      PROVE  Good(w)
  <2> DEFINE d == [c EXCEPT !.gzip = ~whole \/ l.text = "gzip"]
  <2>1. w = Result(d, 0)
    BY <1>9, <1>13 DEF HandledAs
  <2>2. /\ d \in Conns /\ d.contentLen = c.contentLen
        /\ d.doc = c.doc /\ d.file = c.file /\ d.post = c.post /\ d.func = c.func
    BY DEF Conns
  <2> HIDE DEF d
  <2>3. Took(c, d, <<>>) /\ LengthKnown(d, r)
    BY <2>2, TookNone DEF LengthKnown
  <2>4. xs = <<>>
    BY <1>3, <1>9
  <2> QED
    BY <2>1, <2>3, <2>4 DEF Result
<1>10. ASSUME whole /\ name = "Cookie"
       PROVE  Good(w)
  <2>1. w = IF CookieNeedsSession(l.cookies) /\ ~session THEN Dies(c)
            ELSE Result(process_cookie(c, l.cookies), 0)
    BY <1>10, <1>13 DEF HandledAs
  <2>2. /\ Took(c, process_cookie(c, l.cookies), xs)
        /\ process_cookie(c, l.cookies).contentLen = c.contentLen
    BY <1>4, <1>10, CookieDoes
  <2>3. Good(Result(process_cookie(c, l.cookies), 0))
    <3> DEFINE d == process_cookie(c, l.cookies)
    <3>1. Took(c, d, xs) /\ LengthKnown(d, r)
      BY <2>2 DEF LengthKnown
    <3> HIDE DEF d
    <3>2. Good(Result(d, 0))
      BY <3>1 DEF Result
    <3> QED
      BY <3>2 DEF d
  <2> QED
    BY <1>6, <2>1, <2>3
<1>11. ASSUME whole /\ name \notin {"If-Modified-Since", "Accept-Encoding", "Cookie"} /\ Slices(c, name)
       PROVE  Good(w)
  <2> DEFINE d == IF name = "User-Agent" THEN [c EXCEPT !.browser = TRUE]
                  ELSE [c EXCEPT !.contentLen = l.length]
  <2>1. w = Result(d, 0)
    BY <1>11, <1>13 DEF HandledAs
  <2>2. CASE name = "User-Agent"
    <3>1. /\ d \in Conns /\ d.contentLen = c.contentLen
          /\ d.doc = c.doc /\ d.file = c.file /\ d.post = c.post /\ d.func = c.func
      BY <2>2 DEF Conns
    <3> HIDE DEF d
    <3>2. Took(c, d, <<>>) /\ LengthKnown(d, r)
      BY <3>1, TookNone DEF LengthKnown
    <3> QED
      BY <1>3, <1>11, <2>1, <3>2 DEF Result
  <2>3. CASE name # "User-Agent"
    <3>1. name = "Content-Length" /\ c.contentLen = Unset
      BY <1>11, <2>3 DEF Slices
    <3>2. r.method # "GET"
      BY <3>1 DEF LengthKnown, Unset
    <3>3. l.length = Len(r.body) /\ l.length \in Nat
      BY <1>5, <1>11, <3>1, <3>2
    <3>4. /\ d \in Conns /\ d.contentLen = l.length
          /\ d.doc = c.doc /\ d.file = c.file /\ d.post = c.post /\ d.func = c.func
      <4> DEFINE v == l.length
      <4>1. v \in Int /\ d = [c EXCEPT !.contentLen = v]
        BY <2>3, <3>3
      <4> HIDE DEF v, d
      <4>2. /\ d \in Conns /\ d.contentLen = v
            /\ d.doc = c.doc /\ d.file = c.file /\ d.post = c.post /\ d.func = c.func
        BY <4>1 DEF Conns
      <4> QED
        BY <4>2 DEF v
    <3> HIDE DEF d
    <3>5. Took(c, d, <<>>) /\ LengthKnown(d, r)
      BY <3>2, <3>3, <3>4, TookNone DEF LengthKnown
    <3> QED
      BY <1>3, <1>11, <2>1, <3>5 DEF Result
  <2> QED
    BY <2>2, <2>3
<1>12. ASSUME /\ name \notin {"If-Modified-Since", "Accept-Encoding"} /\ ~(whole /\ name = "Cookie")
            /\ ~Slices(c, name)
       PROVE  Good(w)
  <2>1. w = Result(c, 0)
    BY <1>12, <1>13 DEF HandledAs
  <2>2. xs = <<>>
    <3>1. name # "Cookie"
      BY <1>12 DEF Slices
    <3> QED
      BY <1>3, <3>1
  <2> QED
    BY <1>1, <2>1, <2>2 DEF Result
<1>15. Good(w)
  BY <1>7, <1>8, <1>9, <1>10, <1>11, <1>12 DEF Slices
<1> QED
  BY <1>14, <1>15 DEF w, xs, name, LineHandled

(* A pass that has come to w with the first k lines, of the n tokens there *)
(* are: it goes on, or it has failed, or it has met the end of the header. *)
(* What lies behind the input can only pretend that end where the input    *)
(* itself ends.                                                            *)
After(c, w, r, n, k) ==
  /\ w.dead = FALSE
  /\ Took(c, w.c, NamedIn(r, k)) /\ LengthKnown(w.c, r)
  /\ k = 0 \/ NameAt(r, k) + 2 =< n
  /\ \/ w.ret = -1
     \/ w.ret = 0 /\ (k = Len(r.lines) => n < EndAt(r))
     \/ /\ w.ret = NameAt(r, k) + 5 /\ k >= 1 /\ w.c.contentLen # Unset
        /\ NameAt(r, k) + 4 =< n => k = Len(r.lines)

(* Of a pass that goes on, which has come to position p.                   *)
Behindhand(w, r, n, k, p) ==
  w.ret = 0 => \A i \in 1 .. Len(r.lines) : NameAt(r, i) =< p => i =< k \/ n < NameAt(r, i) + 3

LEMMA OneLineDoes ==
  ASSUME NEW r \in Requests, NEW s, Placed(s, r), NEW n \in 1 .. Len(s), NEW t, Cut(t, n, s),
         NEW mem \in Seq(Tokens), NEW found \in BOOLEAN,
         NEW j \in 1 .. Len(r.lines), NameAt(r, j) =< n,
         NEW c0 \in Conns, NEW c, Took(c0, c, NamedIn(r, j - 1)), LengthKnown(c, r)
  PROVE  LET w == OneLine(t, c, NameAt(r, j), mem, found)
         IN  \/ w.dead = TRUE
             \/ After(c0, w, r, n, j)
             \/ After(c0, w, r, n, j - 1) /\ (w.ret = 0 => n < NameAt(r, j) + 3)
<1> DEFINE a == NameAt(r, j)
           N == Len(r.lines)
           name == r.lines[j].name
           all == t \o mem
           ends == {e \in a .. Len(t) : Is(t, e, "CR") /\ Is(all, e + 1, "LF")}
           endl == Min(ends)
           h == Handle(c, t[a].name, IF ends = {} THEN NoLine ELSE t[a + 1].line, ends # {}, found)
           w == OneLine(t, c, a, mem, found)
           A(k) == After(c0, w, r, n, k)
           xs == NamesOf(r, j)
<1>1. /\ Len(t) = n /\ n \in Nat /\ Len(s) \in Nat
      /\ \A i \in 1 .. n : t[i] = s[i] /\ i \in 1 .. Len(s)
  <2>1. Len(s) \in Nat
    BY LenProperties DEF Placed
  <2> QED
    BY <2>1 DEF Cut
<1>2. /\ N \in Nat /\ a \in Nat /\ a >= 1 /\ EndAt(r) \in Nat /\ j \in 0 .. N
      /\ j - 1 \in 0 .. N /\ (j - 1) + 1 = j
      /\ a =< n /\ a + 5 =< EndAt(r) /\ (a + 5 = EndAt(r) => j = N) /\ EndAt(r) = NameAt(r, N) + 5
  <2>1. N \in Nat
    BY PlacesAre
  <2>2. j \in 0 .. N /\ j - 1 \in 0 .. N /\ (j - 1) + 1 = j
    BY <2>1
  <2>3. /\ a \in Nat /\ a + 5 =< EndAt(r) /\ (a + 5 = EndAt(r) => j = N)
        /\ EndAt(r) \in Nat /\ EndAt(r) = NameAt(r, N) + 5
    BY <2>2, PlacesAre
  <2>4. NameAt(r, 0) + 4 =< a /\ NameAt(r, 0) = SpAt(r) /\ SpAt(r) \in Nat
    <3>1. 0 \in 0 .. N /\ 0 < j
      BY <2>1
    <3> QED
      BY <2>2, <3>1, PlacesAre
  <2>5. a =< n
    OBVIOUS
  <2> HIDE DEF a, N
  <2> QED
    BY <2>1, <2>2, <2>3, <2>4, <2>5
<1>3. j - 1 = 0 \/ NameAt(r, j - 1) + 2 =< n
  <2>1. NameAt(r, j - 1) + 4 = a /\ NameAt(r, j - 1) \in Nat
    BY <1>2, PlacesAre
  <2> QED
    BY <1>1, <1>2, <2>1
<1>4. /\ s[a].name = name /\ s[a + 1].line = r.lines[j]
  BY DEF Placed
<1>5. /\ a + 3 =< n => ends # {}
      /\ ends # {} => a + 2 =< n /\ endl = a + 2
  <2>1. ends = EndsOf(t, NameAt(r, j), mem)
    BY DEF EndsOf
  <2> DEFINE es == EndsOf(t, NameAt(r, j), mem)
  <2>2. /\ NameAt(r, j) + 3 =< n => es # {}
        /\ es # {} => NameAt(r, j) + 2 =< n /\ Min(es) = NameAt(r, j) + 2
    BY LineEnds
  <2> QED
    BY <2>1, <2>2
<1>6. t[a].name = name
  BY <1>1, <1>2, <1>4
<1>7. ends # {} => t[a + 1].line = r.lines[j]
  <2>1. ends # {} => a + 1 \in 1 .. n
    BY <1>1, <1>2, <1>5
  <2> QED
    BY <1>1, <1>4, <2>1
<1>8. w = IF h.ret # 0 \/ h.dead \/ ends = {} \/ ~Is(all, endl + 2, "CR") \/ ~Is(all, endl + 3, "LF")
          THEN h
          ELSE IF h.c.contentLen = Unset THEN Result(h.c, -1)
          ELSE [Result(h.c, endl + 3) EXCEPT !.session = h.c.sid # ""]
  BY DEF OneLine
<1>9. c \in Conns
  BY DEF Took
<1>10. /\ h.dead \in BOOLEAN
       /\ ~h.dead => /\ LengthKnown(h.c, r)
                     /\ \/ h.ret = -1 /\ Took(c, h.c, <<>>)
                        \/ h.ret = 0 /\ Took(c, h.c, IF ends # {} THEN xs ELSE <<>>)
  <2> DEFINE whole == ends # {}
             l == IF ends = {} THEN NoLine ELSE t[a + 1].line
  <2>1. whole \in BOOLEAN /\ (whole => l = r.lines[j])
    BY <1>7
  <2>2. h = Handle(c, name, l, whole, found)
    BY <1>6
  <2>4. h = Handle(c, r.lines[j].name, l, whole, found)
    BY <2>2
  <2> HIDE DEF ends, h, l, whole, name
  <2>3. /\ h.dead \in BOOLEAN
        /\ ~h.dead => /\ LengthKnown(h.c, r)
                      /\ \/ h.ret = -1 /\ Took(c, h.c, <<>>)
                         \/ h.ret = 0 /\ Took(c, h.c, IF whole THEN NamesOf(r, j) ELSE <<>>)
    <3>1. LineHandled(Handle(c, r.lines[j].name, l, whole, found), c, r, j, whole)
      BY <1>9, <2>1, HandleDoes
    <3> QED
      BY <2>4, <3>1 DEF LineHandled
  <2> QED
    BY <2>3 DEF whole
<1>11. \A i \in 1 .. n : \A mark : Is(all, i, mark) <=> s[i].t = mark
  BY <1>1, AllIs
<1>12. s[EndAt(r) - 1].t = "CR" /\ s[EndAt(r)].t = "LF" /\ \A i \in 1 .. N : s[NameAt(r, i)].t = "name"
  BY DEF Placed, T, CR, LF
<1>13. NamedIn(r, j - 1) \in Seq(Argument) /\ xs \in Seq(Argument)
       /\ NamedIn(r, j) = NamedIn(r, j - 1) \o xs
  <2>1. j - 1 \in Nat /\ (j - 1) + 1 =< N
    BY <1>2
  <2> QED
    BY <1>2, <2>1, NamedInIs, NamesOfType
<1> HIDE DEF a, N, name, all, ends, endl, h, w, xs
<1>14. Took(c, h.c, <<>>) => Took(c0, h.c, NamedIn(r, j - 1))
  <2> DEFINE ys == NamedIn(r, j - 1)
  <2>1. ys \in Seq(Argument) /\ Took(c0, c, ys)
    BY <1>13
  <2>2. ys \o <<>> = ys
    BY <2>1, ConcatEmptySeq
  <2> HIDE DEF ys
  <2>3. Took(c, h.c, <<>>) => Took(c0, h.c, ys \o <<>>)
    BY <2>1, TookTwice, EmptySeq
  <2> QED
    BY <2>2, <2>3 DEF ys
<1>15. Took(c, h.c, xs) => Took(c0, h.c, NamedIn(r, j))
  BY <1>13, TookTwice
<1>16. CASE h.dead
  <2>1. h.dead = TRUE
    BY <1>10, <1>16
  <2>2. w = h
    BY <1>8, <1>16
  <2> QED
    BY <2>1, <2>2 DEF w, a
<1>17. CASE ~h.dead /\ h.ret = -1 /\ Took(c, h.c, <<>>)
  <2>1. w = h /\ h.dead = FALSE
    BY <1>8, <1>10, <1>17
  <2>2. After(c0, w, r, n, j - 1)
    BY <1>3, <1>10, <1>14, <1>17, <2>1 DEF After
  <2>3. w.ret = -1
    BY <1>17, <2>1
  <2> QED
    BY <2>2, <2>3 DEF w, a
<1>18. CASE ~h.dead /\ h.ret = 0 /\ ends = {}
  <2>1. w = h /\ h.dead = FALSE
    BY <1>8, <1>10, <1>18
  <2>2. Took(c, h.c, <<>>) /\ LengthKnown(h.c, r)
    BY <1>10, <1>18
  <2>3. j - 1 # N
    BY <1>2 DEF N
  <2>4. After(c0, w, r, n, j - 1)
    BY <1>3, <1>14, <1>18, <2>1, <2>2, <2>3 DEF After, N
  <2>5. n < a + 3
    BY <1>1, <1>2, <1>5, <1>18
  <2> QED
    BY <2>4, <2>5 DEF w, a
<1>19. CASE ~h.dead /\ h.ret = 0 /\ ends # {}
  <2>1. h.dead = FALSE /\ Took(c0, h.c, NamedIn(r, j)) /\ LengthKnown(h.c, r)
    BY <1>10, <1>15, <1>19
  <2>2. a + 2 =< n /\ endl = a + 2 /\ endl + 2 = a + 4 /\ endl + 3 = a + 5
    BY <1>2, <1>5, <1>19
  <2>3. CASE ~Is(all, endl + 2, "CR") \/ ~Is(all, endl + 3, "LF")
    <3>1. w = h
      BY <1>8, <2>3
    <3>2. j = N => n < EndAt(r)
      <4>1. SUFFICES ASSUME j = N, EndAt(r) =< n PROVE FALSE
        BY <1>1, <1>2
      <4>2. a + 4 = EndAt(r) - 1 /\ a + 5 = EndAt(r)
        BY <1>2, <4>1 DEF a
      <4>3. a + 4 \in 1 .. n /\ a + 5 \in 1 .. n
        BY <1>1, <1>2, <4>1, <4>2
      <4>4. Is(all, a + 4, "CR") /\ Is(all, a + 5, "LF")
        BY <1>11, <1>12, <4>2, <4>3
      <4> QED
        BY <2>2, <2>3, <4>4
    <3>3. After(c0, w, r, n, j)
      BY <1>19, <2>1, <2>2, <3>1, <3>2 DEF After, N, a
    <3> QED
      BY <3>3 DEF w, a
  <2>4. CASE Is(all, endl + 2, "CR") /\ Is(all, endl + 3, "LF") /\ h.c.contentLen = Unset
    <3>1. w = Result(h.c, -1)
      BY <1>8, <1>19, <2>4
    <3>2. w.dead = FALSE /\ w.ret = -1 /\ w.c = h.c
      BY <3>1 DEF Result
    <3>3. After(c0, w, r, n, j)
      BY <2>1, <2>2, <3>2 DEF After, a
    <3> QED
      BY <3>3 DEF w, a
  <2>5. CASE Is(all, endl + 2, "CR") /\ Is(all, endl + 3, "LF") /\ h.c.contentLen # Unset
    <3>1. w = [Result(h.c, endl + 3) EXCEPT !.session = h.c.sid # ""]
      BY <1>8, <1>19, <2>5
    <3>2. w.dead = FALSE /\ w.ret = a + 5 /\ w.c = h.c
      BY <2>2, <3>1 DEF Result
    <3>3. a + 4 =< n => j = N
      <4>1. SUFFICES ASSUME a + 4 =< n, j # N PROVE FALSE
        OBVIOUS
      <4>2. a + 4 \in 1 .. n
        BY <1>1, <1>2, <4>1
      <4>3. s[a + 4].t = "CR"
        BY <1>11, <2>2, <2>5, <4>2
      <4>4. j + 1 \in 1 .. N /\ j + 1 \in 0 .. N
        BY <1>2, <4>1 DEF N
      <4>5. NameAt(r, j + 1) = a + 4
        BY <1>2, <4>4, PlacesAre DEF a, N
      <4>6. s[a + 4].t = "name"
        BY <1>12, <4>4, <4>5
      <4> QED
        BY <4>3, <4>6
    <3>4. After(c0, w, r, n, j)
      BY <2>1, <2>2, <2>5, <3>2, <3>3 DEF After, a, N
    <3> QED
      BY <3>4 DEF w, a
  <2> QED
    BY <2>3, <2>4, <2>5
<1> QED
  BY <1>10, <1>16, <1>17, <1>18, <1>19

(* A pass over the lines that has come to position p.                      *)
Passing(c, w, r, n, p) ==
  \/ w.dead = TRUE
  \/ \E k \in 0 .. Len(r.lines) :
       /\ After(c, w, r, n, k) /\ Behindhand(w, r, n, k, p)
       /\ k = 0 \/ NameAt(r, k) =< p

(* A pass that has come to the end of what has arrived.                    *)
Passed(c, w, r, n) ==
  \/ w.dead = TRUE
  \/ \E k \in 0 .. Len(r.lines) : After(c, w, r, n, k) /\ (w.ret = 0 => n < EndAt(r))

(* One more token.                                                         *)
LEMMA WalkDoes ==
  ASSUME NEW r \in Requests, NEW s, Placed(s, r), NEW n \in 1 .. Len(s), NEW t, Cut(t, n, s),
         NEW mem \in Seq(Tokens), NEW found \in BOOLEAN, NEW c \in Conns,
         NEW p \in SpAt(r) + 1 .. n, NEW w, Passing(c, w, r, n, p - 1)
  PROVE  LET v == IF w.ret # 0 \/ w.dead \/ t[p].t # "name" THEN w ELSE OneLine(t, w.c, p, mem, found)
         IN  Passing(c, v, r, n, p)
<1> DEFINE N == Len(r.lines)
<1>1. /\ n \in Nat /\ p \in Nat /\ p \in 1 .. n /\ p \in 1 .. Len(s) /\ t[p] = s[p]
      /\ SpAt(r) \in Nat /\ N \in Nat
  <2>1. Len(s) \in Nat
    BY LenProperties DEF Placed
  <2>2. SpAt(r) \in Nat /\ N \in Nat
    BY PlacesAre
  <2>3. n \in Nat /\ p \in Nat /\ p \in 1 .. n /\ p \in 1 .. Len(s)
    BY <2>1, <2>2
  <2> QED
    BY <2>2, <2>3 DEF Cut
<1>2. \A i \in 0 .. N : NameAt(r, i) \in Nat
  BY PlacesAre
<1>3. CASE w.dead = TRUE
  BY <1>3 DEF Passing
<1>4. ASSUME NEW k \in 0 .. N, After(c, w, r, n, k), Behindhand(w, r, n, k, p - 1),
             k = 0 \/ NameAt(r, k) =< p - 1, w.ret # 0 \/ t[p].t # "name"
      PROVE  Passing(c, w, r, n, p)
  <2>1. k = 0 \/ NameAt(r, k) =< p
    BY <1>1, <1>2, <1>4
  <2>2. Behindhand(w, r, n, k, p)
    <3>1. SUFFICES ASSUME w.ret = 0, NEW i \in 1 .. N, NameAt(r, i) =< p
                   PROVE  i =< k \/ n < NameAt(r, i) + 3
      BY DEF Behindhand
    <3>2. s[NameAt(r, i)].t = "name" /\ NameAt(r, i) # p
      BY <1>1, <1>4, <3>1 DEF Placed
    <3>3. i \in 0 .. N
      OBVIOUS
    <3>4. NameAt(r, i) \in Nat
      BY <1>2, <3>3
    <3>5. NameAt(r, i) =< p - 1
      BY <1>1, <3>1, <3>2, <3>4
    <3> QED
      BY <1>4, <3>1, <3>5 DEF Behindhand
  <2> QED
    BY <1>4, <2>1, <2>2 DEF Passing
<1>5. ASSUME NEW k \in 0 .. N, After(c, w, r, n, k), Behindhand(w, r, n, k, p - 1),
             k = 0 \/ NameAt(r, k) =< p - 1, w.ret = 0, t[p].t = "name"
      PROVE  Passing(c, OneLine(t, w.c, p, mem, found), r, n, p)
  <2>1. PICK j \in 1 .. N : p = NameAt(r, j)
    BY <1>1, <1>5, KindsAre
  <2>2. j \in 0 .. N /\ j - 1 \in 0 .. N /\ (j - 1) + 1 = j
    BY <1>1
  <2>3. NameAt(r, j - 1) + 4 = p /\ NameAt(r, j - 1) \in Nat
    BY <2>1, <2>2, PlacesAre
  <2>4. k = j - 1
    <3>1. k < j
      <4>1. SUFFICES ASSUME j =< k PROVE FALSE
        BY <1>1
      <4>2. NameAt(r, k) =< p - 1 /\ NameAt(r, k) \in Nat
        BY <1>2, <1>5, <4>1
      <4>3. j = k \/ NameAt(r, j) + 4 =< NameAt(r, k)
        BY <2>2, <4>1, PlacesAre
      <4> QED
        BY <1>1, <2>1, <4>2, <4>3
    <3>2. j - 1 =< k
      <4>1. CASE j = 1
        BY <4>1
      <4>2. CASE j # 1
        <5>1. j - 1 \in 1 .. N /\ NameAt(r, j - 1) =< p - 1
          BY <1>1, <2>2, <2>3, <4>2
        <5>2. j - 1 =< k \/ n < NameAt(r, j - 1) + 3
          BY <1>5, <5>1 DEF Behindhand
        <5> QED
          BY <1>1, <2>3, <5>2
      <4> QED
        BY <4>1, <4>2
    <3> QED
      BY <1>1, <3>1, <3>2
  <2>5. Took(c, w.c, NamedIn(r, j - 1)) /\ LengthKnown(w.c, r)
    BY <1>5, <2>4 DEF After
  <2> DEFINE v == OneLine(t, w.c, NameAt(r, j), mem, found)
             d == w.c
  <2>6. \/ v.dead = TRUE
        \/ After(c, v, r, n, j)
        \/ After(c, v, r, n, j - 1) /\ (v.ret = 0 => n < NameAt(r, j) + 3)
    <3>1. NameAt(r, j) =< n
      BY <1>1, <2>1
    <3>2. Took(c, d, NamedIn(r, j - 1)) /\ LengthKnown(d, r)
      BY <2>5
    <3>3. v = OneLine(t, d, NameAt(r, j), mem, found)
      OBVIOUS
    <3> HIDE DEF v, d
    <3> QED
      BY <3>1, <3>2, <3>3, OneLineDoes
  <2>7. v = OneLine(t, w.c, p, mem, found)
    BY <2>1
  <2> HIDE DEF v
  <2>8. ASSUME NEW i \in 1 .. N, NameAt(r, i) =< p PROVE i =< j
    <3>1. SUFFICES ASSUME j < i PROVE FALSE
      BY <1>1
    <3>2. i \in 0 .. N
      OBVIOUS
    <3>3. NameAt(r, j) + 4 =< NameAt(r, i) /\ NameAt(r, i) \in Nat
      BY <2>2, <3>1, <3>2, PlacesAre
    <3> QED
      BY <1>1, <2>1, <2>8, <3>3
  <2>9. CASE After(c, v, r, n, j)
    <3>1. Behindhand(v, r, n, j, p)
      BY <2>8 DEF Behindhand
    <3>2. NameAt(r, j) =< p
      BY <1>1, <2>1
    <3> QED
      BY <2>2, <2>7, <2>9, <3>1, <3>2 DEF Passing
  <2>10. CASE After(c, v, r, n, j - 1) /\ (v.ret = 0 => n < NameAt(r, j) + 3)
    <3>1. Behindhand(v, r, n, j - 1, p)
      <4>1. SUFFICES ASSUME v.ret = 0, NEW i \in 1 .. N, NameAt(r, i) =< p
                     PROVE  i =< j - 1 \/ n < NameAt(r, i) + 3
        BY DEF Behindhand
      <4>2. i =< j
        BY <2>8, <4>1
      <4>3. CASE i = j
        BY <2>10, <4>1, <4>3
      <4>4. CASE i # j
        BY <1>1, <4>2, <4>4
      <4> QED
        BY <4>3, <4>4
    <3>2. NameAt(r, j - 1) =< p
      BY <1>1, <2>3
    <3> QED
      BY <2>2, <2>7, <2>10, <3>1, <3>2 DEF Passing
  <2>11. CASE v.dead = TRUE
    BY <2>7, <2>11 DEF Passing
  <2> QED
    BY <2>6, <2>9, <2>10, <2>11
<1>6. CASE w.dead # TRUE
  <2>1. PICK k \in 0 .. N : /\ After(c, w, r, n, k) /\ Behindhand(w, r, n, k, p - 1)
                            /\ k = 0 \/ NameAt(r, k) =< p - 1
    BY <1>6 DEF Passing
  <2>2. w.dead = FALSE
    BY <2>1 DEF After
  <2>3. CASE w.ret # 0 \/ t[p].t # "name"
    BY <1>4, <2>1, <2>3
  <2>4. CASE w.ret = 0 /\ t[p].t = "name"
    <3>1. Passing(c, OneLine(t, w.c, p, mem, found), r, n, p)
      BY <1>5, <2>1, <2>4
    <3> QED
      BY <2>2, <2>4, <3>1
  <2> QED
    BY <2>3, <2>4
<1> QED
  BY <1>3, <1>6

LEMMA LinesDone ==
  ASSUME NEW r \in Requests, NEW s, Placed(s, r), NEW n \in 1 .. Len(s), NEW t, Cut(t, n, s),
         NEW mem \in Seq(Tokens), NEW found \in BOOLEAN, SpAt(r) =< n,
         NEW c0 \in Conns, NEW c, Took(c0, c, NamedIn(r, 0)), LengthKnown(c, r)
  PROVE  Passed(c0, Lines(t, c, SpAt(r), mem, found), r, n)
<1> DEFINE N == Len(r.lines)
           from == SpAt(r)
           Walk(w, k) == IF w.ret # 0 \/ w.dead \/ t[k].t # "name" THEN w
                         ELSE OneLine(t, w.c, k, mem, found)
           P(f, d) == f = [k \in 0 .. d |-> IF k = 0 THEN Result(c, 0) ELSE Walk(f[k - 1], from + k)]
           upTo == CHOOSE f : P(f, Len(t) - from)
           all == Lines(t, c, from, mem, found)
<1>1. Len(t) = n /\ n \in Nat /\ from \in Nat /\ n - from \in Nat /\ N \in Nat /\ N >= 1
  <2>1. Len(s) \in Nat
    BY LenProperties DEF Placed
  <2>2. from \in Nat /\ N \in Nat /\ N >= 1
    BY PlacesAre
  <2>3. Len(t) = n
    BY DEF Cut
  <2>4. n \in Nat
    BY <2>1
  <2>5. from =< n
    OBVIOUS
  <2> HIDE DEF from, N
  <2> QED
    BY <2>2, <2>3, <2>4, <2>5
<1>2. all = upTo[Len(t) - from]
  BY DEF Lines
<1> HIDE DEF Walk, all
<1>3. ASSUME NEW d \in Nat PROVE \E f : P(f, d)
  <2> DEFINE S == {e \in Nat : \E f : P(f, e)}
  <2>1. 0 \in S
    <3> DEFINE g == [k \in 0 .. 0 |-> Result(c, 0)]
    <3>1. P(g, 0)
      OBVIOUS
    <3> QED
      BY <3>1
  <2>2. ASSUME NEW e \in Nat, e \in S PROVE e + 1 \in S
    <3>1. PICK f : P(f, e)
      BY <2>2
    <3> DEFINE g == [k \in 0 .. e + 1 |-> IF k = e + 1 THEN Walk(f[e], from + (e + 1)) ELSE f[k]]
    <3>2. \A k \in 0 .. e : g[k] = f[k]
      OBVIOUS
    <3>3. g[e + 1] = Walk(f[e], from + (e + 1)) /\ DOMAIN g = 0 .. e + 1
      OBVIOUS
    <3>4. \A k \in 0 .. e : f[k] = IF k = 0 THEN Result(c, 0) ELSE Walk(f[k - 1], from + k)
      BY <3>1
    <3>5. ASSUME NEW k \in 0 .. e + 1
          PROVE  g[k] = IF k = 0 THEN Result(c, 0) ELSE Walk(g[k - 1], from + k)
      <4>1. CASE k = e + 1
        <5>1. k # 0 /\ k - 1 = e /\ e \in 0 .. e
          BY <4>1
        <5>2. g[k - 1] = f[e]
          BY <3>2, <5>1
        <5> HIDE DEF g
        <5> QED
          BY <3>3, <4>1, <5>1, <5>2
      <4>2. CASE k # e + 1
        <5>1. k \in 0 .. e /\ (k # 0 => k - 1 \in 0 .. e)
          BY <4>2
        <5>2. g[k] = f[k] /\ (k # 0 => g[k - 1] = f[k - 1])
          BY <3>2, <5>1
        <5> HIDE DEF g
        <5> QED
          BY <3>4, <5>1, <5>2
      <4> QED
        BY <4>1, <4>2
    <3>6. g = [k \in 0 .. e + 1 |-> g[k]]
      OBVIOUS
    <3> HIDE DEF g
    <3>7. P(g, e + 1)
      BY <3>5, <3>6
    <3> QED
      BY <3>7
  <2> HIDE DEF S
  <2>3. d \in S
    BY <2>1, <2>2, NumbersIn
  <2> QED
    BY <2>3 DEF S
<1>4. P(upTo, Len(t) - from)
  <2>1. \E f : P(f, Len(t) - from)
    BY <1>1, <1>3
  <2> QED
    BY <2>1
<1> HIDE DEF upTo
<1>5. \A k \in 0 .. n - from :
        upTo[k] = IF k = 0 THEN Result(c, 0) ELSE Walk(upTo[k - 1], from + k)
  <2> DEFINE d == n - from
  <2>1. Len(t) - from = d
    BY <1>1
  <2> HIDE DEF d
  <2>2. P(upTo, d)
    <3> HIDE DEF P
    <3> QED
      BY <1>4, <2>1
  <2>3. upTo = [k \in 0 .. d |-> IF k = 0 THEN Result(c, 0) ELSE Walk(upTo[k - 1], from + k)]
    BY <2>2
  <2> HIDE DEF P
  <2> QED
    BY <2>3 DEF d
<1> HIDE DEF P
<1> DEFINE M == {d \in Nat : d =< n - from => Passing(c0, upTo[d], r, n, from + d)}
<1>6. 0 \in M
  <2>1. upTo[0] = Result(c, 0)
    BY <1>1, <1>5
  <2> DEFINE w == Result(c, 0)
  <2>2. w.dead = FALSE /\ w.ret = 0 /\ w.c = c
    BY DEF Result
  <2> HIDE DEF w
  <2>3. After(c0, w, r, n, 0)
    BY <1>1, <2>2 DEF After
  <2>4. \A i \in 1 .. N : ~(NameAt(r, i) =< from)
    <3>1. ASSUME NEW i \in 1 .. N PROVE NameAt(r, 0) + 4 =< NameAt(r, i) /\ NameAt(r, 0) = from
      <4>1. 0 \in 0 .. N /\ i \in 0 .. N /\ 0 < i
        BY <1>1
      <4> QED
        BY <4>1, PlacesAre
    <3>2. ASSUME NEW i \in 1 .. N PROVE NameAt(r, i) \in Nat
      <4>1. i \in 0 .. N
        BY <1>1
      <4> QED
        BY <4>1, PlacesAre
    <3> QED
      BY <1>1, <3>1, <3>2
  <2>5. Behindhand(w, r, n, 0, from)
    BY <2>4 DEF Behindhand
  <2>6. Passing(c0, w, r, n, from)
    BY <1>1, <2>3, <2>5 DEF Passing
  <2>7. Passing(c0, upTo[0], r, n, from + 0)
    BY <1>1, <2>1, <2>6 DEF w
  <2> QED
    BY <2>7
<1>7. ASSUME NEW d \in Nat, d \in M PROVE d + 1 \in M
  <2>1. SUFFICES ASSUME d + 1 =< n - from PROVE Passing(c0, upTo[d + 1], r, n, from + (d + 1))
    OBVIOUS
  <2> DEFINE p == from + (d + 1)
             w == upTo[d]
  <2>2. /\ d =< n - from /\ d + 1 \in 0 .. n - from /\ d + 1 # 0 /\ (d + 1) - 1 = d
        /\ p \in from + 1 .. n /\ p - 1 = from + d
    BY <1>1, <2>1
  <2>3. Passing(c0, w, r, n, p - 1)
    BY <1>7, <2>2
  <2>4. upTo[d + 1] = Walk(w, p)
    BY <1>5, <2>2
  <2> HIDE DEF w, p
  <2>5. Passing(c0, Walk(w, p), r, n, p)
    BY <2>2, <2>3, WalkDoes DEF Walk
  <2> QED
    BY <2>4, <2>5 DEF p
<1> HIDE DEF M
<1>8. \A d \in Nat : d \in M
  BY <1>6, <1>7, NumbersIn
<1>9. Passing(c0, all, r, n, n)
  <2>1. n - from \in Nat /\ n - from =< n - from /\ from + (n - from) = n /\ n - from = Len(t) - from
    BY <1>1
  <2> QED
    BY <1>2, <1>8, <2>1 DEF M
<1>10. CASE all.dead = TRUE
  BY <1>10 DEF Passed, all
<1>11. ASSUME NEW k \in 0 .. N, After(c0, all, r, n, k), Behindhand(all, r, n, k, n), all.ret = 0
       PROVE  n < EndAt(r)
  <2>1. SUFFICES ASSUME EndAt(r) =< n PROVE FALSE
    BY <1>1, PlacesAre
  <2>2. N \in 1 .. N /\ EndAt(r) = NameAt(r, N) + 5 /\ NameAt(r, N) \in Nat /\ EndAt(r) \in Nat
    <3>1. N \in 1 .. N /\ N \in 0 .. N
      BY <1>1
    <3> QED
      BY <3>1, PlacesAre
  <2>3. NameAt(r, N) =< n /\ ~(n < NameAt(r, N) + 3)
    BY <1>1, <2>1, <2>2
  <2>4. N =< k
    BY <1>11, <2>2, <2>3 DEF Behindhand
  <2>5. k = N
    BY <1>1, <2>4
  <2>6. n < EndAt(r)
    <3>1. all.ret = 0 => (k = Len(r.lines) => n < EndAt(r))
      <4>1. NameAt(r, k) \in Nat
        BY PlacesAre
      <4>2. all.ret # -1
        BY <1>11
      <4>3. all.ret # NameAt(r, k) + 5
        BY <1>11, <4>1
      <4> QED
        BY <1>11, <4>2, <4>3 DEF After
    <3> QED
      BY <1>11, <2>5, <3>1
  <2> QED
    BY <1>1, <2>1, <2>2, <2>6
<1>12. CASE all.dead # TRUE
  <2>1. PICK k \in 0 .. N : After(c0, all, r, n, k) /\ Behindhand(all, r, n, k, n)
    BY <1>9, <1>12 DEF Passing
  <2> QED
    BY <1>11, <2>1 DEF Passed, all
<1> QED
  BY <1>10, <1>12

(* A pass over the whole header, from the state that the connection is in. *)
Doc(c) == [Started(c) EXCEPT !.doc = req.doc]

LEMMA StartedIs ==
  ASSUME req \in Requests, NEW c \in Conns
  PROVE  /\ Started(c) \in Conns /\ Started(c).post = c.post /\ Started(c).func = c.func
         /\ Started(c).file = c.file
         /\ Doc(c) \in Conns /\ Doc(c).post = c.post /\ Doc(c).func = c.func /\ Doc(c).file = c.file
         /\ Doc(c).doc = req.doc /\ LengthKnown(Doc(c), req)
<1> DEFINE l == IF req.method = "GET" THEN 0 ELSE Unset
           d == req.doc
<1>1. l \in Int /\ d \in STRING
  BY RequestType DEF Unset
<1>2. l \in IF req.method = "GET" THEN {0} ELSE {Unset, Len(req.body)}
  OBVIOUS
<1>3. Started(c) = [c EXCEPT !.contentLen = l]
  BY DEF Started
<1>4. Doc(c) = [Started(c) EXCEPT !.doc = d]
  BY DEF Doc
<1>5. d = req.doc
  OBVIOUS
<1> DEFINE a == Started(c)
           b == Doc(c)
<1> HIDE DEF l, d, a, b
<1>6. a = [c EXCEPT !.contentLen = l] /\ b = [a EXCEPT !.doc = d]
  BY <1>3, <1>4 DEF a, b
<1>7. /\ a \in Conns /\ a.contentLen = l /\ a.post = c.post /\ a.func = c.func /\ a.file = c.file
  BY <1>1, <1>6 DEF Conns
<1>8. /\ b \in Conns /\ b.contentLen = l /\ b.post = c.post /\ b.func = c.func /\ b.file = c.file
      /\ b.doc = d
  BY <1>1, <1>6, <1>7 DEF Conns
<1> QED
  BY <1>2, <1>5, <1>7, <1>8 DEF a, b, LengthKnown

(* What a reading of the first n tokens of the request leaves: the lines so far, read, or -      *)
(* when the request line has not all come - a connection that has only been started.             *)
HeaderRead(w, n) == \/ Passed(Doc(conn), w, req, n)
                    \/ w.dead = FALSE /\ w.ret = 0 /\ w.c = Started(conn) /\ n < SpAt(req)

LEMMA HeaderDoes ==
  ASSUME req \in Requests, conn \in Conns, NEW s, Placed(s, req), NEW n \in 1 .. Len(s), 1 < n,
         NEW t, Cut(t, n, s), NEW mem \in Seq(Tokens), NEW found \in BOOLEAN
  PROVE  HeaderRead(process_header(t, mem, found), n)
<1> DEFINE sp == First(t, 1, "SP")
           all == t \o mem
           args == [i \in 1 .. sp - 4 |-> t[i + 3].arg]
           named == [Started(conn) EXCEPT !.doc = t[2].doc]
           c == IF sp > 3 THEN process_qs(named, args) ELSE [named EXCEPT !.origQs = FALSE]
           w == process_header(t, mem, found)
<1>0. SUFFICES \/ Passed(Doc(conn), w, req, n)
               \/ w.dead = FALSE /\ w.ret = 0 /\ w.c = Started(conn) /\ n < SpAt(req)
  BY DEF HeaderRead
<1>1. w = IF sp = 0 THEN Result(Started(conn), 0)
          ELSE IF sp > 3 /\ NeedsSession(args) /\ ~session THEN Dies(conn)
          ELSE IF ~(Is(all, sp + 2, "CR") /\ Is(all, sp + 3, "LF")) THEN Result(c, -1)
          ELSE Lines(t, c, sp, mem, found)
  BY DEF process_header
<1>2. sp = IF n < SpAt(req) THEN 0 ELSE SpAt(req)
  BY FirstSpace
<1>3. SpAt(req) \in Nat /\ SpAt(req) >= 3 /\ Len(req.lines) \in Nat /\ Len(req.lines) >= 1
  BY PlacesAre
<1>4. n \in Nat /\ 2 \in 1 .. n /\ \A i \in 1 .. n : t[i] = s[i]
  <2>1. Len(s) \in Nat
    BY LenProperties DEF Placed
  <2> QED
    BY <2>1 DEF Cut
<1>5. named = Doc(conn)
  <2>1. t[2].doc = req.doc
    <3>1. s[2] = [t |-> "doc", doc |-> req.doc]
      BY DEF Placed
    <3>2. t[2] = [t |-> "doc", doc |-> req.doc]
      BY <1>4, <3>1
    <3> QED
      BY <3>2
  <2> QED
    BY <2>1 DEF Doc
<1>6. Doc(conn) \in Conns /\ LengthKnown(Doc(conn), req)
  BY StartedIs
<1>7. req.args \in Seq(Argument) /\ NamedIn(req, 0) = req.args
  BY RequestType, NamedInIs
<1> HIDE DEF w, all
<1>8. CASE n < SpAt(req)
  <2>1. w = Result(Started(conn), 0)
    BY <1>1, <1>2, <1>8
  <2> QED
    BY <1>8, <2>1 DEF Result, w
<1>9. CASE ~(n < SpAt(req))
  <2>1. sp = SpAt(req) /\ sp # 0 /\ sp =< n
    BY <1>2, <1>3, <1>4, <1>9
  <2>2. sp > 3 => args = req.args
    <3>1. SUFFICES ASSUME sp > 3 PROVE args = req.args
      OBVIOUS
    <3>2. req.args # <<>> /\ Len(req.args) \in Nat /\ sp - 4 = Len(req.args)
      <4>1. req.args # <<>> /\ SpAt(req) = 4 + Len(req.args)
        BY <2>1, <3>1 DEF SpAt
      <4>2. Len(req.args) \in Nat
        BY <1>7, LenProperties
      <4> DEFINE l == Len(req.args)
      <4>3. sp = 4 + l /\ l \in Nat
        BY <2>1, <4>1, <4>2
      <4> HIDE DEF l, sp
      <4>4. sp - 4 = l
        BY <4>3
      <4> QED
        BY <4>1, <4>2, <4>4 DEF l
    <3>3. ASSUME NEW i \in 1 .. Len(req.args) PROVE t[i + 3].arg = req.args[i]
      <4>1. s[3 + i] = Arg(req.args[i])
        BY <3>2 DEF Placed
      <4>2. i + 3 = 3 + i /\ i + 3 \in 1 .. n
        <5> DEFINE l == Len(req.args)
        <5>1. sp \in Nat /\ sp =< n /\ n \in Nat /\ l \in Nat /\ sp - 4 = l /\ i \in 1 .. l
          BY <1>3, <1>4, <2>1, <3>2
        <5> HIDE DEF sp, l
        <5> QED
          BY <5>1
      <4>3. t[i + 3] = Arg(req.args[i])
        BY <1>4, <4>1, <4>2
      <4> QED
        BY <4>3 DEF Arg
    <3>4. args = [i \in 1 .. Len(req.args) |-> req.args[i]]
      BY <3>2, <3>3
    <3>5. req.args = [i \in 1 .. Len(req.args) |-> req.args[i]]
      BY <1>7
    <3> QED
      BY <3>4, <3>5
  <2>3. Took(Doc(conn), c, NamedIn(req, 0)) /\ LengthKnown(c, req)
    <3>1. CASE sp > 3
      <4>1. c = process_qs(Doc(conn), req.args)
        BY <1>5, <2>2, <3>1
      <4>2. /\ Took(Doc(conn), process_qs(Doc(conn), req.args), req.args)
            /\ process_qs(Doc(conn), req.args).contentLen = Doc(conn).contentLen
        BY <1>6, <1>7, TakeArgsDoes
      <4> QED
        BY <1>6, <1>7, <4>1, <4>2 DEF LengthKnown
    <3>2. CASE ~(sp > 3)
      <4>1. req.args = <<>>
        <5>1. SUFFICES ASSUME req.args # <<>> PROVE FALSE
          OBVIOUS
        <5>2. SpAt(req) = 4 + Len(req.args) /\ Len(req.args) \in Nat
          BY <1>7, <5>1, LenProperties DEF SpAt
        <5> QED
          BY <2>1, <3>2, <5>2
      <4> DEFINE d == Doc(conn)
                 e == [d EXCEPT !.origQs = FALSE]
      <4>2. c = e
        BY <1>5, <3>2
      <4>3. d \in Conns /\ LengthKnown(d, req)
        BY <1>6
      <4> HIDE DEF d, c
      <4>4. /\ e \in Conns /\ e.contentLen = d.contentLen
            /\ e.doc = d.doc /\ e.file = d.file /\ e.post = d.post /\ e.func = d.func
        BY <4>3 DEF Conns
      <4> HIDE DEF e
      <4>5. Took(d, e, <<>>) /\ LengthKnown(e, req)
        BY <4>3, <4>4, TookNone DEF LengthKnown
      <4> QED
        BY <1>7, <4>1, <4>2, <4>5 DEF d
    <3> QED
      BY <3>1, <3>2
  <2> HIDE DEF c, named, args
  <2>4. CASE sp > 3 /\ NeedsSession(args) /\ ~session
    <3>1. w = Dies(conn)
      BY <1>1, <2>1, <2>4
    <3>2. w.dead = TRUE
      BY <3>1 DEF Dies, Result
    <3> QED
      BY <3>2 DEF Passed, w
  <2>5. CASE /\ ~(sp > 3 /\ NeedsSession(args) /\ ~session)
             /\ ~(Is(all, sp + 2, "CR") /\ Is(all, sp + 3, "LF"))
    <3>1. w = Result(c, -1)
      BY <1>1, <2>1, <2>5
    <3>2. w.dead = FALSE /\ w.ret = -1 /\ w.c = c
      BY <3>1 DEF Result
    <3>3. After(Doc(conn), w, req, n, 0) /\ w.ret # 0
      BY <2>3, <3>2 DEF After
    <3>4. 0 \in 0 .. Len(req.lines)
      BY <1>3
    <3> QED
      BY <3>3, <3>4 DEF Passed, w
  <2>6. CASE /\ ~(sp > 3 /\ NeedsSession(args) /\ ~session)
             /\ Is(all, sp + 2, "CR") /\ Is(all, sp + 3, "LF")
    <3>1. w = Lines(t, c, SpAt(req), mem, found)
      BY <1>1, <2>1, <2>6
    <3>2. SpAt(req) =< n
      BY <2>1
    <3>3. Passed(Doc(conn), Lines(t, c, SpAt(req), mem, found), req, n)
      BY <1>6, <2>3, <3>2, LinesDone
    <3> QED
      BY <3>1, <3>3 DEF w
  <2> QED
    BY <2>4, <2>5, <2>6
<1> QED
  BY <1>8, <1>9

-----------------------------------------------------------------------------
(* What the connection holds when a read begins is named by lines that     *)
(* have arrived, so it is named again by the pass over them.               *)
KeysIn(c, args) ==
  /\ \A b \in c.post : Named(args, b.key) # {}
  /\ c.func = "" \/ Named(args, "f") # {}

KnownBy(c, r, n) ==
  \E k \in 0 .. Len(r.lines) :
    /\ k = 0 \/ NameAt(r, k) + 2 =< n
    /\ KeysIn(c, NamedIn(r, k))

LEMMA KnownMore ==
  ASSUME NEW r \in Requests, NEW m \in Nat, NEW n \in Nat, m =< n, NEW c, KnownBy(c, r, m)
  PROVE  KnownBy(c, r, n)
<1>1. PICK k \in 0 .. Len(r.lines) : (k = 0 \/ NameAt(r, k) + 2 =< m) /\ KeysIn(c, NamedIn(r, k))
  BY DEF KnownBy
<1>2. NameAt(r, k) \in Nat
  BY PlacesAre
<1>3. k = 0 \/ NameAt(r, k) + 2 =< n
  BY <1>1, <1>2
<1> QED
  BY <1>1, <1>3 DEF KnownBy

LEMMA KnownStays ==
  ASSUME NEW r \in Requests, NEW m \in Nat, NEW n \in Nat, m =< n,
         NEW c0 \in Conns, KnownBy(c0, r, m), NEW w, NEW k \in 0 .. Len(r.lines), After(c0, w, r, n, k)
  PROVE  KnownBy(w.c, r, n)
<1>1. PICK h \in 0 .. Len(r.lines) : (h = 0 \/ NameAt(r, h) + 2 =< m) /\ KeysIn(c0, NamedIn(r, h))
  BY DEF KnownBy
<1>2. NameAt(r, h) \in Nat /\ NameAt(r, k) \in Nat
  BY PlacesAre
<1>3. (h = 0 \/ NameAt(r, h) + 2 =< n) /\ (k = 0 \/ NameAt(r, k) + 2 =< n)
  BY <1>1, <1>2 DEF After
<1>4. PICK g \in {h, k} : h =< g /\ k =< g
  <2>1. h \in Int /\ k \in Int
    OBVIOUS
  <2>2. h =< k \/ k =< h
    BY <2>1
  <2> QED
    BY <2>1, <2>2
<1>5. g \in 0 .. Len(r.lines) /\ (g = 0 \/ NameAt(r, g) + 2 =< n)
  BY <1>3, <1>4
<1>6. /\ w.c.post = Put(c0.post, NamedIn(r, k)) /\ w.c.func = Called(c0.func, NamedIn(r, k))
      /\ NamedIn(r, k) \in Seq(Argument)
      /\ c0.post \in SUBSET Argument /\ c0.func \in STRING \cup {""}
  BY NamedInIs DEF After, Took, Conns
<1>7. \A key : Named(NamedIn(r, h), key) # {} => Named(NamedIn(r, g), key) # {}
  BY <1>4, <1>5, NamedInGrows
<1>8. \A key : Named(NamedIn(r, k), key) # {} => Named(NamedIn(r, g), key) # {}
  BY <1>4, <1>5, NamedInGrows
<1>9. \A b \in w.c.post : b \in c0.post \/ Named(NamedIn(r, k), b.key) # {}
  <2> DEFINE xs == NamedIn(r, k)
  <2>1. xs \in Seq(Argument) /\ w.c.post = Put(c0.post, xs)
    BY <1>6
  <2> HIDE DEF xs
  <2>2. \A b \in w.c.post : b \in c0.post \/ Named(xs, b.key) # {}
    BY <1>6, <2>1, PutKeys
  <2> QED
    BY <2>2 DEF xs
<1>10. w.c.func = c0.func \/ Named(NamedIn(r, k), "f") # {}
  <2> DEFINE xs == NamedIn(r, k)
  <2>1. xs \in Seq(Argument) /\ w.c.func = Called(c0.func, xs)
    BY <1>6
  <2> HIDE DEF xs
  <2>2. w.c.func = c0.func \/ Named(xs, "f") # {}
    BY <1>6, <2>1, CalledType
  <2> QED
    BY <2>2 DEF xs
<1>11. KeysIn(w.c, NamedIn(r, g))
  BY <1>1, <1>7, <1>8, <1>9, <1>10 DEF KeysIn
<1> QED
  BY <1>5, <1>11 DEF KnownBy

(* At the end of a header nothing is left of earlier reads.                *)
Over(c0, w, args) ==
  KeysIn(c0, args) /\ w.c.post = Put({}, args) /\ w.c.func = Called("", args)

LEMMA OverAgain ==
  ASSUME NEW r \in Requests, NEW m \in Nat, NEW n \in Nat, m < n,
         NEW c0 \in Conns, KnownBy(c0, r, m), NEW w, NEW k \in 0 .. Len(r.lines),
         After(c0, w, r, n, k), w.ret > 0
  PROVE  Over(c0, w, NamedIn(r, k))
<1>1. PICK h \in 0 .. Len(r.lines) : (h = 0 \/ NameAt(r, h) + 2 =< m) /\ KeysIn(c0, NamedIn(r, h))
  BY DEF KnownBy
<1>2. NameAt(r, h) \in Nat /\ NameAt(r, k) \in Nat /\ Len(r.lines) \in Nat
  BY PlacesAre
<1>3. NameAt(r, k) + 4 =< n => k = Len(r.lines)
  BY DEF After
<1>4. h =< k
  <2>1. SUFFICES ASSUME k < h PROVE FALSE
    BY <1>2
  <2>2. NameAt(r, k) + 4 =< NameAt(r, h)
    BY <2>1, PlacesAre
  <2>3. h # 0
    BY <2>1
  <2>4. NameAt(r, h) + 2 =< m
    BY <1>1, <2>3
  <2>5. NameAt(r, k) + 4 =< n
    BY <1>2, <2>2, <2>4
  <2>6. k = Len(r.lines)
    BY <1>3, <2>5
  <2> QED
    BY <1>2, <2>1, <2>6
<1>5. \A key : Named(NamedIn(r, h), key) # {} => Named(NamedIn(r, k), key) # {}
  BY <1>4, NamedInGrows
<1>6. KeysIn(c0, NamedIn(r, k))
  BY <1>1, <1>5 DEF KeysIn
<1>7. Put(c0.post, NamedIn(r, k)) = Put({}, NamedIn(r, k))
  BY <1>6, PutOver DEF KeysIn
<1>8. Called(c0.func, NamedIn(r, k)) = Called("", NamedIn(r, k))
  BY <1>6, CalledOver DEF KeysIn
<1> QED
  BY <1>6, <1>7, <1>8 DEF After, Took, Over

(* A whole body is what process_post takes.                                *)
LEMMA BodyIs ==
  ASSUME NEW r \in Requests, NEW s, Placed(s, r), NEW n \in 1 .. Len(s), NEW t, Cut(t, n, s),
         Len(r.body) # 0, n = EndAt(r) + Len(r.body), NEW c, c.headerLen = EndAt(r)
  PROVE  process_post(t, c) = TakeArgs(c, r.body)
<1> DEFINE h == c.headerLen
           at == {h} \cup {i \in h + 1 .. Len(t) : t[i].t = "arg"}
           l == Len(r.body)
<1>1. h \in Nat /\ h >= 1 /\ l \in Nat /\ l >= 1 /\ n = h + l /\ n \in Nat
  <2>1. EndAt(r) \in Nat /\ l \in Nat /\ EndAt(r) = NameAt(r, Len(r.lines)) + 5
    BY PlacesAre
  <2>2. NameAt(r, Len(r.lines)) \in Nat
    BY PlacesAre
  <2> HIDE DEF l
  <2> QED
    BY <2>1, <2>2 DEF l
<1>2. Len(t) = n /\ \A i \in 1 .. n : t[i] = s[i]
  BY DEF Cut
<1>3. \A i \in 1 .. l : s[h + i] = Arg(r.body[i])
  BY DEF Placed
<1>4. r.body \in Seq(Argument)
  BY RequestType
<1>5. process_post(t, c) = TakeArgs(c, [i \in 1 .. Max(at) - h |-> t[h + i].arg])
  BY DEF process_post
<1>6. r.body = [i \in 1 .. l |-> r.body[i]]
  BY <1>4
<1> HIDE DEF h, at, l
<1>7. \A i \in 1 .. l : h + i \in 1 .. n /\ t[h + i] = Arg(r.body[i])
  BY <1>1, <1>2, <1>3
<1>8. \A i : i \in at <=> i = h \/ (i \in h + 1 .. n /\ t[i].t = "arg")
  BY <1>2 DEF at
<1>9. at \in SUBSET (1 .. n)
  BY <1>1, <1>8
<1>10. n \in at
  <2>1. t[h + l] = Arg(r.body[l])
    BY <1>1, <1>7
  <2>2. t[n].t = "arg"
    BY <1>1, <2>1 DEF Arg
  <2> QED
    BY <1>1, <1>8, <2>2
<1>11. Max(at) \in at /\ Max(at) >= n
  BY <1>1, <1>9, <1>10, GreatestNumber
<1> DEFINE e == Max(at)
<1>12. e \in 1 .. n /\ e >= n
  BY <1>9, <1>11
<1> HIDE DEF e
<1>13. e - h = l
  BY <1>1, <1>12
<1>14. [i \in 1 .. e - h |-> t[h + i].arg] = [i \in 1 .. l |-> r.body[i]]
  <2>1. ASSUME NEW i \in 1 .. l PROVE t[h + i].arg = r.body[i]
    <3>1. t[h + i] = Arg(r.body[i])
      BY <1>7
    <3> QED
      BY <3>1 DEF Arg
  <2> QED
    BY <1>13, <2>1
<1> QED
  BY <1>5, <1>6, <1>14 DEF e

(* What a page is made of: where the body is missing, of what the lines    *)
(* name; where there is one, of all lines and the body.                    *)
Made(t, c) == IF c.contentLen # 0 THEN process_post(t, c) ELSE c

Complete(page, r, n, k) ==
  /\ r.method = "POST" /\ r.body # <<>> =>
       n = EndAt(r) + Len(r.body) /\ Does(page, NamedIn(r, Len(r.lines)) \o r.body)
  /\ r.body = <<>> => Does(page, NamedIn(r, k))

LEMMA PageMade ==
  ASSUME NEW r \in Requests, NEW s, Placed(s, r), NEW m \in Nat, NEW n \in 1 .. Len(s), m < n,
         NEW t, Cut(t, n, s), NEW c0 \in Conns, KnownBy(c0, r, m),
         NEW w, NEW k \in 0 .. Len(r.lines), After(c0, w, r, n, k), w.ret > 0,
         NEW c, c = [w.c EXCEPT !.headerLen = w.ret], ~Incomplete(t, c)
  PROVE  Complete(Made(t, c), r, n, k) /\ Made(t, c) \in Conns
<1> DEFINE xs == NamedIn(r, k)
           N == Len(r.lines)
           l == Len(r.body)
<1>1. Len(s) \in Nat /\ n \in Nat /\ Len(t) = n
  <2>1. Len(s) \in Nat
    BY LenProperties DEF Placed
  <2> QED
    BY <2>1 DEF Cut
<1>2. /\ KeysIn(c0, xs) /\ w.c.post = Put({}, xs) /\ w.c.func = Called("", xs)
  <2>1. Over(c0, w, NamedIn(r, k))
    BY <1>1, OverAgain
  <2> QED
    BY <2>1 DEF Over
<1>3. /\ w.c \in Conns /\ LengthKnown(w.c, r) /\ w.c.contentLen # Unset
      /\ w.ret = NameAt(r, k) + 5 /\ (NameAt(r, k) + 4 =< n => k = N)
      /\ NameAt(r, k) \in Nat
  <2>1. NameAt(r, k) \in Nat
    BY PlacesAre
  <2>2. w.ret # -1 /\ w.ret # 0
    OBVIOUS
  <2> QED
    BY <2>1, <2>2 DEF After, Took
<1>4. xs \in Seq(Argument) /\ r.body \in Seq(Argument) /\ l \in Nat
  BY NamedInIs, RequestType
<1>5. /\ c \in Conns /\ c.headerLen = w.ret /\ c.contentLen = w.c.contentLen
      /\ c.post = w.c.post /\ c.func = w.c.func
  <2> DEFINE h == w.ret
             d == w.c
  <2>1. h \in Int /\ d \in Conns /\ c = [d EXCEPT !.headerLen = h]
    BY <1>3
  <2> HIDE DEF h, d
  <2>2. /\ c \in Conns /\ c.headerLen = h /\ c.contentLen = d.contentLen
        /\ c.post = d.post /\ c.func = d.func
    BY <2>1 DEF Conns
  <2> QED
    BY <2>2 DEF h, d
<1>6. c.contentLen = 0 => Does(Made(t, c), xs)
  <2>1. \A args : /\ Meant(args).post = Put({}, args) /\ Meant(args).func = Called("", args)
    BY DEF Meant, TakeArgs, NewConn
  <2> QED
    BY <1>2, <1>5, <2>1 DEF Made, Does
<1>7. CASE r.body = <<>>
  <2>1. l = 0
    BY <1>7
  <2>2. c.contentLen = 0
    BY <1>3, <1>5, <2>1 DEF LengthKnown
  <2>3. Made(t, c) \in Conns
    BY <1>5, <2>2 DEF Made
  <2> QED
    BY <1>6, <1>7, <2>2, <2>3 DEF Complete
<1>8. CASE r.body # <<>> /\ r.method = "POST"
  <2>1. l # 0 /\ l >= 1
    BY <1>4, <1>8, EmptySeq
  <2>2. c.contentLen = l
    BY <1>3, <1>5, <1>8 DEF LengthKnown
  <2>3. l + w.ret = n
    BY <1>1, <1>5, <2>1, <2>2 DEF Incomplete
  <2>4. k = N
    <3> DEFINE a == NameAt(r, k)
    <3>1. a \in Nat /\ l + (a + 5) = n /\ l \in Nat
      BY <1>3, <1>4, <2>3
    <3> HIDE DEF a, l
    <3>2. a + 4 =< n
      BY <3>1
    <3> QED
      BY <1>3, <3>2 DEF a
  <2>5. w.ret = EndAt(r) /\ EndAt(r) \in Nat
    BY <1>3, <2>4, PlacesAre
  <2>6. n = EndAt(r) + l
    BY <1>4, <2>3, <2>5
  <2>7. process_post(t, c) = TakeArgs(c, r.body)
    BY <1>5, <2>1, <2>5, <2>6, BodyIs
  <2>8. Made(t, c) = TakeArgs(c, r.body)
    BY <2>1, <2>2, <2>7 DEF Made
  <2>9. /\ TakeArgs(c, r.body).post = Put(Put({}, xs), r.body)
        /\ TakeArgs(c, r.body).func = Called(Called("", xs), r.body)
    <3>1. Took(c, TakeArgs(c, r.body), r.body)
      BY <1>4, <1>5, TakeArgsDoes
    <3>2. c.post = Put({}, xs) /\ c.func = Called("", xs)
      BY <1>2, <1>5
    <3> HIDE DEF xs
    <3> QED
      BY <3>1, <3>2 DEF Took
  <2>10. /\ Put(Put({}, xs), r.body) = Put({}, xs \o r.body)
         /\ Called(Called("", xs), r.body) = Called("", xs \o r.body)
    <3> HIDE DEF xs
    <3> QED
      BY <1>4, PutTwice, CalledTwice
  <2>11. /\ Meant(xs \o r.body).post = Put({}, xs \o r.body)
         /\ Meant(xs \o r.body).func = Called("", xs \o r.body)
    BY DEF Meant, TakeArgs, NewConn
  <2>12. Does(Made(t, c), xs \o r.body)
    BY <2>8, <2>9, <2>10, <2>11 DEF Does
  <2>13. Made(t, c) \in Conns
    BY <1>4, <1>5, <2>8, TakeArgsDoes DEF Took
  <2> QED
    BY <1>8, <2>4, <2>6, <2>12, <2>13 DEF Complete
<1>9. CASE r.method # "POST" /\ r.body # <<>>
  <2>1. r.method = "GET"
    BY <1>9, RequestType
  <2>2. c.contentLen = 0
    BY <1>3, <1>5, <2>1 DEF LengthKnown
  <2> QED
    BY <1>5, <1>9, <2>2 DEF Made, Complete
<1> QED
  BY <1>7, <1>8, <1>9

-----------------------------------------------------------------------------
(* The inductive invariant.                                                *)
Answers ==
  [kind : {"page"}, doc : STRING, post : SUBSET Argument, func : STRING \cup {""}]
    \cup [kind : {"bad"}] \cup [kind : {"file", "404"}, doc : STRING]

TypeOK ==
  /\ req \in Requests /\ stream = Stream(req)
  /\ input \in Seq(Tokens) /\ Len(input) =< Len(stream)
  /\ conn \in Conns /\ session \in BOOLEAN /\ answers \in Seq(Answers) /\ dead \in BOOLEAN

(* A file is sent for a document that no page is made of, once.            *)
FileSent == conn.file => ~Page(conn) /\ conn.headerLen > 0 /\ answers # <<>>

(* A page that is made of a body has had all of it.                        *)
PageWhole ==
  req.method = "POST" /\ req.body # <<>> /\ Pages # {} =>
    Len(input) >= EndAt(req) + Len(req.body)

IInv ==
  /\ TypeOK
  /\ KnownBy(conn, req, Len(input))
  /\ Len(input) = 0 => conn.headerLen = 0
  /\ FileSent
  /\ PageWhole
  /\ PostActedOnce
  /\ WholeIsAnswered

LEMMA AppendIs ==
  ASSUME NEW X, NEW xs \in Seq(X), NEW x \in X
  PROVE  /\ Append(xs, x) \in Seq(X) /\ Append(xs, x) # <<>> /\ Len(xs) \in Nat
         /\ DOMAIN xs = 1 .. Len(xs) /\ DOMAIN Append(xs, x) = 1 .. Len(xs) + 1
         /\ \A i \in 1 .. Len(xs) : Append(xs, x)[i] = xs[i]
         /\ Append(xs, x)[Len(xs) + 1] = x
<1>1. Len(xs) \in Nat /\ DOMAIN xs = 1 .. Len(xs)
  BY LenProperties
<1> DEFINE ys == Append(xs, x)
<1>2. /\ ys \in Seq(X) /\ Len(ys) = Len(xs) + 1
      /\ \A i \in 1 .. Len(xs) : ys[i] = xs[i]
      /\ ys[Len(xs) + 1] = x
  BY AppendProperties
<1> HIDE DEF ys
<1>3. DOMAIN ys = 1 .. Len(xs) + 1
  BY <1>2, LenProperties
<1>4. ys # <<>>
  BY <1>1, <1>2, EmptySeq
<1> QED
  BY <1>1, <1>2, <1>3, <1>4 DEF ys

LEMMA StreamLength ==
  ASSUME TypeOK
  PROVE  /\ Placed(stream, req) /\ Len(stream) \in Nat /\ Len(input) \in Nat
         /\ Len(stream) - req.extra = EndAt(req) + Len(req.body)
         /\ EndAt(req) \in Nat /\ EndAt(req) >= 8 /\ Len(req.body) \in Nat
<1>1. Placed(stream, req)
  BY StreamIs DEF TypeOK
<1>2. /\ EndAt(req) \in Nat /\ EndAt(req) = NameAt(req, Len(req.lines)) + 5
      /\ Len(req.body) \in Nat /\ req.extra \in Nat
  BY PlacesAre DEF TypeOK
<1>3. SpAt(req) >= 3 /\ SpAt(req) \in Nat /\ NameAt(req, Len(req.lines)) >= SpAt(req)
      /\ NameAt(req, Len(req.lines)) \in Nat
  <2>1. SpAt(req) \in Nat /\ SpAt(req) >= 3 /\ Len(req.lines) \in Nat /\ NameAt(req, 0) = SpAt(req)
    BY PlacesAre DEF TypeOK
  <2>2. 0 \in 0 .. Len(req.lines) /\ Len(req.lines) \in 0 .. Len(req.lines)
    BY <2>1
  <2>3. /\ NameAt(req, Len(req.lines)) \in Nat
        /\ (0 < Len(req.lines) => NameAt(req, 0) + 4 =< NameAt(req, Len(req.lines)))
    BY <2>2, PlacesAre DEF TypeOK
  <2> QED
    BY <2>1, <2>3
<1>4. Len(stream) = EndAt(req) + Len(req.body) + req.extra
  BY <1>1 DEF Placed
<1>5. Len(input) \in Nat
  BY LenProperties DEF TypeOK
<1>6. EndAt(req) >= 8
  BY <1>2, <1>3
<1> DEFINE e == EndAt(req)
           b == Len(req.body)
           x == req.extra
           l == Len(stream)
<1>7. e \in Nat /\ b \in Nat /\ x \in Nat /\ l = e + b + x
  BY <1>2, <1>4
<1> HIDE DEF e, b, x, l
<1>8. l \in Nat /\ l - x = e + b
  BY <1>7
<1> QED
  BY <1>1, <1>2, <1>5, <1>6, <1>8 DEF e, b, x, l

(* A read in which no page is made.                                        *)
Answered(n) == n = EndAt(req) + Len(req.body) => answers' # <<>> \/ dead'

LEMMA StepKeeps ==
  ASSUME IInv, req' = req, stream' = stream, NEW n \in Len(input) + 1 .. Len(stream),
         input' = SubSeq(stream, 1, n), conn' \in Conns, KnownBy(conn', req, n), session' \in BOOLEAN,
         dead' \in BOOLEAN, FileSent', answers' \in Seq(Answers),
         Pages' = Pages, \A i \in Pages : answers'[i] = answers[i], Answered(n)
  PROVE  IInv'
<1>1. TypeOK /\ PageWhole /\ PostActedOnce
  BY DEF IInv
<1>2. /\ Placed(stream, req) /\ Len(stream) \in Nat /\ Len(input) \in Nat
      /\ Len(stream) - req.extra = EndAt(req) + Len(req.body)
      /\ EndAt(req) \in Nat /\ EndAt(req) >= 8 /\ Len(req.body) \in Nat
  BY <1>1, StreamLength
<1>3. n \in Nat /\ n \in 1 .. Len(stream) /\ Len(input) =< n /\ n # 0 /\ n =< Len(stream)
  BY <1>2
<1>4. input' \in Seq(Tokens) /\ Len(input') = n
  BY <1>2, <1>3, CutIs DEF Cut, Placed
<1>5. TypeOK'
  BY <1>1, <1>3, <1>4 DEF TypeOK
<1>6. KnownBy(conn, req, Len(input))'
  BY <1>4
<1>7. (Len(input) = 0 => conn.headerLen = 0)'
  BY <1>3, <1>4
<1>8. PageWhole'
  BY <1>1, <1>2, <1>3, <1>4 DEF PageWhole
<1>9. PostActedOnce'
  BY <1>1 DEF PostActedOnce
<1>10. WholeIsAnswered'
  BY <1>2, <1>4 DEF WholeIsAnswered, Answered
<1> QED
  BY <1>5, <1>6, <1>7, <1>8, <1>9, <1>10 DEF IInv

LEMMA SamePages ==
  ASSUME answers \in Seq(Answers), NEW x \in Answers, x.kind # "page", answers' = Append(answers, x)
  PROVE  /\ answers' \in Seq(Answers) /\ answers' # <<>>
         /\ Pages' = Pages /\ \A i \in Pages : answers'[i] = answers[i]
<1> DEFINE ys == Append(answers, x)
<1>1. /\ ys \in Seq(Answers) /\ ys # <<>> /\ Len(answers) \in Nat
      /\ DOMAIN answers = 1 .. Len(answers) /\ DOMAIN ys = 1 .. Len(answers) + 1
      /\ \A i \in 1 .. Len(answers) : ys[i] = answers[i]
      /\ ys[Len(answers) + 1] = x
  BY AppendIs
<1>2. answers' = ys
  OBVIOUS
<1> HIDE DEF ys
<1>3. \A i \in 1 .. Len(answers) + 1 : i \in 1 .. Len(answers) \/ i = Len(answers) + 1
  BY <1>1
<1>4. \A i \in 1 .. Len(answers) : i \in 1 .. Len(answers) + 1
  BY <1>1
<1>5. \A i : i \in Pages' <=> i \in Pages
  BY <1>1, <1>2, <1>3, <1>4 DEF Pages
<1>6. \A i \in Pages : answers'[i] = answers[i]
  BY <1>1, <1>2 DEF Pages
<1> QED
  BY <1>1, <1>2, <1>5, <1>6

(* A read in which one is made.                                            *)
LEMMA PageKeeps ==
  ASSUME IInv, req' = req, stream' = stream, NEW n \in Len(input) + 1 .. Len(stream),
         input' = SubSeq(stream, 1, n), conn' \in Conns, KnownBy(conn', req, n), session' \in BOOLEAN,
         dead' \in BOOLEAN, FileSent', NEW page \in Answers, page.kind = "page", page.doc = req.doc,
         answers' = Append(answers, page), NEW k \in 0 .. Len(req.lines),
         Complete(page, req, n, k)
  PROVE  IInv'
<1>1. TypeOK /\ PageWhole /\ PostActedOnce
  BY DEF IInv
<1>2. /\ Placed(stream, req) /\ Len(stream) \in Nat /\ Len(input) \in Nat
      /\ EndAt(req) \in Nat /\ Len(req.body) \in Nat
  BY <1>1, StreamLength
<1>3. n \in Nat /\ n \in 1 .. Len(stream) /\ Len(input) < n /\ n # 0 /\ n =< Len(stream)
  BY <1>2
<1>4. input' \in Seq(Tokens) /\ Len(input') = n
  BY <1>2, <1>3, CutIs DEF Cut, Placed
<1> DEFINE ys == Append(answers, page)
           l == Len(answers)
<1>5. /\ ys \in Seq(Answers) /\ ys # <<>> /\ l \in Nat
      /\ DOMAIN answers = 1 .. l /\ DOMAIN ys = 1 .. l + 1
      /\ \A i \in 1 .. l : ys[i] = answers[i]
      /\ ys[l + 1] = page
  BY <1>1, AppendIs DEF TypeOK
<1>6. answers' = ys
  OBVIOUS
<1> HIDE DEF ys, l
<1>7. \A i : i \in Pages' <=> i \in Pages \/ i = l + 1
  <2>1. \A i : i \in 1 .. l + 1 <=> i \in 1 .. l \/ i = l + 1
    BY <1>5
  <2> QED
    BY <1>5, <1>6, <2>1 DEF Pages
<1>8. \A i \in Pages : answers'[i] = answers[i]
  BY <1>5, <1>6 DEF Pages
<1>9. answers'[l + 1] = page
  BY <1>5, <1>6
<1>10. TypeOK'
  BY <1>1, <1>3, <1>4, <1>5, <1>6 DEF TypeOK
<1>11. KnownBy(conn, req, Len(input))' /\ (Len(input) = 0 => conn.headerLen = 0)'
  BY <1>3, <1>4
<1>12. WholeIsAnswered'
  BY <1>5, <1>6 DEF WholeIsAnswered
<1>13. PageWhole'
  <2>1. req.method = "POST" /\ req.body # <<>> => n = EndAt(req) + Len(req.body)
    BY DEF Complete
  <2> QED
    BY <1>2, <1>3, <1>4, <2>1 DEF PageWhole
<1>14. \A i \in Pages' : answers'[i].doc = req.doc
  BY <1>1, <1>7, <1>8, <1>9 DEF PostActedOnce
<1>15. ASSUME req.method = "POST", req.body # <<>>
       PROVE  /\ \A i, j \in Pages' : i = j
              /\ \A i \in Pages' : Does(answers'[i], NamedIn(req, Len(req.lines)) \o req.body)
  <2>1. Pages = {}
    BY <1>1, <1>2, <1>3, <1>15 DEF PageWhole, Complete
  <2>2. \A i \in Pages' : i = l + 1
    BY <1>7, <2>1
  <2> QED
    BY <1>9, <1>15, <2>2 DEF Complete
<1>16. ASSUME req.body = <<>>, NEW i \in Pages'
       PROVE  \E h \in 0 .. Len(req.lines) : Does(answers'[i], NamedIn(req, h))
  BY <1>1, <1>7, <1>8, <1>9, <1>16 DEF PostActedOnce, Complete
<1>17. PostActedOnce'
  BY <1>14, <1>15, <1>16 DEF PostActedOnce
<1> QED
  BY <1>10, <1>11, <1>12, <1>13, <1>17 DEF IInv

-----------------------------------------------------------------------------
(* The steps of a read.                                                    *)

(* What is in the connection after a pass, with another headerLen.         *)
LEMMA HeaderLenSet ==
  ASSUME NEW d \in Conns, NEW h \in Int
  PROVE  LET c == [d EXCEPT !.headerLen = h]
         IN  /\ c \in Conns /\ c.headerLen = h /\ c.contentLen = d.contentLen /\ c.doc = d.doc
             /\ c.origQs = d.origQs /\ c.post = d.post /\ c.func = d.func /\ c.file = d.file
BY DEF Conns

LEMMA KnownAlike ==
  ASSUME NEW r \in Requests, NEW n \in Nat, NEW c, NEW d, d.post = c.post, d.func = c.func,
         KnownBy(c, r, n)
  PROVE  KnownBy(d, r, n)
BY DEF KnownBy, KeysIn

(* main_loop with the end of a header.                                     *)
LEMMA ServeKeeps ==
  ASSUME IInv, ~conn.file, req' = req, stream' = stream, dead' = FALSE,
         NEW n \in Len(input) + 1 .. Len(stream), NEW t, t = SubSeq(stream, 1, n), input' = t,
         NEW w, NEW k \in 0 .. Len(req.lines), After(Doc(conn), w, req, n, k), w.ret > 0, Serve(t, w)
  PROVE  IInv'
<1> DEFINE m == Len(input)
           c == [w.c EXCEPT !.headerLen = w.ret]
           c0 == Doc(conn)
<1>1. TypeOK /\ KnownBy(conn, req, m) /\ req \in Requests /\ conn \in Conns /\ answers \in Seq(Answers)
      /\ session \in BOOLEAN
  BY DEF IInv, TypeOK
<1>2. /\ Placed(stream, req) /\ Len(stream) \in Nat /\ m \in Nat
      /\ EndAt(req) \in Nat /\ Len(req.body) \in Nat
  BY <1>1, StreamLength
<1>3. n \in Nat /\ n \in 1 .. Len(stream) /\ m < n /\ m =< n
  <2> HIDE DEF m
  <2>1. n \in m + 1 .. Len(stream)
    BY DEF m
  <2> QED
    BY <1>2, <2>1
<1>4. Cut(t, n, stream)
  BY <1>2, <1>3, CutIs DEF Placed
<1>5. /\ c0 \in Conns /\ c0.post = conn.post /\ c0.func = conn.func /\ c0.file = conn.file
      /\ c0.doc = req.doc
  BY <1>1, StartedIs
<1>6. KnownBy(c0, req, m)
  BY <1>1, <1>2, <1>5, KnownAlike
<1>7. /\ NameAt(req, k) \in Nat /\ EndAt(req) = NameAt(req, Len(req.lines)) + 5
      /\ NameAt(req, k) + 5 =< EndAt(req)
  BY <1>1, PlacesAre
<1>8. /\ w.ret \in Int /\ w.ret = NameAt(req, k) + 5 /\ w.c.contentLen # Unset
      /\ w.c \in Conns /\ w.c.doc = c0.doc /\ w.c.file = c0.file /\ LengthKnown(w.c, req)
      /\ NameAt(req, k) + 4 =< n => k = Len(req.lines)
  <2>1. w.ret # -1 /\ w.ret # 0
    OBVIOUS
  <2> QED
    BY <1>7, <2>1 DEF After, Took
<1>9. /\ c \in Conns /\ c.headerLen = w.ret /\ c.contentLen = w.c.contentLen /\ c.doc = req.doc
      /\ c.origQs = w.c.origQs /\ c.post = w.c.post /\ c.func = w.c.func /\ c.file = conn.file
  BY <1>5, <1>8, HeaderLenSet
<1>10. KnownBy(c, req, n)
  <2>1. KnownBy(w.c, req, n)
    BY <1>1, <1>2, <1>3, <1>5, <1>6, KnownStays
  <2> QED
    BY <1>1, <1>3, <1>9, <2>1, KnownAlike
<1>11. c.file = FALSE
  BY <1>1, <1>9 DEF Conns
<1>12. dead' \in BOOLEAN /\ input' = SubSeq(stream, 1, n)
  OBVIOUS
<1>13. c = [w.c EXCEPT !.headerLen = w.ret]
  OBVIOUS
<1>14. \/ /\ Page(c) /\ Incomplete(t, c) /\ conn' = c /\ answers' = answers
          /\ session' = (session \/ w.session)
       \/ /\ Page(c) /\ ~Incomplete(t, c) /\ conn' = c /\ session' = TRUE
          /\ answers' = Append(answers, [kind |-> "page", doc |-> c.doc,
                                         post |-> Made(t, c).post, func |-> Made(t, c).func])
       \/ /\ ~Page(c) /\ conn' = [c EXCEPT !.file = c.doc \in Files]
          /\ session' = (session \/ w.session)
          /\ answers' = IF c.file THEN answers
                        ELSE Append(answers, [kind |-> IF c.doc \in Files THEN "file" ELSE "404",
                                              doc |-> c.doc])
  BY DEF Serve, Made
<1>15. req.doc \in STRING
  BY <1>1, RequestType
<1> HIDE DEF c, m, c0
<1>16. CASE /\ Page(c) /\ Incomplete(t, c) /\ conn' = c /\ answers' = answers
            /\ session' = (session \/ w.session)
  <2>1. Answered(n)
    <3>1. SUFFICES ASSUME n = EndAt(req) + Len(req.body) PROVE FALSE
      BY DEF Answered
    <3>2. w.ret = EndAt(req)
      <4> DEFINE a == NameAt(req, k)
                 e == EndAt(req)
                 b == Len(req.body)
      <4>1. a \in Nat /\ e \in Nat /\ b \in Nat /\ a + 5 =< e /\ n = e + b
        BY <1>2, <1>7, <3>1
      <4> HIDE DEF a, e, b
      <4>2. a + 4 =< n
        BY <4>1
      <4> QED
        BY <1>7, <1>8, <4>2 DEF a
    <3>3. c.contentLen # 0 /\ c.contentLen + c.headerLen # n
      <4>1. Len(t) = n
        BY <1>4 DEF Cut
      <4> QED
        BY <1>16, <4>1 DEF Incomplete
    <3>4. c.contentLen = Len(req.body)
      BY <1>8, <1>9, <3>3 DEF LengthKnown
    <3> QED
      BY <1>2, <1>9, <3>1, <3>2, <3>3, <3>4
  <2>2. FileSent'
    BY <1>11, <1>16 DEF FileSent
  <2>3. answers' \in Seq(Answers) /\ Pages' = Pages /\ \A i \in Pages : answers'[i] = answers[i]
    BY <1>1, <1>16 DEF Pages
  <2>4. conn' \in Conns /\ KnownBy(conn', req, n) /\ session' \in BOOLEAN
    BY <1>9, <1>10, <1>16
  <2> QED
    BY <1>12, <2>1, <2>2, <2>3, <2>4, StepKeeps
<1>17. CASE /\ Page(c) /\ ~Incomplete(t, c) /\ conn' = c /\ session' = TRUE
            /\ answers' = Append(answers, [kind |-> "page", doc |-> c.doc,
                                           post |-> Made(t, c).post, func |-> Made(t, c).func])
  <2> DEFINE p == Made(t, c).post
             f == Made(t, c).func
             page == [kind |-> "page", doc |-> c.doc, post |-> p, func |-> f]
  <2>1. Complete(Made(t, c), req, n, k) /\ Made(t, c) \in Conns
    BY <1>1, <1>2, <1>3, <1>4, <1>5, <1>6, <1>13, <1>17, PageMade DEF c0
  <2>2. p \in SUBSET Argument /\ f \in STRING \cup {""}
    BY <2>1 DEF Conns
  <2>3. page \in Answers /\ page.kind = "page" /\ page.doc = req.doc /\ page.post = p /\ page.func = f
    <3> HIDE DEF p, f
    <3> QED
      BY <1>9, <1>15, <2>2 DEF Answers
  <2>4. Complete(page, req, n, k)
    BY <2>1, <2>3 DEF Does, Complete
  <2>5. FileSent'
    BY <1>11, <1>17 DEF FileSent
  <2>6. /\ conn' \in Conns /\ KnownBy(conn', req, n) /\ session' \in BOOLEAN
        /\ answers' = Append(answers, page)
    BY <1>9, <1>10, <1>17
  <2> HIDE DEF page
  <2> QED
    BY <1>12, <2>1, <2>3, <2>4, <2>5, <2>6, PageKeeps
<1>18. CASE /\ ~Page(c) /\ conn' = [c EXCEPT !.file = c.doc \in Files]
            /\ session' = (session \/ w.session)
            /\ answers' = IF c.file THEN answers
                          ELSE Append(answers, [kind |-> IF c.doc \in Files THEN "file" ELSE "404",
                                                doc |-> c.doc])
  <2> DEFINE a == [kind |-> IF c.doc \in Files THEN "file" ELSE "404", doc |-> c.doc]
  <2>1. a \in Answers /\ a.kind # "page"
    BY <1>9, <1>15 DEF Answers
  <2>2. answers' = Append(answers, a)
    BY <1>11, <1>18
  <2> HIDE DEF a
  <2>3. /\ answers' \in Seq(Answers) /\ answers' # <<>>
        /\ Pages' = Pages /\ \A i \in Pages : answers'[i] = answers[i]
    BY <1>1, <2>1, <2>2, SamePages
  <2>4. Answered(n)
    BY <2>3 DEF Answered
  <2>5. /\ conn' \in Conns /\ conn'.headerLen = c.headerLen /\ conn'.doc = c.doc
        /\ conn'.origQs = c.origQs /\ conn'.post = c.post /\ conn'.func = c.func
    <3> DEFINE b == c.doc \in Files
    <3>1. b \in BOOLEAN /\ conn' = [c EXCEPT !.file = b]
      BY <1>18
    <3> HIDE DEF b
    <3> QED
      BY <1>9, <3>1 DEF Conns
  <2>6. FileSent'
    <3>1. ~Page(conn)'
      BY <1>18, <2>5 DEF Page
    <3> QED
      BY <1>8, <1>9, <2>3, <2>5, <3>1 DEF FileSent
  <2>7. KnownBy(conn', req, n)
    BY <1>1, <1>3, <1>10, <2>5, KnownAlike
  <2>8. session' \in BOOLEAN
    BY <1>18
  <2> QED
    BY <1>12, <2>3, <2>4, <2>5, <2>6, <2>7, <2>8, StepKeeps
<1> QED
  BY <1>14, <1>16, <1>17, <1>18

LEMMA BehindType ==
  ASSUME TypeOK, NEW n \in Nat
  PROVE  Behind(n) \subseteq Seq(Tokens)
<1>1. CR \in Tokens /\ LF \in Tokens
  <2>1. "CR" \in Marks /\ "LF" \in Marks
    BY DEF Marks
  <2> QED
    BY <2>1, MarkType DEF CR, LF
<1>2. stream \in Seq(Tokens) /\ Len(stream) \in Nat
  BY StreamLength DEF Placed
<1>3. SubSeq(stream, n + 1, Len(stream)) \in Seq(Tokens)
  <2>1. \A i \in n + 1 .. Len(stream) : stream[i] \in Tokens
    <3>1. \A i \in n + 1 .. Len(stream) : i \in 1 .. Len(stream)
      BY <1>2
    <3> QED
      BY <1>2, <3>1, ElementOfSeq
  <2> QED
    BY <1>2, <2>1, SubSeqProperties
<1>4. <<>> \in Seq(Tokens) /\ CRLF \in Seq(Tokens) /\ <<LF>> \in Seq(Tokens)
  BY <1>1 DEF CRLF
<1>5. <<LF>> \o CRLF \in Seq(Tokens) /\ CRLF \o CRLF \in Seq(Tokens)
  BY <1>4, ConcatProperties
<1> QED
  BY <1>3, <1>4, <1>5 DEF Behind

LEMMA ReadKeeps ==
  ASSUME IInv, NEW n \in Len(input) + 1 .. Len(stream), NEW found \in BOOLEAN, NEW mem \in Behind(n),
         Read(n, mem, found)
  PROVE  IInv'
<1> DEFINE t == SubSeq(stream, 1, n)
           m == Len(input)
           head == ~conn.file /\ n > 1
           w == IF head THEN process_header(t, mem, found) ELSE Result(conn, conn.headerLen)
<1>1. TypeOK /\ KnownBy(conn, req, m) /\ req \in Requests /\ conn \in Conns /\ answers \in Seq(Answers)
      /\ session \in BOOLEAN /\ dead \in BOOLEAN
  BY DEF IInv, TypeOK
<1>2. /\ Placed(stream, req) /\ Len(stream) \in Nat /\ m \in Nat
      /\ EndAt(req) \in Nat /\ EndAt(req) >= 8 /\ Len(req.body) \in Nat
  BY <1>1, StreamLength
<1>3. n \in Nat /\ n \in 1 .. Len(stream) /\ m =< n /\ n # 0
  <2> HIDE DEF m
  <2>1. n \in m + 1 .. Len(stream)
    BY DEF m
  <2> QED
    BY <1>2, <2>1
<1>4. Cut(t, n, stream)
  BY <1>2, <1>3, CutIs DEF Placed
<1>5. mem \in Seq(Tokens)
  BY <1>1, <1>3, BehindType
<1>6. /\ req' = req /\ stream' = stream /\ input' = t /\ dead' = w.dead
      /\ \/ w.dead /\ conn' = conn /\ session' = session /\ answers' = answers
         \/ /\ ~w.dead /\ w.ret = -1
            /\ conn' = [w.c EXCEPT !.headerLen = -1] /\ session' = session
            /\ answers' = Append(answers, [kind |-> "bad"])
         \/ /\ ~w.dead /\ w.ret = 0
            /\ conn' = [w.c EXCEPT !.headerLen = 0] /\ session' = session /\ answers' = answers
         \/ ~w.dead /\ w.ret > 0 /\ Serve(t, w)
  BY DEF Read
<1>7. input' = SubSeq(stream, 1, n)
  BY <1>6
<1>8. KnownBy(conn, req, n)
  BY <1>1, <1>2, <1>3, KnownMore
<1>9. answers' = answers =>
        answers' \in Seq(Answers) /\ Pages' = Pages /\ \A i \in Pages : answers'[i] = answers[i]
  BY <1>1 DEF Pages
<1>10. FileSent
  BY DEF IInv
<1> HIDE DEF t, w, m, head
(* The connection has ended the program. *)
<1>11. CASE w.dead = TRUE
  <2>1. dead' = TRUE /\ conn' = conn /\ session' = session /\ answers' = answers
    BY <1>6, <1>11
  <2>2. FileSent' /\ Answered(n)
    BY <1>10, <2>1 DEF FileSent, Page, Answered
  <2> QED
    BY <1>1, <1>6, <1>7, <1>8, <1>9, <2>1, <2>2, StepKeeps
(* Nothing has been taken: a file has been sent, or one token is there. *)
<1>12. CASE ~head
  <2>1. w = Result(conn, conn.headerLen)
    BY <1>12 DEF w
  <2> DEFINE h == conn.headerLen
  <2>2. w.dead = FALSE /\ w.ret = h /\ w.c = conn /\ w.session = FALSE /\ h \in Int
    BY <1>1, <2>1 DEF Result, Conns
  <2> HIDE DEF h
  <2>3. CASE conn.file
    <3>1. ~Page(conn) /\ h > 0 /\ answers # <<>>
      BY <1>10, <2>3 DEF FileSent, h
    <3>2. Serve(t, w)
      BY <1>6, <2>2, <3>1
    <3> DEFINE c == [w.c EXCEPT !.headerLen = w.ret]
    <3>3. /\ c \in Conns /\ c.headerLen = h /\ c.doc = conn.doc /\ c.origQs = conn.origQs
          /\ c.post = conn.post /\ c.func = conn.func /\ c.file = conn.file
      BY <1>1, <2>2, HeaderLenSet
    <3>4. ~Page(c)
      BY <3>1, <3>3 DEF Page
    <3>5. /\ session' = (session \/ w.session) /\ conn' = [c EXCEPT !.file = c.doc \in Files]
          /\ answers' = answers
      BY <2>3, <3>2, <3>3, <3>4 DEF Serve
    <3> HIDE DEF c
    <3>6. /\ conn' \in Conns /\ conn'.headerLen = h /\ conn'.doc = c.doc /\ conn'.origQs = c.origQs
          /\ conn'.post = conn.post /\ conn'.func = conn.func
      <4> DEFINE b == c.doc \in Files
      <4>1. b \in BOOLEAN /\ conn' = [c EXCEPT !.file = b]
        BY <3>5
      <4> HIDE DEF b
      <4> QED
        BY <3>3, <4>1 DEF Conns
    <3>7. FileSent'
      <4>1. ~Page(conn)'
        BY <3>4, <3>6 DEF Page
      <4> QED
        BY <3>1, <3>5, <3>6, <4>1 DEF FileSent
    <3>8. Answered(n) /\ session' \in BOOLEAN /\ dead' \in BOOLEAN
      BY <1>1, <1>6, <2>2, <3>1, <3>5 DEF Answered
    <3>9. KnownBy(conn', req, n)
      BY <1>1, <1>3, <1>8, <3>6, KnownAlike
    <3> QED
      BY <1>6, <1>7, <1>9, <3>5, <3>6, <3>7, <3>8, <3>9, StepKeeps
  <2>4. CASE ~conn.file
    <3>1. n = 1
      BY <1>3, <1>12, <2>4 DEF head
    <3>2. m = 0
      <4>1. n \in m + 1 .. Len(stream)
        BY DEF m
      <4> QED
        BY <1>2, <3>1, <4>1
    <3>3. h = 0
      BY <3>2 DEF IInv, m, h
    <3>4. conn' = [conn EXCEPT !.headerLen = 0] /\ session' = session /\ answers' = answers
      BY <1>6, <2>2, <3>3
    <3>5. /\ conn' \in Conns /\ conn'.post = conn.post /\ conn'.func = conn.func /\ conn'.file = conn.file
      BY <1>1, <3>4, HeaderLenSet
    <3>6. FileSent'
      BY <2>4, <3>5 DEF FileSent
    <3>7. Answered(n)
      BY <1>2, <3>1 DEF Answered
    <3>8. KnownBy(conn', req, n) /\ session' \in BOOLEAN /\ dead' \in BOOLEAN
      BY <1>1, <1>3, <1>6, <1>8, <2>2, <3>4, <3>5, KnownAlike
    <3> QED
      BY <1>6, <1>7, <1>9, <3>4, <3>5, <3>6, <3>7, <3>8, StepKeeps
  <2> QED
    BY <2>3, <2>4
(* The header has been read, once more. *)
<1>13. CASE head /\ w.dead # TRUE
  <2>1. w = process_header(t, mem, found) /\ ~conn.file /\ 1 < n
    BY <1>3, <1>13 DEF head, w
  <2>2. \/ Passed(Doc(conn), w, req, n)
        \/ w.dead = FALSE /\ w.ret = 0 /\ w.c = Started(conn) /\ n < SpAt(req)
    <3>1. HeaderRead(process_header(t, mem, found), n)
      BY <1>1, <1>2, <1>3, <1>4, <1>5, <2>1, HeaderDoes
    <3> QED
      BY <2>1, <3>1 DEF HeaderRead
  <2>3. conn.file = FALSE
    BY <1>1, <2>1 DEF Conns
  <2>4. CASE w.dead = FALSE /\ w.ret = 0 /\ w.c = Started(conn) /\ n < SpAt(req)
    <3> DEFINE d == Started(conn)
    <3>1. d \in Conns /\ d.post = conn.post /\ d.func = conn.func /\ d.file = conn.file
      BY <1>1, StartedIs
    <3>2. conn' = [d EXCEPT !.headerLen = 0] /\ session' = session /\ answers' = answers /\ dead' = FALSE
      BY <1>6, <2>4
    <3> HIDE DEF d
    <3>3. conn' \in Conns /\ conn'.post = d.post /\ conn'.func = d.func /\ conn'.file = d.file
      BY <3>1, <3>2, HeaderLenSet
    <3>4. FileSent'
      BY <2>3, <3>1, <3>3 DEF FileSent
    <3>5. Answered(n)
      <4>1. SpAt(req) \in Nat /\ NameAt(req, 0) = SpAt(req) /\ NameAt(req, 0) + 5 =< EndAt(req)
        <5>1. Len(req.lines) \in Nat
          BY <1>1, PlacesAre
        <5>2. 0 \in 0 .. Len(req.lines)
          BY <5>1
        <5> QED
          BY <1>1, <5>2, PlacesAre
      <4>2. n < EndAt(req)
        BY <1>2, <1>3, <2>4, <4>1
      <4> QED
        BY <1>2, <1>3, <4>2 DEF Answered
    <3>6. KnownBy(conn', req, n)
      BY <1>1, <1>3, <1>8, <3>1, <3>3, KnownAlike
    <3> QED
      BY <1>1, <1>6, <1>7, <1>9, <3>2, <3>3, <3>4, <3>5, <3>6, StepKeeps
  <2>5. ASSUME NEW k \in 0 .. Len(req.lines), After(Doc(conn), w, req, n, k),
               w.ret = 0 => n < EndAt(req)
        PROVE  IInv'
    <3> DEFINE c0 == Doc(conn)
    <3>1. c0 \in Conns /\ c0.post = conn.post /\ c0.func = conn.func /\ c0.file = conn.file
      BY <1>1, StartedIs
    <3>2. KnownBy(c0, req, m)
      BY <1>1, <1>2, <3>1, KnownAlike
    <3> HIDE DEF c0
    <3>3. KnownBy(w.c, req, n)
      BY <1>1, <1>2, <1>3, <2>5, <3>1, <3>2, KnownStays DEF c0
    <3>4. w.dead = FALSE /\ w.c \in Conns /\ w.c.file = FALSE
      BY <2>3, <2>5, <3>1 DEF After, Took, c0
    <3> DEFINE d == w.c
    <3>5. d \in Conns /\ d.file = FALSE /\ KnownBy(d, req, n) /\ dead' = FALSE
      BY <1>6, <3>3, <3>4
    <3>6. CASE w.ret = -1
      <4> DEFINE bad == [kind |-> "bad"]
      <4>1. conn' = [d EXCEPT !.headerLen = -1] /\ session' = session /\ answers' = Append(answers, bad)
        BY <1>6, <3>4, <3>6
      <4>2. bad \in Answers /\ bad.kind # "page"
        BY DEF Answers
      <4> HIDE DEF d, bad
      <4>3. conn' \in Conns /\ conn'.post = d.post /\ conn'.func = d.func /\ conn'.file = d.file
        BY <3>5, <4>1, HeaderLenSet
      <4>4. /\ answers' \in Seq(Answers) /\ answers' # <<>>
            /\ Pages' = Pages /\ \A i \in Pages : answers'[i] = answers[i]
        BY <1>1, <4>1, <4>2, SamePages
      <4>5. FileSent' /\ Answered(n)
        BY <3>5, <4>3, <4>4 DEF FileSent, Answered
      <4>6. KnownBy(conn', req, n)
        BY <1>1, <1>3, <3>5, <4>3, KnownAlike
      <4> QED
        BY <1>1, <1>6, <1>7, <3>5, <4>1, <4>3, <4>4, <4>5, <4>6, StepKeeps
    <3>7. CASE w.ret = 0
      <4>1. conn' = [d EXCEPT !.headerLen = 0] /\ session' = session /\ answers' = answers
        BY <1>6, <3>4, <3>7
      <4> HIDE DEF d
      <4>2. conn' \in Conns /\ conn'.post = d.post /\ conn'.func = d.func /\ conn'.file = d.file
        BY <3>5, <4>1, HeaderLenSet
      <4>3. n < EndAt(req)
        BY <2>5, <3>7
      <4>4. FileSent' /\ Answered(n)
        BY <1>2, <1>3, <3>5, <4>2, <4>3 DEF FileSent, Answered
      <4>5. KnownBy(conn', req, n)
        BY <1>1, <1>3, <3>5, <4>2, KnownAlike
      <4> QED
        BY <1>1, <1>6, <1>7, <1>9, <3>5, <4>1, <4>2, <4>4, <4>5, StepKeeps
    <3>8. CASE w.ret # -1 /\ w.ret # 0
      <4>1. w.ret > 0 /\ Serve(t, w)
        BY <1>6, <3>4, <3>8
      <4>2. t = SubSeq(stream, 1, n)
        BY DEF t
      <4> HIDE DEF d
      <4> QED
        BY <1>6, <2>1, <2>5, <3>5, <4>1, <4>2, ServeKeeps
    <3> QED
      BY <3>6, <3>7, <3>8
  <2> QED
    BY <1>13, <2>2, <2>4, <2>5 DEF Passed
<1> QED
  BY <1>11, <1>12, <1>13

LEMMA InitHolds ==
  ASSUME RequestInit
  PROVE  IInv
<1>1. req \in Requests /\ stream = Stream(req) /\ input = <<>> /\ conn = NewConn /\ session \in BOOLEAN
      /\ answers = <<>> /\ dead = FALSE
  BY DEF RequestInit
<1>2. /\ NewConn \in Conns /\ NewConn.file = FALSE /\ NewConn.headerLen = 0
      /\ NewConn.post = {} /\ NewConn.func = ""
  BY DEF NewConn, Conns, Unset
<1>3. <<>> \in Seq(Tokens) /\ Len(<<>>) = 0 /\ <<>> \in Seq(Answers)
  BY EmptySeq
<1>4. Placed(stream, req)
  BY <1>1, StreamIs
<1>5. Len(stream) \in Nat
  BY <1>4, LenProperties DEF Placed
<1>6. TypeOK
  <2>1. input \in Seq(Tokens) /\ answers \in Seq(Answers) /\ Len(input) = 0
    BY <1>1, <1>3
  <2>2. conn \in Conns /\ dead \in BOOLEAN
    BY <1>1, <1>2
  <2>3. Len(input) =< Len(stream)
    BY <1>5, <2>1
  <2> QED
    BY <1>1, <2>1, <2>2, <2>3 DEF TypeOK
<1>7. Len(input) = 0
  BY <1>1, <1>3
<1>8. KnownBy(conn, req, Len(input))
  <2>1. 0 \in 0 .. Len(req.lines)
    BY <1>1, RequestType
  <2> QED
    BY <1>1, <1>2, <2>1 DEF KnownBy, KeysIn
<1>9. Pages = {}
  BY <1>1 DEF Pages
<1>10. PostActedOnce /\ PageWhole
  BY <1>9 DEF PostActedOnce, PageWhole
<1>11. WholeIsAnswered
  BY <1>6, <1>7, StreamLength DEF WholeIsAnswered
<1>12. FileSent
  BY <1>1, <1>2 DEF FileSent
<1> QED
  BY <1>1, <1>2, <1>6, <1>8, <1>10, <1>11, <1>12 DEF IInv

LEMMA NextKeeps ==
  ASSUME IInv, [RequestNext]_requestVars
  PROVE  IInv'
<1>1. CASE RequestNext
  BY <1>1, ReadKeeps DEF RequestNext
<1>2. CASE UNCHANGED requestVars
  <2>1. /\ req' = req /\ stream' = stream /\ input' = input /\ conn' = conn /\ session' = session
        /\ answers' = answers /\ dead' = dead
    BY <1>2 DEF requestVars
  <2>2. TypeOK' /\ FileSent' /\ PageWhole' /\ PostActedOnce' /\ WholeIsAnswered'
    BY <2>1 DEF IInv, TypeOK, FileSent, Page, PageWhole, Pages, PostActedOnce, WholeIsAnswered
  <2>3. KnownBy(conn, req, Len(input))' /\ (Len(input) = 0 => conn.headerLen = 0)'
    BY <2>1 DEF IInv
  <2> QED
    BY <2>2, <2>3 DEF IInv
<1> QED
  BY <1>1, <1>2

LEMMA Inductive == RequestSpec => []IInv
<1>1. RequestInit => IInv
  BY InitHolds
<1>2. IInv /\ [RequestNext]_requestVars => IInv'
  BY NextKeeps
<1> QED
  BY <1>1, <1>2, PTL DEF RequestSpec

(* What is posted is acted on once at most, with all of it and nothing     *)
(* else, wherever the reads end (process_post, and main_loop's check that  *)
(* the body is there).                                                     *)
THEOREM RequestPostActedOnce == RequestSpec => []PostActedOnce
<1>1. IInv => PostActedOnce
  BY DEF IInv
<1> QED
  BY <1>1, Inductive, PTL

(* A request that has arrived is answered in the read that completes it,   *)
(* or has ended the program (main_loop, process_header).                   *)
THEOREM RequestWholeIsAnswered == RequestSpec => []WholeIsAnswered
<1>1. IInv => WholeIsAnswered
  BY DEF IInv
<1> QED
  BY <1>1, Inductive, PTL

=============================================================================
