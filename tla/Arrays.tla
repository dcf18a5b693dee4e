------------------------------- MODULE Arrays -------------------------------
(***************************************************************************)
(* The two growing buffers of libowfat: array, which holds objects of any  *)
(* size and fails for good when memory runs out, and stralloc, which holds *)
(* a string and is left alone by a call that fails.                        *)
(*                                                                         *)
(* The bytes of their memory are kept, those not in use too; beside them   *)
(* what the calls that succeeded say the contents are (history).           *)
(***************************************************************************)
EXTENDS Integers, SequencesExt

CONSTANTS
  Strings,   \* what is appended
  Sizes,     \* sizes of the objects of the array
  Round,     \* 128 and 4096: array_allocate rounds up to a multiple of it
  Slack,     \* 30: what stralloc_ready asks for on top
  Cap,       \* 2^64: products and sums from here on overflow
  MaxMem,    \* bound: realloc fails above it (and may below)
  MaxOps     \* bound: calls

ArraysAssumption ==
  /\ Sizes \subseteq Nat \ {0} /\ Round \in Nat \ {0} /\ Slack \in Nat \ {0}
  /\ Strings \subseteq Seq(Int)
  /\ MaxMem \in Nat /\ Cap \in Nat /\ Cap > MaxMem /\ Cap % Round = 0 /\ MaxOps \in Nat

VARIABLES
  x,        \* the array: [allocated, initialized, mem]
  sa,       \* the stralloc: [len, a, mem]; a = 0 while s is 0
  meant,    \* history: what the array should hold
  said,     \* history: what the stralloc should hold
  dirty,    \* history: bytes of x that a truncation may have left values in
  got,      \* the object array_get returned: <<offset, size>>, or <<>>
  kind,     \* which of the two this program uses: they share nothing
  ops

vars == <<x, sa, meant, said, dirty, got, kind, ops>>

Garbage == 7
Stale == -1
Fill(v, n) == [i \in 1 .. n |-> v]

Init ==
  /\ x = [allocated |-> 0, initialized |-> 0, mem |-> <<>>]
  /\ sa = [len |-> 0, a |-> 0, mem |-> <<>>]
  /\ meant = <<>> /\ said = <<>> /\ dirty = 0 /\ got = <<>> /\ ops = 0
  /\ kind \in {"array", "stralloc"}

Called(k) == /\ kind = k /\ ops < MaxOps
             /\ ops' = ops + 1 /\ UNCHANGED kind

(* byte_copy to an offset. *)
Put(mem, at, s) == [i \in DOMAIN mem |-> IF i - at \in DOMAIN s THEN s[i - at] ELSE mem[i]]

(* realloc: fails at will, keeps what was there. *)
Realloc(mem, n) == SubSeq(mem \o Fill(Garbage, n), 1, n)

-----------------------------------------------------------------------------
(* array                                                                   *)

Failed(a) == a.allocated < 0
ArrayFail == [allocated |-> -1, initialized |-> 0, mem |-> <<>>]

(* Mutant of Zeroed: only the first new byte. *)
ZeroedFirst(mem, from) == [i \in DOMAIN mem |-> IF i = from + 1 THEN 0 ELSE mem[i]]
(* byte_zero of what was not in use. *)
Zeroed(mem, from) == [i \in DOMAIN mem |-> IF i > from THEN 0 ELSE mem[i]]

RoundedUp(n) == ((n + Round - 1) \div Round) * Round

(* What array_allocate makes of the array, for every outcome of realloc:   *)
(* the array itself when it returns 0.                                     *)
Allocated(a, size, pos) ==
  LET wanted == size * (pos + 1)
      room == RoundedUp(wanted) % Cap
  IN  IF Failed(a) \/ pos + 1 < 1 \/ wanted >= Cap THEN {}
      ELSE IF wanted <= a.initialized THEN {a}
      ELSE IF wanted < a.allocated THEN {[a EXCEPT !.initialized = wanted]}
      ELSE IF room < Round \/ room > MaxMem THEN {}
      ELSE {[allocated |-> room, initialized |-> wanted,
             mem |-> Zeroed(Realloc(a.mem, room), a.initialized)]}

(* realloc was called, if only for as much as there was. *)
Moved(a, b) == b.initialized > a.initialized /\ b.initialized >= a.allocated

(* It returns 0 when it cannot, or when realloc does. *)
Refused(a, size, pos) == \A b \in Allocated(a, size, pos) : Moved(a, b)

(* The bytes that joined: 0, or what a truncation left there.              *)
Joined(a, b) ==
  [i \in 1 .. b.initialized |->
     IF i <= a.initialized THEN meant[i]
     ELSE IF ~Moved(a, b) /\ i <= dirty THEN Stale ELSE 0]

(* array_allocate, and the object stored through the pointer it returned.  *)
Allocate(size, pos, v) ==
  /\ Called("array")
  /\ \/ \E b \in Allocated(x, size, pos) :
          /\ x' = [b EXCEPT !.mem = Put(@, pos * size, Fill(v, size))]
          /\ meant' = Put(Joined(x, b), pos * size, Fill(v, size))
          /\ dirty' = IF Moved(x, b) THEN b.initialized
                      ELSE IF dirty > b.initialized THEN dirty ELSE b.initialized
     \/ Refused(x, size, pos) /\ UNCHANGED <<x, meant, dirty>>
  /\ got' = <<>> /\ UNCHANGED <<sa, said>>

(* array_catb; array_cats and array_cats0 are it with the length of the    *)
(* string, array_cat0 with a 0, array_cate with a part of another array.   *)
CatB(s) ==
  /\ Called("array")
  /\ IF s = <<>> \/ Failed(x) THEN UNCHANGED <<x, meant, dirty>>
     ELSE \/ \E b \in Allocated(x, 1, x.initialized + Len(s) - 1) :
               /\ x' = [b EXCEPT !.mem = Put(@, x.initialized, s)]
               /\ meant' = meant \o s
               /\ dirty' = IF ~Moved(x, b) /\ dirty > b.initialized THEN dirty ELSE b.initialized
          \/ /\ Refused(x, 1, x.initialized + Len(s) - 1)
             /\ x' = ArrayFail /\ meant' = <<>> /\ dirty' = 0
  /\ got' = <<>> /\ UNCHANGED <<sa, said>>

(* array_cat of an array that has failed, array_cate of a part that is     *)
(* none, and array_fail.                                                   *)
Fail ==
  /\ Called("array")
  /\ x' = ArrayFail /\ meant' = <<>> /\ dirty' = 0 /\ got' = <<>>
  /\ UNCHANGED <<sa, said>>

Reset ==
  /\ Called("array")
  /\ x' = [allocated |-> 0, initialized |-> 0, mem |-> <<>>]
  /\ meant' = <<>> /\ dirty' = 0 /\ got' = <<>>
  /\ UNCHANGED <<sa, said>>

(* array_truncate; array_trunc is it with a length of 0. *)
Truncate(size, len) ==
  /\ Called("array") /\ size * len < Cap /\ size * len <= x.initialized
  /\ x' = [x EXCEPT !.initialized = size * len]
  /\ meant' = SubSeq(meant, 1, size * len)
  /\ got' = <<>> /\ UNCHANGED <<sa, said, dirty>>

(* array_get, of an array of whole objects of that size. *)
Get(size, pos) ==
  /\ Called("array") /\ x.initialized % size = 0
  /\ got' = IF size * pos >= Cap \/ size * pos >= x.allocated \/ size * pos >= x.initialized
            THEN <<>> ELSE <<size * pos, size>>
  /\ UNCHANGED <<x, sa, meant, said, dirty>>

(* array_length and array_bytes. *)
Length(a, size) == IF Failed(a) THEN -1 ELSE a.initialized \div size

-----------------------------------------------------------------------------
(* stralloc                                                                *)

(* stralloc_ready: what becomes of sa, for every outcome of realloc. *)
Ready(s, len) ==
  IF s.a > 0 /\ s.a >= len THEN {s}
  ELSE LET wanted == len + len \div 8 + Slack
       IN  IF wanted > MaxMem THEN {}
           ELSE {[s EXCEPT !.a = wanted, !.mem = Realloc(@, wanted)]}

(* Mutant of ReadyPlus: the length in use is not counted. *)
ReadyAlone(s, len) == Ready(s, len)
ReadyPlus(s, len) == IF s.a > 0 THEN Ready(s, s.len + len) ELSE Ready(s, len)

(* There is no room when realloc was called for it, and fails. *)
NoRoom(s, ready) == \A t \in ready : t.a # s.a
Holds(t, at, s) == [t EXCEPT !.len = at + Len(s), !.mem = Put(@, at, s)]

(* stralloc_copyb, and with it stralloc_copys and stralloc_copy. *)
CopyB(s) ==
  /\ Called("stralloc")
  /\ \/ \E t \in Ready(sa, Len(s)) : sa' = Holds(t, 0, s) /\ said' = s
     \/ NoRoom(sa, Ready(sa, Len(s))) /\ UNCHANGED <<sa, said>>
  /\ UNCHANGED <<x, meant, dirty, got>>

(* stralloc_catb, and with it append, cats, cat, 0, catulong0 and catlong0. *)
SaCatB(s) ==
  /\ Called("stralloc")
  /\ \/ \E t \in ReadyPlus(sa, Len(s)) : sa' = Holds(t, sa.len, s) /\ said' = said \o s
     \/ NoRoom(sa, ReadyPlus(sa, Len(s))) /\ UNCHANGED <<sa, said>>
  /\ UNCHANGED <<x, meant, dirty, got>>

(* stralloc_catm of two strings: room for both is made first, and when     *)
(* there is none they are still tried one by one.                          *)
CatM(s1, s2) ==
  LET all == ReadyPlus(sa, Len(s1) + Len(s2))
      rooms == all \cup (IF NoRoom(sa, all) THEN {sa} ELSE {})
  IN  /\ Called("stralloc")
      /\ \E r \in rooms :
           \/ NoRoom(r, ReadyPlus(r, Len(s1))) /\ sa' = r /\ UNCHANGED said
           \/ \E t \in ReadyPlus(r, Len(s1)) :
              \/ /\ NoRoom(t, ReadyPlus(Holds(t, r.len, s1), Len(s2)))
                 /\ sa' = Holds(t, r.len, s1) /\ said' = said \o s1
              \/ \E u \in ReadyPlus(Holds(t, r.len, s1), Len(s2)) :
                   /\ sa' = Holds(u, r.len + Len(s1), s2)
                   /\ said' = said \o s1 \o s2
      /\ UNCHANGED <<x, meant, dirty, got>>

CR == 13
LF == 10

(* stralloc_chomp; of a string that is CR LF and nothing else it takes     *)
(* only the LF.                                                            *)
Chomped(s) ==
  LET n == Len(s)
  IN  IF n = 0 \/ s[n] \notin {CR, LF} THEN 0
      ELSE IF s[n] = LF /\ n > 2 /\ s[n - 1] = CR THEN 2 ELSE 1

Chomp ==
  /\ Called("stralloc")
  /\ sa' = [sa EXCEPT !.len = @ - Chomped(SubSeq(sa.mem, 1, sa.len))]
  /\ said' = SubSeq(said, 1, Len(said) - Chomped(said))
  /\ UNCHANGED <<x, meant, dirty, got>>

Chop ==
  /\ Called("stralloc") /\ sa.len > 0
  /\ sa' = [sa EXCEPT !.len = @ - 1] /\ said' = Front(said)
  /\ UNCHANGED <<x, meant, dirty, got>>

(* stralloc_zero. *)
Zero ==
  /\ Called("stralloc")
  /\ sa' = [sa EXCEPT !.len = 0] /\ said' = <<>>
  /\ UNCHANGED <<x, meant, dirty, got>>

(* stralloc_free leaves len as it was: stralloc_init is called behind it   *)
(* here, for what is appended otherwise lands at the old length of a       *)
(* region made for the new one.                                            *)
FreeInit ==
  /\ Called("stralloc")
  /\ sa' = [len |-> 0, a |-> 0, mem |-> <<>>] /\ said' = <<>>
  /\ UNCHANGED <<x, meant, dirty, got>>

Next ==
  \/ \E size \in Sizes, pos \in 0 .. 2, v \in {1, 2} : Allocate(size, pos, v)
  \/ \E s \in Strings : CatB(s) \/ CopyB(s) \/ SaCatB(s)
  \/ \E s1, s2 \in Strings : CatM(s1, s2)
  \/ \E size \in Sizes, n \in 0 .. 2 : Truncate(size, n) \/ Get(size, n)
  \/ Fail \/ Reset \/ Chomp \/ Chop \/ Zero \/ FreeInit

Spec == Init /\ [][Next]_vars

-----------------------------------------------------------------------------
(* Nothing is in use that was not allocated, and no object handed out      *)
(* reaches past what is in use.                                            *)
Inside ==
  /\ ~Failed(x) => x.initialized <= x.allocated /\ Len(x.mem) = x.allocated
  /\ sa.len <= sa.a /\ Len(sa.mem) = sa.a
  /\ got # <<>> => got[1] + got[2] <= x.initialized

(* The contents are what the calls say, through every growth, truncation   *)
(* and failed allocation: new bytes of an array are 0 (unless a truncation *)
(* left them there), a failed array is empty, a failed call on a stralloc  *)
(* has changed nothing.                                                    *)
Contents ==
  /\ x.initialized = Len(meant) /\ sa.len = Len(said)
  /\ \A i \in 1 .. Len(meant) : meant[i] # Stale => x.mem[i] = meant[i]
  /\ SubSeq(sa.mem, 1, sa.len) = said
=============================================================================
