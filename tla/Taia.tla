-------------------------------- MODULE Taia --------------------------------
(***************************************************************************)
(* tai and taia of libowfat: the times that deadlines are made of - sec,   *)
(* nano and atto, a number each - are added, subtracted, halved, compared, *)
(* packed into bytes and unpacked.  taia.h says what that is to mean:      *)
(* numbers modulo 2^64 seconds, whatever the arguments overlap.            *)
(***************************************************************************)
EXTENDS Integers, SequencesExt

CONSTANTS
  Regs,      \* the variables of the program
  Unit,      \* 1000000000: nano in a sec, atto in a nano
  SecDigits, LongDigits,  \* 8 and 4: bytes of sec, and of nano and atto, packed
  Radix,     \* 256: a byte
  LongMax    \* unsigned long goes from 0 to LongMax

TaiaAssumption ==
  /\ Unit \in Nat /\ Unit % 2 = 0 /\ Unit > 0 /\ LongMax >= 2 * Unit
  /\ {SecDigits, LongDigits, Radix} \subseteq Nat \ {0}
  /\ Radix^LongDigits >= Unit

VARIABLES
  m,       \* what the variables hold
  done,    \* the last call: its result's variable, or its result
  want     \* history: what taia.h makes of that call

vars == <<m, done, want>>

Secs == Radix^SecDigits
Long(n) == n % (LongMax + 1)
Times == [sec : 0 .. Secs - 1, nano : 0 .. Unit - 1, atto : 0 .. Unit - 1]

(* The number that a time is: of attoseconds. *)
Value(t) == (t.sec * Unit + t.nano) * Unit + t.atto
Modulus == Secs * Unit * Unit

Init == m \in [Regs -> Times] /\ done = "none" /\ want = 0

-----------------------------------------------------------------------------
(* A call writes t field by field, and reads u and v as they are by then.  *)

Sec(mem, t, x) == [mem EXCEPT ![t].sec = x % Secs]
Nano(mem, t, x) == [mem EXCEPT ![t].nano = Long(x)]
Atto(mem, t, x) == [mem EXCEPT ![t].atto = Long(x)]

(* Mutant of Carry: atto of just a nano is left. *)
CarryLate(mem, t) == IF mem[t].atto > Unit
                     THEN Nano(Atto(mem, t, mem[t].atto - Unit), t, mem[t].nano + 1) ELSE mem
(* A whole nano of attos goes to the nanos. *)
Carry(mem, t) == IF mem[t].atto > Unit - 1
                 THEN Nano(Atto(mem, t, mem[t].atto - Unit), t, mem[t].nano + 1) ELSE mem

taia_add(mem, t, u, v) ==
  LET m1 == Sec(mem, t, mem[u].sec + mem[v].sec)
      m2 == Nano(m1, t, m1[u].nano + m1[v].nano)
      m3 == Carry(Atto(m2, t, m2[u].atto + m2[v].atto), t)
  IN  IF m3[t].nano > Unit - 1
      THEN Sec(Nano(m3, t, m3[t].nano - Unit), t, m3[t].sec + 1) ELSE m3

(* A number that has become larger has wrapped around. *)
taia_sub(mem, t, u, v) ==
  LET unano == mem[u].nano
      uatto == mem[u].atto
      m1 == Sec(mem, t, mem[u].sec - mem[v].sec)
      m2 == Nano(m1, t, unano - m1[v].nano)
      m3 == Atto(m2, t, uatto - m2[v].atto)
      m4 == IF m3[t].atto > uatto
            THEN Nano(Atto(m3, t, m3[t].atto + Unit), t, m3[t].nano - 1) ELSE m3
  IN  IF m4[t].nano > unano
      THEN Sec(Nano(m4, t, m4[t].nano + Unit), t, m4[t].sec - 1) ELSE m4

taia_half(mem, t, u) ==
  LET Half(odd) == IF odd % 2 = 1 THEN Unit \div 2 ELSE 0
      m1 == Atto(mem, t, mem[u].atto \div 2 + Half(mem[u].nano))
      m2 == Nano(m1, t, m1[u].nano \div 2 + Half(m1[u].sec))
  IN  Sec(m2, t, m2[u].sec \div 2)

taia_addsec(mem, t, u, secs) ==
  LET m1 == Sec(mem, t, mem[u].sec + secs)
      m2 == Nano(m1, t, m1[u].nano)
  IN  Atto(m2, t, m2[u].atto)

taia_uint(mem, t, secs) == [mem EXCEPT ![t] = [sec |-> secs % Secs, nano |-> 0, atto |-> 0]]

taia_less(mem, t, u) ==
  LET a == mem[t]
      b == mem[u]
  IN  IF a.sec # b.sec THEN a.sec < b.sec
      ELSE IF a.nano # b.nano THEN a.nano < b.nano ELSE a.atto < b.atto

(* tai_pack, taia_pack: the bytes of sec, nano and atto, the high ones     *)
(* first.                                                                  *)
Packed(n, digits) == [i \in 1 .. digits |-> (n \div Radix^(digits - i)) % Radix]
Unpacked(s) == FoldLeft(LAMBDA x, b : Radix * x + b, 0, s)
taia_pack(t) ==
  Packed(t.sec, SecDigits) \o Packed(t.nano, LongDigits) \o Packed(t.atto, LongDigits)
taia_unpack(s) ==
  [sec |-> Unpacked(SubSeq(s, 1, SecDigits)),
   nano |-> Unpacked(SubSeq(s, SecDigits + 1, SecDigits + LongDigits)),
   atto |-> Unpacked(SubSeq(s, SecDigits + LongDigits + 1, Len(s)))]

-----------------------------------------------------------------------------
Call(mem, t, value) == m' = mem /\ done' = t /\ want' = value % Modulus

Next ==
  \/ \E t, u, v \in Regs :
       \/ Call(taia_add(m, t, u, v), t, Value(m[u]) + Value(m[v]))
       \/ Call(taia_sub(m, t, u, v), t, Value(m[u]) - Value(m[v]))
  \/ \E t, u \in Regs :
       \/ Call(taia_half(m, t, u), t, Value(m[u]) \div 2)
       \/ \E s \in {-1, 1} : Call(taia_addsec(m, t, u, s), t, Value(m[u]) + s * Unit * Unit)
       \/ Call([m EXCEPT ![t] = taia_unpack(taia_pack(m[u]))], t, Value(m[u]))
  \/ \E t \in Regs, s \in 0 .. Secs : Call(taia_uint(m, t, s), t, s * Unit * Unit)

Spec == Init /\ [][Next]_vars

-----------------------------------------------------------------------------
(* Every result is the exact one modulo 2^64 seconds, in normal form - or  *)
(* a deadline would lie before its time, or never come - also when it is   *)
(* written over an argument (taia.h: "The inputs and output may overlap"); *)
(* and of two times the lesser one is less.                                *)
TimesExact ==
  /\ m \in [Regs -> Times]
  /\ done # "none" => Value(m[done]) = want
  /\ \A t, u \in Regs : taia_less(m, t, u) <=> Value(m[t]) < Value(m[u])
=============================================================================
