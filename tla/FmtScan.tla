------------------------------ MODULE FmtScan -------------------------------
(***************************************************************************)
(* fmt and scan of libowfat: numbers and strings are written into memory   *)
(* that a first call, with no destination, has measured, and read back     *)
(* from a text that goes on behind them, into types of their own widths.   *)
(*                                                                         *)
(* The widths of the types are constants: short, int and long have to      *)
(* differ, for C adds shorts as ints.  Characters are numbers.             *)
(***************************************************************************)
EXTENDS Integers, SequencesExt, FiniteSetsExt

CONSTANTS
  ShortBits, IntBits, LongBits,
  Kilo,      \* 1000 of fmt_human, 1024 of fmt_humank
  Jobs,      \* what is written: see Text
  Tails      \* what follows it

FmtAssumption ==
  /\ ShortBits \in 3 .. IntBits /\ IntBits \in 3 .. LongBits /\ LongBits <= 16
  /\ Kilo % 20 = 0

VARIABLES job, text, scanner, used, val, phase
vars == <<job, text, scanner, used, val, phase>>

None == [base |-> 10, bits |-> LongBits, kind |-> "none"]

Init == /\ job = [f |-> "none"] /\ text = <<>> /\ scanner = None
        /\ used = 0 /\ val = 0 /\ phase = "begin"

-----------------------------------------------------------------------------
MinusSign == 45
PlusSign == 43
Unit == [k |-> 107, M |-> 77, G |-> 71, T |-> 84]
DigitChar(d) == IF d >= 10 THEN d - 10 + 97 ELSE d + 48
Abs(n) == IF n < 0 THEN -n ELSE n

(* The first loop of fmt_ulong, fmt_8long and fmt_xlong counts digits, the *)
(* second writes them from the last.  Bound: seven digits, more than a     *)
(* number of sixteen bits has.                                             *)
DigitCount(base, n) == Min({k \in 1 .. 7 : n \div base ^ (k - 1) < base})
Digits(base, n) ==
  [i \in 1 .. DigitCount(base, n) |-> DigitChar((n \div base ^ (DigitCount(base, n) - i)) % base)]

Zeros(n) == [i \in 1 .. n |-> 48]
Spaces(n) == [i \in 1 .. n |-> 32]
Missing(n, pad) == IF DigitCount(10, n) < pad THEN pad - DigitCount(10, n) ELSE 0

Minus(n) == IF n < 0 THEN <<MinusSign>> ELSE <<>>
PlusMinus(n) == IF n = 0 THEN <<>> ELSE <<IF n >= 0 THEN PlusSign ELSE MinusSign>>

fmt_ulong(n) == Digits(10, n)
fmt_ulonglong(n) == Digits(10, n)
fmt_8long(n) == Digits(8, n)
fmt_8longlong(n) == Digits(8, n)
fmt_xlong(n) == Digits(16, n)
fmt_xlonglong(n) == Digits(16, n)
fmt_ulong0(n, pad) == Zeros(Missing(n, pad)) \o fmt_ulong(n)
fmt_long(n) == Minus(n) \o fmt_ulong(Abs(n))
fmt_longlong(n) == Minus(n) \o fmt_ulonglong(Abs(n))
stralloc_catlong0(n, pad) == Minus(n) \o fmt_ulong0(Abs(n), pad)

(* Mutant of Tenths: cut off, not rounded. *)
TenthsCut(l, unit) == l \div (unit \div 10)
Tenths(l, unit) == (l + unit \div 20) \div (unit \div 10)

(* fmt_human.  What is exactly a million is still written in thousands.    *)
Shown(l) ==
  IF l > Kilo ^ 4 THEN [tenths |-> Tenths(l \div Kilo, Kilo ^ 3), unit |-> "T"]
  ELSE IF l > Kilo ^ 3 THEN [tenths |-> Tenths(l, Kilo ^ 3), unit |-> "G"]
  ELSE IF l > Kilo ^ 2 THEN [tenths |-> Tenths(l, Kilo ^ 2), unit |-> "M"]
  ELSE [tenths |-> Tenths(l, Kilo), unit |-> "k"]

Human(l) ==
  IF l < Kilo THEN Digits(10, l)
  ELSE Digits(10, Shown(l).tenths \div 10)
         \o <<46, DigitChar(Shown(l).tenths % 10), Unit[Shown(l).unit]>>

(* fmt_pad and fmt_fill stop when dest is past max, and so write a byte    *)
(* more than maxlen; fmt_strn looks for its limit after the byte it has    *)
(* copied.                                                                 *)
UpTo(s, n) == SubSeq(s, 1, Min({Len(s), n}))
Pad(src, padlen, maxlen) == UpTo(Spaces(padlen - Len(src)) \o src, maxlen + 1)
Fill(src, padlen, maxlen) ==
  src \o UpTo(Spaces(padlen - Len(src)), maxlen + 1 - Len(src))
Strn(src, limit) == UpTo(src, limit + 1)

fmt_str(src) == src
fmt_strm(srcs) == FlattenSeq(srcs)

(* What is written ... *)
Text(j) ==
  CASE j.f = "ulong" -> fmt_ulong(j.n)
    [] j.f = "ulonglong" -> fmt_ulonglong(j.n)
    [] j.f = "8long" -> fmt_8long(j.n)
    [] j.f = "8longlong" -> fmt_8longlong(j.n)
    [] j.f = "xlong" -> fmt_xlong(j.n)
    [] j.f = "xlonglong" -> fmt_xlonglong(j.n)
    [] j.f = "ulong0" -> fmt_ulong0(j.n, j.pad)
    [] j.f = "long" -> fmt_long(j.n)
    [] j.f = "longlong" -> fmt_longlong(j.n)
    [] j.f = "long0" -> stralloc_catlong0(j.n, j.pad)
    [] j.f = "plusminus" -> PlusMinus(j.n) \o fmt_ulong(Abs(j.n))
    [] j.f = "human" -> Human(j.n)
    [] j.f = "str" -> fmt_str(j.src)
    [] j.f = "strm" -> fmt_strm(<<j.src, j.src>>)
    [] j.f = "strn" -> Strn(j.src, j.max)
    [] j.f = "pad" -> Pad(j.src, j.pad, j.max)
    [] j.f = "fill" -> Fill(j.src, j.pad, j.max)

(* Mutant of HumanRoom: the dot and the unit, and the digit that the dot   *)
(* was put in front of is taken for lost.                                  *)
HumanRoomShort(l) == IF l < Kilo THEN DigitCount(10, l)
                     ELSE DigitCount(10, Shown(l).tenths \div 10) + 2
HumanRoom(l) == IF l < Kilo THEN DigitCount(10, l) ELSE DigitCount(10, Shown(l).tenths) + 2

(* ... and what the call without a destination announces. *)
Announced(j) ==
  CASE j.f \in {"ulong", "ulonglong"} -> DigitCount(10, j.n)
    [] j.f \in {"8long", "8longlong"} -> DigitCount(8, j.n)
    [] j.f \in {"xlong", "xlonglong"} -> DigitCount(16, j.n)
    [] j.f = "ulong0" -> Max({j.pad, DigitCount(10, j.n)})
    [] j.f \in {"long", "longlong"} -> Len(Minus(j.n)) + DigitCount(10, Abs(j.n))
    [] j.f = "long0" -> Len(Minus(j.n)) + Max({j.pad, DigitCount(10, Abs(j.n))})
    [] j.f = "plusminus" -> Len(PlusMinus(j.n)) + DigitCount(10, Abs(j.n))
    [] j.f = "human" -> HumanRoom(j.n)
    [] j.f = "str" -> Len(j.src)
    [] j.f = "strm" -> Len(j.src) + Len(j.src)
    [] j.f = "strn" -> Min({Len(j.src), j.max})
    [] j.f \in {"pad", "fill"} -> Min({Max({Len(j.src), j.pad}), j.max})

-----------------------------------------------------------------------------
(* The digit that a character is; an unsigned char, so that what is below  *)
(* '0' is a large number.                                                  *)
FromHex(c) == CASE c \in 48 .. 57 -> c - 48
                [] c \in 65 .. 70 -> c - 55
                [] c \in 97 .. 102 -> c - 87
                [] OTHER -> 255
DigitOf(base, c) == IF base = 16 THEN FromHex(c) ELSE (c - 48) % 256

At(s, i) == IF i \in DOMAIN s THEN s[i] ELSE 0

(* Arithmetic of unsigned types of w bits: those shorter than int are      *)
(* promoted to it, and their sums do not wrap.                             *)
Arith(w, x) == IF w < IntBits THEN x ELSE x % 2 ^ w

(* Mutant of Fits: the carry of the last digit is not looked for. *)
FitsTens(w, l, c) == LET n == (8 * l) % 2 ^ w
                     IN  n \div 8 = l /\ Arith(w, n + 2 * l) >= n

(* scan_ulong, scan_uint, scan_ushort and scan_ulonglong: the three tests  *)
(* for overflow around l * 10 + c.                                         *)
Fits(w, l, c) ==
  LET n == (8 * l) % 2 ^ w
      m == Arith(w, n + 2 * l)
  IN  n \div 8 = l /\ m >= n /\ Arith(w, (m % 2 ^ w) + c) >= m % 2 ^ w

(* The scanners: the digits, the width of the type, and whether overflow   *)
(* is looked for, cut off or, in a signed long, undefined.                 *)
Sc(base, bits, kind) == [base |-> base, bits |-> bits, kind |-> kind]
scan_ulong == Sc(10, LongBits, "checked")
scan_ulonglong == Sc(10, LongBits, "checked")
scan_uint == Sc(10, IntBits, "checked")
scan_ushort == Sc(10, ShortBits, "checked")
scan_8long == Sc(8, LongBits, "wraps")
scan_8int == Sc(8, IntBits, "wraps")
scan_8short == Sc(8, ShortBits, "wraps")
scan_xlong == Sc(16, LongBits, "wraps")
scan_xlonglong == Sc(16, LongBits, "wraps")
scan_xint == Sc(16, IntBits, "wraps")
scan_xshort == Sc(16, ShortBits, "wraps")
scan_long == Sc(10, LongBits, "signed")
scan_int == Sc(10, IntBits, "signed")
scan_short == Sc(10, ShortBits, "signed")
scan_longlong == Sc(10, LongBits, "longlong")

Scanners ==
  {scan_ulong, scan_ulonglong, scan_uint, scan_ushort, scan_8long, scan_8int,
   scan_8short, scan_xlong, scan_xlonglong, scan_xint, scan_xshort,
   scan_long, scan_int, scan_short, scan_longlong}

Read(s, sc, from) ==
  LET Take(acc, ch) ==
        LET c == DigitOf(sc.base, ch)
        IN  IF ~acc.on \/ c >= sc.base
                 \/ (sc.kind \in {"checked", "longlong"} /\ ~Fits(sc.bits, acc.l, c))
            THEN [acc EXCEPT !.on = FALSE]
            ELSE [acc EXCEPT !.l = IF sc.kind = "signed" THEN @ * sc.base + c
                                   ELSE (@ * sc.base + c) % 2 ^ sc.bits,
                             !.used = @ + 1]
  IN  FoldLeft(Take, [on |-> TRUE, l |-> 0, used |-> 0], SubSeq(s, from, Len(s)))

(* The value of a long as a signed type of w bits: scan_int, scan_short. *)
AsSigned(w, x) == LET r == x % 2 ^ w IN IF r >= 2 ^ (w - 1) THEN r - 2 ^ w ELSE r

Signs(s, sc) == IF sc.kind \in {"signed", "longlong"} /\ At(s, 1) \in {MinusSign, PlusSign} THEN 1 ELSE 0

-----------------------------------------------------------------------------
Choose ==
  /\ phase = "begin" /\ phase' = "chosen"
  /\ job' \in Jobs
  /\ UNCHANGED <<text, scanner, used, val>>

IsNumber(j) == j.f \notin {"human", "str", "strm", "strn", "pad", "fill"}

Format ==
  /\ phase = "chosen" /\ phase' = "written"
  /\ \E tail \in IF IsNumber(job) THEN Tails ELSE {<<>>} : text' = Text(job) \o tail
  /\ UNCHANGED <<job, scanner, used, val>>

(* A long that overflows is undefined, and not read here. *)
Scan ==
  /\ phase = "written" /\ IsNumber(job) /\ phase' = "read"
  /\ \E sc \in Scanners :
       LET sign == Signs(text, sc)
           r == Read(text, sc, sign + 1)
           x == IF sign = 1 /\ At(text, 1) = MinusSign THEN -r.l ELSE r.l
       IN  /\ sc.kind = "signed" => r.l < 2 ^ (LongBits - 1)
           /\ scanner' = sc
           /\ used' = IF sc.kind = "longlong" /\ r.used = 0 THEN 0 ELSE r.used + sign
           /\ val' = IF sc.kind \in {"signed", "longlong"} THEN AsSigned(sc.bits, x) ELSE x
  /\ UNCHANGED <<job, text>>

Next == Choose \/ Format \/ Scan
Spec == Init /\ [][Next]_vars

-----------------------------------------------------------------------------
(* The number that the first n digits behind the sign say. *)
Said(n) ==
  LET sign == Signs(text, scanner)
      digit(i) == DigitOf(scanner.base, text[sign + i])
  IN  FoldFunction(+, 0, [i \in 1 .. n |-> digit(i) * scanner.base ^ (n - i)])

(* A number is read up to the digit that no longer fits the type (the      *)
(* checked scanners; the others take all digits and keep the low bits), no *)
(* character before it is missed and none behind it taken; and so whatever *)
(* was printed and fits is read as what it was.  scan_ushort is no such    *)
(* scanner, though its comment says so (scan_ushort.c:3-6): C adds its     *)
(* shorts as ints, and of its three tests only the first can fail.         *)
ScanExact ==
  phase = "read" /\ scanner # scan_ushort =>
    LET sign == Signs(text, scanner)
        digits == {i \in 0 .. Len(text) - sign :
                     \A j \in 1 .. i : DigitOf(scanner.base, text[sign + j]) < scanner.base}
        taken == IF scanner.kind \notin {"checked", "longlong"} THEN digits
                 ELSE {i \in digits : Said(i) < 2 ^ scanner.bits}
        n == Max(taken)
        signed == IF sign = 1 /\ At(text, 1) = MinusSign THEN -Said(n) ELSE Said(n)
    IN  /\ used = IF n = 0 /\ scanner.kind = "longlong" THEN 0 ELSE n + sign
        /\ val = IF scanner.kind \in {"signed", "longlong"}
                 THEN AsSigned(scanner.bits, signed) ELSE signed % 2 ^ scanner.bits

(* What the first call announces is what the second one writes; fmt_pad,   *)
(* fmt_fill and fmt_strn write one byte more where they truncate.          *)
AsAnnounced ==
  phase = "written" =>
    LET wrote == Len(text) - (IF IsNumber(job) THEN Len(text) - Len(Text(job)) ELSE 0)
    IN  \/ wrote = Announced(job)
        \/ /\ job.f \in {"pad", "fill", "strn"}
           /\ wrote = job.max + 1 /\ Announced(job) = job.max
        \/ job.f = "fill" /\ Len(job.src) > job.max /\ wrote = Len(job.src)

(* fmt_human is off by a twentieth of its unit at most; in terabytes, by   *)
(* what it has dropped below a thousand too.                               *)
HumanClose ==
  phase = "written" /\ job.f = "human" /\ job.n >= Kilo =>
    LET s == Shown(job.n)
        power == CASE s.unit = "k" -> 1 [] s.unit = "M" -> 2 [] s.unit = "G" -> 3 [] s.unit = "T" -> 4
    IN  Abs(job.n - s.tenths * (Kilo ^ power \div 10)) <= (Kilo ^ power) \div 20 + (IF s.unit = "T" THEN Kilo ELSE 0)
=============================================================================
