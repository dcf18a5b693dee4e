----------------------------- MODULE TextCodes ------------------------------
(***************************************************************************)
(* textcode of libowfat: the encodings a text passes through on its way to *)
(* a line of a protocol, and back.  A text is put into an array by         *)
(* fmt_to_array and read back, a line at a time, by scan_to_sa; the codec  *)
(* they are given decides the rest.                                        *)
(*                                                                         *)
(* A byte is its number.  Behind the end of a text there is whatever the   *)
(* memory holds, behind the end of a string a NUL.                         *)
(***************************************************************************)
EXTENDS Integers, SequencesExt, FiniteSetsExt

CONSTANTS
  Codecs,   \* the codecs of this instance
  Words,    \* the texts
  YencLine, \* 253: a line of yenc is full when it is longer
  UuThirds, \* 15: groups of three bytes in a line of uuencode
  Junk      \* what memory may hold behind a text

AllCodecs == {"base64", "cescape", "fold", "hexdump", "html", "ldapescape",
              "quotedprintable", "urlencoded", "uuencoded", "yenc"}

TextAssumption == /\ Codecs \subseteq AllCodecs
                  /\ YencLine \in Nat /\ UuThirds \in 1 .. 20

VARIABLES
  codec,
  text,   \* src of fmt_to_array
  wire,   \* the array
  at,     \* the first byte not yet scanned
  sa,     \* the stralloc
  phase

vars == <<codec, text, wire, at, sa, phase>>

Init == /\ codec = "" /\ text = <<>> /\ wire = <<>> /\ at = 1 /\ sa = <<>>
        /\ phase = "begin"

-----------------------------------------------------------------------------
NL == 10
Space == 32
Amp == 38
Plus == 43
Dot == 46
Equals == 61
Backslash == 92
HighX == 120
HighY == 121
EscapeLetters == << <<7, 97>>, <<8, 98>>, <<27, 101>>, <<12, 102>>, <<10, 110>>,
                    <<13, 114>>, <<9, 116>>, <<11, 118>>, <<92, 92>> >>

(* "amp;" and the other names html knows, with what they stand for; fmt    *)
(* uses the first four, scan all.                                          *)
Entities == << [char |-> <<38>>, name |-> <<38, 97, 109, 112, 59>>],
               [char |-> <<60>>, name |-> <<38, 108, 116, 59>>],
               [char |-> <<62>>, name |-> <<38, 103, 116, 59>>],
               [char |-> <<10>>, name |-> <<60, 98, 114, 62>>],
               [char |-> <<10, 10>>, name |-> <<60, 112, 62>>] >>

ToHex(n) == IF n >= 10 THEN n - 10 + 97 ELSE n + 48
HexOf(b) == <<ToHex(b \div 16), ToHex(b % 16)>>

(* scan_fromhex: -1 for what is no digit. *)
FromHex(c) == CASE c \in 48 .. 57 -> c - 48
                [] c \in 65 .. 70 -> c - 55
                [] c \in 97 .. 102 -> c - 87
                [] OTHER -> -1

At(s, i) == IF i \in DOMAIN s THEN s[i] ELSE 0
Alnum(b) == b \in 48 .. 57 \/ b \in 65 .. 90 \/ b \in 97 .. 122

(* base64[], with the '=' at its end. *)
Base64(d) == CASE d < 26 -> d + 65
               [] d \in 26 .. 51 -> d + 71
               [] d \in 52 .. 61 -> d - 4
               [] d = 62 -> Plus
               [] d = 63 -> 47

FromBase64(c) == IF \E d \in 0 .. 63 : Base64(d) = c
                 THEN CHOOSE d \in 0 .. 63 : Base64(d) = c ELSE -1

-----------------------------------------------------------------------------
(* fmt_*: the encodings that go byte by byte.                              *)

CEscape(b) ==
  LET letters == SelectSeq(EscapeLetters, LAMBDA e : e[1] = b)
  IN  IF letters # <<>> THEN <<Backslash, letters[1][2]>>
      ELSE IF b < Space THEN <<Backslash, HighX>> \o HexOf(b) ELSE <<b>>

Html(b) ==
  LET known == SelectSeq(SubSeq(Entities, 1, 4), LAMBDA e : e.char = <<b>>)
  IN  IF known # <<>> THEN known[1].name ELSE <<b>>

(* ldapescape: * ( ) \ and what is below a space. *)
LdapEscape(b) ==
  IF b \in {40, 41, 42, Backslash} \/ b < Space
  THEN <<Backslash>> \o HexOf(b) ELSE <<b>>

(* QuotedSeven, mutant of QuotedPrintable: the eighth bit is let through,  *)
(* and so is '='.                                                          *)
QuotedSeven(b) == IF b < Space THEN <<Equals>> \o HexOf(b) ELSE <<b>>

QuotedPrintable(b) ==
  IF b >= 128 \/ b < Space \/ b = Equals THEN <<Equals>> \o HexOf(b) ELSE <<b>>

(* $ / . = ~ and letters and digits are safe. *)
UrlEncode(b) ==
  IF Alnum(b) \/ b \in {36, 47, Dot, Equals, 126} THEN <<b>>
  ELSE <<37>> \o HexOf(b)

FoldWhitespace(b) == IF b \in {Space, 9, NL} THEN <<95>> ELSE <<b>>

EncodeByte(c, b) ==
  CASE c = "cescape" -> CEscape(b)
    [] c = "fold" -> FoldWhitespace(b)
    [] c = "hexdump" -> HexOf(b)
    [] c = "html" -> Html(b)
    [] c = "ldapescape" -> LdapEscape(b)
    [] c = "quotedprintable" -> QuotedPrintable(b)
    [] c = "urlencoded" -> UrlEncode(b)

(* The digits of fmt_base64: at least one bit of the last byte waits in    *)
(* temp for the next, so the remainder is never lost.                      *)
Base64Digits(s) ==
  LET Take(acc, b) ==
        LET t == (acc.temp * 256 + b) % 65536
            n == acc.bits + 8
            k == (n - 1) \div 6
        IN  [temp |-> t, bits |-> n - 6 * k,
             out |-> acc.out \o [j \in 1 .. k |->
                                   Base64((t \div 2 ^ (n - 6 * j)) % 64)]]
      r == FoldLeft(Take, [temp |-> 0, bits |-> 0, out |-> <<>>], s)
  IN  IF r.bits = 0 THEN r.out
      ELSE Append(r.out, Base64((r.temp * 2 ^ (6 - r.bits)) % 64))

(* Mutant of EncodeBase64: four = where none is missing. *)
EncodeBase64Over(s) ==
  Base64Digits(s) \o [j \in 1 .. 4 - (Len(Base64Digits(s)) % 4) |-> Equals]
EncodeBase64(s) ==
  Base64Digits(s) \o [j \in 1 .. (3 * Len(Base64Digits(s))) % 4 |-> Equals]

(* fmt_uuencoded: lines of at most 45 bytes, the last group of three is    *)
(* filled with what follows the text.                                      *)
Uu(x) == ((x + 63) % 64) + 33

UuLine(s, junk) ==
  LET Byte(i) == IF i \in DOMAIN s THEN s[i] ELSE junk
      Group(g) == Byte(3 * g - 2) * 65536 + Byte(3 * g - 1) * 256 + Byte(3 * g)
      Digits(g) == [j \in 1 .. 4 |-> Uu((Group(g) \div 64 ^ (4 - j)) % 64)]
  IN  <<Uu(Len(s))>>
        \o FlattenSeq([g \in 1 .. (Len(s) + 2) \div 3 |-> Digits(g)]) \o <<NL>>

EncodeUu(s, junk) ==
  LET full == 3 * UuThirds
  IN  FlattenSeq([l \in 1 .. (Len(s) + full - 1) \div full |->
        UuLine(SubSeq(s, full * (l - 1) + 1, Min({full * l, Len(s)})), junk)])

(* fmt_yenc.  A dot is escaped except where a line starts; "From " never   *)
(* is, because no byte added to 42 makes the space behind it.              *)
YencByte(acc, b) ==
  LET c == (b + 42) % 256
      break == c = Space /\ acc.line = YencLine
      line == IF break THEN 0 ELSE acc.line
      escape == c \in {0, NL, 13, Equals} \/ (c = Dot /\ line # 0)
      full == line + 1 > YencLine
  IN  [line |-> IF full THEN 0 ELSE line + 1,
       out |-> acc.out \o (IF break THEN <<NL>> ELSE <<>>)
                 \o (IF escape THEN <<Equals, (c + 64) % 256>> ELSE <<c>>)
                 \o (IF full THEN <<NL>> ELSE <<>>)]

EncodeYenc(s) ==
  LET r == FoldLeft(YencByte, [line |-> 0, out |-> <<>>], s)
  IN  IF r.line # 0 THEN Append(r.out, NL) ELSE r.out

Encode(c, s, junk) ==
  CASE c = "base64" -> EncodeBase64(s)
    [] c = "uuencoded" -> EncodeUu(s, junk)
    [] c = "yenc" -> EncodeYenc(s)
    [] OTHER -> FlattenSeq([i \in DOMAIN s |-> EncodeByte(c, s[i])])

-----------------------------------------------------------------------------
(* scan_*: one step of a loop takes "used" bytes at i, or stops before     *)
(* them.                                                                   *)

Takes(n, out) == [used |-> n, out |-> out]
Stop == [used |-> 0, out |-> <<>>]

(* The escape, two hexadecimal digits behind it: ldapescape, urlencoded    *)
(* and quotedprintable.                                                    *)
HexEscape(s, i) ==
  LET a == FromHex(At(s, i + 1))
      b == FromHex(At(s, i + 2))
  IN  IF a < 0 \/ b < 0 THEN Stop ELSE Takes(3, <<a * 16 + b>>)

ScanCEscape(s, i) ==
  LET letters == SelectSeq(EscapeLetters, LAMBDA e : e[2] = At(s, i + 1))
      a == FromHex(At(s, i + 2))
      b == FromHex(At(s, i + 3))
  IN  IF s[i] # Backslash THEN Takes(1, <<s[i]>>)
      ELSE IF letters # <<>> THEN Takes(2, <<letters[1][1]>>)
      ELSE IF At(s, i + 1) # HighX THEN Takes(1, <<Backslash>>)
      ELSE IF a >= 0 /\ b >= 0 THEN Takes(4, <<a * 16 + b>>)
      ELSE Takes(2, <<Backslash>>)

ScanHexdump(s, i) ==
  LET a == FromHex(At(s, i))
      b == FromHex(At(s, i + 1))
  IN  IF a < 0 \/ b < 0 THEN Stop ELSE Takes(2, <<a * 16 + b>>)

(* case_starts does not mind the case; <p> makes two lines and takes one   *)
(* byte too many.  An & or < that begins none of these leaves a byte of    *)
(* dest as it was: taken for a NUL here.                                   *)
ScanHtml(s, i) ==
  LET Lower(b) == IF b \in 65 .. 90 THEN b + 32 ELSE b
      Starts(e) == \A j \in DOMAIN e.name : Lower(At(s, i + j - 1)) = e.name[j]
      known == SelectSeq(Entities, Starts)
  IN  IF s[i] \notin {Amp, 60} THEN Takes(1, <<s[i]>>)
      ELSE IF known = <<>> THEN Takes(1, <<0>>)
      ELSE Takes(IF Len(known[1].char) = 2 THEN 4 ELSE Len(known[1].name), known[1].char)

ScanYenc(s, i) ==
  IF s[i] \in {NL, 13} \/ (s[i] = Equals /\ At(s, i + 1) = HighY) THEN Stop
  ELSE IF s[i] = Equals THEN Takes(2, <<(At(s, i + 1) - 106) % 256>>)
  ELSE Takes(1, <<(s[i] - 42) % 256>>)

ScanUrl(s, i) ==
  IF s[i] = 37 THEN HexEscape(s, i) ELSE Takes(1, <<IF s[i] = Plus THEN Space ELSE s[i]>>)
ScanLdap(s, i) == IF s[i] = Backslash THEN HexEscape(s, i) ELSE Takes(1, <<s[i]>>)
ScanQuoted(s, i) == IF s[i] = Equals THEN HexEscape(s, i) ELSE Takes(1, <<s[i]>>)

ScanStep(c, s, i) ==
  CASE c = "cescape" -> ScanCEscape(s, i)
    [] c = "hexdump" -> ScanHexdump(s, i)
    [] c = "html" -> ScanHtml(s, i)
    [] c = "yenc" -> ScanYenc(s, i)
    [] c = "urlencoded" -> ScanUrl(s, i)
    [] c = "ldapescape" -> ScanLdap(s, i)
    [] c = "quotedprintable" -> ScanQuoted(s, i)

(* The whole loop, from the byte at i to a NUL or a stop.  The worst step  *)
(* takes four bytes.                                                       *)
ScanLoop(c, s, i0) ==
  LET scan[i \in i0 .. Len(s) + 4] ==
        LET step == ScanStep(c, s, i)
        IN  IF At(s, i) = 0 \/ step.used = 0 THEN [end |-> i, out |-> <<>>]
            ELSE [scan[i + step.used] EXCEPT !.out = step.out \o @]
  IN  scan[i0]

(* scan_base64: what is left in tmp behind the last whole byte is dropped, *)
(* and so is every '='.                                                    *)
ScanBase64(s, i0) ==
  LET stops == {i \in i0 .. Len(s) : FromBase64(s[i]) < 0}
      end == IF stops = {} THEN Len(s) + 1 ELSE Min(stops)
      past == CHOOSE i \in end .. Len(s) + 1 :
                At(s, i) # Equals /\ \A j \in end .. i - 1 : s[j] = Equals
      Take(acc, c) ==
        LET t == (acc.tmp * 64 + FromBase64(c)) % 65536
            n == acc.bits + 6
        IN  IF n < 8 THEN [acc EXCEPT !.tmp = t, !.bits = n]
            ELSE [tmp |-> t, bits |-> n - 8,
                  out |-> Append(acc.out, (t \div 2 ^ (n - 8)) % 256)]
  IN  [end |-> past,
       out |-> FoldLeft(Take, [tmp |-> 0, bits |-> 0, out |-> <<>>], SubSeq(s, i0, end - 1)).out]

(* scan_uuencoded: one line, up to its newline. *)
ScanUu(s, i0) ==
  LET D(i) == (At(s, i) - Space) % 64
      len == D(i0)
      groups == (len + 2) \div 3
      Group(g) == LET i == i0 + 1 + 4 * (g - 1)
                  IN  ((D(i) * 64 + D(i + 1)) * 64 + D(i + 2)) * 64 + D(i + 3)
      bytes == FlattenSeq([g \in 1 .. groups |->
                  <<Group(g) \div 65536, (Group(g) \div 256) % 256, Group(g) % 256>>])
  IN  IF At(s, i0) < Space \/ \E i \in i0 .. i0 + 4 * groups : At(s, i) > 96
      THEN [end |-> i0, out |-> <<>>]
      ELSE [end |-> i0 + 1 + 4 * groups, out |-> SubSeq(bytes, 1, len)]

Decode(c, s, i0) ==
  CASE c = "base64" -> ScanBase64(s, i0)
    [] c = "uuencoded" -> ScanUu(s, i0)
    [] OTHER -> ScanLoop(c, s, i0)

-----------------------------------------------------------------------------
Choose ==
  /\ phase = "begin" /\ phase' = "chosen"
  /\ codec' \in Codecs /\ text' \in Words
  /\ UNCHANGED <<wire, at, sa>>

(* fmt_to_array into an empty array. *)
Format ==
  /\ phase = "chosen" /\ phase' = "sent"
  /\ \E junk \in Junk : wire' = Encode(codec, text, junk)
  /\ UNCHANGED <<codec, text, at, sa>>

LineBased == {"uuencoded", "yenc"}

(* scan_to_sa of the next line; the newline is the reader's.               *)
Scan ==
  /\ phase = "sent" /\ codec # "fold"
  /\ LET r == Decode(codec, wire, at)
         next == IF codec \in LineBased /\ At(wire, r.end) = NL THEN r.end + 1 ELSE r.end
     IN  /\ sa' = sa \o r.out
         /\ at' = next
         /\ phase' = IF next = at \/ next > Len(wire) THEN "read" ELSE "sent"
  /\ UNCHANGED <<codec, text, wire>>

Next == Choose \/ Format \/ Scan
Spec == Init /\ [][Next]_vars

-----------------------------------------------------------------------------
(* Whatever was encoded is read back, to its last byte, and from all of    *)
(* the wire, whatever lay behind the text in memory.  html, which does not *)
(* escape a NUL, is read up to that.                                       *)
RoundTrip ==
  phase = "read" /\ (codec = "html" => 0 \notin {text[i] : i \in DOMAIN text}) =>
    sa = text /\ at = Len(wire) + 1

(* What textcode.h allows a caller to reserve for each byte. *)
Factor == [c \in AllCodecs |->
  CASE c \in {"hexdump", "yenc"} -> 2
    [] c \in {"quotedprintable", "urlencoded", "ldapescape"} -> 3
    [] c = "cescape" -> 4 [] c = "html" -> 5 [] OTHER -> 1]

(* No encoding outgrows the worst case its header promises (textcode.h):   *)
(* callers reserve that much.  (uuencoded and yenc do, by their newlines.) *)
WorstCase ==
  phase = "sent" /\ codec \notin LineBased =>
    Len(wire) <= IF codec = "base64" THEN ((Len(text) + 2) \div 3) * 4
                 ELSE Factor[codec] * Len(text)
=============================================================================
