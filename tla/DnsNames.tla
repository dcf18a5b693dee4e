------------------------------ MODULE DnsNames ------------------------------
(***************************************************************************)
(* Names and packets of the DNS half of libowfat: a name with dots is made *)
(* a domain name and printed again, and an answer that a server has put    *)
(* together, compressing names as it likes, is read - whole, or cut off at *)
(* any byte, as dns_transmit hands it on when the server says nothing of   *)
(* it.                                                                     *)
(*                                                                         *)
(* A byte is its number, a domain name a sequence of labels on the wire:   *)
(* each behind its length, an empty one at the end.                        *)
(***************************************************************************)
EXTENDS Integers, SequencesExt, FiniteSetsExt

CONSTANTS
  Texts,      \* names with dots
  MaxLabel,   \* 63: char label[63]
  MaxName,    \* 255: char name[255]
  MaxHops,    \* 1000: the bytes getname looks at
  Question,   \* the name that was asked for, as labels
  Hosts,      \* the names in answers, as labels
  Strings,    \* the strings of a TXT record
  Ips,        \* the addresses in answers
  MaxAnswers  \* bound: answers in a packet

NamesAssumption ==
  /\ MaxLabel \in 1 .. 63 /\ MaxName \in Nat \ {0} /\ MaxHops \in Nat /\ MaxAnswers \in Nat

VARIABLES
  text,     \* buf of dns_domain_fromdot
  dn,       \* what it has made of it
  buf,      \* the packet
  places,   \* the names in it: [at, name]
  meant,    \* history: the answers the server has put in
  phase

vars == <<text, dn, buf, places, meant, phase>>

Refused == <<-1>>        \* 0 or -1: EINVAL
Dot == 46
Backslash == 92
Wild == 63
Octals == 48 .. 55

-----------------------------------------------------------------------------
(* Names.                                                                  *)

Drop(s, k) == SubSeq(s, k + 1, Len(s))

(* Mutant of OctalDigits: at most two of them count. *)
OctalTwo(s) ==
  Max({k \in 0 .. 2 : k <= Len(s) /\ \A j \in 1 .. k : s[j] \in Octals})
(* How many octal digits a backslash stands before. *)
OctalDigits(s) ==
  Max({k \in 0 .. 3 : k <= Len(s) /\ \A j \in 1 .. k : s[j] \in Octals})
Octal(s) == FoldLeft(LAMBDA n, c : 8 * n + c - 48, 0, s) % 256

(* The labels of a text: a list of them, the last one still open. *)
RECURSIVE Labels(_, _)
Labels(s, ls) ==
  LET here(c) == Append(Front(ls), Append(Last(ls), c))
      k == OctalDigits(Tail(s))
  IN  CASE s = <<>> \/ s = <<Backslash>> -> ls
        [] s # <<>> /\ s[1] = Dot -> Labels(Tail(s), Append(ls, <<>>))
        [] Len(s) > 1 /\ s[1] = Backslash ->
             IF k = 0 THEN Labels(Drop(s, 2), here(s[2]))
             ELSE Labels(Drop(s, k + 1), here(Octal(SubSeq(s, 2, k + 1))))
        [] OTHER -> Labels(Tail(s), here(s[1]))

Wire(labels) == FlattenSeq([i \in DOMAIN labels |-> <<Len(labels[i])>> \o labels[i]]) \o <<0>>

(* dns_domain_fromdot: empty labels are left out. *)
FromDot(s) ==
  LET ls == SelectSeq(Labels(s, << <<>> >>), LAMBDA l : l # <<>>)
  IN  IF (\E i \in DOMAIN ls : Len(ls[i]) > MaxLabel) \/ Len(Wire(ls)) > MaxName
      THEN Refused ELSE Wire(ls)

(* dns_domain_length. *)
RECURSIVE DomainLength(_)
DomainLength(d) == IF d[1] = 0 THEN 1 ELSE 1 + d[1] + DomainLength(Drop(d, d[1] + 1))

Lower(c) == IF c \in 65 .. 90 THEN c + 32 ELSE c
LowerAll(s) == [i \in DOMAIN s |-> Lower(s[i])]

(* dns_domain_equal compares lengths and letters alike. *)
DomainEqual(d1, d2) ==
  LET n == DomainLength(d1)
  IN  n = DomainLength(d2) /\ LowerAll(SubSeq(d1, 1, n)) = LowerAll(SubSeq(d2, 1, n))

(* dns_domain_suffixpos; dns_domain_suffix says whether there is one.      *)
RECURSIVE SuffixFrom(_, _, _)
SuffixFrom(big, little, pos) ==
  IF DomainEqual(big, little) THEN pos
  ELSE IF big[1] = 0 THEN -1
  ELSE SuffixFrom(Drop(big, big[1] + 1), little, pos + big[1] + 1)
SuffixPos(big, little) == Max({0, SuffixFrom(big, little, 0)})
Suffix(big, little) == SuffixFrom(big, little, 0) # -1

(* dns_domain_todot_cat. *)
Printed(c) ==
  LET l == Lower(c)
  IN  IF l \in 97 .. 122 \cup 48 .. 57 \cup {45, 95} THEN <<l>>
      ELSE <<Backslash, 48 + (l \div 64), 48 + ((l \div 8) % 8), 48 + (l % 8)>>

RECURSIVE Dotted(_)
Dotted(d) ==
  FlattenSeq([j \in 1 .. d[1] |-> Printed(d[j + 1])])
    \o LET rest == Drop(d, d[1] + 1)
       IN  IF rest[1] = 0 THEN <<>> ELSE <<Dot>> \o Dotted(rest)
ToDot(d) == IF d[1] = 0 THEN <<Dot>> ELSE Dotted(d)

-----------------------------------------------------------------------------
(* Packets: positions count from 0, and 0 stands for an error.             *)

At(b, pos) == b[pos + 1]
Copy(b, pos, n) == IF pos + n <= Len(b) THEN pos + n ELSE 0   \* dns_packet_copy

(* dns_packet_skipname. *)
RECURSIVE SkipName(_, _)
SkipName(b, pos) ==
  IF pos >= Len(b) THEN 0
  ELSE LET ch == At(b, pos)
       IN  IF ch >= 192 THEN pos + 2
           ELSE IF ch >= 64 THEN 0
           ELSE IF ch = 0 THEN pos + 1 ELSE SkipName(b, pos + 1 + ch)

(* Mutant of FirstPointer: the last one counts. *)
LastPointer(first, pos) == pos
(* firstcompress: the name ends behind the first pointer. *)
FirstPointer(first, pos) == IF first = 0 THEN pos ELSE first

(* dns_packet_getname, a label or a pointer at a time: the name, and the   *)
(* position behind it.                                                     *)
RECURSIVE NameAt(_, _, _, _, _)
NameAt(b, pos, loop, first, name) ==
  LET no == [pos |-> 0, name |-> Refused]
  IN  IF pos >= Len(b) \/ loop + 1 >= MaxHops THEN no
      ELSE LET ch == At(b, pos)
           IN  IF ch >= 192
               THEN IF pos + 1 >= Len(b) THEN no
                    ELSE NameAt(b, (ch - 192) * 256 + At(b, pos + 1), loop + 1,
                                FirstPointer(first, pos + 2), name)
               ELSE IF ch >= 64 \/ Len(name) + 1 + ch > MaxName \/ pos + ch >= Len(b)
                       \/ loop + 1 + ch >= MaxHops THEN no
               ELSE IF ch = 0
               THEN [pos |-> IF first # 0 THEN first ELSE pos + 1, name |-> Append(name, 0)]
               ELSE NameAt(b, pos + 1 + ch, loop + 1 + ch, first,
                           name \o SubSeq(b, pos + 1, pos + 1 + ch))
GetName(b, pos) == NameAt(b, pos, 0, 0, <<>>)

Two(b, pos) == 256 * At(b, pos) + At(b, pos + 1)      \* uint16_unpack_big

(* The loop that the readers of answers share: the headers of n answers    *)
(* from pos on, up to one that does not fit.                               *)
Broken == [type |-> 0, class |-> 0, pos |-> 0, n |-> 0]
RECURSIVE Records(_, _, _)
Records(b, pos, n) ==
  IF n = 0 THEN <<>>
  ELSE LET p == SkipName(b, pos)
       IN  IF p = 0 \/ Copy(b, p, 10) = 0 THEN <<Broken>>
           ELSE LET r == [type |-> Two(b, p), class |-> Two(b, p + 2),
                          pos |-> p + 10, n |-> Two(b, p + 8)]
                IN  <<r>> \o Records(b, r.pos + r.n, n - 1)

Answers(b) ==
  IF Copy(b, 0, 12) = 0 \/ SkipName(b, 12) = 0 THEN <<Broken>>
  ELSE Records(b, SkipName(b, 12) + 4, Two(b, 6))

A == 1
PTR == 12
MX == 15
TXT == 16
OfType(rs, t) == SelectSeq(rs, LAMBDA r : r.type = t /\ r.class = 1)

(* dns_ip4_packet takes what has four bytes. *)
IpOf(b, r) == IF r.n # 4 THEN <<>>
              ELSE IF Copy(b, r.pos, 4) = 0 THEN Refused ELSE SubSeq(b, r.pos + 1, r.pos + 4)

(* dns_txt_packet: the characters of the strings one after the other.      *)
Shown(c) == IF c < 32 \/ c > 126 THEN Wild ELSE c
RECURSIVE StringsIn(_)
StringsIn(s) == IF s = <<>> THEN <<>>
                ELSE SubSeq(s, 2, Min({Len(s), s[1] + 1})) \o StringsIn(Drop(s, s[1] + 1))
TxtOf(b, r) == IF r.pos + r.n > Len(b) THEN Refused
               ELSE LET s == StringsIn(SubSeq(b, r.pos + 1, r.pos + r.n))
                    IN  [i \in DOMAIN s |-> Shown(s[i])]

(* dns_mx_packet: preference, name, NUL. *)
MxOf(b, r) ==
  LET name == GetName(b, r.pos + 2)
  IN  IF Copy(b, r.pos, 2) = 0 \/ name.pos = 0 THEN Refused
      ELSE SubSeq(b, r.pos + 1, r.pos + 2) \o ToDot(name.name) \o <<0>>

ReadAll(b, t, Of(_, _)) ==
  LET rs == Answers(b)
      parts == [i \in DOMAIN OfType(rs, t) |-> Of(b, OfType(rs, t)[i])]
  IN  IF Broken \in ToSet(rs) \/ Refused \in ToSet(parts) THEN Refused ELSE FlattenSeq(parts)

(* dns_name_packet is content with the first. *)
ReadName(b) ==
  LET rs == Answers(b)
      name == GetName(b, OfType(rs, PTR)[1].pos)
  IN  IF OfType(rs, PTR) = <<>> THEN IF Broken \in ToSet(rs) THEN Refused ELSE <<>>
      ELSE IF name.pos = 0 THEN Refused ELSE ToDot(name.name)

(* dns_name4_domain: 4.3.2.1.in-addr.arpa. *)
Decimal(n) == IF n < 10 THEN <<48 + n>>
              ELSE IF n < 100 THEN <<48 + (n \div 10), 48 + (n % 10)>>
              ELSE <<48 + (n \div 100), 48 + ((n \div 10) % 10), 48 + (n % 10)>>
InAddr == << <<105, 110, 45, 97, 100, 100, 114>>, <<97, 114, 112, 97>> >>
Name4Domain(ip) == Wire([i \in 1 .. 4 |-> Decimal(ip[5 - i])] \o InAddr)

(* dns_ip4, for a text of digits and dots: no question is asked.           *)
RECURSIVE Codes(_, _)
Codes(s, code) ==
  IF s = <<>> THEN <<code>>
  ELSE CASE s[1] \in {91, 93} -> Codes(Tail(s), code)
         [] s[1] = Dot -> <<code>> \o Codes(Tail(s), 0)
         [] OTHER -> Codes(Tail(s), (10 * code + s[1] - 48) % 256)
Literal(s) == LET c == Codes(s, 0) IN SubSeq(c, 1, Len(c) - (Len(c) % 4))

-----------------------------------------------------------------------------
Init == /\ text = <<>> /\ dn = <<>> /\ buf = <<>> /\ places = {} /\ meant = <<>>
        /\ phase = "begin"

FromDotStep ==
  /\ phase = "begin" /\ phase' = "named"
  /\ text' \in Texts /\ dn' = FromDot(text')
  /\ UNCHANGED <<buf, places, meant>>

(* A server writes a name as it is, or its first k labels and a pointer to *)
(* where the rest of it stands already.                                    *)
Written(ls) ==
  {[k |-> Len(ls), bytes |-> Wire(ls)]} \cup
  {[k |-> z[1], bytes |-> Front(Wire(SubSeq(ls, 1, z[1])))
                            \o <<192 + (z[2].at \div 256), z[2].at % 256>>] :
     z \in {y \in (0 .. Len(ls) - 1) \X places : y[2].name = SubSeq(ls, y[1] + 1, Len(ls))}}

PlacesOf(ls, k, pos) ==
  {[at |-> pos + Len(Wire(SubSeq(ls, 1, j))) - 1, name |-> SubSeq(ls, j + 1, Len(ls))] :
     j \in 0 .. k - 1}

Begin ==
  /\ phase = "begin" /\ phase' = "packet"
  /\ buf' = <<0, 0, 129, 128, 0, 1, 0, 0, 0, 0, 0, 0>> \o Wire(Question) \o <<0, 1, 0, 1>>
  /\ places' = PlacesOf(Question, Len(Question), 12)
  /\ UNCHANGED <<text, dn, meant>>

(* An answer of a type and class: what is in front of its name, if it has  *)
(* one, and what a reader is to make of it.                                *)
Put(owner, t, c, data, here, val) ==
  /\ phase = "packet" /\ Len(meant) < MaxAnswers
  /\ LET start == Len(buf) + Len(owner.bytes) + 10
     IN  /\ buf' = [buf EXCEPT ![8] = @ + 1] \o owner.bytes
                     \o <<0, t, 0, c, 0, 0, 0, 9, 0, Len(data)>> \o data
         /\ places' = places \cup PlacesOf(Question, owner.k, Len(buf))
                        \cup {[at |-> start + p.at, name |-> p.name] : p \in here}
  /\ meant' = Append(meant, [type |-> t, class |-> c, val |-> val])
  /\ UNCHANGED <<text, dn, phase>>

PutIp(owner, c, ip) == Put(owner, A, c, ip, {}, IF Len(ip) = 4 THEN ip ELSE <<>>)
PutTxt(owner, ss) ==
  Put(owner, TXT, 1, FlattenSeq([i \in DOMAIN ss |-> <<Len(ss[i])>> \o ss[i]]), {},
      [i \in DOMAIN FlattenSeq(ss) |-> Shown(FlattenSeq(ss)[i])])
PutName(owner, h) ==
  \E w \in Written(h) :
    \/ Put(owner, PTR, 1, w.bytes, PlacesOf(h, w.k, 0), ToDot(Wire(h)))
    \/ Put(owner, MX, 1, <<0, 5>> \o w.bytes, PlacesOf(h, w.k, 2),
           <<0, 5>> \o ToDot(Wire(h)) \o <<0>>)

(* The packet arrives, or its first n bytes do. *)
Receive(n) ==
  /\ phase = "packet"
  /\ phase' = IF n = Len(buf) THEN "whole" ELSE "cut"
  /\ buf' = SubSeq(buf, 1, n)
  /\ UNCHANGED <<text, dn, places, meant>>

Next ==
  \/ FromDotStep \/ Begin
  \/ \E owner \in Written(Question) :
       \/ \E ip \in Ips, c \in {1, 3} : PutIp(owner, c, ip)
       \/ \E ss \in Strings : PutTxt(owner, ss)
       \/ \E h \in Hosts : PutName(owner, h)
  \/ \E n \in 0 .. Len(buf) : Receive(n)

Spec == Init /\ [][Next]_vars

-----------------------------------------------------------------------------
(* A domain name that is printed and read again is the same, its letters   *)
(* small, whatever bytes are in it; it fits the space it is built in; and  *)
(* a name is the suffix of another when its labels end that.               *)
NamesRoundTrip ==
  phase = "named" /\ dn # Refused =>
    /\ Len(dn) <= MaxName /\ DomainLength(dn) = Len(dn)
    /\ LET again == FromDot(ToDot(dn)) IN again = LowerAll(dn) /\ DomainEqual(again, dn)
    /\ \A h \in Hosts : \A k \in 0 .. Len(h) :
         LET tail == Wire(SubSeq(h, k + 1, Len(h)))
         IN  /\ Suffix(Wire(h), tail) /\ SuffixPos(Wire(h), tail) = Len(Wire(h)) - Len(tail)
             /\ Suffix(Wire(h), dn) <=>
                  \E j \in 0 .. Len(h) : LowerAll(Wire(SubSeq(h, j + 1, Len(h)))) = LowerAll(dn)

(* What a server has put into a packet, its names compressed or not, is    *)
(* what the reader of that type finds, and a packet that was cut off gives *)
(* that or an error - a name, when it was whole in front of the cut.       *)
PacketsRead ==
  phase \in {"whole", "cut"} =>
    LET put(t) == LET ms == OfType(meant, t) IN FlattenSeq([i \in DOMAIN ms |-> ms[i].val])
        ptrs == OfType(meant, PTR)
        good(got, full) == got = full \/ (phase = "cut" /\ got = Refused)
    IN  /\ good(ReadAll(buf, A, IpOf), put(A))
        /\ good(ReadAll(buf, TXT, TxtOf), put(TXT))
        /\ good(ReadAll(buf, MX, MxOf), put(MX))
        /\ good(ReadName(buf), IF ptrs = <<>> THEN <<>> ELSE ptrs[1].val)
        /\ phase = "whole" => \A p \in places :
             LET got == GetName(buf, p.at)
             IN  got.name = Wire(p.name) /\ got.pos = SkipName(buf, p.at)

(* An address is found under its name backwards, and one that is written   *)
(* out is taken for itself.                                                *)
AddressNames ==
  phase = "begin" =>
    \A ip \in {i \in Ips : Len(i) = 4} :
      LET dots == FlattenSeq([i \in 1 .. 4 |-> <<Dot>> \o Decimal(ip[i])])
      IN  /\ Literal(Tail(dots)) = ip
          /\ FromDot(FlattenSeq([i \in 1 .. 4 |-> Decimal(ip[5 - i]) \o <<Dot>>])
                       \o InAddr[1] \o <<Dot>> \o InAddr[2]) = Name4Domain(ip)
=============================================================================
