----------------------------- MODULE Addresses ------------------------------
(***************************************************************************)
(* Internet addresses in libowfat: fmt_ip4, fmt_ip6 and their kin print an *)
(* address, scan_ip6 and scan_ip6if read any of the ways to write one that *)
(* ip6.h lists, and go on to what follows it.                              *)
(*                                                                         *)
(* An address is eight words; two words are the four bytes of the address  *)
(* of version 4 that is written in their place.  Characters are numbers,   *)
(* and the end of a string is read as NUL.                                 *)
(***************************************************************************)
EXTENDS Integers, SequencesExt, FiniteSetsExt

CONSTANTS
  Ips,     \* addresses
  Names,   \* names of network interfaces; no interface is <<>>
  Tails    \* what follows an address

AddressesAssumption == \A ip \in Ips : Len(ip) = 8 /\ ToSet(ip) \subseteq 0 .. 65535

VARIABLES
  ip, scope,  \* what is written
  text,       \* in some way
  after,      \* and what stands behind it
  got         \* what scan_ip6if makes of that

vars == <<ip, scope, text, after, got>>

Colon == 58
Period == 46
Percent == 37
NotRead == [used |-> 0, ip |-> <<>>, scope |-> <<>>]

-----------------------------------------------------------------------------
Ch(s, i) == IF i <= Len(s) THEN s[i] ELSE 0
Drop(s, k) == SubSeq(s, k + 1, Len(s))

HexValue(c) == CASE c \in 48 .. 57 -> c - 48 [] c \in 65 .. 70 -> c - 55 [] c \in 97 .. 102 -> c - 87
                 [] OTHER -> 16
HexChar(d) == IF d >= 10 THEN d - 10 + 97 ELSE d + 48

(* The digits at the start of s.  Bound: twenty of them. *)
Digits(s, base) == Max({k \in 0 .. 20 : \A j \in 1 .. k : HexValue(Ch(s, j)) < base})
Number(s, k, base, limit) ==
  FoldLeft(LAMBDA n, c : (n * base + HexValue(c)) % limit, 0, SubSeq(s, 1, k))

Words(bytes) == <<256 * bytes[1] + bytes[2], 256 * bytes[3] + bytes[4]>>
Bytes(w1, w2) == <<w1 \div 256, w1 % 256, w2 \div 256, w2 % 256>>

(* scan_ip4: a number is cut to a byte. *)
RECURSIVE Quad(_, _, _)
Quad(s, used, bytes) ==
  LET k == Digits(s, 10)
      bs == Append(bytes, Number(s, k, 10, 256))
  IN  CASE k = 0 -> NotRead
        [] k > 0 /\ Len(bs) = 4 -> [used |-> used + k, ip |-> Words(bs)]
        [] OTHER -> IF Ch(s, k + 1) # Period THEN NotRead ELSE Quad(Drop(s, k + 1), used + k + 1, bs)
scan_ip4(s) == Quad(s, 0, <<>>)

V4mappedprefix == <<0, 0, 0, 0, 0, 65535>>
ip6_isv4mapped(a) == SubSeq(a, 1, 6) = V4mappedprefix

(* Mutant of Placed: what follows "::" is put behind what precedes it. *)
PlacedNext(pre, suf) == [i \in 1 .. 8 |-> Ch(pre \o suf, i)]
(* What precedes "::" stands at the start, what follows it at the end.     *)
Placed(pre, suf) ==
  [i \in 1 .. 8 |-> IF i > 8 - Len(suf) THEN suf[i - 8 + Len(suf)] ELSE Ch(pre, i)]

(* Part 2 of scan_ip6, behind "::": room is what prefixlen says, which is  *)
(* not the length of pre once a version 4 address could not be read.       *)
RECURSIVE Part2(_, _, _, _, _)
Part2(s, len, pre, room, suf) ==
  LET sep == Ch(s, 1) = Colon
      r == IF sep THEN Tail(s) ELSE s
      l == IF sep THEN len + 1 ELSE len
      k == Digits(r, 16)
      v4 == Len(suf) + room <= 6 /\ Ch(r, k + 1) = Period
      q == scan_ip4(r)
      more == Append(suf, Number(r, k, 16, 65536))
      rest == IF v4 THEN 6 - Len(suf) ELSE room
      end(n, words) == [used |-> n, ip |-> Placed(pre, words)]
  IN  CASE sep = (suf = <<>>) -> end(len, suf)
        [] sep # (suf = <<>>) /\ k = 0 -> end(IF suf # <<>> THEN l - 1 ELSE l, suf)
        [] OTHER ->
             IF v4 /\ q.used > 0 THEN end(l + q.used, suf \o q.ip)
             ELSE IF rest + Len(more) = 8 THEN end(l + k, more)
             ELSE Part2(Drop(r, k), l + k, pre, rest, more)

(* Part 1, a word at a time. *)
RECURSIVE Part1(_, _, _)
Part1(s, len, pre) ==
  LET sep == Ch(s, 1) = Colon
      r == IF sep THEN Tail(s) ELSE s
      l == IF sep THEN len + 1 ELSE len
      k == Digits(r, 16)
      q == scan_ip4(r)
      more == Append(pre, Number(r, k, 16, 65536))
  IN  CASE sep /\ Ch(s, 2) = Colon -> Part2(Drop(s, 2), len + 2, pre, Len(pre), <<>>)
        [] ~(sep /\ Ch(s, 2) = Colon) /\ k = 0 -> NotRead
        [] OTHER ->
             IF Len(pre) = 6 /\ Ch(r, k + 1) = Period
             THEN IF q.used = 0 THEN NotRead ELSE [used |-> q.used + l, ip |-> pre \o q.ip]
             ELSE IF Len(more) = 8 THEN [used |-> l + k, ip |-> more]
             ELSE Part1(Drop(r, k), l + k, more)

scan_ip6(s) ==
  IF scan_ip4(s).used > 0 THEN [scan_ip4(s) EXCEPT !.ip = V4mappedprefix \o @] ELSE Part1(s, 0, <<>>)

(* The name of an interface ends at what is no letter or digit. *)
Alnum == 48 .. 57 \cup 65 .. 90 \cup 97 .. 122
scan_ip6if(s) ==
  LET a == scan_ip6(s)
      name == Drop(s, a.used + 1)
      n == Max({k \in 0 .. Len(name) : \A j \in 1 .. k : name[j] \in Alnum})
  IN  IF Ch(s, a.used + 1) = Percent /\ n > 0
      THEN [used |-> a.used + 1 + n, ip |-> a.ip, scope |-> SubSeq(name, 1, n)]
      ELSE [used |-> a.used, ip |-> a.ip, scope |-> <<>>]

-----------------------------------------------------------------------------
Hex(w) ==
  LET all == [i \in 1 .. 4 |-> HexChar((w \div 16 ^ (4 - i)) % 16)]
  IN  SubSeq(all, Min({i \in 1 .. 4 : i = 4 \/ all[i] # 48}), 4)
Dec(b) == LET all == <<48 + (b \div 100), 48 + ((b \div 10) % 10), 48 + (b % 10)>>
          IN  SubSeq(all, Min({i \in 1 .. 3 : i = 3 \/ all[i] # 48}), 3)

fmt_ip4(w) == LET b == Bytes(w[1], w[2])
              IN  Dec(b[1]) \o <<Period>> \o Dec(b[2]) \o <<Period>> \o Dec(b[3]) \o <<Period>> \o Dec(b[4])

(* The first of the longest runs of zero words. *)
ZeroRuns(a) == {r \in (1 .. 8) \X (1 .. 8) : r[1] <= r[2] /\ \A i \in r[1] .. r[2] : a[i] = 0}
Longest(a) ==
  CHOOSE r \in ZeroRuns(a) :
    \A o \in ZeroRuns(a) : o[2] - o[1] < r[2] - r[1] \/ (o[2] - o[1] = r[2] - r[1] /\ o[1] >= r[1])

RECURSIVE FmtFrom(_, _)
FmtFrom(a, k) ==
  CASE k > 8 -> <<>>
    [] k = 7 /\ ip6_isv4mapped(a) -> fmt_ip4(SubSeq(a, 7, 8))
    [] OTHER ->
         IF ZeroRuns(a) # {} /\ Longest(a)[1] = k
         THEN (IF k = 1 THEN <<Colon, Colon>> ELSE <<Colon>>) \o FmtFrom(a, Longest(a)[2] + 1)
         ELSE Hex(a[k]) \o (IF k < 8 THEN <<Colon>> ELSE <<>>) \o FmtFrom(a, k + 1)
fmt_ip6(a) == FmtFrom(a, 1)
fmt_ip6c(a) == IF ip6_isv4mapped(a) THEN fmt_ip4(SubSeq(a, 7, 8)) ELSE fmt_ip6(a)

fmt_ip6if(a, name) == fmt_ip6(a) \o (IF name = <<>> THEN <<>> ELSE <<Percent>> \o name)
fmt_ip6ifc(a, name) ==
  IF ip6_isv4mapped(a) THEN fmt_ip4(SubSeq(a, 7, 8)) ELSE fmt_ip6if(a, name)

(* The sixteen bytes as 32 digits, and as the name of a DNS record: each   *)
(* digit a label of its own, the last one first.                           *)
Nibbles(a) == [i \in 1 .. 32 |-> (a[(i + 3) \div 4] \div 16 ^ (3 - ((i - 1) % 4))) % 16]
fmt_ip6_flat(a) == [i \in 1 .. 32 |-> HexChar(Nibbles(a)[i])]
scan_ip6_flat(s) ==
  IF \E i \in 1 .. 32 : HexValue(Ch(s, i)) > 15 THEN NotRead
  ELSE [used |-> 32, ip |-> [w \in 1 .. 8 |-> Number(Drop(s, 4 * (w - 1)), 4, 16, 65536)]]
dns_name6_domain(a) ==
  FlattenSeq([i \in 1 .. 32 |-> <<1, HexChar(Nibbles(a)[33 - i])>>])
    \o <<3, 105, 112, 54, 4, 97, 114, 112, 97, 0>>

-----------------------------------------------------------------------------
Init == ip = <<>> /\ scope = <<>> /\ text = <<>> /\ after = <<>> /\ got = NotRead

(* The ways of ip6.h and scan_ip6 to write one: words of one to four       *)
(* digits, large or small; some zero words as "::", and the last two as an *)
(* address of version 4.                                                   *)
Padded(h) == [i \in 1 .. 4 - Len(h) |-> 48] \o h
Upper(h) == [i \in DOMAIN h |-> IF h[i] > 96 THEN h[i] - 32 ELSE h[i]]
Joined(list) ==
  FlattenSeq([i \in DOMAIN list |-> IF i = 1 THEN list[i] ELSE <<Colon>> \o list[i]])

Word(w, style) == CASE style = "plain" -> Hex(w) [] style = "padded" -> Padded(Hex(w))
                    [] style = "upper" -> Upper(Hex(w))
Listed(a, from, v4, style) ==
  [i \in 1 .. (IF v4 THEN 7 ELSE 8) - from + 1 |->
     IF v4 /\ i + from - 1 = 7 THEN fmt_ip4(SubSeq(a, 7, 8)) ELSE Word(a[i + from - 1], style)]
Ways(a) ==
  {Joined(Listed(a, 1, v4, style)) : v4 \in BOOLEAN, style \in {"plain", "padded", "upper"}}
    \cup {Joined(SubSeq(Listed(a, 1, FALSE, "plain"), 1, r[1] - 1)) \o <<Colon, Colon>>
            \o Joined(Listed(a, r[2] + 1, v4 /\ r[2] < 7, "plain")) :
              r \in ZeroRuns(a), v4 \in BOOLEAN}

Write(a, name, rest) ==
  /\ ip = <<>> /\ ip' = a /\ after' = rest
  /\ \/ /\ scope' = name
        /\ text' \in {w \o (IF name = <<>> THEN <<>> ELSE <<Percent>> \o name) : w \in Ways(a)}
                       \cup {fmt_ip6if(a, name)}
     \/ /\ scope' = (IF ip6_isv4mapped(a) THEN <<>> ELSE name)
        /\ text' = fmt_ip6ifc(a, name)
  /\ UNCHANGED got

Read ==
  /\ ip # <<>> /\ got = NotRead /\ got' = scan_ip6if(text \o after)
  /\ UNCHANGED <<ip, scope, text, after>>

Next == Read \/ \E a \in Ips, name \in Names, rest \in Tails : Write(a, name, rest)

Spec == Init /\ [][Next]_vars

-----------------------------------------------------------------------------
(* An address is read, whole and as it was meant, in whatever way it was   *)
(* written, and what stands behind it is left.                             *)
AddressesRead ==
  /\ got # NotRead => got = [used |-> Len(text), ip |-> ip, scope |-> scope]
  /\ ip # <<>> => scan_ip6_flat(fmt_ip6_flat(ip) \o after) = [used |-> 32, ip |-> ip]

(* What is printed fits the space that FMT_IP6 and DNS_NAME6_DOMAIN        *)
(* promise: 40 and 75 bytes.                                               *)
PrintedFits ==
  ip # <<>> => Len(fmt_ip6(ip)) <= 40 /\ Len(fmt_ip6c(ip)) <= 40 /\ Len(dns_name6_domain(ip)) <= 75
=============================================================================
