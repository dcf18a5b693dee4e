------------------------------- MODULE MCData -------------------------------
(***************************************************************************)
(* One run for the formats and buffers, which share nothing: a behaviour   *)
(* is one of a program that uses one of them.                              *)
(***************************************************************************)
EXTENDS Integers, Sequences, Streams

VARIABLES
  part,
  buf, bufSize, finished, stack, tree, elems, twice, garbled,
  codec, text, encoded, at, ahead, phase,
  job, number, scanner, used, value, step,
  dots, dn, packet, places, answers, stage,
  m, done, due,
  file, entries, pos, records, c, cursor, result, seen, search, made,
  ip, scope, iptext, after, ipgot,
  moment, form, spelt, trailer, date

bson == <<buf, bufSize, finished, stack, tree, elems, twice, garbled>>
codes == <<codec, text, encoded, at, ahead, phase>>
numbers == <<job, number, scanner, used, value, step>>
arrays == <<x, sa, meant, said, dirty, got, kind, ops>>
buffer == <<dir, bytes, p, wire, rest, put, failed, source, taken, pc, want, dest, told, calls>>
names == <<dots, dn, packet, places, answers, stage>>
table == <<file, entries, pos, records, c, cursor, result, seen, search, made>>
time == <<m, done, due>>
addresses == <<ip, scope, iptext, after, ipgot>>
digest == <<count, block, hashed, message, closed>>
dates == <<moment, form, spelt, trailer, date>>
iobatch == <<by, batch, first, bytesleft, bufs, place, here, total,
             mapped, owed, mixed, added, lostTrack, leftMap>>

-----------------------------------------------------------------------------
V(t, v) == [type |-> t, val |-> v]
Empty == [bytes |-> <<5, 0, 0, 0, 0>>, tree |-> <<>>]        \* bson_empty
One == [bytes |-> <<9, 0, 0, 0, 8, 97, 0, 1, 0>>,
        tree |-> <<[type |-> 8, key |-> <<97>>, val |-> 1]>>]
MCValues ==
  {V(16, -2), V(16, 300), V(18, 0), V(1, 7), V(9, 1), V(8, 2), V(8, 0), V(10, 0), V(6, 0),
   V(2, <<>>), V(2, <<98, 99>>), V(14, <<98>>), V(13, <<98>>),
   V(15, [code |-> <<98>>, scope |-> One]), V(15, [code |-> <<>>, scope |-> Empty]),
   V(5, [sub |-> 2, bytes |-> <<0, 8, 0>>]), V(5, [sub |-> 0, bytes |-> <<>>]),
   V(7, [k \in 1 .. 24 |-> IF k % 2 = 0 THEN 70 ELSE 48 + (k % 10)]),
   V(11, [pattern |-> <<98>>, opts |-> <<>>]), V(11, [pattern |-> <<>>, opts |-> <<105>>]),
   V(3, Empty), V(3, One)}

B == INSTANCE Bson WITH InitialSize <- 8, Names <- {<<97>>, <<97, 98>>},
                        Values <- MCValues, MaxElems <- 2, MaxDepth <- 2, count <- elems

(* What some codec treats in a way of its own, and bytes that are not text. *)
Odd == {0, 4, 10, 13, 32, 38, 43, 46, 60, 61, 92, 214, 246, 255}
MCWords == UNION {[1 .. k -> Odd] : k \in 0 .. 2} \cup [1 .. 3 -> {4, 214, 246, 255}]
             \cup [1 .. 5 -> {0, 4, 246}]

T == INSTANCE TextCodes WITH
       Codecs <- {"base64", "cescape", "fold", "hexdump", "html", "ldapescape",
                  "quotedprintable", "urlencoded", "uuencoded", "yenc"},
       Words <- MCWords, YencLine <- 3, UuThirds <- 1, Junk <- {0, 255}, wire <- encoded, sa <- ahead

MCStrings == {<<>>, <<98>>, <<98, 99, 100>>}
MCJobs ==
  [f : {"ulong", "8long", "xlong"}, n : 0 .. 127]
    \cup [f : {"ulonglong", "8longlong", "xlonglong"}, n : {0, 7, 8, 9, 10, 15, 16, 64, 100, 127}]
    \cup [f : {"ulong0"}, n : {0, 9, 10, 31, 32, 127}, pad : 0 .. 4]
    \cup [f : {"long", "plusminus"}, n : -63 .. 63] \cup [f : {"longlong"}, n : {-63, -10, 0, 63}]
    \cup [f : {"long0"}, n : {-63, -10, -9, 0, 10}, pad : 0 .. 3]
    \cup [f : {"str", "strm"}, src : MCStrings]
    \cup [f : {"strn"}, src : MCStrings, max : 0 .. 4]
    \cup [f : {"pad", "fill"}, src : MCStrings, pad : 0 .. 4, max : 0 .. 5]
    \cup [f : {"human"}, n : 0 .. 410 \cup 7970 .. 8030 \cup {900 * k : k \in 1 .. 400}]

F == INSTANCE FmtScan WITH
       ShortBits <- 4, IntBits <- 5, LongBits <- 7, Kilo <- 20, Jobs <- MCJobs,
       Tails <- {<<>>, <<47>>, <<58, 49>>, <<56>>, <<48>>, <<103>>, <<64>>},
       text <- number, val <- value, phase <- step

(* The constants of Streams. *)
MCPieces == {<<>>, <<3>>, <<13, 10>>, <<4, 5, 13>>}
MCSources == {<<"c", "sep", "c", "c", "sep">>, <<"sep", "c", "c", "c">>}
MCFiles == {-1, -2}

Bytes(k) == [1 .. k -> {46, 48, 55, 65, 92, 97, 200}]
MCTexts == UNION {Bytes(k) : k \in 0 .. 4}
             \cup {<<92>> \o d \o <<97>> : d \in [1 .. 3 -> {48, 51, 55}]}
             \cup {[j \in 1 .. n |-> IF j % 8 = 0 THEN 46 ELSE 97] : n \in 6 .. 36}
             \cup {[j \in 1 .. 8 |-> 97], <<98, 46, 97>>}

N == INSTANCE DnsNames WITH
       Texts <- MCTexts, MaxLabel <- 7, MaxName <- 30, MaxHops <- 60,
       Question <- << <<97>> >>,
       Hosts <- {<<>>, << <<97>> >>, << <<99, 0>>, <<66>>, <<97>> >>},
       Strings <- {<<>>, << <<7, 98>>, <<200>> >>}, Ips <- {<<1, 20, 0, 255>>, <<1, 20>>},
       MaxAnswers <- 2,
       text <- dots, buf <- packet, meant <- answers, phase <- stage

C == INSTANCE Cdb WITH
       Keys <- {<<>>, <<97>>, <<98>>}, Datas <- {<<>>, <<0, 7>>},
       Classes <- 2, HashBits <- 8, MaxPos <- 31, HpList <- 2, MaxRecords <- 3,
       got <- result, phase <- made

S == INSTANCE Taia WITH
       Regs <- {"a", "b"}, Unit <- 4, SecDigits <- 2, LongDigits <- 2, Radix <- 2, LongMax <- 15,
       want <- due

ZeroAt == {{}, 1 .. 8, {1}, {8}, {7}, {3, 4}, {3}, 1 .. 3, 5 .. 8, 2 .. 7, 2 .. 8, {1, 2, 4, 5}, {2, 7, 8},
           {1, 3, 5, 7, 8}}
MCIps == {[k \in 1 .. 8 |-> IF k \in z THEN 0 ELSE 2748] : z \in ZeroAt} \cup {<<0, 0, 0, 0, 0, 65535, v, w>> : v \in {0, 2560}, w \in {0, 511}}
           \cup {<<0, 0, 0, 0, 0, 0, 2560, 511>>, <<43981, 0, 0, 1, 0, 0, 2560, 511>>}

P == INSTANCE Addresses WITH
       Ips <- MCIps, Names <- {<<>>, <<101, 48>>}, Tails <- {<<>>, <<93>>, <<58>>, <<46>>},
       text <- iptext, got <- ipgot

MCTimes == [year : {1970, 1999, 2000, 2069}, mon : 1 .. 12, mday : {1, 28},
            hour : {0, 23}, min : {8}, sec : {0, 60}]

H == INSTANCE HttpDate WITH
       Times <- MCTimes, Behind <- {<<>>, <<";">>},
       time <- moment, text <- spelt, after <- trailer

(* The constants of each module are as it assumes. *)
ASSUME DataAssumption ==
  /\ B!BsonAssumption
  /\ T!TextAssumption
  /\ F!FmtAssumption
  /\ N!NamesAssumption
  /\ C!CdbAssumption
  /\ S!TaiaAssumption
  /\ P!AddressesAssumption

-----------------------------------------------------------------------------
Init ==
  /\ part \in {"bson", "codes", "numbers", "arrays", "buffer", "batch", "names", "table", "time", "addresses", "digest", "dates"}
  /\ B!Init /\ T!Init /\ F!Init /\ A!Init /\ U!Init /\ I!Init /\ N!Init /\ C!Init /\ S!Init /\ P!Init /\ D!Init /\ H!Init
  /\ part # "arrays" => kind = "array"
  /\ part # "buffer" => dir = "in" /\ Len(source) = 4
  /\ part # "batch" => by = "send"
  /\ part # "time" => \A r \in DOMAIN m : S!Value(m[r]) = 0

Next ==
  \/ part = "bson" /\ B!Next
     /\ UNCHANGED <<part, codes, numbers, arrays, buffer, iobatch, names, table, time, addresses, digest, dates>>
  \/ part = "codes" /\ T!Next
     /\ UNCHANGED <<part, bson, numbers, arrays, buffer, iobatch, names, table, time, addresses, digest, dates>>
  \/ part = "numbers" /\ F!Next
     /\ UNCHANGED <<part, bson, codes, arrays, buffer, iobatch, names, table, time, addresses, digest, dates>>
  \/ part = "arrays" /\ A!Next
     /\ UNCHANGED <<part, bson, codes, numbers, buffer, iobatch, names, table, time, addresses, digest, dates>>
  \/ part = "buffer" /\ U!Next
     /\ UNCHANGED <<part, bson, codes, numbers, arrays, iobatch, names, table, time, addresses, digest, dates>>
  \/ part = "batch" /\ I!Next
     /\ UNCHANGED <<part, bson, codes, numbers, arrays, buffer, names, table, time, addresses, digest, dates>>
  \/ part = "names" /\ N!Next
     /\ UNCHANGED <<part, bson, codes, numbers, arrays, buffer, iobatch, table, time, addresses, digest, dates>>
  \/ part = "table" /\ C!Next
     /\ UNCHANGED <<part, bson, codes, numbers, arrays, buffer, iobatch, names, time, addresses, digest, dates>>
  \/ part = "time" /\ S!Next
     /\ UNCHANGED <<part, bson, codes, numbers, arrays, buffer, iobatch, names, table, addresses, digest, dates>>
  \/ part = "addresses" /\ P!Next
     /\ UNCHANGED <<part, bson, codes, numbers, arrays, buffer, iobatch, names, table, time, digest, dates>>
  \/ part = "digest" /\ D!Next
     /\ UNCHANGED <<part, bson, codes, numbers, arrays, buffer, iobatch, names, table, time, addresses, dates>>
  \/ part = "dates" /\ H!Next
     /\ UNCHANGED <<part, bson, codes, numbers, arrays, buffer, iobatch, names, table, time, addresses, digest>>

Spec == Init /\ [][Next]_<<part, bson, codes, numbers, arrays, buffer, iobatch, names, table, time, addresses, digest, dates>>

-----------------------------------------------------------------------------
(* What is written stays inside what was allocated, announced or promised: *)
(* the buffer of a document, the worst case of an encoding, the length a   *)
(* first call has returned, arrays and strings, the vectors of a writev.   *)
NothingOverruns ==
  /\ B!WithinBuffer /\ T!WorstCase /\ F!AsAnnounced /\ A!Inside /\ I!EnoughVectors
  /\ P!PrintedFits

(* The iterator reads from a finished document what was appended to it,    *)
(* and finds it by its name; so do the searches and walks through a        *)
(* constant database.                                                      *)
StoredIsFound == B!RoundTrip /\ B!FoundAndRead /\ C!TableFinds

(* Every codec reads back what it has encoded, and so are domain names and *)
(* the answers of a name server.                                           *)
TextRoundTrip == T!RoundTrip /\ N!NamesRoundTrip /\ N!PacketsRead /\ N!AddressNames
  /\ P!AddressesRead

(* A scanner reads a number to the digit that no longer fits its type, and *)
(* what was printed as what it was; the number for humans is close; times  *)
(* are reckoned exactly.                                                   *)
NumbersExact == F!ScanExact /\ F!HumanClose /\ S!TimesExact /\ H!DatesExact
=============================================================================
