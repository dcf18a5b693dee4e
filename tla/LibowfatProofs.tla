---------------------------- MODULE LibowfatProofs ----------------------------
(***************************************************************************)
(* Parts of libowfat.  What dns_transmit promises, for any servers,        *)
(* questions and messages: the answer it hands on is to its question.      *)
(* What array and stralloc promise (A), for strings, sizes, limits and a   *)
(* rounding of any value: no call leaves more in use than is allocated,    *)
(* and the contents are what the calls that succeeded say.  What a buffer  *)
(* promises (U), for any space, pieces, reads and writes: bytes in their   *)
(* order.  What a batch promises (I), for any entries and any sends: what  *)
(* goes out is what was added, in its order.  What md5 gathers (D), for    *)
(* any pieces: the blocks it hashes are the message.  And the four         *)
(* together (BytesAlwaysInOrder).                                          *)
(***************************************************************************)
EXTENDS Dns, Streams, SequenceTheorems, FiniteSetTheorems, WellFoundedInduction, TLAPS

USE DnsAssumption

Results == {"idle", "waiting", "answered", "failed"}
TcpKinds == {"ok", "cut", "fail", "damaged"}
UdpKinds == TcpKinds \cup {"large", "refused", "error"}

DnsTypes ==
  /\ result \in Results /\ tcpstate \in 0 .. 5
  /\ pos \in Nat /\ heard \in Int /\ s1 \in Nat

(* One message at a time, and over TCP only replies.                       *)
InboxOK ==
  inbox # <<>> =>
    /\ inbox = <<Head(inbox)>>
    /\ Head(inbox).kind \in IF tcpstate = 0 THEN UdpKinds ELSE TcpKinds

(* The server that is asked has an address, and has heard nothing before   *)
(* it is connected.                                                        *)
AsksServer ==
  result = "waiting" => curserver \in Servers /\ (tcpstate = 1 => heard = 0)

DnsInv == DnsTypes /\ InboxOK /\ AsksServer /\ HoldsWhatItSays /\ AnswerIsOurs

(* The first message behind an empty inbox.                                *)
LEMMA OneMessage ==
  ASSUME NEW m
  PROVE  /\ Append(<<>>, m) = <<m>> /\ Head(<<m>>) = m
         /\ Tail(<<m>>) = <<>> /\ <<m>> # <<>>
OBVIOUS

(* A socket, and so no descriptor, is open beside that of the query.       *)
LEMMA OneSocket ==
  ASSUME HoldsWhatItSays, DnsTypes
  PROVE  Closed(open, s1) = {}
BY DEF HoldsWhatItSays, DnsTypes, Closed

LEMMA NewFdNat == NewFd({}) \in 0 .. 1
<1>1. \E f \in 0 .. 1 : f \notin {} /\ \A g \in 0 .. f - 1 : g \in {}
  OBVIOUS
<1> QED
  BY <1>1 DEF NewFd

(* dns_transmit_free closes the socket and keeps nothing.                  *)
LEMMA FailedKeeps ==
  ASSUME DnsInv, Failed, tcpstate' \in 0 .. 5, pos' \in Nat, heard' \in Int
  PROVE  DnsInv'
<1>1. open' = {}
  BY OneSocket DEF DnsInv, Failed
<1>2. DnsTypes'
  BY DEF DnsTypes, Failed, Results
<1>3. InboxOK' /\ AsksServer' /\ AnswerIsOurs'
  BY DEF InboxOK, AsksServer, AnswerIsOurs, Failed
<1>4. HoldsWhatItSays'
  BY <1>1 DEF HoldsWhatItSays, Failed
<1> QED
  BY <1>2, <1>3, <1>4 DEF DnsInv

(* A new socket replaces the one there was, and the server has heard       *)
(* nothing yet.                                                            *)
LEMMA SocketKeeps ==
  ASSUME DnsInv, NEW c \in Servers, Socket(c), query' = asking', packet' = NoPacket,
         tcpstate' \in 0 .. 2, pos' \in Nat, tcpstate' = 2 => astray' \/ pos' = 0
  PROVE  DnsInv'
<1>1. open' = {NewFd({})} /\ s1' = NewFd({}) + 1
  BY OneSocket DEF DnsInv, Socket
<1>2. NewFd({}) \in 0 .. 1
  BY NewFdNat
<1>3. DnsTypes'
  BY <1>1, <1>2 DEF DnsTypes, Socket, Results
<1>4. InboxOK' /\ AsksServer' /\ AnswerIsOurs'
  BY DEF InboxOK, AsksServer, AnswerIsOurs, Socket
<1>5. HoldsWhatItSays'
  <2>1. result' = "waiting" /\ heard' = 0
    BY DEF Socket
  <2>2. open' = {s1' - 1} /\ s1' # 0
    BY <1>1, <1>2
  <2> QED
    BY <2>1, <2>2 DEF HoldsWhatItSays
<1> QED
  BY <1>3, <1>4, <1>5 DEF DnsInv

LEMMA ThisUdpKeeps ==
  ASSUME DnsInv, NEW q, NEW l, NEW c, ThisUdp(q, l, c), q = asking', pos' = pos
  PROVE  DnsInv'
<1>1. ASSUME NEW t \in Ahead(l, c), Socket(t[2]), query' = q, packet' = NoPacket,
             tcpstate' = 0
      PROVE  DnsInv'
  <2>1. PICK s \in Servers : Socket(s)
    BY <1>1 DEF Ahead
  <2>2. query' = asking' /\ packet' = NoPacket /\ tcpstate' \in 0 .. 2 /\ tcpstate' # 2
    BY <1>1
  <2>3. pos' \in Nat
    BY DEF DnsInv, DnsTypes
  <2> QED
    BY <2>1, <2>2, <2>3, SocketKeeps
<1>2. ASSUME Failed, UNCHANGED <<tcpstate, heard>>
      PROVE  DnsInv'
  BY <1>2, FailedKeeps DEF DnsInv, DnsTypes
<1> QED
  BY <1>1, <1>2 DEF ThisUdp

LEMMA ThisTcpKeeps ==
  ASSUME DnsInv, NEW q, NEW l, NEW c, ThisTcp(q, l, c), q = asking', pos' \in Nat
  PROVE  DnsInv'
<1>1. ASSUME NEW t \in Servers, Socket(t), query' = q, packet' = NoPacket,
             \/ tcpstate' = 1
             \/ tcpstate' = 2 /\ astray' = (astray \/ pos' # 0)
      PROVE  DnsInv'
  <2>1. tcpstate' \in 0 .. 2
    BY <1>1
  <2>2. CASE tcpstate' = 1
    BY <1>1, <2>1, <2>2, SocketKeeps
  <2>3. CASE astray' = (astray \/ pos' # 0)
    <3>1. astray' \/ pos' = 0
      BY <2>3, Zenon
    <3> QED
      BY <1>1, <2>1, <3>1, SocketKeeps
  <2> QED
    BY <1>1, <2>2, <2>3
<1>2. ASSUME Failed, UNCHANGED <<tcpstate, heard>>
      PROVE  DnsInv'
  BY <1>2, FailedKeeps DEF DnsInv, DnsTypes
<1> QED
  BY <1>1, <1>2 DEF ThisTcp

(* An answer is handed on when it belongs to the question at hand.         *)
LEMMA AnsweredKeeps ==
  ASSUME DnsInv, result = "waiting", NEW m, Answered(m), m.kind = "ok", ~Irrelevant(m),
         pos' \in Nat, UNCHANGED asking
  PROVE  DnsInv'
<1>1. open' = {}
  BY OneSocket DEF DnsInv, Answered
<1>2. m # NoPacket
  BY DEF NoPacket
<1>3. DnsTypes'
  BY DEF DnsInv, DnsTypes, Answered, Results
<1>4. InboxOK' /\ AsksServer'
  BY DEF InboxOK, AsksServer, Answered
<1>5. HoldsWhatItSays'
  BY <1>1, <1>2 DEF HoldsWhatItSays, Answered
<1>6. AnswerIsOurs'
  BY DEF DnsInv, HoldsWhatItSays, AsksServer, AnswerIsOurs, Answered, Irrelevant
<1> QED
  BY <1>3, <1>4, <1>5, <1>6 DEF DnsInv

LEMMA InitDnsInv == Init => DnsInv
BY DEF Init, DnsInv, DnsTypes, Results, InboxOK, AsksServer, HoldsWhatItSays, AnswerIsOurs

LEMMA StartKeeps ==
  ASSUME DnsInv, NEW q \in Questions, NEW recursive \in Recursive, Start(q, recursive)
  PROVE  DnsInv'
<1>1. asking' = q /\ pos' = pos /\ pos' \in Nat
  BY DEF Start, DnsInv, DnsTypes
<1>2. ASSUME NEW l, ThisTcp(q, l, 0) PROVE DnsInv'
  BY <1>1, <1>2, ThisTcpKeeps
<1>3. ASSUME NEW l, ThisUdp(q, l, 0) PROVE DnsInv'
  BY <1>1, <1>3, ThisUdpKeeps
<1>4. ASSUME Failed, UNCHANGED <<tcpstate, heard>> PROVE DnsInv'
  BY <1>1, <1>4, FailedKeeps DEF DnsInv, DnsTypes
<1> QED
  BY <1>2, <1>3, <1>4 DEF Start

(* A message changes the inbox only.                                       *)
LEMMA ArrivesKeeps ==
  ASSUME DnsInv, inbox = <<>>, NEW m, Arrives(m),
         m.kind \in IF tcpstate = 0 THEN UdpKinds ELSE TcpKinds
  PROVE  DnsInv'
<1>1. inbox' = <<m>>
  BY OneMessage DEF Arrives
<1>2. InboxOK'
  BY <1>1, OneMessage DEF InboxOK, Arrives, dvars
<1>3. UNCHANGED <<query, id, packet, s1, tcpstate, curserver, pos, result, open, heard,
                  asking, astray>>
  BY DEF Arrives, dvars, history
<1> QED
  BY <1>2, <1>3 DEF DnsInv, DnsTypes, AsksServer, HoldsWhatItSays, AnswerIsOurs

LEMMA WorldKeeps ==
  ASSUME DnsInv, TimePasses \/ AnswerUdp \/ RefuseUdp \/ AnswerTcp
  PROVE  DnsInv'
<1>1. CASE TimePasses
  BY <1>1 DEF TimePasses, history, DnsInv, DnsTypes, InboxOK, AsksServer, HoldsWhatItSays, AnswerIsOurs
<1>2. CASE AnswerUdp
  <2>1. PICK k \in DOMAIN asked, sort \in TcpKinds \cup {"large"} :
               Arrives(Reply(asked[k].q, asked[k].id, sort))
    BY <1>2 DEF AnswerUdp, TcpKinds
  <2>2. Reply(asked[k].q, asked[k].id, sort).kind \in UdpKinds
    BY DEF Reply, UdpKinds
  <2>3. inbox = <<>> /\ tcpstate = 0
    BY <1>2 DEF AnswerUdp
  <2> QED
    BY <2>1, <2>2, <2>3, ArrivesKeeps
<1>3. CASE RefuseUdp
  <2>1. PICK sort \in {"refused", "error"} : Arrives([kind |-> sort])
    BY <1>3 DEF RefuseUdp
  <2>2. [kind |-> sort].kind \in UdpKinds
    BY DEF UdpKinds
  <2>3. inbox = <<>> /\ tcpstate = 0
    BY <1>3 DEF RefuseUdp
  <2> QED
    BY <2>1, <2>2, <2>3, ArrivesKeeps
<1>4. CASE AnswerTcp
  <2>1. PICK sort \in TcpKinds : Arrives(Reply(query, id, sort))
    BY <1>4 DEF AnswerTcp, TcpKinds
  <2>2. Reply(query, id, sort).kind \in TcpKinds
    BY DEF Reply
  <2>3. inbox = <<>> /\ tcpstate # 0
    BY <1>4 DEF AnswerTcp, DnsInv, DnsTypes
  <2> QED
    BY <2>1, <2>2, <2>3, ArrivesKeeps
<1> QED
  BY <1>1, <1>2, <1>3, <1>4

LEMMA NextServer ==
  ASSUME DnsInv, result = "waiting", asking' = asking, pos' \in Nat, NextTcp \/ FirstTcp
  PROVE  DnsInv'
<1>1. query = asking'
  BY DEF DnsInv, HoldsWhatItSays
<1> QED
  BY <1>1, ThisTcpKeeps DEF NextTcp, FirstTcp

LEMMA GetUdpKeeps == ASSUME DnsInv, GetUdp PROVE DnsInv'
<1> DEFINE m == Head(inbox)
<1>1. /\ result = "waiting" /\ tcpstate = 0 /\ inbox # <<>>
      /\ pos' = pos /\ pos' \in Nat /\ asking' = asking
  BY DEF GetUdp, Waiting, history, DnsInv, DnsTypes
<1>2. query = asking'
  BY <1>1 DEF DnsInv, HoldsWhatItSays
<1>3. inbox = <<m>> /\ m.kind \in UdpKinds
  BY <1>1 DEF DnsInv, InboxOK
<1>4. ASSUME NextUdp PROVE DnsInv'
  BY <1>1, <1>2, <1>4, ThisUdpKeeps DEF NextUdp
<1>5. ASSUME FirstTcp PROVE DnsInv'
  BY <1>1, <1>5, NextServer
<1>6. ASSUME StillWaiting PROVE DnsInv'
  <2>1. inbox' = <<>>
    BY <1>3, <1>6, OneMessage DEF StillWaiting
  <2>2. UNCHANGED <<query, id, packet, s1, tcpstate, curserver, pos, result, open, heard,
                    asking, astray>>
    BY <1>1, <1>6 DEF StillWaiting
  <2> QED
    BY <2>1, <2>2 DEF DnsInv, DnsTypes, InboxOK, AsksServer, HoldsWhatItSays, AnswerIsOurs
<1>7. ASSUME NoMemory PROVE DnsInv'
  BY <1>1, <1>7, FailedKeeps DEF NoMemory, DnsInv, DnsTypes
<1>8. ASSUME Answered(m), ~Irrelevant(m), m.kind = "ok" PROVE DnsInv'
  BY <1>1, <1>8, AnsweredKeeps
<1>9. CASE m.kind \in {"refused", "error", "large"}
  BY <1>4, <1>6, <1>9 DEF GetUdp
<1>10. CASE m.kind \in TcpKinds
  <2>1. CASE Irrelevant(m)
    BY <1>6, <1>10, <2>1 DEF GetUdp, TcpKinds
  <2>2. CASE ~Irrelevant(m)
    <3>1. m.kind # "damaged"
      BY <2>2 DEF Irrelevant
    <3>2. CASE m.kind = "cut"
      BY <1>5, <2>2, <3>2 DEF GetUdp, ServerWantsTcp, ServerFailed
    <3>3. CASE m.kind = "fail"
      BY <1>4, <1>6, <2>2, <3>3 DEF GetUdp, ServerWantsTcp, ServerFailed
    <3>4. CASE m.kind = "ok"
      BY <1>7, <1>8, <2>2, <3>4 DEF GetUdp, ServerWantsTcp, ServerFailed
    <3> QED
      BY <1>10, <3>1, <3>2, <3>3, <3>4 DEF TcpKinds
  <2> QED
    BY <2>1, <2>2
<1> QED
  BY <1>3, <1>9, <1>10 DEF UdpKinds

(* The states of a TCP connection.                                         *)
LEMMA GetConnectedKeeps == ASSUME DnsInv, GetConnected PROVE DnsInv'
<1>1. /\ result = "waiting" /\ tcpstate = 1 /\ tcpstate' = 2 /\ pos' = 0
      /\ UNCHANGED <<query, id, packet, s1, curserver, result, open, inbox, heard, asking, astray>>
  BY DEF GetConnected, Waiting, PosConnected, Stays, history
<1>2. heard = 0
  BY <1>1 DEF DnsInv, AsksServer
<1>3. DnsTypes' /\ InboxOK' /\ AsksServer' /\ AnswerIsOurs'
  BY <1>1 DEF DnsInv, DnsTypes, InboxOK, AsksServer, AnswerIsOurs
<1>4. HoldsWhatItSays'
  BY <1>1, <1>2 DEF DnsInv, HoldsWhatItSays
<1> QED
  BY <1>3, <1>4 DEF DnsInv

LEMMA GetWriteKeeps == ASSUME DnsInv, GetWrite PROVE DnsInv'
<1>1. /\ result = "waiting" /\ tcpstate = 2 /\ pos # QueryLen
      /\ UNCHANGED <<query, id, packet, s1, curserver, result, open, inbox, asking, astray>>
  BY DEF GetWrite, Waiting, Stays, history
<1>2. PICK r \in 1 .. QueryLen :
        /\ pos < QueryLen => pos + r <= QueryLen
        /\ pos' = IF pos > QueryLen THEN pos ELSE pos + r
        /\ heard' = IF heard = pos THEN heard + r ELSE -1
        /\ IF pos' = QueryLen THEN tcpstate' = 3 ELSE tcpstate' = tcpstate
  BY DEF GetWrite
<1>3. DnsTypes'
  BY <1>1, <1>2 DEF DnsInv, DnsTypes
<1>4. InboxOK' /\ AsksServer' /\ AnswerIsOurs'
  BY <1>1, <1>2 DEF DnsInv, InboxOK, AsksServer, AnswerIsOurs
<1>5. ASSUME ~astray
      PROVE  /\ tcpstate' = 2 => heard' = pos' /\ pos' < QueryLen
             /\ tcpstate' > 2 => heard' = QueryLen
             /\ tcpstate' \in {2, 3}
  BY <1>1, <1>2, <1>5 DEF DnsInv, DnsTypes, HoldsWhatItSays
<1>6. HoldsWhatItSays'
  <2>1. packet = NoPacket /\ tcpstate' \in {2, 3}
    BY <1>1, <1>2 DEF DnsInv, HoldsWhatItSays
  <2> QED
    BY <1>1, <1>5, <2>1 DEF DnsInv, HoldsWhatItSays
<1> QED
  BY <1>3, <1>4, <1>6 DEF DnsInv

LEMMA GetLengthKeeps == ASSUME DnsInv, GetLength PROVE DnsInv'
<1>1. CASE Waiting(3) /\ tcpstate' = 4 /\ UNCHANGED <<packet, pos, inbox, heard>> /\ Stays
  BY <1>1 DEF Waiting, Stays, history, DnsInv, DnsTypes, InboxOK, AsksServer, HoldsWhatItSays,
              AnswerIsOurs
<1>2. CASE /\ Waiting(4) /\ tcpstate' = 5 /\ pos' = 0 /\ packet' = [kind |-> "part"]
           /\ UNCHANGED <<inbox, heard>> /\ Stays
  <2>1. packet' # NoPacket
    BY <1>2 DEF NoPacket
  <2> QED
    BY <1>2, <2>1 DEF Waiting, Stays, history, DnsInv, DnsTypes, InboxOK, AsksServer,
                      HoldsWhatItSays, AnswerIsOurs
<1>3. CASE pos' = 0 /\ NoMemory
  BY <1>3, FailedKeeps DEF NoMemory, DnsInv, DnsTypes
<1> QED
  BY <1>1, <1>2, <1>3 DEF GetLength

LEMMA GetBodyKeeps == ASSUME DnsInv, GetBody PROVE DnsInv'
<1> DEFINE m == Head(inbox)
<1>1. result = "waiting" /\ tcpstate = 5 /\ inbox # <<>> /\ m.kind \in TcpKinds
  BY DEF GetBody, Waiting, DnsInv, InboxOK
<1>2. PICK r \in 1 .. BodyLen - pos : pos' = pos + r
  BY DEF GetBody
<1>3. pos' \in Nat
  BY <1>2 DEF DnsInv, DnsTypes
<1>4. CASE pos' < BodyLen
  <2>1. UNCHANGED <<query, id, packet, s1, tcpstate, curserver, result, open, inbox, heard,
                    asking, astray>>
    BY <1>4 DEF GetBody, Stays, history
  <2> QED
    BY <1>1, <1>3, <1>4, <2>1
    DEF DnsInv, DnsTypes, InboxOK, AsksServer, HoldsWhatItSays, AnswerIsOurs
<1>5. CASE ~(pos' < BodyLen)
  <2>1. asking' = asking
    BY <1>5 DEF GetBody, history
  <2>2. CASE NextTcp
    BY <1>1, <1>3, <2>1, <2>2, NextServer
  <2>3. CASE ~NextTcp
    <3>1. Answered(m) /\ ~Irrelevant(m) /\ m.kind = "ok"
      BY <1>1, <1>5, <2>3 DEF GetBody, Irrelevant, ServerWantsTcp, ServerFailed, TcpKinds
    <3> QED
      BY <1>1, <1>3, <2>1, <3>1, AnsweredKeeps
  <2> QED
    BY <2>2, <2>3
<1> QED
  BY <1>4, <1>5

(* Every step keeps the invariant.                                         *)
LEMMA NextDnsInv == DnsInv /\ [Next]_vars => DnsInv'
<1> SUFFICES ASSUME DnsInv, [Next]_vars PROVE DnsInv'
  OBVIOUS
<1>1. ASSUME NEW q \in Questions, NEW recursive \in Recursive, Start(q, recursive) PROVE DnsInv'
  BY <1>1, StartKeeps
<1>2. CASE TimePasses \/ AnswerUdp \/ RefuseUdp \/ AnswerTcp
  BY <1>2, WorldKeeps
<1>3. CASE GetTimeout
  <2>1. result = "waiting" /\ asking' = asking /\ pos' = pos /\ pos' \in Nat
    BY <1>3 DEF GetTimeout, history, DnsInv, DnsTypes
  <2>2. query = asking'
    BY <2>1 DEF DnsInv, HoldsWhatItSays
  <2>3. CASE NextUdp
    BY <2>1, <2>2, <2>3, ThisUdpKeeps DEF NextUdp
  <2>4. CASE NextTcp
    BY <2>1, <2>4, NextServer
  <2> QED
    BY <1>3, <2>3, <2>4 DEF GetTimeout
<1>4. CASE GetUdp
  BY <1>4, GetUdpKeeps
<1>5. CASE GetConnected \/ GetWrite \/ GetLength \/ GetBody
  BY <1>5, GetConnectedKeeps, GetWriteKeeps, GetLengthKeeps, GetBodyKeeps
<1>6. CASE GetBroken
  <2>1. result = "waiting" /\ asking' = asking /\ pos' \in Nat /\ NextTcp
    BY <1>6 DEF GetBroken, history, DnsInv, DnsTypes
  <2> QED
    BY <2>1, NextServer
<1>7. CASE UNCHANGED vars
  BY <1>7 DEF vars, dvars, history, DnsInv, DnsTypes, InboxOK, AsksServer, HoldsWhatItSays,
              AnswerIsOurs
<1> QED
  BY <1>1, <1>2, <1>3, <1>4, <1>5, <1>6, <1>7 DEF Next

LEMMA DnsInvAlways == Spec => []DnsInv
BY InitDnsInv, NextDnsInv, PTL DEF Spec

(* dns_transmit_get hands on only an answer to the question that is asked, *)
(* by the server asked last and to the query sent to it last: what         *)
(* irrelevant() compares, and that queries do not share sockets, suffices. *)
THEOREM DnsAnswerIsOurs == Spec => []AnswerIsOurs
<1>1. DnsInv => AnswerIsOurs
  BY DEF DnsInv
<1> QED
  BY <1>1, DnsInvAlways, PTL

(* A query holds one socket while it waits and none afterwards, its memory *)
(* follows its state, and what was sent over TCP is the query from its     *)
(* first byte, unless a connection was there at once.                      *)
THEOREM DnsHoldsWhatItSays == Spec => []HoldsWhatItSays
<1>1. DnsInv => HoldsWhatItSays
  BY DEF DnsInv
<1> QED
  BY <1>1, DnsInvAlways, PTL

-----------------------------------------------------------------------------
(* array and stralloc.                                                     *)
HIDE DnsAssumption

Regions == [allocated : Nat \cup {-1}, initialized : Nat, mem : Seq(Int)]
Texts == [len : Nat, a : Nat, mem : Seq(Int)]

RegionOK(r) ==
  /\ r \in Regions
  /\ A!Failed(r) => r = A!ArrayFail
  /\ ~A!Failed(r) => r.initialized <= r.allocated /\ Len(r.mem) = r.allocated

(* The array holds what the calls say, and behind what was ever in use are *)
(* zeros, so that an object that comes into use without a realloc is zero. *)
ArrayHolds ==
  /\ RegionOK(x) /\ meant \in Seq(Int) /\ x.initialized = Len(meant)
  /\ \A i \in 1 .. Len(meant) : meant[i] # A!Stale => x.mem[i] = meant[i]
  /\ dirty \in Nat /\ x.initialized <= dirty
  /\ \A i \in dirty + 1 .. x.allocated : x.mem[i] = 0

ObjectInside == got # <<>> => got \in Int \X Int /\ got[1] + got[2] <= x.initialized

TextOK(s, w) ==
  /\ s \in Texts /\ s.len <= s.a /\ Len(s.mem) = s.a
  /\ w \in Seq(Int) /\ s.len = Len(w)
  /\ \A i \in 1 .. Len(w) : s.mem[i] = w[i]

IInv == ArrayHolds /\ ObjectInside /\ TextOK(sa, said)

-----------------------------------------------------------------------------
(* Bytes put into a memory, a memory that grows, and the rounding.         *)

LEMMA FillIs ==
  ASSUME NEW v \in Int, NEW n \in Nat
  PROVE  /\ A!Fill(v, n) \in Seq(Int) /\ Len(A!Fill(v, n)) = n
         /\ \A i \in 1 .. n : A!Fill(v, n)[i] = v
<1>1. A!Fill(v, n) \in [1 .. n -> Int]
  BY DEF A!Fill
<1> QED
  BY <1>1 DEF A!Fill

LEMMA PutIs ==
  ASSUME NEW mem \in Seq(Int), NEW at \in Nat, NEW s \in Seq(Int)
  PROVE  /\ A!Put(mem, at, s) \in Seq(Int) /\ Len(A!Put(mem, at, s)) = Len(mem)
         /\ \A i \in 1 .. Len(mem) :
              A!Put(mem, at, s)[i] = IF at < i /\ i <= at + Len(s) THEN s[i - at] ELSE mem[i]
<1>1. /\ Len(mem) \in Nat /\ DOMAIN mem = 1 .. Len(mem)
      /\ Len(s) \in Nat /\ DOMAIN s = 1 .. Len(s)
      /\ \A i \in 1 .. Len(mem) : mem[i] \in Int
      /\ \A i \in 1 .. Len(s) : s[i] \in Int
  BY LenProperties, ElementOfSeq
<1>2. \A i \in 1 .. Len(mem) : i - at \in DOMAIN s <=> at < i /\ i <= at + Len(s)
  BY <1>1
<1>3. A!Put(mem, at, s) \in [1 .. Len(mem) -> Int]
  BY <1>1 DEF A!Put
<1>4. \A i \in 1 .. Len(mem) :
        A!Put(mem, at, s)[i] = IF at < i /\ i <= at + Len(s) THEN s[i - at] ELSE mem[i]
  BY <1>1, <1>2 DEF A!Put
<1> QED
  BY <1>1, <1>3, <1>4

LEMMA ReallocIs ==
  ASSUME NEW mem \in Seq(Int), NEW n \in Nat, Len(mem) <= n
  PROVE  /\ A!Realloc(mem, n) \in Seq(Int) /\ Len(A!Realloc(mem, n)) = n
         /\ \A i \in 1 .. Len(mem) : A!Realloc(mem, n)[i] = mem[i]
<1> DEFINE all == mem \o A!Fill(A!Garbage, n)
<1>1. A!Fill(A!Garbage, n) \in Seq(Int) /\ Len(A!Fill(A!Garbage, n)) = n
  BY FillIs DEF A!Garbage
<1>2. /\ all \in Seq(Int) /\ Len(all) = Len(mem) + n /\ Len(mem) \in Nat
      /\ \A i \in 1 .. Len(mem) : all[i] = mem[i]
  <2> DEFINE new == A!Fill(A!Garbage, n)
  <2>1. new \in Seq(Int) /\ Len(new) = n /\ Len(mem) \in Nat
    BY <1>1, LenProperties
  <2> HIDE DEF new
  <2>2. /\ mem \o new \in Seq(Int) /\ Len(mem \o new) = Len(mem) + Len(new)
        /\ \A i \in 1 .. Len(mem) + Len(new) :
             (mem \o new)[i] = IF i <= Len(mem) THEN mem[i] ELSE new[i - Len(mem)]
    BY <2>1, ConcatProperties
  <2>3. mem \o new \in Seq(Int) /\ Len(mem \o new) = Len(mem) + n
    BY <2>1, <2>2
  <2>4. \A i \in 1 .. Len(mem) : (mem \o new)[i] = mem[i]
    BY <2>1, <2>2
  <2> QED
    BY <2>1, <2>3, <2>4 DEF new
<1>3. \A i \in 1 .. n : all[i] \in Int
  BY <1>2, ElementOfSeq
<1>4. /\ SubSeq(all, 1, n) \in Seq(Int) /\ Len(SubSeq(all, 1, n)) = n
      /\ \A i \in 1 .. n : SubSeq(all, 1, n)[i] = all[i]
  <2> HIDE DEF all
  <2>1. /\ SubSeq(all, 1, n) \in Seq(Int)
        /\ Len(SubSeq(all, 1, n)) = IF 1 <= n THEN n - 1 + 1 ELSE 0
        /\ \A i \in 1 .. n - 1 + 1 : SubSeq(all, 1, n)[i] = all[1 + i - 1]
    BY <1>3, SubSeqProperties
  <2> QED
    BY <2>1
<1> QED
  BY <1>2, <1>4 DEF A!Realloc

LEMMA ZeroedIs ==
  ASSUME NEW mem \in Seq(Int), NEW from \in Nat
  PROVE  /\ A!Zeroed(mem, from) \in Seq(Int) /\ Len(A!Zeroed(mem, from)) = Len(mem)
         /\ \A i \in 1 .. Len(mem) : A!Zeroed(mem, from)[i] = IF i > from THEN 0 ELSE mem[i]
<1>1. /\ Len(mem) \in Nat /\ DOMAIN mem = 1 .. Len(mem)
      /\ \A i \in 1 .. Len(mem) : mem[i] \in Int
  BY LenProperties, ElementOfSeq
<1>2. A!Zeroed(mem, from) \in [1 .. Len(mem) -> Int]
  BY <1>1 DEF A!Zeroed
<1> QED
  BY <1>1, <1>2 DEF A!Zeroed

(* Rounding up never makes a size smaller: what it would wrap is seen by   *)
(* the comparison with the rounding itself.                                *)
LEMMA RoundsUp ==
  ASSUME A!ArraysAssumption, NEW n \in Nat, n < Cap, ~(A!RoundedUp(n) % Cap < Round)
  PROVE  A!RoundedUp(n) % Cap \in Nat /\ n <= A!RoundedUp(n) % Cap
<1> DEFINE q == (n + Round - 1) \div Round
<1>1. Round \in Nat \ {0} /\ Cap \in Nat /\ Cap # 0 /\ Cap % Round = 0
  BY DEF A!ArraysAssumption
<1>2. /\ q \in Nat /\ q * Round <= n + Round - 1
      /\ n + Round - 1 < q * Round + Round
  BY <1>1
<1>3. PICK k \in Nat : Cap = k * Round
  BY <1>1
<1> HIDE DEF q
<1>4. q <= k
  BY <1>1, <1>2, <1>3
<1>5. q * Round <= Cap /\ n <= q * Round
  BY <1>1, <1>2, <1>3, <1>4
<1>6. A!RoundedUp(n) = q * Round
  BY DEF A!RoundedUp, q
<1>7. q * Round \in Nat
  BY <1>1, <1>2
<1>8. CASE q * Round = Cap
  <2>1. A!RoundedUp(n) % Cap = 0
    BY <1>1, <1>6, <1>8
  <2> QED
    BY <2>1, <1>1
<1>9. CASE q * Round < Cap
  <2>1. A!RoundedUp(n) % Cap = q * Round
    BY <1>1, <1>6, <1>7, <1>9
  <2> QED
    BY <2>1, <1>5, <1>7
<1> QED
  BY <1>1, <1>5, <1>7, <1>8, <1>9

-----------------------------------------------------------------------------
(* array_allocate.                                                         *)

(* With b for r what was in use is still there; where realloc was called   *)
(* everything behind is zero, and where it was not the memory is as it was. *)
Extends(r, b) ==
  /\ RegionOK(b) /\ ~A!Failed(r) /\ ~A!Failed(b)
  /\ r.initialized <= b.initialized
  /\ \A i \in 1 .. r.initialized : b.mem[i] = r.mem[i]
  /\ A!Moved(r, b) => \A i \in r.initialized + 1 .. b.allocated : b.mem[i] = 0
  /\ ~A!Moved(r, b) => b.mem = r.mem /\ b.allocated = r.allocated

LEMMA AllocatedIs ==
  ASSUME A!ArraysAssumption, NEW r, RegionOK(r),
         NEW size \in Nat \ {0}, NEW begin \in Nat, NEW b \in A!Allocated(r, size, begin)
  PROVE  /\ Extends(r, b)
         /\ size * begin + size <= b.initialized
         /\ r.initialized < size * begin + size => b.initialized = size * begin + size
<1> DEFINE wanted == size * (begin + 1)
           room == A!RoundedUp(wanted) % Cap
<1>1. /\ ~A!Failed(r) /\ ~(wanted >= Cap)
      /\ r.initialized \in Nat /\ r.mem \in Seq(Int) /\ r.allocated \in Nat
      /\ r.initialized <= r.allocated /\ Len(r.mem) = r.allocated
  BY DEF A!Allocated, RegionOK, Regions, A!Failed
<1>2. wanted \in Nat /\ wanted = size * begin + size /\ Cap \in Nat /\ Round \in Nat \ {0}
  BY DEF A!ArraysAssumption
<1>3. CASE wanted <= r.initialized
  <2>1. b = r
    BY <1>1, <1>3 DEF A!Allocated
  <2> QED
    BY <1>1, <1>2, <1>3, <2>1 DEF A!Moved, Extends
<1>4. CASE ~(wanted <= r.initialized) /\ wanted < r.allocated
  <2>1. b = [r EXCEPT !.initialized = wanted]
    BY <1>1, <1>4 DEF A!Allocated
  <2>2. /\ b \in Regions /\ b.initialized = wanted
        /\ b.mem = r.mem /\ b.allocated = r.allocated
    BY <1>1, <1>2, <2>1 DEF RegionOK, Regions
  <2>3. ~A!Moved(r, b)
    BY <1>1, <1>2, <1>4, <2>2 DEF A!Moved
  <2> QED
    BY <1>1, <1>2, <1>4, <2>2, <2>3 DEF RegionOK, A!Failed, Extends
<1>5. CASE ~(wanted <= r.initialized) /\ ~(wanted < r.allocated)
  <2> DEFINE mem == A!Zeroed(A!Realloc(r.mem, room), r.initialized)
  <2>1. /\ ~(room < Round)
        /\ b = [allocated |-> room, initialized |-> wanted, mem |-> mem]
    BY <1>1, <1>5 DEF A!Allocated
  <2>2. room \in Nat /\ wanted <= room
    BY <1>1, <1>2, <2>1, RoundsUp
  <2> HIDE DEF wanted, room
  <2>3. /\ A!Realloc(r.mem, room) \in Seq(Int) /\ Len(A!Realloc(r.mem, room)) = room
        /\ \A i \in 1 .. r.allocated : A!Realloc(r.mem, room)[i] = r.mem[i]
    <3>1. r.mem \in Seq(Int) /\ room \in Nat /\ Len(r.mem) <= room
      BY <1>1, <1>2, <1>5, <2>2
    <3>2. /\ A!Realloc(r.mem, room) \in Seq(Int) /\ Len(A!Realloc(r.mem, room)) = room
          /\ \A i \in 1 .. Len(r.mem) : A!Realloc(r.mem, room)[i] = r.mem[i]
      BY <3>1, ReallocIs
    <3> QED
      BY <1>1, <3>2
  <2>4. /\ mem \in Seq(Int) /\ Len(mem) = room
        /\ \A i \in 1 .. room :
             mem[i] = IF i > r.initialized THEN 0 ELSE A!Realloc(r.mem, room)[i]
    BY <1>1, <2>3, ZeroedIs
  <2> HIDE DEF mem
  <2>5. /\ b \in Regions /\ b.initialized = wanted /\ b.allocated = room /\ b.mem = mem
    BY <1>2, <2>1, <2>2, <2>4 DEF Regions
  <2>6. RegionOK(b) /\ ~A!Failed(b) /\ A!Moved(r, b)
    <3>1. ~A!Failed(b)
      BY <2>2, <2>5 DEF A!Failed
    <3>2. RegionOK(b)
      BY <1>2, <2>2, <2>4, <2>5, <3>1 DEF RegionOK
    <3>3. wanted > r.initialized /\ wanted >= r.allocated
      BY <1>1, <1>2, <1>5
    <3> QED
      BY <2>5, <3>1, <3>2, <3>3 DEF A!Moved
  <2>7. \A i \in 1 .. r.initialized : b.mem[i] = r.mem[i]
    <3> SUFFICES ASSUME NEW i \in 1 .. r.initialized PROVE b.mem[i] = r.mem[i]
      OBVIOUS
    <3>1. i \in 1 .. r.allocated /\ ~(i > r.initialized)
      BY <1>1
    <3>2. r.allocated <= room
      BY <1>1, <1>2, <1>5, <2>2
    <3>3. i \in 1 .. room
      BY <1>1, <2>2, <3>1, <3>2
    <3> QED
      BY <2>3, <2>4, <2>5, <3>1, <3>3
  <2>8. \A i \in r.initialized + 1 .. b.allocated : b.mem[i] = 0
    BY <1>1, <2>4, <2>5
  <2> QED
    BY <1>1, <1>2, <1>5, <2>5, <2>6, <2>7, <2>8 DEF Extends
<1> QED
  BY <1>3, <1>4, <1>5

(* The bytes that join are what they are said to be. *)
LEMMA JoinedIs ==
  ASSUME ArrayHolds, NEW b, Extends(x, b)
  PROVE  /\ A!Joined(x, b) \in Seq(Int) /\ Len(A!Joined(x, b)) = b.initialized
         /\ \A i \in 1 .. x.initialized : A!Joined(x, b)[i] = meant[i]
         /\ \A i \in 1 .. b.initialized :
              A!Joined(x, b)[i] # A!Stale => b.mem[i] = A!Joined(x, b)[i]
<1>1. /\ x.initialized \in Nat /\ b.initialized \in Nat /\ dirty \in Nat
      /\ x.initialized <= b.initialized /\ x.initialized = Len(meant)
      /\ b.allocated \in Nat /\ b.initialized <= b.allocated
      /\ \A i \in 1 .. x.initialized : meant[i] \in Int
  BY ElementOfSeq DEF ArrayHolds, Extends, RegionOK, Regions, A!Failed
<1>2. A!Joined(x, b) \in [1 .. b.initialized -> Int]
  BY <1>1 DEF A!Joined, A!Stale
<1>3. A!Joined(x, b) \in Seq(Int) /\ Len(A!Joined(x, b)) = b.initialized
  BY <1>1, <1>2
<1>4. \A i \in 1 .. x.initialized : A!Joined(x, b)[i] = meant[i]
  BY <1>1 DEF A!Joined
<1>5. ASSUME NEW i \in 1 .. b.initialized, A!Joined(x, b)[i] # A!Stale
      PROVE  b.mem[i] = A!Joined(x, b)[i]
  <2>1. CASE i <= x.initialized
    <3>1. i \in 1 .. x.initialized /\ A!Joined(x, b)[i] = meant[i]
      BY <1>1, <1>4, <2>1
    <3> QED
      BY <1>1, <1>5, <3>1 DEF ArrayHolds, Extends
  <2>2. CASE ~(i <= x.initialized) /\ A!Moved(x, b)
    <3>1. i \in x.initialized + 1 .. b.allocated
      BY <1>1, <2>2
    <3> QED
      BY <2>2, <3>1 DEF A!Joined, Extends
  <2>3. CASE ~(i <= x.initialized) /\ ~A!Moved(x, b)
    <3>1. ~(i <= dirty) /\ A!Joined(x, b)[i] = 0
      BY <1>5, <2>3 DEF A!Joined
    <3>2. i \in dirty + 1 .. x.allocated
      BY <1>1, <2>3, <3>1 DEF Extends
    <3> QED
      BY <2>3, <3>1, <3>2 DEF ArrayHolds, Extends
  <2> QED
    BY <2>1, <2>2, <2>3
<1> QED
  BY <1>3, <1>4, <1>5

(* What is stored into an array that was made long enough. *)
LEMMA StoredHolds ==
  ASSUME ArrayHolds, NEW b, Extends(x, b),
         NEW at \in Nat, NEW s \in Seq(Int), at + Len(s) <= b.initialized,
         x' = [b EXCEPT !.mem = A!Put(@, at, s)],
         meant' = A!Put(A!Joined(x, b), at, s),
         dirty' = IF ~A!Moved(x, b) /\ dirty > b.initialized THEN dirty ELSE b.initialized
  PROVE  ArrayHolds'
<1> DEFINE j == A!Joined(x, b)
           Here(i) == at < i /\ i <= at + Len(s)
<1>1. /\ b.initialized \in Nat /\ b.allocated \in Nat /\ dirty \in Nat
      /\ b.initialized <= b.allocated /\ b.mem \in Seq(Int) /\ Len(b.mem) = b.allocated
      /\ b \in Regions /\ Len(s) \in Nat /\ x.initialized <= b.initialized
      /\ x.initialized \in Nat /\ x.initialized <= dirty
  BY LenProperties DEF ArrayHolds, Extends, RegionOK, Regions, A!Failed
<1>2. /\ j \in Seq(Int) /\ Len(j) = b.initialized
      /\ \A i \in 1 .. b.initialized : j[i] # A!Stale => b.mem[i] = j[i]
  BY JoinedIs
<1> HIDE DEF j
<1>3. /\ A!Put(b.mem, at, s) \in Seq(Int) /\ Len(A!Put(b.mem, at, s)) = b.allocated
      /\ \A i \in 1 .. b.allocated :
           A!Put(b.mem, at, s)[i] = IF Here(i) THEN s[i - at] ELSE b.mem[i]
  <2> DEFINE mem == b.mem
  <2>1. mem \in Seq(Int) /\ Len(mem) = b.allocated
    BY <1>1
  <2> HIDE DEF mem
  <2>2. /\ A!Put(mem, at, s) \in Seq(Int) /\ Len(A!Put(mem, at, s)) = Len(mem)
        /\ \A i \in 1 .. Len(mem) :
             A!Put(mem, at, s)[i] = IF Here(i) THEN s[i - at] ELSE mem[i]
    BY <2>1, PutIs
  <2> QED
    BY <2>1, <2>2 DEF mem
<1>4. /\ A!Put(j, at, s) \in Seq(Int) /\ Len(A!Put(j, at, s)) = b.initialized
      /\ \A i \in 1 .. b.initialized :
           A!Put(j, at, s)[i] = IF Here(i) THEN s[i - at] ELSE j[i]
  <2>1. /\ A!Put(j, at, s) \in Seq(Int) /\ Len(A!Put(j, at, s)) = Len(j)
        /\ \A i \in 1 .. Len(j) :
             A!Put(j, at, s)[i] = IF Here(i) THEN s[i - at] ELSE j[i]
    BY <1>2, PutIs
  <2> QED
    BY <1>2, <2>1
<1>5. /\ x' \in Regions /\ x'.allocated = b.allocated /\ x'.initialized = b.initialized
      /\ x'.mem = A!Put(b.mem, at, s) /\ meant' = A!Put(j, at, s)
  BY <1>1, <1>3 DEF Regions, j
<1>6. RegionOK(x')
  BY <1>1, <1>3, <1>5 DEF RegionOK, A!Failed
<1>7. /\ dirty' \in Nat /\ b.initialized <= dirty' /\ (~A!Moved(x, b) => dirty <= dirty')
      /\ x.initialized <= dirty'
  BY <1>1
<1>8. ASSUME NEW i \in 1 .. Len(meant'), meant'[i] # A!Stale PROVE x'.mem[i] = meant'[i]
  <2>1. i \in 1 .. b.initialized /\ i \in 1 .. b.allocated
    <3>1. Len(meant') = b.initialized
      BY <1>4, <1>5
    <3>2. i \in 1 .. b.initialized
      BY <3>1
    <3>3. b.initialized \in Nat /\ b.allocated \in Nat /\ b.initialized <= b.allocated
      BY <1>1
    <3> QED
      BY <3>2, <3>3
  <2>2. CASE Here(i)
    BY <1>3, <1>4, <1>5, <2>1, <2>2
  <2>3. CASE ~Here(i)
    <3>1. meant'[i] = j[i] /\ x'.mem[i] = b.mem[i]
      BY <1>3, <1>4, <1>5, <2>1, <2>3
    <3> QED
      BY <1>2, <1>8, <2>1, <3>1
  <2> QED
    BY <2>2, <2>3
<1>9. ASSUME NEW i \in dirty' + 1 .. x'.allocated PROVE x'.mem[i] = 0
  <2>1. i \in 1 .. b.allocated /\ ~Here(i) /\ i > x.initialized
    BY <1>1, <1>5, <1>7
  <2>2. x'.mem[i] = b.mem[i]
    BY <1>3, <1>5, <2>1
  <2>3. CASE A!Moved(x, b)
    <3>1. i \in x.initialized + 1 .. b.allocated
      BY <1>1, <2>1
    <3> QED
      BY <2>2, <2>3, <3>1 DEF Extends
  <2>4. CASE ~A!Moved(x, b)
    <3>1. i \in dirty + 1 .. x.allocated
      BY <1>1, <1>5, <1>7, <2>1, <2>4 DEF Extends
    <3> QED
      BY <2>2, <2>4, <3>1 DEF ArrayHolds, Extends
  <2> QED
    BY <2>3, <2>4
<1> QED
  BY <1>4, <1>5, <1>6, <1>7, <1>8, <1>9 DEF ArrayHolds

-----------------------------------------------------------------------------
(* The calls of array.                                                     *)

LEMMA ArrayFailHolds ==
  ASSUME NEW r, r.initialized = 0, r.mem = <<>>, r.allocated \in {-1, 0},
         r \in Regions, x' = r, meant' = <<>>, dirty' = 0
  PROVE  ArrayHolds'
<1>1. r = [allocated |-> r.allocated, initialized |-> 0, mem |-> <<>>]
  BY DEF Regions
<1>2. RegionOK(x')
  BY <1>1, EmptySeq DEF RegionOK, A!Failed, A!ArrayFail
<1>3. meant' \in Seq(Int) /\ Len(meant') = 0
  BY EmptySeq
<1> QED
  BY <1>2, <1>3 DEF ArrayHolds

LEMMA ArrayKept ==
  ASSUME ArrayHolds, x' = x, meant' = meant, dirty' = dirty
  PROVE  ArrayHolds'
BY DEF ArrayHolds

LEMMA AllocateHolds ==
  ASSUME A!ArraysAssumption, IInv,
         NEW size \in Sizes, NEW begin \in 0 .. 2, NEW v \in {1, 2}, A!Allocate(size, begin, v)
  PROVE  ArrayHolds' /\ ObjectInside'
<1>1. size \in Nat \ {0} /\ begin \in Nat /\ v \in Int
  BY DEF A!ArraysAssumption
<1>2. ObjectInside'
  BY DEF A!Allocate, ObjectInside
<1>3. CASE UNCHANGED <<x, meant, dirty>>
  BY <1>2, <1>3, ArrayKept DEF IInv
<1>4. CASE \E b \in A!Allocated(x, size, begin) :
             /\ x' = [b EXCEPT !.mem = A!Put(@, begin * size, A!Fill(v, size))]
             /\ meant' = A!Put(A!Joined(x, b), begin * size, A!Fill(v, size))
             /\ dirty' = IF A!Moved(x, b) THEN b.initialized
                         ELSE IF dirty > b.initialized THEN dirty ELSE b.initialized
  <2> DEFINE f == A!Fill(v, size)
             at == begin * size
  <2>1. PICK b \in A!Allocated(x, size, begin) :
          /\ x' = [b EXCEPT !.mem = A!Put(@, at, f)]
          /\ meant' = A!Put(A!Joined(x, b), at, f)
          /\ dirty' = IF A!Moved(x, b) THEN b.initialized
                      ELSE IF dirty > b.initialized THEN dirty ELSE b.initialized
    BY <1>4
  <2>2. Extends(x, b) /\ size * begin + size <= b.initialized
    BY <1>1, AllocatedIs DEF IInv, ArrayHolds
  <2>3. f \in Seq(Int) /\ Len(f) = size
    BY <1>1, FillIs
  <2>4. at \in Nat /\ at + Len(f) <= b.initialized
    BY <1>1, <2>2, <2>3
  <2>5. dirty' = IF ~A!Moved(x, b) /\ dirty > b.initialized THEN dirty ELSE b.initialized
    BY <2>1
  <2> HIDE DEF f, at
  <2> QED
    BY <1>2, <2>1, <2>2, <2>3, <2>4, <2>5, StoredHolds DEF IInv
<1> QED
  BY <1>2, <1>3, <1>4 DEF A!Allocate

LEMMA CatBHolds ==
  ASSUME A!ArraysAssumption, IInv, NEW s \in Strings, A!CatB(s)
  PROVE  ArrayHolds' /\ ObjectInside'
<1>1. s \in Seq(Int) /\ Len(s) \in Nat
  BY LenProperties DEF A!ArraysAssumption
<1>2. ObjectInside'
  BY DEF A!CatB, ObjectInside
<1>3. CASE UNCHANGED <<x, meant, dirty>>
  BY <1>2, <1>3, ArrayKept DEF IInv
<1>4. CASE x' = A!ArrayFail /\ meant' = <<>> /\ dirty' = 0
  <2> DEFINE r == A!ArrayFail
  <2>1. r \in Regions /\ r.initialized = 0 /\ r.mem = <<>> /\ r.allocated = -1
    BY EmptySeq DEF A!ArrayFail, Regions
  <2> HIDE DEF r
  <2>2. r.allocated \in {-1, 0} /\ x' = r
    BY <1>4, <2>1 DEF r
  <2> QED
    BY <1>2, <1>4, <2>1, <2>2, ArrayFailHolds
<1>5. CASE s # <<>> /\ \E b \in A!Allocated(x, 1, x.initialized + Len(s) - 1) :
             /\ x' = [b EXCEPT !.mem = A!Put(@, x.initialized, s)]
             /\ meant' = meant \o s
             /\ dirty' = IF ~A!Moved(x, b) /\ dirty > b.initialized THEN dirty ELSE b.initialized
  <2> DEFINE at == x.initialized
  <2>1. PICK b \in A!Allocated(x, 1, at + Len(s) - 1) :
          /\ x' = [b EXCEPT !.mem = A!Put(@, at, s)]
          /\ meant' = meant \o s
          /\ dirty' = IF ~A!Moved(x, b) /\ dirty > b.initialized THEN dirty ELSE b.initialized
    BY <1>5
  <2>2. /\ RegionOK(x) /\ at \in Nat /\ meant \in Seq(Int) /\ at = Len(meant)
        /\ Len(s) \in Nat \ {0} /\ at + Len(s) - 1 \in Nat
    BY <1>1, <1>5, EmptySeq DEF IInv, ArrayHolds, RegionOK, Regions
  <2> HIDE DEF at
  <2>3. /\ Extends(x, b)
        /\ 1 * (at + Len(s) - 1) + 1 <= b.initialized
        /\ x.initialized < 1 * (at + Len(s) - 1) + 1 =>
             b.initialized = 1 * (at + Len(s) - 1) + 1
    BY <2>2, AllocatedIs
  <2>4. b.initialized = at + Len(s)
    BY <2>2, <2>3 DEF at
  <2> DEFINE j == A!Joined(x, b)
  <2>5. /\ j \in Seq(Int) /\ Len(j) = at + Len(s)
        /\ \A i \in 1 .. at : j[i] = meant[i]
    BY <2>3, <2>4, JoinedIs DEF IInv, at
  <2> HIDE DEF j
  <2>6. /\ A!Put(j, at, s) \in Seq(Int) /\ Len(A!Put(j, at, s)) = at + Len(s)
        /\ \A i \in 1 .. at + Len(s) :
             A!Put(j, at, s)[i] = IF at < i /\ i <= at + Len(s) THEN s[i - at] ELSE j[i]
    <3>1. /\ A!Put(j, at, s) \in Seq(Int) /\ Len(A!Put(j, at, s)) = Len(j)
          /\ \A i \in 1 .. Len(j) :
               A!Put(j, at, s)[i] = IF at < i /\ i <= at + Len(s) THEN s[i - at] ELSE j[i]
      <4>1. at \in Nat /\ s \in Seq(Int)
        BY <1>1, <2>2
      <4>2. j \in Seq(Int)
        BY <2>5
      <4> QED
        BY <4>1, <4>2, PutIs
    <3> QED
      BY <2>5, <3>1
  <2>7. /\ meant \o s \in Seq(Int) /\ Len(meant \o s) = at + Len(s)
        /\ \A i \in 1 .. at + Len(s) :
             (meant \o s)[i] = IF i <= at THEN meant[i] ELSE s[i - at]
    BY <1>1, <2>2, ConcatProperties
  <2>8. \A i \in 1 .. at + Len(s) : (meant \o s)[i] = A!Put(j, at, s)[i]
    <3> SUFFICES ASSUME NEW i \in 1 .. at + Len(s)
                 PROVE  (meant \o s)[i] = A!Put(j, at, s)[i]
      OBVIOUS
    <3>1. CASE i <= at
      <4>1. i \in 1 .. at
        BY <2>2, <3>1
      <4> QED
        BY <2>2, <2>5, <2>6, <2>7, <3>1, <4>1
    <3>2. CASE ~(i <= at)
      <4>1. at < i /\ i <= at + Len(s)
        BY <2>2, <3>2
      <4> QED
        BY <2>6, <2>7, <3>2, <4>1
    <3> QED
      BY <3>1, <3>2
  <2>9. meant \o s = A!Put(j, at, s)
    BY <2>6, <2>7, <2>8, SeqEqual
  <2>10. at + Len(s) <= b.initialized /\ meant' = A!Put(A!Joined(x, b), at, s)
    BY <2>1, <2>2, <2>4, <2>9 DEF j
  <2> QED
    BY <1>1, <1>2, <2>1, <2>2, <2>3, <2>10, StoredHolds DEF IInv
<1> QED
  BY <1>2, <1>3, <1>4, <1>5 DEF A!CatB

LEMMA TruncateHolds ==
  ASSUME A!ArraysAssumption, IInv, NEW size \in Sizes, NEW n \in 0 .. 2, A!Truncate(size, n)
  PROVE  ArrayHolds' /\ ObjectInside'
<1> DEFINE k == size * n
<1>1. /\ k \in Nat /\ k <= x.initialized
      /\ x' = [x EXCEPT !.initialized = k] /\ meant' = SubSeq(meant, 1, k)
      /\ got' = <<>> /\ dirty' = dirty
  BY DEF A!Truncate, A!ArraysAssumption
<1> HIDE DEF k
<1>2. /\ x \in Regions /\ x.initialized \in Nat /\ meant \in Seq(Int)
      /\ x.initialized = Len(meant) /\ dirty \in Nat /\ x.initialized <= dirty
      /\ \A i \in 1 .. Len(meant) : meant[i] \in Int
  BY ElementOfSeq DEF IInv, ArrayHolds, RegionOK, Regions
<1>3. /\ x' \in Regions /\ x'.initialized = k
      /\ x'.allocated = x.allocated /\ x'.mem = x.mem
  BY <1>1, <1>2 DEF Regions
<1>4. RegionOK(x')
  <2>1. CASE A!Failed(x)
    <3>1. x = A!ArrayFail
      BY <2>1 DEF IInv, ArrayHolds, RegionOK
    <3>2. x' = A!ArrayFail
      BY <1>1, <3>1 DEF A!ArrayFail
    <3> QED
      BY <1>3, <3>2 DEF RegionOK, A!Failed, A!ArrayFail
  <2>2. CASE ~A!Failed(x)
    <3>1. x.initialized <= x.allocated /\ Len(x.mem) = x.allocated /\ x.allocated \in Nat
      BY <1>2, <2>2 DEF IInv, ArrayHolds, RegionOK, Regions, A!Failed
    <3> QED
      BY <1>1, <1>2, <1>3, <2>2, <3>1 DEF RegionOK, A!Failed
  <2> QED
    BY <2>1, <2>2
<1>5. /\ meant' \in Seq(Int) /\ Len(meant') = k
      /\ \A i \in 1 .. k : meant'[i] = meant[i]
  <2>1. \A i \in 1 .. k : meant[i] \in Int
    BY <1>1, <1>2
  <2>2. /\ SubSeq(meant, 1, k) \in Seq(Int)
        /\ Len(SubSeq(meant, 1, k)) = IF 1 <= k THEN k - 1 + 1 ELSE 0
        /\ \A i \in 1 .. k - 1 + 1 : SubSeq(meant, 1, k)[i] = meant[1 + i - 1]
    BY <1>1, <2>1, SubSeqProperties
  <2> QED
    BY <1>1, <2>2
<1>6. \A i \in 1 .. Len(meant') : meant'[i] # A!Stale => x'.mem[i] = meant'[i]
  BY <1>1, <1>2, <1>3, <1>5 DEF IInv, ArrayHolds
<1>7. \A i \in dirty' + 1 .. x'.allocated : x'.mem[i] = 0
  BY <1>1, <1>3 DEF IInv, ArrayHolds
<1>8. ArrayHolds'
  BY <1>1, <1>2, <1>3, <1>4, <1>5, <1>6, <1>7 DEF ArrayHolds
<1> QED
  BY <1>1, <1>8 DEF ObjectInside

(* An object that begins in what is in use ends there too, for the array   *)
(* holds a whole number of them.                                           *)
LEMMA WholeObjects ==
  ASSUME NEW n \in Nat, NEW size \in Nat \ {0}, NEW begin \in Nat,
         n % size = 0, size * begin < n
  PROVE  size * begin + size <= n
<1>1. PICK k \in Nat : n = k * size
  OBVIOUS
<1>2. begin < k
  <2> SUFFICES ASSUME k <= begin PROVE FALSE
    BY <1>1
  <2>1. k * size <= begin * size
    OBVIOUS
  <2> QED
    BY <1>1, <2>1
<1>3. (begin + 1) * size <= k * size
  BY <1>2
<1> QED
  BY <1>1, <1>3

LEMMA GetHolds ==
  ASSUME A!ArraysAssumption, IInv, NEW size \in Sizes, NEW begin \in 0 .. 2, A!Get(size, begin)
  PROVE  ArrayHolds' /\ ObjectInside'
<1>1. ArrayHolds'
  BY DEF A!Get, IInv, ArrayHolds
<1>2. /\ size \in Nat \ {0} /\ begin \in Nat /\ x' = x
      /\ x.initialized \in Nat /\ x.initialized % size = 0
  BY DEF A!Get, A!ArraysAssumption, IInv, ArrayHolds, RegionOK, Regions
<1>3. \/ got' = <<>>
      \/ got' = <<size * begin, size>> /\ ~(size * begin >= x.initialized)
  BY DEF A!Get
<1>4. CASE got' = <<size * begin, size>> /\ ~(size * begin >= x.initialized)
  <2>1. size * begin \in Nat /\ size * begin < x.initialized
    BY <1>2, <1>4
  <2>2. size * begin + size <= x.initialized
    BY <1>2, <2>1, WholeObjects
  <2> QED
    BY <1>1, <1>2, <1>4, <2>1, <2>2 DEF ObjectInside
<1> QED
  BY <1>1, <1>3, <1>4 DEF ObjectInside

-----------------------------------------------------------------------------
(* The calls of stralloc.                                                  *)

(* What stralloc_ready and stralloc_readyplus leave has the room that was  *)
(* asked for and the text that was there.                                  *)
LEMMA ReadyHolds ==
  ASSUME A!ArraysAssumption, NEW s, NEW w, TextOK(s, w),
         NEW n \in Nat, NEW t \in A!Ready(s, n)
  PROVE  TextOK(t, w) /\ t.len = s.len /\ n <= t.a
<1>1. /\ s \in Texts /\ s.len \in Nat /\ s.a \in Nat /\ s.mem \in Seq(Int)
      /\ s.len <= s.a /\ Len(s.mem) = s.a /\ s.len = Len(w)
  BY DEF TextOK, Texts
<1>2. CASE s.a > 0 /\ s.a >= n
  BY <1>1, <1>2 DEF A!Ready
<1>3. CASE ~(s.a > 0 /\ s.a >= n)
  <2> DEFINE wanted == n + n \div 8 + Slack
             mem == A!Realloc(s.mem, wanted)
  <2>1. t = [s EXCEPT !.a = wanted, !.mem = mem]
    BY <1>3 DEF A!Ready
  <2>2. wanted \in Nat /\ n <= wanted
    BY DEF A!ArraysAssumption
  <2>3. s.a <= wanted
    BY <1>1, <1>3, <2>2
  <2> HIDE DEF wanted
  <2>4. /\ mem \in Seq(Int) /\ Len(mem) = wanted
        /\ \A i \in 1 .. s.a : mem[i] = s.mem[i]
    <3>1. /\ mem \in Seq(Int) /\ Len(mem) = wanted
          /\ \A i \in 1 .. Len(s.mem) : mem[i] = s.mem[i]
      BY <1>1, <2>2, <2>3, ReallocIs
    <3> QED
      BY <1>1, <3>1
  <2> HIDE DEF mem
  <2>5. t \in Texts /\ t.len = s.len /\ t.a = wanted /\ t.mem = mem
    BY <1>1, <2>1, <2>2, <2>4 DEF Texts
  <2>6. \A i \in 1 .. Len(w) : t.mem[i] = w[i]
    BY <1>1, <2>4, <2>5 DEF TextOK
  <2> QED
    BY <1>1, <2>2, <2>3, <2>4, <2>5, <2>6 DEF TextOK
<1> QED
  BY <1>2, <1>3

LEMMA ReadyPlusHolds ==
  ASSUME A!ArraysAssumption, NEW s, NEW w, TextOK(s, w),
         NEW n \in Nat, NEW t \in A!ReadyPlus(s, n)
  PROVE  TextOK(t, w) /\ t.len = s.len /\ s.len + n <= t.a
<1>1. s.len \in Nat /\ s.a \in Nat /\ s.len <= s.a
  BY DEF TextOK, Texts
<1>2. CASE s.a > 0
  <2>1. t \in A!Ready(s, s.len + n) /\ s.len + n \in Nat
    BY <1>1, <1>2 DEF A!ReadyPlus
  <2> QED
    BY <2>1, ReadyHolds
<1>3. CASE ~(s.a > 0)
  <2>1. t \in A!Ready(s, n) /\ s.len = 0
    BY <1>1, <1>3 DEF A!ReadyPlus
  <2>2. TextOK(t, w) /\ t.len = s.len /\ n <= t.a
    BY <2>1, ReadyHolds
  <2> QED
    BY <2>1, <2>2
<1> QED
  BY <1>2, <1>3

(* A string copied behind the first k bytes of a text. *)
LEMMA CopiedHolds ==
  ASSUME NEW t, NEW w, TextOK(t, w), NEW k \in {0, t.len},
         NEW s \in Seq(Int), k + Len(s) <= t.a
  PROVE  TextOK(A!Holds(t, k, s), IF k = 0 THEN s ELSE w \o s)
<1> DEFINE mem == A!Put(t.mem, k, s)
           u == A!Holds(t, k, s)
           v == IF k = 0 THEN s ELSE w \o s
<1>1. /\ t \in Texts /\ t.len \in Nat /\ t.a \in Nat /\ t.mem \in Seq(Int)
      /\ Len(t.mem) = t.a /\ w \in Seq(Int) /\ t.len = Len(w) /\ Len(s) \in Nat
      /\ t.len <= t.a /\ k \in Nat
  BY LenProperties DEF TextOK, Texts
<1>2. /\ mem \in Seq(Int) /\ Len(mem) = t.a
      /\ \A i \in 1 .. t.a :
           mem[i] = IF k < i /\ i <= k + Len(s) THEN s[i - k] ELSE t.mem[i]
  <2> DEFINE old == t.mem
  <2>1. old \in Seq(Int) /\ Len(old) = t.a
    BY <1>1
  <2> HIDE DEF old
  <2>2. /\ A!Put(old, k, s) \in Seq(Int) /\ Len(A!Put(old, k, s)) = Len(old)
        /\ \A i \in 1 .. Len(old) :
             A!Put(old, k, s)[i] = IF k < i /\ i <= k + Len(s) THEN s[i - k] ELSE old[i]
    BY <1>1, <2>1, PutIs
  <2> QED
    BY <2>1, <2>2 DEF old
<1> HIDE DEF mem
<1>3. u = [t EXCEPT !.len = k + Len(s), !.mem = mem]
  BY DEF A!Holds, mem
<1> HIDE DEF u
<1>4. u \in Texts /\ u.len = k + Len(s) /\ u.a = t.a /\ u.mem = mem
  <2> DEFINE n == k + Len(s)
  <2>1. n \in Nat
    BY <1>1
  <2> HIDE DEF n, v
  <2>2. u = [t EXCEPT !.len = n, !.mem = mem]
    BY <1>3 DEF n
  <2>3. u \in Texts /\ u.len = n /\ u.a = t.a /\ u.mem = mem
    BY <1>1, <1>2, <2>1, <2>2 DEF Texts
  <2> QED
    BY <2>3 DEF n
<1>5. /\ v \in Seq(Int) /\ Len(v) = k + Len(s)
      /\ \A i \in 1 .. k + Len(s) : v[i] = IF i <= k THEN w[i] ELSE s[i - k]
  <2>1. CASE k = 0
    BY <1>1, <2>1
  <2>2. CASE k # 0
    <3>1. k = Len(w)
      BY <1>1, <2>2
    <3>2. /\ w \o s \in Seq(Int) /\ Len(w \o s) = Len(w) + Len(s)
          /\ \A i \in 1 .. Len(w) + Len(s) :
               (w \o s)[i] = IF i <= Len(w) THEN w[i] ELSE s[i - Len(w)]
      BY <1>1, ConcatProperties
    <3> QED
      BY <2>2, <3>1, <3>2
  <2> QED
    BY <2>1, <2>2
<1> HIDE DEF v
<1>6. ASSUME NEW i \in 1 .. Len(v) PROVE u.mem[i] = v[i]
  <2>1. i \in 1 .. k + Len(s) /\ i \in 1 .. t.a
    <3>1. i \in 1 .. k + Len(s)
      BY <1>5
    <3> QED
      BY <1>1, <3>1
  <2>2. CASE i <= k
    <3>1. i \in 1 .. Len(w) /\ ~(k < i)
      BY <1>1, <2>1, <2>2
    <3>2. t.mem[i] = w[i]
      BY <3>1 DEF TextOK
    <3> QED
      BY <1>2, <1>4, <1>5, <2>1, <2>2, <3>1, <3>2
  <2>3. CASE ~(i <= k)
    <3>1. k < i /\ i <= k + Len(s)
      BY <1>1, <2>1, <2>3
    <3> QED
      BY <1>2, <1>4, <1>5, <2>1, <2>3, <3>1
  <2> QED
    BY <2>2, <2>3
<1>7. TextOK(u, v)
  BY <1>1, <1>2, <1>4, <1>5, <1>6 DEF TextOK
<1> QED
  BY <1>7 DEF u, v

LEMMA CopyBHolds ==
  ASSUME A!ArraysAssumption, IInv, NEW s \in Strings, A!CopyB(s)
  PROVE  TextOK(sa, said)'
<1>1. TextOK(sa, said) /\ s \in Seq(Int) /\ Len(s) \in Nat
  BY LenProperties DEF IInv, A!ArraysAssumption
<1>2. CASE UNCHANGED <<sa, said>>
  BY <1>1, <1>2
<1>3. ASSUME NEW t \in A!Ready(sa, Len(s)), sa' = A!Holds(t, 0, s), said' = s
      PROVE  TextOK(sa, said)'
  <2>1. TextOK(t, said) /\ Len(s) <= t.a
    BY <1>1, ReadyHolds
  <2>2. 0 + Len(s) <= t.a
    BY <1>1, <2>1
  <2>3. TextOK(A!Holds(t, 0, s), IF 0 = 0 THEN s ELSE said \o s)
    BY <1>1, <2>1, <2>2, CopiedHolds
  <2> QED
    BY <1>3, <2>3
<1> QED
  BY <1>2, <1>3 DEF A!CopyB

(* Appending, to any text and not only to sa. *)
LEMMA AppendedHolds ==
  ASSUME A!ArraysAssumption, NEW r, NEW w, TextOK(r, w),
         NEW s \in Seq(Int), NEW t \in A!ReadyPlus(r, Len(s))
  PROVE  TextOK(A!Holds(t, r.len, s), w \o s) /\ A!Holds(t, r.len, s).len = r.len + Len(s)
<1>1. /\ Len(s) \in Nat /\ r.len \in Nat /\ w \in Seq(Int) /\ r.len = Len(w)
  BY LenProperties DEF TextOK, Texts
<1>2. TextOK(t, w) /\ t.len = r.len /\ r.len + Len(s) <= t.a
  BY <1>1, ReadyPlusHolds
<1>3. TextOK(A!Holds(t, r.len, s), IF r.len = 0 THEN s ELSE w \o s)
  BY <1>2, CopiedHolds
<1>4. r.len = 0 => w \o s = s
  <2> SUFFICES ASSUME r.len = 0 PROVE w \o s = s
    OBVIOUS
  <2>1. w = <<>>
    BY <1>1, EmptySeq
  <2> QED
    BY <2>1, ConcatEmptySeq
<1>5. A!Holds(t, r.len, s).len = r.len + Len(s)
  BY <1>2 DEF A!Holds, TextOK, Texts
<1> QED
  BY <1>3, <1>4, <1>5

LEMMA SaCatBHolds ==
  ASSUME A!ArraysAssumption, IInv, NEW s \in Strings, A!SaCatB(s)
  PROVE  TextOK(sa, said)'
<1>1. TextOK(sa, said) /\ s \in Seq(Int)
  BY DEF IInv, A!ArraysAssumption
<1>2. CASE UNCHANGED <<sa, said>>
  BY <1>1, <1>2
<1>3. ASSUME NEW t \in A!ReadyPlus(sa, Len(s)), sa' = A!Holds(t, sa.len, s), said' = said \o s
      PROVE  TextOK(sa, said)'
  BY <1>1, <1>3, AppendedHolds
<1> QED
  BY <1>2, <1>3 DEF A!SaCatB

LEMMA CatMHolds ==
  ASSUME A!ArraysAssumption, IInv, NEW lost \in Strings, NEW s2 \in Strings, A!CatM(lost, s2)
  PROVE  TextOK(sa, said)'
<1> DEFINE all == A!ReadyPlus(sa, Len(lost) + Len(s2))
<1>1. /\ TextOK(sa, said) /\ lost \in Seq(Int) /\ s2 \in Seq(Int)
      /\ Len(lost) + Len(s2) \in Nat
  BY LenProperties DEF IInv, A!ArraysAssumption
<1> HIDE DEF IInv
<1>2. PICK r \in all \cup {sa} :
        \/ A!NoRoom(r, A!ReadyPlus(r, Len(lost))) /\ sa' = r /\ UNCHANGED said
        \/ \E t \in A!ReadyPlus(r, Len(lost)) :
             \/ /\ A!NoRoom(t, A!ReadyPlus(A!Holds(t, r.len, lost), Len(s2)))
                /\ sa' = A!Holds(t, r.len, lost) /\ said' = said \o lost
             \/ \E u \in A!ReadyPlus(A!Holds(t, r.len, lost), Len(s2)) :
                  /\ sa' = A!Holds(u, r.len + Len(lost), s2)
                  /\ said' = said \o lost \o s2
  BY DEF A!CatM
<1>3. TextOK(r, said)
  BY <1>1, ReadyPlusHolds
<1>4. CASE sa' = r /\ UNCHANGED said
  BY <1>3, <1>4
<1>5. ASSUME NEW t \in A!ReadyPlus(r, Len(lost)),
             sa' = A!Holds(t, r.len, lost), said' = said \o lost
      PROVE  TextOK(sa, said)'
  BY <1>1, <1>3, <1>5, AppendedHolds
<1>6. ASSUME NEW t \in A!ReadyPlus(r, Len(lost)),
             NEW u \in A!ReadyPlus(A!Holds(t, r.len, lost), Len(s2)),
             sa' = A!Holds(u, r.len + Len(lost), s2), said' = said \o lost \o s2
      PROVE  TextOK(sa, said)'
  <2> DEFINE q == A!Holds(t, r.len, lost)
  <2>1. TextOK(q, said \o lost) /\ q.len = r.len + Len(lost)
    BY <1>1, <1>3, AppendedHolds
  <2>2. u \in A!ReadyPlus(q, Len(s2)) /\ sa' = A!Holds(u, q.len, s2)
    BY <1>6, <2>1
  <2> HIDE DEF q
  <2>3. TextOK(A!Holds(u, q.len, s2), (said \o lost) \o s2)
    BY <1>1, <2>1, <2>2, AppendedHolds
  <2> QED
    BY <1>6, <2>2, <2>3
<1> QED
  BY <1>2, <1>4, <1>5, <1>6

(* The last bytes are taken off. *)
LEMMA ShortenedHolds ==
  ASSUME TextOK(sa, said), NEW n \in Nat, n <= sa.len,
         sa' = [sa EXCEPT !.len = n], said' = SubSeq(said, 1, n)
  PROVE  TextOK(sa, said)'
<1>1. /\ sa \in Texts /\ sa.len \in Nat /\ sa.a \in Nat /\ sa.len <= sa.a
      /\ Len(sa.mem) = sa.a /\ sa.len = Len(said) /\ said \in Seq(Int)
      /\ \A i \in 1 .. Len(said) : said[i] \in Int
  BY ElementOfSeq DEF TextOK, Texts
<1>2. sa' \in Texts /\ sa'.len = n /\ sa'.a = sa.a /\ sa'.mem = sa.mem
  BY <1>1 DEF Texts
<1>3. /\ said' \in Seq(Int) /\ Len(said') = n
      /\ \A i \in 1 .. n : said'[i] = said[i]
  <2>1. \A i \in 1 .. n : said[i] \in Int
    BY <1>1
  <2>2. /\ SubSeq(said, 1, n) \in Seq(Int)
        /\ Len(SubSeq(said, 1, n)) = IF 1 <= n THEN n - 1 + 1 ELSE 0
        /\ \A i \in 1 .. n - 1 + 1 : SubSeq(said, 1, n)[i] = said[1 + i - 1]
    BY <2>1, SubSeqProperties
  <2> QED
    BY <2>2
<1>4. ASSUME NEW i \in 1 .. Len(said') PROVE sa'.mem[i] = said'[i]
  <2>1. i \in 1 .. n /\ i \in 1 .. Len(said)
    BY <1>1, <1>3
  <2>2. sa.mem[i] = said[i]
    BY <2>1 DEF TextOK
  <2> QED
    BY <1>2, <1>3, <2>1, <2>2
<1> QED
  BY <1>1, <1>2, <1>3, <1>4 DEF TextOK

(* The text in use, as a sequence. *)
LEMMA TextIsSaid ==
  ASSUME NEW s, NEW w, TextOK(s, w)
  PROVE  SubSeq(s.mem, 1, s.len) = w
<1>1. /\ s.len \in Nat /\ s.len = Len(w) /\ w \in Seq(Int)
      /\ s.mem \in Seq(Int) /\ Len(s.mem) = s.a /\ s.len <= s.a /\ s.a \in Nat
  BY DEF TextOK, Texts
<1>2. \A i \in 1 .. s.len : s.mem[i] \in Int
  BY <1>1, ElementOfSeq
<1>3. /\ SubSeq(s.mem, 1, s.len) \in Seq(Int)
      /\ Len(SubSeq(s.mem, 1, s.len)) = IF 1 <= s.len THEN s.len - 1 + 1 ELSE 0
      /\ \A i \in 1 .. s.len - 1 + 1 : SubSeq(s.mem, 1, s.len)[i] = s.mem[1 + i - 1]
  BY <1>1, <1>2, SubSeqProperties
<1>4. \A i \in 1 .. s.len : SubSeq(s.mem, 1, s.len)[i] = w[i]
  BY <1>1, <1>3 DEF TextOK
<1> QED
  BY <1>1, <1>3, <1>4, SeqEqual

LEMMA ChompHolds ==
  ASSUME IInv, A!Chomp
  PROVE  TextOK(sa, said)'
<1>1. SubSeq(sa.mem, 1, sa.len) = said /\ TextOK(sa, said)
  BY TextIsSaid DEF IInv
<1>2. sa.len = Len(said) /\ Len(said) \in Nat
  BY <1>1 DEF TextOK, Texts
<1>3. A!Chomped(said) \in Nat /\ A!Chomped(said) <= Len(said)
  BY <1>2 DEF A!Chomped
<1> DEFINE n == Len(said) - A!Chomped(said)
<1>4. sa' = [sa EXCEPT !.len = n] /\ said' = SubSeq(said, 1, n)
  BY <1>1, <1>2 DEF A!Chomp
<1>5. n \in Nat /\ n <= sa.len
  BY <1>2, <1>3
<1> HIDE DEF n
<1> QED
  BY <1>1, <1>4, <1>5, ShortenedHolds

LEMMA ChopHolds ==
  ASSUME IInv, A!Chop
  PROVE  TextOK(sa, said)'
<1> DEFINE n == Len(said) - 1
<1>1. TextOK(sa, said) /\ sa.len = Len(said) /\ sa.len \in Nat /\ sa.len > 0
  BY DEF IInv, TextOK, Texts, A!Chop
<1>2. sa' = [sa EXCEPT !.len = n] /\ said' = SubSeq(said, 1, n)
  BY <1>1 DEF A!Chop, A!Front
<1>3. n \in Nat /\ n <= sa.len
  BY <1>1
<1> HIDE DEF n
<1> QED
  BY <1>1, <1>2, <1>3, ShortenedHolds

LEMMA ZeroHolds ==
  ASSUME IInv, A!Zero
  PROVE  TextOK(sa, said)'
<1>1. sa' \in Texts /\ sa'.len = 0 /\ sa'.a = sa.a /\ sa'.mem = sa.mem /\ said' = <<>>
  BY DEF IInv, TextOK, Texts, A!Zero
<1>2. sa.a \in Nat /\ Len(sa.mem) = sa.a
  BY DEF IInv, TextOK, Texts
<1> QED
  BY <1>1, <1>2, EmptySeq DEF TextOK

LEMMA FreeInitHolds ==
  ASSUME sa' = [len |-> 0, a |-> 0, mem |-> <<>>], said' = <<>>
  PROVE  TextOK(sa, said)'
BY EmptySeq DEF TextOK, Texts

-----------------------------------------------------------------------------
(* The two use nothing of each other. *)
LEMMA ArrayUntouched ==
  ASSUME IInv, UNCHANGED <<x, meant, dirty, got>>
  PROVE  ArrayHolds' /\ ObjectInside'
<1>1. x' = x /\ meant' = meant /\ dirty' = dirty /\ got' = got
  OBVIOUS
<1>2. ArrayHolds'
  BY <1>1, ArrayKept DEF IInv
<1> QED
  BY <1>1, <1>2 DEF IInv, ObjectInside

LEMMA TextUntouched ==
  ASSUME IInv, UNCHANGED <<sa, said>>
  PROVE  TextOK(sa, said)'
BY DEF IInv

LEMMA InitIInv == A!Init => IInv
<1> SUFFICES ASSUME A!Init PROVE IInv
  OBVIOUS
<1>1. x \in Regions /\ x.allocated = 0 /\ x.initialized = 0 /\ x.mem = <<>>
  BY EmptySeq DEF A!Init, Regions
<1>2. RegionOK(x)
  BY <1>1, EmptySeq DEF RegionOK, A!Failed
<1>3. ArrayHolds
  BY <1>1, <1>2, EmptySeq DEF A!Init, ArrayHolds
<1>4. TextOK(sa, said)
  BY EmptySeq DEF A!Init, TextOK, Texts
<1> QED
  BY <1>3, <1>4 DEF A!Init, IInv, ObjectInside

LEMMA NextIInv == A!ArraysAssumption /\ IInv /\ [A!Next]_A!vars => IInv'
<1> SUFFICES ASSUME A!ArraysAssumption, IInv, [A!Next]_A!vars PROVE IInv'
  OBVIOUS
<1>1. ASSUME NEW size \in Sizes, NEW begin \in 0 .. 2, NEW v \in {1, 2}, A!Allocate(size, begin, v)
      PROVE  IInv'
  <2>1. UNCHANGED <<sa, said>>
    BY <1>1 DEF A!Allocate
  <2> QED
    BY <1>1, <2>1, AllocateHolds, TextUntouched DEF IInv
<1>2. ASSUME NEW s \in Strings, A!CatB(s) PROVE IInv'
  <2>1. UNCHANGED <<sa, said>>
    BY <1>2 DEF A!CatB
  <2> QED
    BY <1>2, <2>1, CatBHolds, TextUntouched DEF IInv
<1>3. ASSUME NEW s \in Strings, A!CopyB(s) \/ A!SaCatB(s) PROVE IInv'
  <2>1. UNCHANGED <<x, meant, dirty, got>>
    BY <1>3 DEF A!CopyB, A!SaCatB
  <2> QED
    BY <1>3, <2>1, CopyBHolds, SaCatBHolds, ArrayUntouched DEF IInv
<1>4. ASSUME NEW lost \in Strings, NEW s2 \in Strings, A!CatM(lost, s2) PROVE IInv'
  <2>1. UNCHANGED <<x, meant, dirty, got>>
    BY <1>4 DEF A!CatM
  <2> QED
    BY <1>4, <2>1, CatMHolds, ArrayUntouched DEF IInv
<1>5. ASSUME NEW size \in Sizes, NEW n \in 0 .. 2, A!Truncate(size, n) PROVE IInv'
  <2>1. UNCHANGED <<sa, said>>
    BY <1>5 DEF A!Truncate
  <2> QED
    BY <1>5, <2>1, TruncateHolds, TextUntouched DEF IInv
<1>6. ASSUME NEW size \in Sizes, NEW n \in 0 .. 2, A!Get(size, n) PROVE IInv'
  <2>1. UNCHANGED <<sa, said>>
    BY <1>6 DEF A!Get
  <2> QED
    BY <1>6, <2>1, GetHolds, TextUntouched DEF IInv
<1>7. CASE A!Fail \/ A!Reset
  <2>1. /\ UNCHANGED <<sa, said>> /\ got' = <<>> /\ meant' = <<>> /\ dirty' = 0
    BY <1>7 DEF A!Fail, A!Reset
  <2>2. PICK n \in {-1, 0} : x' = [allocated |-> n, initialized |-> 0, mem |-> <<>>]
    BY <1>7 DEF A!Fail, A!Reset, A!ArrayFail
  <2> DEFINE r == [allocated |-> n, initialized |-> 0, mem |-> <<>>]
  <2>3. r \in Regions /\ r.initialized = 0 /\ r.mem = <<>> /\ r.allocated \in {-1, 0}
    BY EmptySeq DEF Regions
  <2>4. x' = r
    BY <2>2
  <2> HIDE DEF r
  <2>5. ArrayHolds'
    BY <2>1, <2>3, <2>4, ArrayFailHolds
  <2> QED
    BY <2>1, <2>5, TextUntouched DEF IInv, ObjectInside
<1>8. CASE A!Chomp \/ A!Chop \/ A!Zero \/ A!FreeInit
  <2>1. UNCHANGED <<x, meant, dirty, got>>
    BY <1>8 DEF A!Chomp, A!Chop, A!Zero, A!FreeInit
  <2>2. TextOK(sa, said)'
    BY <1>8, ChompHolds, ChopHolds, ZeroHolds, FreeInitHolds DEF A!FreeInit
  <2> QED
    BY <2>1, <2>2, ArrayUntouched DEF IInv
<1>9. CASE UNCHANGED A!vars
  <2>1. UNCHANGED <<x, meant, dirty, got>> /\ UNCHANGED <<sa, said>>
    BY <1>9 DEF A!vars
  <2> QED
    BY <2>1, ArrayUntouched, TextUntouched DEF IInv
<1> QED
  BY <1>1, <1>2, <1>3, <1>4, <1>5, <1>6, <1>7, <1>8, <1>9 DEF A!Next

LEMMA IInvHolds ==
  ASSUME A!ArraysAssumption
  PROVE  A!Spec => []IInv
<1>1. IInv /\ [A!Next]_A!vars => IInv'
  BY NextIInv
<1> QED
  BY InitIInv, <1>1, PTL DEF A!Spec

(* No call of array_* or stralloc_* leaves more in use than was allocated, *)
(* and no object that array_get hands out reaches past what is in use,     *)
(* however sizes and positions overflow and allocations fail.              *)
THEOREM ArraysInside ==
  ASSUME A!ArraysAssumption
  PROVE  A!Spec => []A!Inside
<1>1. IInv => A!Inside
  BY DEF IInv, ArrayHolds, ObjectInside, RegionOK, TextOK, A!Inside
<1> QED
  BY IInvHolds, <1>1, PTL

(* The contents of an array and of a stralloc are what the calls that      *)
(* succeeded say, through every growth, truncation and failure.            *)
THEOREM ArraysContents ==
  ASSUME A!ArraysAssumption
  PROVE  A!Spec => []A!Contents
<1>1. ASSUME IInv PROVE A!Contents
  <2>1. SubSeq(sa.mem, 1, sa.len) = said /\ sa.len = Len(said)
    BY <1>1, TextIsSaid DEF IInv, TextOK
  <2> QED
    BY <1>1, <2>1 DEF IInv, ArrayHolds, A!Contents
<1>2. IInv => A!Contents
  BY <1>1
<1> QED
  BY IInvHolds, <1>2, PTL

-----------------------------------------------------------------------------
(* buffer.                                                                 *)
(* A chain is bytes in the order they were put, above lo and up to hi.     *)
Chain(s, lo, hi) ==
  /\ s \in Seq(Nat) /\ lo \in Nat /\ hi \in Nat /\ lo <= hi
  /\ \A i \in 1 .. Len(s) : lo < s[i] /\ s[i] <= hi
  /\ \A i, j \in 1 .. Len(s) : i < j => s[i] < s[j]

(* A run is the bytes behind lo, none left out.                            *)
Run(s, lo) == s \in Seq(Nat) /\ \A i \in 1 .. Len(s) : s[i] = lo + i

LEMMA ChainNone ==
  ASSUME NEW lo \in Nat, NEW hi \in Nat, lo <= hi
  PROVE  Chain(<<>>, lo, hi)
BY DEF Chain

LEMMA Joined ==
  ASSUME NEW s \in Seq(Nat), NEW t \in Seq(Nat)
  PROVE  /\ s \o t \in Seq(Nat) /\ Len(s \o t) = Len(s) + Len(t)
         /\ Len(s) \in Nat /\ Len(t) \in Nat /\ DOMAIN (s \o t) = 1 .. Len(s) + Len(t)
         /\ \A i \in 1 .. Len(s \o t) :
              (s \o t)[i] = IF i <= Len(s) THEN s[i] ELSE t[i - Len(s)]
  BY ConcatProperties, LenProperties

LEMMA ChainJoined ==
  ASSUME NEW s, NEW t, NEW lo, NEW mid, NEW hi, Chain(s, lo, mid), Chain(t, mid, hi)
  PROVE  Chain(s \o t, lo, hi)
<1> DEFINE st == s \o t
<1>1. s \in Seq(Nat) /\ t \in Seq(Nat) /\ lo \in Nat /\ mid \in Nat /\ hi \in Nat
      /\ lo <= mid /\ mid <= hi
  BY DEF Chain
<1>2. /\ st \in Seq(Nat) /\ Len(st) = Len(s) + Len(t) /\ Len(s) \in Nat /\ Len(t) \in Nat
      /\ \A i \in 1 .. Len(st) : st[i] = IF i <= Len(s) THEN s[i] ELSE t[i - Len(s)]
  BY <1>1, Joined
<1> HIDE DEF st
<1>3. \A i \in 1 .. Len(st) :
        \/ i \in 1 .. Len(s) /\ st[i] = s[i]
        \/ i > Len(s) /\ i - Len(s) \in 1 .. Len(t) /\ st[i] = t[i - Len(s)]
  BY <1>2
<1>4. /\ \A i \in 1 .. Len(s) : s[i] \in Nat /\ lo < s[i] /\ s[i] <= mid
      /\ \A i \in 1 .. Len(t) : t[i] \in Nat /\ mid < t[i] /\ t[i] <= hi
  BY <1>1, ElementOfSeq DEF Chain
<1>5. ASSUME NEW i \in 1 .. Len(st)
      PROVE  lo < st[i] /\ st[i] <= hi
  <2>1. CASE i \in 1 .. Len(s) /\ st[i] = s[i]
    BY <1>1, <1>4, <2>1
  <2>2. CASE i - Len(s) \in 1 .. Len(t) /\ st[i] = t[i - Len(s)]
    <3> DEFINE k == i - Len(s)
    <3>1. k \in 1 .. Len(t) /\ st[i] = t[k]
      BY <2>2
    <3> HIDE DEF k
    <3> QED
      BY <1>1, <1>4, <3>1
  <2> QED
    BY <1>3, <2>1, <2>2
<1>6. ASSUME NEW i \in 1 .. Len(st), NEW j \in 1 .. Len(st), i < j
      PROVE  st[i] < st[j]
  <2>0. i \in Nat /\ j \in Nat /\ i >= 1 /\ i < j /\ j <= Len(s) + Len(t)
    BY <1>2, <1>6
  <2>1. CASE j \in 1 .. Len(s)
    <3>1. i \in 1 .. Len(s)
      BY <1>2, <2>0, <2>1
    <3>2. st[i] = s[i] /\ st[j] = s[j]
      BY <1>2, <1>3, <2>1, <3>1
    <3> QED
      BY <2>0, <2>1, <3>1, <3>2 DEF Chain
  <2>2. CASE i > Len(s)
    <3> DEFINE a == i - Len(s)
               b == j - Len(s)
    <3>1. a \in 1 .. Len(t) /\ b \in 1 .. Len(t) /\ a < b
      <4>1. /\ Len(s) \in Nat /\ Len(t) \in Nat /\ i \in Nat /\ j \in Nat
            /\ i < j /\ j <= Len(s) + Len(t)
        BY <1>2, <1>6
      <4> QED
        BY <2>2, <4>1
    <3>2. st[i] = t[a] /\ st[j] = t[b]
      BY <1>2, <1>3, <1>6, <2>2
    <3> HIDE DEF a, b
    <3> QED
      BY <3>1, <3>2 DEF Chain
  <2>3. CASE i \in 1 .. Len(s) /\ j > Len(s)
    <3> DEFINE b == j - Len(s)
    <3>1. b \in 1 .. Len(t) /\ st[i] = s[i] /\ st[j] = t[b]
      BY <1>2, <1>3, <2>0, <2>3
    <3> HIDE DEF b
    <3>2. s[i] \in Nat /\ s[i] <= mid /\ t[b] \in Nat /\ mid < t[b]
      BY <1>4, <2>3, <3>1
    <3> QED
      BY <1>1, <3>1, <3>2
  <2>4. (i \in 1 .. Len(s) /\ j > Len(s)) \/ i > Len(s) \/ j \in 1 .. Len(s)
    BY <1>2, <2>0
  <2> QED
    BY <2>1, <2>2, <2>3, <2>4
<1> QED
  BY <1>1, <1>2, <1>5, <1>6 DEF Chain, st

LEMMA Piece ==
  ASSUME NEW s \in Seq(Nat), NEW a \in Nat, NEW b \in Nat, b <= Len(s), a <= b
  PROVE  /\ SubSeq(s, a + 1, b) \in Seq(Nat) /\ Len(SubSeq(s, a + 1, b)) = b - a
         /\ \A i \in 1 .. b - a : SubSeq(s, a + 1, b)[i] = s[a + i]
<1>1. Len(s) \in Nat
  BY LenProperties
<1>2. \A i \in a + 1 .. b : s[i] \in Nat
  BY <1>1, ElementOfSeq
<1>3. /\ SubSeq(s, a + 1, b) \in Seq(Nat)
      /\ Len(SubSeq(s, a + 1, b)) = IF a + 1 <= b THEN b - (a + 1) + 1 ELSE 0
      /\ \A i \in 1 .. b - (a + 1) + 1 : SubSeq(s, a + 1, b)[i] = s[a + 1 + i - 1]
  BY <1>1, <1>2, SubSeqProperties
<1>4. Len(SubSeq(s, a + 1, b)) = b - a
  <2>1. (IF a + 1 <= b THEN b - (a + 1) + 1 ELSE 0) = b - a
    OBVIOUS
  <2> QED
    BY <1>3, <2>1
<1>5. ASSUME NEW i \in 1 .. b - a
      PROVE  SubSeq(s, a + 1, b)[i] = s[a + i]
  <2>1. i \in 1 .. b - (a + 1) + 1 /\ a + 1 + i - 1 = a + i
    OBVIOUS
  <2> QED
    BY <1>3, <2>1
<1> QED
  BY <1>3, <1>4, <1>5

(* A chain is cut anywhere into two.                                       *)
LEMMA ChainCut ==
  ASSUME NEW s, NEW lo, NEW hi, Chain(s, lo, hi), NEW k \in 0 .. Len(s)
  PROVE  \E mid \in Nat : /\ Chain(SubSeq(s, 1, k), lo, mid) /\ Chain(SubSeq(s, k + 1, Len(s)), mid, hi)
<1> DEFINE a == SubSeq(s, 1, k)
           z == SubSeq(s, k + 1, Len(s))
           mid == IF k = 0 THEN lo ELSE s[k]
<1>1. /\ s \in Seq(Nat) /\ Len(s) \in Nat /\ lo \in Nat /\ hi \in Nat /\ lo <= hi /\ k \in Nat
      /\ \A i \in 1 .. Len(s) : s[i] \in Nat /\ lo < s[i] /\ s[i] <= hi
      /\ \A i, j \in 1 .. Len(s) : i < j => s[i] < s[j]
  BY LenProperties, ElementOfSeq DEF Chain
<1>2. a \in Seq(Nat) /\ Len(a) = k /\ \A i \in 1 .. k : a[i] = s[i]
  <2>1. SubSeq(s, 0 + 1, k) \in Seq(Nat) /\ Len(SubSeq(s, 0 + 1, k)) = k - 0
        /\ \A i \in 1 .. k - 0 : SubSeq(s, 0 + 1, k)[i] = s[0 + i]
    BY <1>1, Piece
  <2> QED
    BY <1>1, <2>1
<1>3. z \in Seq(Nat) /\ Len(z) = Len(s) - k /\ \A i \in 1 .. Len(s) - k : z[i] = s[k + i]
  <2>1. s \in Seq(Nat) /\ k \in Nat /\ Len(s) \in Nat /\ k <= Len(s) /\ Len(s) <= Len(s)
    BY <1>1
  <2> QED
    BY <2>1, Piece
<1> HIDE DEF a, z
<1>4. mid \in Nat /\ lo <= mid /\ mid <= hi
  BY <1>1
<1>5. \A i \in 1 .. k : s[i] <= mid
  <2>1. CASE k = 0
    BY <2>1
  <2>2. ASSUME k # 0, NEW i \in 1 .. k PROVE s[i] <= mid
    <3>1. k \in 1 .. Len(s) /\ i \in 1 .. Len(s) /\ (i = k \/ i < k)
      BY <1>1, <2>2
    <3>2. s[i] = s[k] \/ s[i] < s[k]
      BY <1>1, <3>1
    <3>3. s[i] \in Nat /\ s[k] \in Nat
      BY <1>1, <3>1
    <3> QED
      BY <2>2, <3>2, <3>3
  <2> QED
    BY <2>1, <2>2
<1>6. \A i \in 1 .. Len(s) : i > k => mid < s[i]
  BY <1>1
<1>7. Chain(a, lo, mid)
  <2>1. \A i \in 1 .. k : i \in 1 .. Len(s) /\ a[i] = s[i]
    BY <1>1, <1>2
  <2>2. \A i \in 1 .. k : lo < a[i] /\ a[i] <= mid
    BY <1>1, <1>5, <2>1
  <2>3. \A i, j \in 1 .. k : i < j => a[i] < a[j]
    BY <1>1, <2>1
  <2> QED
    BY <1>1, <1>2, <1>4, <2>2, <2>3 DEF Chain
<1>8. \A i \in 1 .. Len(z) : k + i \in 1 .. Len(s) /\ k + i > k /\ z[i] = s[k + i]
  BY <1>1, <1>3
<1> HIDE DEF mid
<1>9. Chain(z, mid, hi)
  <2>1. \A i \in 1 .. Len(z) : mid < z[i] /\ z[i] <= hi
    BY <1>1, <1>6, <1>8
  <2>2. ASSUME NEW i \in 1 .. Len(z), NEW j \in 1 .. Len(z), i < j
        PROVE  z[i] < z[j]
    <3>1. k + i \in 1 .. Len(s) /\ k + j \in 1 .. Len(s) /\ k + i < k + j
      BY <1>1, <1>8, <2>2
    <3> QED
      BY <1>1, <1>8, <3>1
  <2> QED
    BY <1>1, <1>3, <1>4, <2>1, <2>2 DEF Chain
<1> QED
  BY <1>4, <1>7, <1>9 DEF a, z

LEMMA ChainWider ==
  ASSUME NEW s, NEW lo, NEW hi, Chain(s, lo, hi),
         NEW low \in Nat, NEW top \in Nat, low <= lo, hi <= top
  PROVE  Chain(s, low, top)
<1>1. \A i \in 1 .. Len(s) : s[i] \in Nat
  BY ElementOfSeq DEF Chain
<1> QED
  BY <1>1 DEF Chain

(* What is put new follows what was put before.                            *)
LEMMA NewIs ==
  ASSUME put \in Nat, NEW n \in Nat
  PROVE  /\ Chain(U!New(n), put, put + n) /\ Run(U!New(n), put)
         /\ Len(U!New(n)) = n
<1>1. U!New(n) \in [1 .. n -> Nat] /\ \A i \in 1 .. n : U!New(n)[i] = put + i
  BY DEF U!New
<1>2. U!New(n) \in Seq(Nat) /\ Len(U!New(n)) = n
  BY <1>1, LenProperties
<1> HIDE DEF U!New
<1> QED
  BY <1>1, <1>2 DEF Chain, Run

LEMMA SentIs ==
  ASSUME NEW s, NEW lo, NEW hi, Chain(s, lo, hi), NEW k \in U!Stubborn(s)
  PROVE  /\ Chain(U!Sent(s, k), lo, hi) /\ k \in 0 .. Len(s) /\ Len(s) \in Nat
         /\ k = Len(s) => U!Sent(s, k) = s
<1>1. k \in 0 .. Len(s)
  BY DEF U!Stubborn
<1>2. s \in Seq(Nat) /\ Len(s) \in Nat /\ lo \in Nat /\ hi \in Nat
  BY LenProperties DEF Chain
<1>3. PICK mid \in Nat : /\ Chain(SubSeq(s, 1, k), lo, mid) /\ Chain(SubSeq(s, k + 1, Len(s)), mid, hi)
  BY <1>1, ChainCut
<1>4. Chain(SubSeq(s, 1, k), lo, hi)
  <2>1. mid <= hi /\ lo <= lo
    BY <1>2, <1>3 DEF Chain
  <2> QED
    BY <1>2, <1>3, <2>1, ChainWider
<1>5. k = Len(s) => SubSeq(s, 1, k) = s
  <2>1. SubSeq(s, 0 + 1, Len(s)) \in Seq(Nat) /\ Len(SubSeq(s, 0 + 1, Len(s))) = Len(s) - 0
        /\ \A i \in 1 .. Len(s) - 0 : SubSeq(s, 0 + 1, Len(s))[i] = s[0 + i]
    BY <1>2, Piece
  <2>2. SubSeq(s, 1, Len(s)) \in Seq(Nat) /\ Len(SubSeq(s, 1, Len(s))) = Len(s)
        /\ \A i \in 1 .. Len(s) : SubSeq(s, 1, Len(s))[i] = s[i]
    BY <1>2, <2>1
  <2>3. SubSeq(s, 1, Len(s)) = s
    BY <1>2, <2>2, SeqEqual
  <2> QED
    BY <2>3
<1> QED
  BY <1>1, <1>2, <1>4, <1>5 DEF U!Sent

LEMMA RunJoined ==
  ASSUME NEW s, NEW t, NEW lo \in Int, Run(s, lo), Run(t, lo + Len(s))
  PROVE  Run(s \o t, lo)
<1>1. s \in Seq(Nat) /\ t \in Seq(Nat)
  BY DEF Run
<1> DEFINE st == s \o t
<1>2. /\ st \in Seq(Nat) /\ Len(st) = Len(s) + Len(t) /\ Len(s) \in Nat /\ Len(t) \in Nat
      /\ \A i \in 1 .. Len(st) : st[i] = IF i <= Len(s) THEN s[i] ELSE t[i - Len(s)]
  BY <1>1, Joined
<1> HIDE DEF st
<1>3. ASSUME NEW i \in 1 .. Len(st)
      PROVE  st[i] = lo + i
  <2>1. CASE i <= Len(s)
    <3>1. i \in 1 .. Len(s) /\ st[i] = s[i]
      BY <1>2, <2>1
    <3> QED
      BY <3>1 DEF Run
  <2>2. CASE ~(i <= Len(s))
    <3> DEFINE j == i - Len(s)
    <3>1. j \in 1 .. Len(t) /\ st[i] = t[j] /\ lo + Len(s) + j = lo + i
      BY <1>2, <2>2
    <3> HIDE DEF j
    <3>2. t[j] = lo + Len(s) + j
      BY <3>1 DEF Run
    <3> QED
      BY <3>1, <3>2
  <2> QED
    BY <2>1, <2>2
<1> QED
  BY <1>2, <1>3 DEF Run, st

LEMMA RunCut ==
  ASSUME NEW s, NEW lo \in Int, Run(s, lo), NEW k \in 0 .. Len(s)
  PROVE  /\ Run(SubSeq(s, 1, k), lo) /\ Run(SubSeq(s, k + 1, Len(s)), lo + k)
         /\ Len(SubSeq(s, 1, k)) = k /\ Len(SubSeq(s, k + 1, Len(s))) = Len(s) - k
<1>1. s \in Seq(Nat) /\ Len(s) \in Nat /\ k \in Nat /\ k <= Len(s)
  BY LenProperties DEF Run
<1> DEFINE a == SubSeq(s, 1, k)
           z == SubSeq(s, k + 1, Len(s))
<1>2. a \in Seq(Nat) /\ Len(a) = k /\ \A i \in 1 .. k : a[i] = s[i]
  <2>1. SubSeq(s, 0 + 1, k) \in Seq(Nat) /\ Len(SubSeq(s, 0 + 1, k)) = k - 0
        /\ \A i \in 1 .. k - 0 : SubSeq(s, 0 + 1, k)[i] = s[0 + i]
    BY <1>1, Piece
  <2> QED
    BY <1>1, <2>1
<1>3. z \in Seq(Nat) /\ Len(z) = Len(s) - k /\ \A i \in 1 .. Len(s) - k : z[i] = s[k + i]
  <2>1. s \in Seq(Nat) /\ k \in Nat /\ Len(s) \in Nat /\ k <= Len(s) /\ Len(s) <= Len(s)
    BY <1>1
  <2> QED
    BY <2>1, Piece
<1> HIDE DEF a, z
<1>4. \A i \in 1 .. k : i \in 1 .. Len(s)
  BY <1>1
<1>5. \A i \in 1 .. Len(s) - k : k + i \in 1 .. Len(s) /\ lo + (k + i) = lo + k + i
  BY <1>1
<1>6. Run(a, lo)
  BY <1>2, <1>4 DEF Run
<1>7. Run(z, lo + k)
  BY <1>3, <1>5 DEF Run
<1> QED
  BY <1>2, <1>3, <1>6, <1>7 DEF a, z

(* What the descriptor took, what is collected and what putalign has still *)
(* to copy follow each other.                                              *)
OutKnown ==
  /\ put \in Nat /\ failed \in BOOLEAN
  /\ \E a, b \in Nat : Chain(wire, 0, a) /\ Chain(bytes, a, b) /\ Chain(rest, b, put)
  /\ Len(bytes) <= Size
  /\ ~failed => /\ Run(wire, 0) /\ Run(bytes, Len(wire)) /\ Run(rest, Len(wire) + Len(bytes))
                /\ put = Len(wire) + Len(bytes) + Len(rest)

LEMMA OutTypes ==
  ASSUME OutKnown
  PROVE  /\ wire \in Seq(Nat) /\ bytes \in Seq(Nat) /\ rest \in Seq(Nat)
         /\ Len(wire) \in Nat /\ Len(bytes) \in Nat /\ Len(rest) \in Nat
BY LenProperties DEF OutKnown, Chain

LEMMA NoneIs == <<>> \in Seq(Nat) /\ Len(<<>>) = 0
OBVIOUS

LEMMA RunNone ==
  ASSUME NEW lo
  PROVE  Run(<<>>, lo)
BY NoneIs DEF Run

LEMMA FlushKeeps ==
  ASSUME U!BufferAssumption, OutKnown, U!Flush
  PROVE  OutKnown'
<1>1. PICK a \in Nat, b \in Nat : Chain(wire, 0, a) /\ Chain(bytes, a, b) /\ Chain(rest, b, put)
  BY DEF OutKnown
<1>2. PICK k \in U!Stubborn(bytes) :
        wire' = wire \o U!Sent(bytes, k) /\ failed' = (failed \/ k < Len(bytes))
  BY DEF U!Flush
<1>3. bytes' = <<>> /\ rest' = rest /\ rest = <<>> /\ put' = put /\ put \in Nat /\ failed \in BOOLEAN
  BY DEF U!Flush, OutKnown
<1>4. /\ Chain(U!Sent(bytes, k), a, b) /\ k \in 0 .. Len(bytes) /\ Len(bytes) \in Nat
      /\ k = Len(bytes) => U!Sent(bytes, k) = bytes
  BY <1>1, SentIs
<1>5. Chain(wire', 0, b) /\ Chain(bytes', b, b) /\ Chain(rest', b, put')
  BY <1>1, <1>2, <1>3, <1>4, ChainJoined, ChainNone
<1>6. Len(bytes') <= Size
  BY <1>3, NoneIs DEF U!BufferAssumption
<1>7. ASSUME ~failed'
      PROVE  /\ Run(wire', 0) /\ Run(bytes', Len(wire')) /\ Run(rest', Len(wire') + Len(bytes'))
             /\ put' = Len(wire') + Len(bytes') + Len(rest')
  <2>1. ~failed /\ wire' = wire \o bytes
    <3>1. ~failed /\ ~(k < Len(bytes))
      BY <1>2, <1>3, <1>7
    <3>2. k = Len(bytes)
      BY <1>4, <3>1
    <3> QED
      BY <1>2, <1>4, <3>1, <3>2
  <2>2. /\ Run(wire, 0) /\ Run(bytes, 0 + Len(wire)) /\ put = Len(wire) + Len(bytes) + 0
        /\ wire \in Seq(Nat) /\ bytes \in Seq(Nat) /\ Len(wire) \in Nat
    BY <1>3, <2>1, OutTypes, NoneIs DEF OutKnown
  <2>3. Run(wire', 0)
    BY <2>1, <2>2, RunJoined
  <2>4. Len(wire') = Len(wire) + Len(bytes)
    BY <2>1, <2>2, Joined
  <2> QED
    BY <1>3, <1>4, <2>2, <2>3, <2>4, RunNone, NoneIs
<1> QED
  BY <1>1, <1>2, <1>3, <1>5, <1>6, <1>7 DEF OutKnown

LEMMA PutKeeps ==
  ASSUME U!BufferAssumption, OutKnown, NEW n \in Lens, U!Put(n)
  PROVE  OutKnown'
<1> DEFINE new == U!New(n)
<1>1. PICK a \in Nat, b \in Nat : Chain(wire, 0, a) /\ Chain(bytes, a, b) /\ Chain(rest, b, put)
  BY DEF OutKnown
<1>2. /\ rest' = rest /\ rest = <<>> /\ put' = put + n /\ put \in Nat /\ failed \in BOOLEAN
      /\ n \in Nat /\ put' \in Nat /\ Size \in Nat /\ Size > 0
  BY DEF U!Put, OutKnown, U!BufferAssumption
<1>3. Chain(new, put, put') /\ Run(new, put) /\ Len(new) = n /\ new \in Seq(Nat)
  BY <1>2, NewIs DEF Run
<1>4. /\ Len(bytes) \in Nat /\ Len(wire) \in Nat /\ bytes \in Seq(Nat) /\ wire \in Seq(Nat)
      /\ Len(bytes) <= Size
  BY OutTypes DEF OutKnown
<1>5. b <= put /\ a <= b
  BY <1>1 DEF Chain
<1> HIDE DEF new
<1>6. CASE bytes' = bytes \o new /\ wire' = wire /\ failed' = failed /\ ~U!DoesntFit(new)
  <2>1. Chain(bytes, a, put)
    BY <1>1, <1>2, <1>5, ChainWider
  <2>2. Chain(wire', 0, a) /\ Chain(bytes', a, put') /\ Chain(rest', put', put')
    <3>1. Chain(wire', 0, a)
      BY <1>1, <1>6
    <3>2. Chain(bytes', a, put')
      BY <1>3, <1>6, <2>1, ChainJoined
    <3>3. Chain(rest', put', put')
      BY <1>2, ChainNone
    <3> QED
      BY <3>1, <3>2, <3>3
  <2>3. Len(bytes') = Len(bytes) + n
    BY <1>3, <1>4, <1>6, Joined
  <2>4. Len(bytes') <= Size
    BY <1>2, <1>3, <1>4, <1>6, <2>3 DEF U!DoesntFit
  <2>5. ASSUME ~failed'
        PROVE  /\ Run(wire', 0) /\ Run(bytes', Len(wire')) /\ Run(rest', Len(wire') + Len(bytes'))
               /\ put' = Len(wire') + Len(bytes') + Len(rest')
    <3>1. /\ Run(wire, 0) /\ Run(bytes, Len(wire)) /\ put = Len(wire) + Len(bytes) + 0
      BY <1>2, <1>6, <2>5, NoneIs DEF OutKnown
    <3>2. put = Len(wire) + Len(bytes)
      BY <1>4, <3>1
    <3>3. Run(bytes', Len(wire))
      BY <1>3, <1>4, <1>6, <3>1, <3>2, RunJoined
    <3> QED
      BY <1>2, <1>4, <1>6, <2>3, <3>1, <3>2, <3>3, RunNone, NoneIs
  <2> QED
    BY <1>1, <1>2, <1>6, <2>2, <2>4, <2>5 DEF OutKnown
<1>7. CASE U!DoesntFit(new)
  <2>1. PICK k \in U!Stubborn(bytes), j \in U!Stubborn(new) :
          /\ (k < Len(bytes) \/ n <= Size) => j = 0
          /\ wire' = wire \o U!Sent(bytes, k) \o U!Sent(new, j)
          /\ failed' = (failed \/ k < Len(bytes) \/ (n > Size /\ j < n))
          /\ bytes' = IF k < Len(bytes) \/ n > Size THEN <<>> ELSE new
    BY <1>7 DEF U!Put, new
  <2> DEFINE old == U!Sent(bytes, k)
             now == U!Sent(new, j)
  <2>2. /\ Chain(old, a, b) /\ k \in 0 .. Len(bytes) /\ (k = Len(bytes) => old = bytes)
        /\ Chain(now, put, put') /\ j \in 0 .. Len(new) /\ (j = Len(new) => now = new)
    BY <1>1, <1>3, SentIs
  <2>3. j = 0 => now = <<>>
    <3>1. SUFFICES ASSUME j = 0 PROVE now = <<>>
      OBVIOUS
    <3>2. now = SubSeq(new, 1, 0)
      BY <3>1 DEF U!Sent
    <3> QED
      BY <1>3, <3>2, SubSeqEmpty, NoneIs
  <2> HIDE DEF old, now
  <2>4. Chain(wire \o old, 0, put)
    <3>1. Chain(wire \o old, 0, b)
      BY <1>1, <2>2, ChainJoined
    <3> QED
      BY <1>2, <1>5, <3>1, ChainWider
  <2>5. \E c, d \in Nat : Chain(wire', 0, c) /\ Chain(bytes', c, d) /\ Chain(rest', d, put')
    <3>1. CASE k < Len(bytes) \/ n > Size
      <4>1. Chain(wire', 0, put')
        BY <2>1, <2>2, <2>4, ChainJoined DEF old, now
      <4>2. Chain(bytes', put', put') /\ Chain(rest', put', put')
        BY <1>2, <2>1, <3>1, ChainNone
      <4> QED
        BY <1>2, <4>1, <4>2
    <3>2. CASE ~(k < Len(bytes) \/ n > Size)
      <4>1. j = 0 /\ bytes' = new
        BY <1>2, <2>1, <3>2
      <4>2. Chain(<<>>, put, put)
        BY <1>2, ChainNone
      <4>3. wire' = (wire \o old) \o <<>>
        BY <2>1, <2>3, <4>1 DEF old, now
      <4>4. Chain(wire', 0, put)
        BY <2>4, <4>2, <4>3, ChainJoined
      <4>5. Chain(bytes', put, put') /\ Chain(rest', put', put')
        BY <1>2, <1>3, <4>1, ChainNone
      <4> QED
        BY <1>2, <4>4, <4>5
    <3> QED
      BY <3>1, <3>2
  <2>6. Len(bytes') <= Size
    BY <1>2, <1>3, <2>1, NoneIs DEF new
  <2>7. ASSUME ~failed'
        PROVE  /\ Run(wire', 0) /\ Run(bytes', Len(wire')) /\ Run(rest', Len(wire') + Len(bytes'))
               /\ put' = Len(wire') + Len(bytes') + Len(rest')
    <3>1. ~failed /\ ~(k < Len(bytes)) /\ ~(n > Size /\ j < n)
      BY <1>2, <2>1, <2>7
    <3>2. k = Len(bytes) /\ old = bytes
      BY <1>4, <2>2, <3>1
    <3>3. Run(wire, 0) /\ Run(bytes, 0 + Len(wire)) /\ put = Len(wire) + Len(bytes) + 0
      BY <1>2, <1>4, <3>1, NoneIs DEF OutKnown
    <3> DEFINE w == wire \o bytes
    <3>4. Run(w, 0) /\ Len(w) = put /\ w \in Seq(Nat)
      BY <1>4, <3>3, RunJoined, Joined
    <3>5. wire' = w \o now
      BY <2>1, <3>2 DEF old, now
    <3> HIDE DEF w
    <3>6. CASE n > Size
      <4>1. j = Len(new) /\ now = new /\ bytes' = <<>>
        BY <1>2, <1>3, <2>1, <2>2, <3>1, <3>6 DEF new
      <4>2. Run(now, 0 + Len(w)) /\ Len(new) = n /\ new \in Seq(Nat)
        <5>1. Run(new, put) /\ Len(new) = n /\ new \in Seq(Nat)
          BY <1>3 DEF new
        <5>2. 0 + Len(w) = put
          BY <1>2, <3>4
        <5> QED
          BY <4>1, <5>1, <5>2
      <4>3. Run(wire', 0) /\ Len(wire') = put + n
        <5>1. Run(wire', 0)
          BY <3>4, <3>5, <4>2, RunJoined
        <5>2. Len(wire') = Len(w) + Len(now)
          BY <3>4, <3>5, <4>1, <4>2, Joined
        <5> QED
          BY <3>4, <4>1, <4>2, <5>1, <5>2
      <4> QED
        BY <1>2, <4>1, <4>3, RunNone, NoneIs
    <3>7. CASE ~(n > Size)
      <4>1. j = 0 /\ bytes' = new
        BY <1>2, <2>1, <3>1, <3>7
      <4>2. wire' = w \o <<>>
        BY <2>3, <3>5, <4>1
      <4>3. wire' = w
        BY <3>4, <4>2, ConcatEmptySeq
      <4>4. Run(bytes', Len(wire')) /\ Len(bytes') = n
        BY <1>3, <3>4, <4>1, <4>3
      <4> QED
        BY <1>2, <3>4, <4>3, <4>4, RunNone, NoneIs
    <3> QED
      BY <3>6, <3>7
  <2>8. failed' \in BOOLEAN
    BY <1>2, <2>1
  <2> QED
    BY <1>2, <2>5, <2>6, <2>7, <2>8 DEF OutKnown
<1> QED
  BY <1>6, <1>7 DEF U!Put, new

LEMMA AlignKeeps ==
  ASSUME U!BufferAssumption, OutKnown, NEW n \in Lens, U!PutAlign(n)
  PROVE  OutKnown'
<1> DEFINE new == U!New(n)
<1>1. PICK a \in Nat, b \in Nat : Chain(wire, 0, a) /\ Chain(bytes, a, b) /\ Chain(rest, b, put)
  BY DEF OutKnown
<1>2. /\ rest' = new /\ rest = <<>> /\ put' = put + n /\ put \in Nat /\ failed \in BOOLEAN
      /\ n \in Nat /\ put' \in Nat /\ bytes' = bytes /\ wire' = wire /\ failed' = failed
  BY DEF U!PutAlign, OutKnown, U!BufferAssumption
<1>3. Chain(new, put, put') /\ Run(new, put) /\ Len(new) = n
  BY <1>2, NewIs
<1> HIDE DEF new
<1>4. b <= put /\ put' <= put'
  BY <1>1, <1>2 DEF Chain
<1>5. Chain(wire', 0, a) /\ Chain(bytes', a, b) /\ Chain(rest', b, put')
  BY <1>1, <1>2, <1>3, <1>4, ChainWider
<1>6. ASSUME ~failed'
      PROVE  /\ Run(wire', 0) /\ Run(bytes', Len(wire')) /\ Run(rest', Len(wire') + Len(bytes'))
             /\ put' = Len(wire') + Len(bytes') + Len(rest')
  <2>1. /\ Run(wire, 0) /\ Run(bytes, Len(wire)) /\ put = Len(wire) + Len(bytes) + 0
    BY <1>2, <1>6, NoneIs DEF OutKnown
  <2>2. put = Len(wire) + Len(bytes)
    BY <2>1, OutTypes
  <2> QED
    BY <1>2, <1>3, <2>1, <2>2
<1>7. Len(bytes') <= Size
  BY <1>2 DEF OutKnown
<1> QED
  BY <1>1, <1>2, <1>5, <1>6, <1>7 DEF OutKnown

LEMMA AlignStepKeeps ==
  ASSUME U!BufferAssumption, OutKnown, U!PutAlignStep
  PROVE  OutKnown'
<1>1. PICK a \in Nat, b \in Nat : Chain(wire, 0, a) /\ Chain(bytes, a, b) /\ Chain(rest, b, put)
  BY DEF OutKnown
<1>2. put' = put /\ put \in Nat /\ failed \in BOOLEAN /\ Size \in Nat /\ Size > 0
  BY DEF U!PutAlignStep, OutKnown, U!BufferAssumption
<1>3. /\ Len(bytes) \in Nat /\ Len(wire) \in Nat /\ Len(rest) \in Nat /\ Len(bytes) <= Size
      /\ bytes \in Seq(Nat) /\ wire \in Seq(Nat) /\ rest \in Seq(Nat)
  BY OutTypes DEF OutKnown
<1>4. CASE ~U!DoesntFit(rest)
  <2>1. bytes' = bytes \o rest /\ rest' = <<>> /\ wire' = wire /\ failed' = failed
    BY <1>4 DEF U!PutAlignStep
  <2>2. Chain(wire', 0, a) /\ Chain(bytes', a, put') /\ Chain(rest', put', put')
    BY <1>1, <1>2, <2>1, ChainJoined, ChainNone
  <2>3. Len(bytes') = Len(bytes) + Len(rest)
    BY <1>3, <2>1, Joined
  <2>4. Len(bytes') <= Size
    BY <1>2, <1>3, <1>4, <2>3 DEF U!DoesntFit
  <2>5. ASSUME ~failed'
        PROVE  /\ Run(wire', 0) /\ Run(bytes', Len(wire')) /\ Run(rest', Len(wire') + Len(bytes'))
               /\ put' = Len(wire') + Len(bytes') + Len(rest')
    <3>1. /\ Run(wire, 0) /\ Run(bytes, Len(wire)) /\ Run(rest, Len(wire) + Len(bytes))
          /\ put = Len(wire) + Len(bytes) + Len(rest)
      BY <2>1, <2>5 DEF OutKnown
    <3>2. Run(bytes', Len(wire))
      BY <1>3, <2>1, <3>1, RunJoined
    <3> QED
      BY <1>2, <1>3, <2>1, <2>3, <3>1, <3>2, RunNone, NoneIs
  <2> QED
    BY <1>1, <1>2, <2>1, <2>2, <2>4, <2>5 DEF OutKnown
<1>5. CASE U!DoesntFit(rest)
  <2> DEFINE tmp == Size - Len(bytes)
             head == SubSeq(rest, 1, tmp)
             tail == SubSeq(rest, tmp + 1, Len(rest))
             all == bytes \o head
  <2>1. tmp \in 0 .. Len(rest) /\ tmp \in Nat
    BY <1>2, <1>3, <1>5 DEF U!DoesntFit
  <2>2. PICK k \in U!Stubborn(all) :
          /\ wire' = wire \o U!Sent(all, k) /\ failed' = (failed \/ k < Size) /\ bytes' = <<>>
          /\ rest' = IF k < Size THEN <<>> ELSE tail
    BY <1>5 DEF U!PutAlignStep
  <2>3. PICK mid \in Nat : Chain(head, b, mid) /\ Chain(tail, mid, put)
    <3> HIDE DEF tmp
    <3> QED
      BY <1>1, <2>1, ChainCut
  <2>4. Chain(all, a, mid)
    <3> HIDE DEF head
    <3> QED
      BY <1>1, <2>3, ChainJoined
  <2>5. Len(all) = Size
    <3>1. Len(head) = tmp /\ head \in Seq(Nat)
      <4> HIDE DEF tmp
      <4>1. SubSeq(rest, 0 + 1, tmp) \in Seq(Nat) /\ Len(SubSeq(rest, 0 + 1, tmp)) = tmp - 0
        BY <1>3, <2>1, Piece
      <4> QED
        BY <2>1, <4>1
    <3> HIDE DEF head
    <3>2. Len(all) = Len(bytes) + Len(head)
      BY <1>3, <3>1, Joined
    <3> QED
      BY <1>2, <1>3, <3>1, <3>2
  <2> HIDE DEF all, tail
  <2>6. /\ Chain(U!Sent(all, k), a, mid) /\ k \in 0 .. Size
        /\ k = Size => U!Sent(all, k) = all
    BY <2>4, <2>5, SentIs
  <2>7. Chain(wire', 0, mid) /\ Chain(bytes', mid, mid) /\ Chain(rest', mid, put')
    <3>1. mid <= put
      BY <2>3 DEF Chain
    <3>2. Chain(<<>>, mid, put)
      BY <1>2, <3>1, ChainNone
    <3>3. rest' = <<>> \/ rest' = tail
      BY <2>2
    <3> QED
      BY <1>1, <1>2, <2>2, <2>3, <2>6, <3>2, <3>3, ChainJoined, ChainNone
  <2>8. Len(bytes') <= Size
    BY <1>2, <2>2, NoneIs
  <2>9. ASSUME ~failed'
        PROVE  /\ Run(wire', 0) /\ Run(bytes', Len(wire')) /\ Run(rest', Len(wire') + Len(bytes'))
               /\ put' = Len(wire') + Len(bytes') + Len(rest')
    <3>1. ~failed /\ ~(k < Size)
      BY <1>2, <2>2, <2>9
    <3>2. k = Size /\ rest' = tail /\ wire' = wire \o all
      <4>1. k = Size
        BY <1>2, <2>6, <3>1
      <4> QED
        BY <2>2, <2>6, <3>1, <4>1
    <3>3. /\ Run(wire, 0) /\ Run(bytes, Len(wire)) /\ Run(rest, Len(wire) + Len(bytes))
          /\ put = Len(wire) + Len(bytes) + Len(rest)
      BY <3>1 DEF OutKnown
    <3>4. /\ Run(head, Len(wire) + Len(bytes)) /\ Run(tail, Len(wire) + Len(bytes) + tmp)
          /\ Len(tail) = Len(rest) - tmp
      <4>1. Len(wire) + Len(bytes) \in Int
        BY <1>3
      <4> HIDE DEF tmp
      <4> QED
        BY <2>1, <3>3, <4>1, RunCut DEF tail
    <3>5. Run(all, Len(wire))
      <4> HIDE DEF head
      <4> QED
        BY <1>3, <3>3, <3>4, RunJoined DEF all
    <3>6. Run(wire', 0)
      <4>1. Run(all, 0 + Len(wire))
        BY <1>3, <3>5
      <4> QED
        BY <3>2, <3>3, <4>1, RunJoined
    <3>7. Len(wire') = Len(wire) + Size
      <4>1. all \in Seq(Nat)
        BY <2>4 DEF Chain
      <4>2. Len(wire') = Len(wire) + Len(all)
        BY <1>3, <3>2, <4>1, Joined
      <4> QED
        BY <2>5, <4>2
    <3>8. Len(wire) + Len(bytes) + tmp = Len(wire) + Size
      BY <1>2, <1>3
    <3>9. Run(rest', Len(wire') + 0)
      <4>1. Len(wire') + 0 = Len(wire) + Len(bytes) + tmp
        BY <1>2, <1>3, <3>7, <3>8
      <4> QED
        BY <3>2, <3>4, <4>1
    <3>10. put' = Len(wire') + 0 + Len(rest')
      BY <1>2, <1>3, <3>2, <3>3, <3>4, <3>7
    <3> QED
      BY <2>2, <3>6, <3>9, <3>10, RunNone, NoneIs
  <2>10. failed' \in BOOLEAN
    BY <1>2, <2>2
  <2> QED
    BY <1>1, <1>2, <2>7, <2>8, <2>9, <2>10 DEF OutKnown
<1> QED
  BY <1>4, <1>5

(* What a call has copied goes on where the last one ended, and the bytes  *)
(* of the last read behind it; a line in the making has no separator.      *)
Calls == {"idle", "get", "getn", "token", "token_sa"}
InKnown ==
  /\ bytes \in Seq(Nat) /\ dest \in Seq(Nat) /\ p \in 0 .. Len(bytes)
  /\ told \in Nat \ {0} /\ taken \in Nat /\ want \in Nat /\ pc \in Calls
  /\ pc \in {"get", "getn", "token"} => want # 0
  /\ told + Len(dest) + (Len(bytes) - p) = taken + 1
  /\ Run(dest, told - 1)
  /\ Run(bytes, taken - Len(bytes))
  /\ pc \in {"token", "token_sa", "idle"} => \A i \in 1 .. Len(dest) : source[dest[i]] # "sep"

BufferInv == dir \in {"out", "in"} /\ (dir = "out" => OutKnown) /\ (dir = "in" => InKnown)

LEMMA InTypes ==
  ASSUME InKnown
  PROVE  /\ Len(bytes) \in Nat /\ Len(dest) \in Nat /\ p \in Nat /\ p <= Len(bytes)
         /\ taken - Len(bytes) + p = told - 1 + Len(dest)
<1>1. Len(bytes) \in Nat /\ Len(dest) \in Nat
  BY LenProperties DEF InKnown
<1> QED
  BY <1>1 DEF InKnown

(* A call that copies n bytes.                                             *)
LEMMA CopiedIs ==
  ASSUME InKnown, NEW n \in Nat, p + n <= Len(bytes)
  PROVE  LET now == dest \o SubSeq(bytes, p + 1, p + n)
         IN  /\ now \in Seq(Nat) /\ Len(now) = Len(dest) + n /\ Run(now, told - 1)
             /\ \A i \in 1 .. Len(dest) : now[i] = dest[i]
<1> DEFINE q == p + n
           piece == SubSeq(bytes, p + 1, q)
           now == dest \o piece
<1>1. /\ Len(bytes) \in Nat /\ Len(dest) \in Nat /\ p \in Nat /\ q \in Nat /\ p <= q /\ q <= Len(bytes)
      /\ bytes \in Seq(Nat) /\ dest \in Seq(Nat) /\ q - p = n /\ told - 1 \in Int
      /\ taken - Len(bytes) + p = told - 1 + Len(dest)
  BY InTypes DEF InKnown
<1> HIDE DEF q
<1>2. piece \in Seq(Nat) /\ Len(piece) = n /\ \A i \in 1 .. n : piece[i] = bytes[p + i]
  <2>1. /\ SubSeq(bytes, p + 1, q) \in Seq(Nat) /\ Len(SubSeq(bytes, p + 1, q)) = q - p
        /\ \A i \in 1 .. q - p : SubSeq(bytes, p + 1, q)[i] = bytes[p + i]
    BY <1>1, Piece
  <2>2. q - p = n
    BY <1>1
  <2> QED
    BY <2>1, <2>2
<1> HIDE DEF piece
<1>3. Run(piece, told - 1 + Len(dest))
  <2>1. ASSUME NEW i \in 1 .. n PROVE piece[i] = told - 1 + Len(dest) + i
    <3>1. p + i \in 1 .. Len(bytes)
      BY <1>1
    <3>2. bytes[p + i] = taken - Len(bytes) + (p + i)
      BY <3>1 DEF InKnown, Run
    <3>3. taken - Len(bytes) + (p + i) = told - 1 + Len(dest) + i
      <4>1. taken \in Nat /\ told \in Nat /\ i \in Nat
        BY DEF InKnown
      <4> QED
        BY <1>1, <4>1
    <3> QED
      BY <1>2, <3>2, <3>3
  <2> QED
    BY <1>2, <2>1 DEF Run
<1>4. Run(now, told - 1)
  <2> DEFINE lo == told - 1
  <2>1. lo \in Int /\ Run(dest, lo) /\ Run(piece, lo + Len(dest))
    BY <1>1, <1>3 DEF InKnown
  <2> HIDE DEF lo
  <2>2. Run(now, lo)
    BY <2>1, RunJoined
  <2> QED
    BY <2>2 DEF lo
<1>5. /\ now \in Seq(Nat) /\ Len(now) = Len(dest) + n
      /\ \A i \in 1 .. Len(dest) : now[i] = dest[i]
  <2>1. /\ now \in Seq(Nat) /\ Len(now) = Len(dest) + n
        /\ \A i \in 1 .. Len(now) : now[i] = IF i <= Len(dest) THEN dest[i] ELSE piece[i - Len(dest)]
    BY <1>1, <1>2, Joined
  <2> HIDE DEF now
  <2>2. \A i \in 1 .. Len(dest) : i \in 1 .. Len(now) /\ i <= Len(dest)
    BY <1>1, <2>1
  <2> QED
    BY <2>1, <2>2
<1> QED
  BY <1>4, <1>5 DEF q, piece

LEMMA CopyKeeps ==
  ASSUME U!BufferAssumption, InKnown, U!Copy
  PROVE  InKnown'
<1> DEFINE n == U!Copied
           now == dest \o SubSeq(bytes, p + 1, p + n)
<1>1. /\ Len(bytes) \in Nat /\ Len(dest) \in Nat /\ p \in Nat /\ p < Len(bytes)
      /\ bytes \in Seq(Nat) /\ told \in Nat \ {0} /\ taken \in Nat /\ want \in Nat /\ pc \in Calls
      /\ told + Len(dest) + (Len(bytes) - p) = taken + 1 /\ pc # "idle"
      /\ pc # "token_sa" => want # 0
  BY InTypes DEF InKnown, U!Copy, U!Empty, Calls
<1>2. n \in Nat /\ p + n <= Len(bytes) /\ n > 0 /\ (pc # "token_sa" => n <= want)
      /\ (pc \in {"token", "token_sa"} => n = 1)
  BY <1>1 DEF U!Copied
<1> HIDE DEF n
<1>3. now \in Seq(Nat) /\ Len(now) = Len(dest) + n /\ Run(now, told - 1)
      /\ \A i \in 1 .. Len(dest) : now[i] = dest[i]
  BY <1>2, CopiedIs
<1> DEFINE sep == pc \in {"token", "token_sa"} /\ source[now[Len(now)]] = "sep"
<1>4. /\ bytes' = bytes /\ taken' = taken /\ source' = source /\ p' = p + n
      /\ IF sep \/ (pc # "token_sa" /\ want = n)
         THEN pc' = "idle" /\ want' = 0 /\ told' = told + Len(now) /\ dest' = <<>>
         ELSE /\ dest' = now /\ want' = IF pc = "token_sa" THEN want ELSE want - n
              /\ pc' = pc /\ told' = told
  BY DEF U!Copy, U!Return, U!inside, n, U!Last
<1>5. Run(bytes', taken' - Len(bytes')) /\ p' \in 0 .. Len(bytes')
  BY <1>1, <1>2, <1>4 DEF InKnown
<1> HIDE DEF now
<1>6. CASE sep \/ (pc # "token_sa" /\ want = n)
  <2>1. pc' = "idle" /\ want' = 0 /\ told' = told + Len(now) /\ dest' = <<>>
    BY <1>4, <1>6
  <2>2. told' \in Nat \ {0}
    <3>1. told' = told + Len(now)
      BY <2>1
    <3>2. told \in Nat \ {0} /\ Len(now) \in Nat
      BY <1>1, <1>2, <1>3
    <3> QED
      BY <3>1, <3>2
  <2>3. Len(dest') = 0 /\ dest' \in Seq(Nat)
    BY <2>1, NoneIs
  <2>4. told' + Len(dest') + (Len(bytes') - p') = taken' + 1
    <3>1. /\ told' = told + (Len(dest) + n) /\ Len(dest') = 0 /\ Len(bytes') = Len(bytes)
          /\ p' = p + n /\ taken' = taken
      BY <1>3, <1>4, <2>1, <2>3
    <3> QED
      BY <1>1, <1>2, <3>1
  <2>5. Run(dest', told' - 1)
    BY <2>1, RunNone
  <2> QED
    BY <1>1, <1>4, <1>5, <2>1, <2>2, <2>3, <2>4, <2>5 DEF InKnown, Calls
<1>7. CASE ~sep /\ ~(pc # "token_sa" /\ want = n)
  <2>1. dest' = now /\ pc' = pc /\ told' = told /\ want' = IF pc = "token_sa" THEN want ELSE want - n
    BY <1>4, <1>7
  <2>2. want' \in Nat /\ (pc' # "token_sa" => want' # 0)
    BY <1>1, <1>2, <1>7, <2>1
  <2>3. told' + Len(dest') + (Len(bytes') - p') = taken' + 1
    <3>1. /\ told' = told /\ Len(dest') = Len(dest) + n /\ Len(bytes') = Len(bytes)
          /\ p' = p + n /\ taken' = taken
      BY <1>3, <1>4, <2>1
    <3> QED
      BY <1>1, <1>2, <3>1
  <2>4. pc' \in {"token", "token_sa", "idle"} => \A i \in 1 .. Len(dest') : source'[dest'[i]] # "sep"
    <3>1. SUFFICES ASSUME pc \in {"token", "token_sa"}, NEW i \in 1 .. Len(now)
                   PROVE  source[now[i]] # "sep"
      BY <1>1, <1>4, <2>1
    <3>2. n = 1 /\ Len(now) = Len(dest) + 1 /\ source[now[Len(now)]] # "sep"
      BY <1>2, <1>3, <1>7, <3>1
    <3>3. CASE i = Len(now)
      BY <3>2, <3>3
    <3>4. CASE i \in 1 .. Len(dest)
      BY <1>3, <3>1, <3>4 DEF InKnown
    <3> QED
      BY <1>1, <3>2, <3>3, <3>4
  <2> QED
    BY <1>1, <1>3, <1>4, <1>5, <2>1, <2>2, <2>3, <2>4 DEF InKnown
<1> QED
  BY <1>6, <1>7

LEMMA FeedKeeps ==
  ASSUME U!BufferAssumption, InKnown, U!Feed
  PROVE  InKnown'
<1>1. PICK w \in 1 .. Size :
        bytes' = [i \in 1 .. w |-> taken + i] /\ p' = 0 /\ taken' = taken + w
  BY DEF U!Feed
<1>2. /\ pc' = pc /\ want' = want /\ dest' = dest /\ told' = told /\ source' = source
      /\ p = Len(bytes)
  BY DEF U!Feed, U!inside, U!Empty
<1>3. w \in Nat /\ taken \in Nat /\ Len(bytes) \in Nat /\ Len(dest) \in Nat /\ told \in Nat \ {0}
  BY <1>1, InTypes DEF InKnown, U!BufferAssumption
<1>4. bytes' \in Seq(Nat) /\ Len(bytes') = w /\ \A i \in 1 .. w : bytes'[i] = taken + i
  <2>1. bytes' \in [1 .. w -> Nat]
    BY <1>1, <1>3
  <2> QED
    BY <1>1, <1>3, <2>1, LenProperties
<1>5. Run(bytes', taken' - Len(bytes'))
  <2>1. taken' - Len(bytes') = taken
    BY <1>1, <1>3, <1>4
  <2> QED
    BY <1>4, <2>1 DEF Run
<1>6. told' + Len(dest') + (Len(bytes') - p') = taken' + 1
  <2>1. told + Len(dest) + (Len(bytes) - p) = taken + 1
    BY DEF InKnown
  <2>2. told + Len(dest) = taken + 1
    BY <1>2, <1>3, <2>1
  <2>3. /\ told' = told /\ Len(dest') = Len(dest) /\ Len(bytes') = w
        /\ p' = 0 /\ taken' = taken + w
    BY <1>1, <1>2, <1>4
  <2> QED
    BY <1>3, <2>2, <2>3
<1> QED
  BY <1>1, <1>2, <1>3, <1>4, <1>5, <1>6 DEF InKnown

LEMMA NothingKeeps ==
  ASSUME U!BufferAssumption, InKnown, U!FeedNothing
  PROVE  InKnown'
<1>1. p = Len(bytes) /\ taken' = taken /\ source' = source /\ pc \in Calls
  BY DEF U!FeedNothing, U!Empty, U!inside, InKnown
<1>2. \/ bytes' = <<>> /\ p' = 0
      \/ bytes' = bytes /\ p' = p
  BY DEF U!FeedNothing
<1>3. /\ Len(bytes) \in Nat /\ Len(dest) \in Nat /\ told \in Nat \ {0} /\ taken \in Nat
      /\ told + Len(dest) = taken + 1
  <2>1. Len(bytes) \in Nat /\ Len(dest) \in Nat /\ told \in Nat \ {0} /\ taken \in Nat
        /\ told + Len(dest) + (Len(bytes) - p) = taken + 1
    BY InTypes DEF InKnown
  <2> QED
    BY <1>1, <2>1
<1>4. bytes' \in Seq(Nat) /\ p' \in 0 .. Len(bytes') /\ Run(bytes', taken' - Len(bytes'))
      /\ Len(bytes') \in Nat /\ p' = Len(bytes')
  <2>1. CASE bytes' = <<>> /\ p' = 0
    BY <2>1, NoneIs, RunNone
  <2>2. CASE bytes' = bytes /\ p' = p
    BY <1>1, <1>3, <2>2 DEF InKnown
  <2> QED
    BY <1>2, <2>1, <2>2
<1>5. pc' = "idle" /\ want' = 0
  BY DEF U!FeedNothing, U!Return
<1>6. CASE dest' = dest /\ told' = told /\ pc = "token_sa"
  <2>1. told' + Len(dest') + (Len(bytes') - p') = taken' + 1
    BY <1>1, <1>3, <1>4, <1>6
  <2> QED
    BY <1>1, <1>4, <1>5, <1>6, <2>1 DEF InKnown, Calls
<1>7. CASE dest' = <<>> /\ told' = told + Len(dest)
  <2>1. told' \in Nat \ {0} /\ dest' \in Seq(Nat) /\ Len(dest') = 0 /\ Run(dest', told' - 1)
    BY <1>3, <1>7, NoneIs, RunNone
  <2>2. told' + Len(dest') + (Len(bytes') - p') = taken' + 1
    <3>1. Len(bytes') - p' = 0
      BY <1>4
    <3>2. told' = taken' + 1 /\ Len(dest') = 0 /\ taken' \in Nat
      BY <1>1, <1>3, <1>7, <2>1
    <3> QED
      BY <3>1, <3>2
  <2>3. \A i \in 1 .. Len(dest') : FALSE
    BY <2>1
  <2>4. pc' \in Calls /\ want' \in Nat /\ taken' \in Nat /\ pc' \notin {"get", "getn", "token"}
    BY <1>1, <1>3, <1>5 DEF Calls
  <2> QED
    BY <1>4, <2>1, <2>2, <2>3, <2>4 DEF InKnown
<1> QED
  BY <1>6, <1>7 DEF U!FeedNothing, U!Return

LEMMA CallKeeps ==
  ASSUME U!BufferAssumption, InKnown,
         NEW f \in Calls \ {"idle"}, NEW n \in Nat, f # "token_sa" => n # 0, U!Call(f, n)
  PROVE  InKnown'
<1>1. /\ pc = "idle" /\ pc' = f /\ want' = n /\ dest' = dest
      /\ bytes' = bytes /\ p' = p /\ source' = source /\ taken' = taken /\ told' = told
  BY DEF U!Call
<1> QED
  BY <1>1 DEF InKnown, Calls

LEMMA SeekKeeps ==
  ASSUME U!BufferAssumption, InKnown, NEW n \in Lens, U!Seek(n)
  PROVE  InKnown'
<1>1. n \in Nat
  BY DEF U!BufferAssumption
<1>2. /\ pc = "idle" /\ dest = <<>> /\ pc' = pc /\ dest' = dest /\ want' = want
      /\ bytes' = bytes /\ source' = source /\ taken' = taken
      /\ p' = IF p + n > Len(bytes) THEN Len(bytes) ELSE p + n
      /\ told' = told + p' - p
  BY DEF U!Seek
<1>3. /\ Len(bytes) \in Nat /\ p \in Nat /\ p <= Len(bytes) /\ told \in Nat \ {0} /\ taken \in Nat
      /\ Len(dest) = 0 /\ told + 0 + (Len(bytes) - p) = taken + 1
  BY <1>2, InTypes, NoneIs DEF InKnown
<1>4. p' \in 0 .. Len(bytes') /\ told' \in Nat \ {0}
  BY <1>1, <1>2, <1>3
<1>5. told' + Len(dest') + (Len(bytes') - p') = taken' + 1
  BY <1>2, <1>3, <1>4
<1>6. Run(dest', told' - 1)
  BY <1>2, RunNone
<1> QED
  BY <1>2, <1>4, <1>5, <1>6 DEF InKnown

LEMMA InitBuffer == U!BufferAssumption /\ U!Init => BufferInv
<1> SUFFICES ASSUME U!BufferAssumption, U!Init PROVE BufferInv
  OBVIOUS
<1>1. /\ dir \in {"out", "in"} /\ bytes = <<>> /\ p = 0 /\ wire = <<>> /\ rest = <<>> /\ put = 0
      /\ failed = FALSE /\ taken = 0 /\ pc = "idle" /\ want = 0 /\ dest = <<>> /\ told = 1
  BY DEF U!Init
<1>2. /\ Chain(<<>>, 0, 0) /\ Len(<<>>) = 0 /\ <<>> \in Seq(Nat)
      /\ Run(<<>>, 0) /\ Size \in Nat
  BY ChainNone, NoneIs, RunNone DEF U!BufferAssumption
<1>3. OutKnown
  <2>1. Chain(wire, 0, 0) /\ Chain(bytes, 0, 0) /\ Chain(rest, 0, put)
    BY <1>1, <1>2
  <2>2. Len(wire) = 0 /\ Len(bytes) = 0 /\ Len(rest) = 0
    BY <1>1, <1>2
  <2>3. Run(wire, 0) /\ Run(bytes, Len(wire)) /\ Run(rest, Len(wire) + Len(bytes))
    BY <1>1, RunNone
  <2>4. \E a, b \in Nat : Chain(wire, 0, a) /\ Chain(bytes, a, b) /\ Chain(rest, b, put)
    BY <2>1
  <2>5. /\ put \in Nat /\ failed \in BOOLEAN /\ Len(bytes) <= Size
        /\ put = Len(wire) + Len(bytes) + Len(rest)
    <3>1. put = 0
      BY <1>1
    <3>2. Size \in Nat
      BY <1>2
    <3>3. failed \in BOOLEAN
      BY <1>1
    <3> QED
      BY <2>2, <3>1, <3>2, <3>3
  <2> QED
    BY <2>3, <2>4, <2>5 DEF OutKnown
<1>4. InKnown
  <2>1. bytes \in Seq(Nat) /\ dest \in Seq(Nat) /\ Len(bytes) = 0 /\ Len(dest) = 0
    BY <1>1, <1>2
  <2>2. told = 1 /\ taken = 0 /\ want = 0 /\ p = 0 /\ pc = "idle"
    BY <1>1
  <2>3. Run(dest, told - 1) /\ Run(bytes, taken - Len(bytes))
    BY <1>1, RunNone
  <2>4. \A i \in 1 .. Len(dest) : FALSE
    BY <2>1
  <2> QED
    BY <2>1, <2>2, <2>3, <2>4 DEF InKnown, Calls
<1> QED
  BY <1>1, <1>3, <1>4 DEF BufferInv

LEMMA NextBuffer ==
  ASSUME U!BufferAssumption, BufferInv, [U!Next]_U!vars
  PROVE  BufferInv'
<1>1. CASE U!Flush \/ U!PutAlignStep \/ \E n \in Lens : U!Put(n) \/ U!PutAlign(n)
  <2>1. dir = "out" /\ dir' = dir
    BY <1>1 DEF U!Flush, U!PutAlignStep, U!Put, U!PutAlign
  <2>2. OutKnown'
    BY <1>1, <2>1, FlushKeeps, PutKeeps, AlignKeeps, AlignStepKeeps DEF BufferInv
  <2> QED
    BY <2>1, <2>2 DEF BufferInv
<1>2. CASE \/ U!Feed \/ U!FeedNothing \/ U!Copy \/ \E n \in Lens : U!Seek(n)
  <2>1. dir = "in" /\ dir' = dir
    BY <1>2 DEF U!Feed, U!FeedNothing, U!Copy, U!Seek, U!inside
  <2>2. InKnown'
    BY <1>2, <2>1, FeedKeeps, NothingKeeps, CopyKeeps, SeekKeeps DEF BufferInv
  <2> QED
    BY <2>1, <2>2 DEF BufferInv
<1>3. CASE \E n \in Lens, f \in {"get", "getn", "token"} : U!Call(f, n)
  <2>1. PICK n \in Lens, f \in {"get", "getn", "token"} : U!Call(f, n)
    BY <1>3
  <2>2. n \in Nat /\ n # 0 /\ f \in Calls \ {"idle"} /\ f # "token_sa"
    BY DEF U!BufferAssumption, Calls
  <2>3. dir = "in" /\ dir' = dir
    BY <2>1 DEF U!Call
  <2>4. InKnown'
    BY <2>1, <2>2, <2>3, CallKeeps DEF BufferInv
  <2> QED
    BY <2>3, <2>4 DEF BufferInv
<1>4. CASE U!Call("token_sa", 0)
  <2>1. dir = "in" /\ dir' = dir
    BY <1>4 DEF U!Call
  <2>2. "token_sa" \in Calls \ {"idle"} /\ 0 \in Nat
    BY DEF Calls
  <2>3. InKnown'
    BY <1>4, <2>1, <2>2, CallKeeps DEF BufferInv
  <2> QED
    BY <2>1, <2>3 DEF BufferInv
<1>5. CASE U!NoMemory
  <2>1. dir = "in" /\ dir' = dir
    BY <1>5 DEF U!NoMemory, U!inside
  <2>2. /\ pc = "token_sa" /\ pc' = "idle" /\ want' = 0 /\ told' = told /\ bytes' = bytes
        /\ p' = p /\ taken' = taken /\ dest' = dest /\ source' = source
    BY <1>5 DEF U!NoMemory, U!Return, U!inside
  <2>3. InKnown'
    BY <2>1, <2>2 DEF BufferInv, InKnown, Calls
  <2> QED
    BY <2>1, <2>3 DEF BufferInv
<1>6. CASE UNCHANGED U!vars
  <2>1. /\ dir' = dir /\ bytes' = bytes /\ p' = p /\ wire' = wire /\ rest' = rest /\ put' = put
        /\ failed' = failed /\ source' = source /\ taken' = taken /\ pc' = pc /\ want' = want
        /\ dest' = dest /\ told' = told
    BY <1>6 DEF U!vars, U!outvars, U!invars
  <2>2. (dir = "out" => OutKnown)'
    BY <2>1 DEF BufferInv, OutKnown
  <2>3. (dir = "in" => InKnown)'
    BY <2>1 DEF BufferInv, InKnown
  <2> QED
    BY <2>1, <2>2, <2>3 DEF BufferInv
<1> QED
  BY <1>1, <1>2, <1>3, <1>4, <1>5, <1>6 DEF U!Next

LEMMA BufferInvHolds ==
  ASSUME U!BufferAssumption
  PROVE  U!Spec => []BufferInv
<1>1. BufferInv /\ [U!Next]_U!vars => BufferInv'
  BY NextBuffer
<1> QED
  BY InitBuffer, <1>1, PTL DEF U!Spec

(* The descriptor is given what the program put, in its order and nothing  *)
(* twice, and all of it unless a call failed: for pieces and a space of    *)
(* any length, and a descriptor that takes any part (buffer_put,           *)
(* buffer_putalign, buffer_flush, buffer_stubborn).                        *)
THEOREM BufferOutInOrder ==
  ASSUME U!BufferAssumption
  PROVE  U!Spec => []U!OutInOrder
<1>1. ASSUME BufferInv, dir = "out"
      PROVE  U!OutInOrder
  <2> DEFINE all == wire \o bytes \o rest
  <2>1. OutKnown
    BY <1>1 DEF BufferInv
  <2>2. PICK a \in Nat, b \in Nat : Chain(wire, 0, a) /\ Chain(bytes, a, b) /\ Chain(rest, b, put)
    BY <2>1 DEF OutKnown
  <2>3. Chain(all, 0, put)
    BY <2>2, ChainJoined
  <2>4. \A i \in 1 .. Len(all) - 1 : all[i] < all[i + 1]
    <3>1. Len(all) \in Nat
      BY <2>3, LenProperties DEF Chain
    <3> HIDE DEF all
    <3>2. \A i \in 1 .. Len(all) - 1 : i \in 1 .. Len(all) /\ i + 1 \in 1 .. Len(all) /\ i < i + 1
      BY <3>1
    <3> QED
      BY <2>3, <3>2 DEF Chain
  <2>5. ASSUME ~failed
        PROVE  Len(all) = put /\ \A i \in DOMAIN all : all[i] = 1 + i - 1
    <3>1. /\ Run(wire, 0) /\ Run(bytes, Len(wire)) /\ Run(rest, Len(wire) + Len(bytes))
          /\ put = Len(wire) + Len(bytes) + Len(rest)
      BY <2>1, <2>5 DEF OutKnown
    <3>2. /\ Len(bytes) \in Nat /\ Len(wire) \in Nat /\ Len(rest) \in Nat
          /\ bytes \in Seq(Nat) /\ wire \in Seq(Nat) /\ rest \in Seq(Nat)
      BY <2>1, OutTypes
    <3> DEFINE w == wire \o bytes
    <3>3. Run(bytes, 0 + Len(wire))
      BY <3>1, <3>2
    <3>4. Run(w, 0) /\ w \in Seq(Nat) /\ Len(w) = Len(wire) + Len(bytes)
      BY <3>1, <3>2, <3>3, RunJoined, Joined
    <3> HIDE DEF w
    <3>5. Run(rest, 0 + Len(w))
      BY <3>1, <3>2, <3>4
    <3>6. /\ Run(w \o rest, 0) /\ Len(w \o rest) = Len(w) + Len(rest)
          /\ DOMAIN (w \o rest) = 1 .. Len(w) + Len(rest)
      <4>1. Run(w \o rest, 0)
        BY <3>4, <3>5, RunJoined
      <4> QED
        BY <3>2, <3>4, <4>1, Joined
    <3>7. all = w \o rest
      BY DEF w
    <3> HIDE DEF all
    <3>8. Len(all) = put /\ DOMAIN all = 1 .. Len(all)
      BY <3>1, <3>4, <3>6, <3>7
    <3>9. \A i \in 1 .. Len(all) : all[i] = 0 + i /\ i \in Int
      BY <3>6, <3>7 DEF Run
    <3> QED
      BY <3>8, <3>9
  <2>6. Len(bytes) <= Size
    BY <2>1 DEF OutKnown
  <2> QED
    BY <2>4, <2>5, <2>6 DEF U!OutInOrder, U!Increasing, U!Consecutive
<1>2. BufferInv => U!OutInOrder
  BY <1>1 DEF U!OutInOrder
<1> QED
  BY BufferInvHolds, <1>2, PTL

(* What the calls that read hand on goes on where the last one ended, for  *)
(* reads of any length, ends and errors between them, and a line is handed *)
(* on at its first separator (buffer_get, buffer_getn, buffer_get_token,   *)
(* buffer_get_token_sa, buffer_seek).                                      *)
THEOREM BufferInInOrder ==
  ASSUME U!BufferAssumption
  PROVE  U!Spec => []U!InInOrder
<1>1. ASSUME BufferInv, dir = "in"
      PROVE  U!InInOrder
  <2> DEFINE n == Len(bytes) - p
             all == dest \o SubSeq(bytes, p + 1, p + n)
  <2>1. InKnown
    BY <1>1 DEF BufferInv
  <2>2. /\ n \in Nat /\ p + n = Len(bytes) /\ told \in Nat /\ Len(dest) \in Nat /\ p \in Nat
        /\ taken \in Nat /\ told + Len(dest) + n = taken + 1 /\ dest \in Seq(Nat)
    BY <2>1, InTypes DEF InKnown
  <2> HIDE DEF n
  <2>3. all \in Seq(Nat) /\ Len(all) = Len(dest) + n /\ Run(all, told - 1)
    <3>1. n \in Nat /\ p + n <= Len(bytes)
      BY <2>2
    <3> QED
      BY <2>1, <3>1, CopiedIs
  <2>4. all = dest \o SubSeq(bytes, p + 1, Len(bytes))
    BY <2>2
  <2> HIDE DEF all
  <2>5. \A i \in DOMAIN all : all[i] = told + i - 1
    <3>1. DOMAIN all = 1 .. Len(all) /\ \A i \in 1 .. Len(all) : i \in Int
      BY <2>3, LenProperties
    <3>2. \A i \in 1 .. Len(all) : all[i] = told - 1 + i
      BY <2>3 DEF Run
    <3> QED
      BY <2>2, <3>1, <3>2
  <2>6. told + Len(all) = taken + 1
    BY <2>2, <2>3
  <2>7. DOMAIN dest = 1 .. Len(dest)
    BY <2>2, LenProperties
  <2> QED
    BY <2>1, <2>4, <2>5, <2>6, <2>7 DEF U!InInOrder, U!Consecutive, InKnown
<1>2. BufferInv => U!InInOrder
  BY <1>1 DEF U!InInOrder
<1> QED
  BY BufferInvHolds, <1>2, PTL

-----------------------------------------------------------------------------
(* iob.                                                                    *)
-----------------------------------------------------------------------------
(* Iterations over the numbers from 0 to n.                                *)

LEMMA LeastNumber ==
  ASSUME NEW S \in SUBSET Nat, S # {}
  PROVE  \E c \in S : \A d \in S : c =< d
<1>0. S \subseteq Nat
  OBVIOUS
<1>1. PICK c \in S : \A d \in S : ~ (<<d, c>> \in OpToRel(<, Nat))
  BY <1>0, NatLessThanWellFounded, WFMin
<1>2. c \in Nat /\ \A d \in S : d \in Nat /\ ~ (d < c)
  BY <1>0, <1>1 DEF OpToRel
<1> QED
  BY <1>2

LEMMA NumbersIn ==
  ASSUME NEW S, 0 \in S, \A n \in Nat : n \in S => n + 1 \in S
  PROVE  \A n \in Nat : n \in S
<1>1. SUFFICES ASSUME Nat \ S # {} PROVE FALSE
  OBVIOUS
<1>2. PICK c \in Nat \ S : \A d \in Nat \ S : c =< d
  BY <1>1, LeastNumber
<1>3. c \in Nat /\ c # 0
  BY <1>2
<1>4. c - 1 \in Nat /\ ~ (c =< c - 1) /\ (c - 1) + 1 = c
  BY <1>3
<1>5. c - 1 \in S
  BY <1>2, <1>4
<1> QED
  BY <1>2, <1>4, <1>5

(* F[n][w] is what the n-th turn makes of w.                               *)
Turns(g, N, X, q, F) ==
  /\ g \in [0 .. N -> X]
  /\ g[0] = q
  /\ \A n \in 1 .. N : g[n] = F[n][g[n - 1]]

LEMMA TurnsExist ==
  ASSUME NEW X, NEW q \in X, NEW F \in [Nat -> [X -> X]]
  PROVE  \A n \in Nat : \E g : Turns(g, n, X, q, F)
<1> DEFINE S == {n \in Nat : \E g : Turns(g, n, X, q, F)}
<1>1. 0 \in S
  <2>1. Turns([m \in 0 .. 0 |-> q], 0, X, q, F)
    BY DEF Turns
  <2> QED
    BY <2>1
<1>2. ASSUME NEW n \in Nat, n \in S PROVE n + 1 \in S
  <2>1. PICK g : Turns(g, n, X, q, F)
    BY <1>2
  <2> DEFINE h == [m \in 0 .. n + 1 |-> IF m = n + 1 THEN F[n + 1][g[n]] ELSE g[m]]
  <2>2. F[n + 1][g[n]] \in X
    BY <2>1 DEF Turns
  <2>3. h \in [0 .. n + 1 -> X]
    BY <2>1, <2>2 DEF Turns
  <2>4. \A m \in 0 .. n : h[m] = g[m]
    OBVIOUS
  <2>5. h[n + 1] = F[n + 1][g[n]]
    OBVIOUS
  <2> HIDE DEF h
  <2>6. ASSUME NEW m \in 1 .. n + 1 PROVE h[m] = F[m][h[m - 1]]
    <3>1. CASE m = n + 1
      <4>1. m - 1 = n /\ n \in 0 .. n
        BY <3>1
      <4> QED
        BY <3>1, <4>1, <2>4, <2>5
    <3>2. CASE m # n + 1
      <4>1. m \in 1 .. n /\ m \in 0 .. n /\ m - 1 \in 0 .. n
        BY <3>2
      <4> QED
        BY <4>1, <2>1, <2>4 DEF Turns
    <3> QED
      BY <3>1, <3>2
  <2>7. h[0] = q
    BY <2>1, <2>4 DEF Turns
  <2>8. Turns(h, n + 1, X, q, F)
    BY <2>3, <2>6, <2>7 DEF Turns
  <2> QED
    BY <2>8
<1> HIDE DEF S
<1>3. \A n \in Nat : n \in S
  BY <1>1, <1>2, NumbersIn
<1> QED
  BY <1>3 DEF S

-----------------------------------------------------------------------------
(* Sequences of sequences.                                                 *)

(* g[i] is the concatenation of the first i sequences of s.                *)
Flattens(g, n, s, X) ==
  /\ g \in [1 .. n -> Seq(X)] /\ g[1] = s[1]
  /\ \A i \in 2 .. n : g[i] = g[i - 1] \o s[i]

LEMMA FlattenIs ==
  ASSUME NEW X, NEW n \in Nat, n # 0, NEW s \in [1 .. n -> Seq(X)]
  PROVE  \E g : Flattens(g, n, s, X) /\ I!FlattenSeq(s) = g[n]
<1> DEFINE Y == Seq(X)
           q == s[1]
           F == [k \in Nat |-> [w \in Y |-> IF k + 1 \in 1 .. n THEN w \o s[k + 1] ELSE w]]
           P(f) == f = [i \in 1 .. n |-> IF i = 1 THEN s[i] ELSE f[i - 1] \o s[i]]
<1>1. q \in Y /\ \A i \in 1 .. n : s[i] \in Y
  OBVIOUS
<1>2. \A k \in Nat : k + 1 \in 1 .. n => \A w \in Y : w \o s[k + 1] \in Y
  BY <1>1, ConcatProperties
<1>3. F \in [Nat -> [Y -> Y]]
  BY <1>2
<1>4. \A k \in Nat : k + 1 \in 1 .. n => \A w \in Y : F[k][w] = w \o s[k + 1]
  OBVIOUS
<1>5. s \in Seq(Y) /\ Len(s) = n
  OBVIOUS
<1> HIDE DEF Y, q, F
<1>6. PICK h : Turns(h, n - 1, Y, q, F)
  <2>1. n - 1 \in Nat
    OBVIOUS
  <2> QED
    BY <1>1, <1>3, <2>1, TurnsExist
<1>7. h \in [0 .. n - 1 -> Y] /\ h[0] = q /\ \A k \in 1 .. n - 1 : h[k] = F[k][h[k - 1]]
  BY <1>6 DEF Turns
<1> DEFINE g == [i \in 1 .. n |-> h[i - 1]]
<1>8. g \in [1 .. n -> Y] /\ g[1] = s[1]
  BY <1>7 DEF q
<1>9. ASSUME NEW i \in 1 .. n, i # 1 PROVE g[i] = g[i - 1] \o s[i]
  <2>1. /\ i - 1 \in 1 .. n - 1 /\ i - 1 \in 1 .. n /\ (i - 1) + 1 = i /\ i - 1 \in Nat
        /\ (i - 1) - 1 \in 0 .. n - 1
    BY <1>9
  <2>2. g[i] = F[i - 1][h[(i - 1) - 1]] /\ g[i - 1] = h[(i - 1) - 1] /\ h[(i - 1) - 1] \in Y
    BY <1>7, <2>1
  <2> QED
    BY <1>4, <2>1, <2>2
<1>10. DOMAIN g = 1 .. n
  OBVIOUS
<1> HIDE DEF g
<1>11. P(g)
  BY <1>8, <1>9, <1>10
<1> DEFINE flatten == CHOOSE f : P(f)
<1>12. P(flatten)
  BY <1>11
<1>13. I!FlattenSeq(s) = flatten[n]
  BY <1>5 DEF I!FlattenSeq
<1>14. flatten = [i \in 1 .. n |-> IF i = 1 THEN s[i] ELSE flatten[i - 1] \o s[i]]
  BY <1>12
<1> HIDE DEF flatten, P
<1>15. \A i \in 1 .. n : flatten[i] = IF i = 1 THEN s[i] ELSE flatten[i - 1] \o s[i]
  BY <1>14
<1> DEFINE S == {i \in Nat : i + 1 \in 1 .. n => flatten[i + 1] \in Y}
<1>16. 0 \in S
  BY <1>1, <1>15 DEF q
<1>17. ASSUME NEW i \in Nat, i \in S PROVE i + 1 \in S
  <2>1. SUFFICES ASSUME (i + 1) + 1 \in 1 .. n PROVE flatten[(i + 1) + 1] \in Y
    OBVIOUS
  <2>2. i + 1 \in 1 .. n /\ (i + 1) + 1 # 1 /\ ((i + 1) + 1) - 1 = i + 1
    BY <2>1
  <2>3. flatten[(i + 1) + 1] = flatten[i + 1] \o s[(i + 1) + 1]
    BY <1>15, <2>1, <2>2
  <2>4. flatten[i + 1] \in Y
    BY <1>17, <2>2
  <2> QED
    BY <1>1, <2>1, <2>3, <2>4, ConcatProperties DEF Y
<1> HIDE DEF S
<1>18. \A i \in Nat : i \in S
  BY <1>16, <1>17, NumbersIn
<1>19. ASSUME NEW i \in 1 .. n PROVE flatten[i] \in Y
  <2>1. i - 1 \in Nat /\ (i - 1) + 1 = i
    OBVIOUS
  <2> QED
    BY <1>18, <2>1 DEF S
<1>20. flatten \in [1 .. n -> Y]
  BY <1>14, <1>19
<1>21. flatten[1] = s[1] /\ \A i \in 2 .. n : flatten[i] = flatten[i - 1] \o s[i]
  <2>1. 1 \in 1 .. n /\ \A i \in 2 .. n : i \in 1 .. n /\ i # 1
    OBVIOUS
  <2> QED
    BY <1>15, <2>1
<1>22. Flattens(flatten, n, s, X)
  BY <1>20, <1>21 DEF Y, Flattens
<1> QED
  BY <1>13, <1>22

LEMMA FlattenGrows ==
  ASSUME NEW X, NEW n \in Nat, NEW s \in [1 .. n + 1 -> Seq(X)]
  PROVE  I!FlattenSeq(s) = I!FlattenSeq([i \in 1 .. n |-> s[i]]) \o s[n + 1]
<1> DEFINE u == [i \in 1 .. n |-> s[i]]
<1>0. n + 1 \in Nat /\ n + 1 # 0
  OBVIOUS
<1>1. PICK g : Flattens(g, n + 1, s, X) /\ I!FlattenSeq(s) = g[n + 1]
  BY <1>0, FlattenIs
<1>2. CASE n = 0
  <2>1. u = <<>> /\ Len(u) = 0
    BY <1>2
  <2>2. I!FlattenSeq(u) = <<>>
    BY <2>1 DEF I!FlattenSeq
  <2> QED
    BY <1>1, <1>2, <2>2, ConcatEmptySeq DEF Flattens
<1>3. CASE n # 0
  <2>1. u \in [1 .. n -> Seq(X)] /\ u[1] = s[1] /\ \A i \in 1 .. n : u[i] = s[i]
    BY <1>3
  <2> HIDE DEF u
  <2>2. PICK h : Flattens(h, n, u, X) /\ I!FlattenSeq(u) = h[n]
    BY <1>3, <2>1, FlattenIs
  <2> DEFINE S == {i \in Nat : i + 1 \in 1 .. n => h[i + 1] = g[i + 1]}
  <2>3. 0 \in S
    BY <1>1, <2>1, <2>2 DEF Flattens
  <2>4. ASSUME NEW i \in Nat, i \in S PROVE i + 1 \in S
    <3>1. SUFFICES ASSUME (i + 1) + 1 \in 1 .. n PROVE h[(i + 1) + 1] = g[(i + 1) + 1]
      OBVIOUS
    <3>2. /\ i + 1 \in 1 .. n /\ (i + 1) + 1 \in 2 .. n /\ (i + 1) + 1 \in 2 .. n + 1
          /\ ((i + 1) + 1) - 1 = i + 1
      BY <3>1
    <3>3. h[i + 1] = g[i + 1]
      BY <2>4, <3>2
    <3>4. h[(i + 1) + 1] = h[i + 1] \o u[(i + 1) + 1]
      BY <2>2, <3>2 DEF Flattens
    <3>5. g[(i + 1) + 1] = g[i + 1] \o s[(i + 1) + 1]
      BY <1>1, <3>2 DEF Flattens
    <3> QED
      BY <2>1, <3>1, <3>3, <3>4, <3>5
  <2> HIDE DEF S
  <2>5. \A i \in Nat : i \in S
    BY <2>3, <2>4, NumbersIn
  <2>6. n - 1 \in Nat /\ (n - 1) + 1 = n /\ n \in 1 .. n /\ n + 1 \in 2 .. n + 1 /\ (n + 1) - 1 = n
    BY <1>3
  <2>7. h[n] = g[n]
    BY <2>5, <2>6 DEF S
  <2>8. g[n + 1] = g[n] \o s[n + 1]
    BY <1>1, <2>6 DEF Flattens
  <2> QED
    BY <1>1, <2>2, <2>7, <2>8 DEF u
<1> QED
  BY <1>2, <1>3

LEMMA FlattenType ==
  ASSUME NEW X, NEW n \in Nat, NEW s \in [1 .. n -> Seq(X)]
  PROVE  I!FlattenSeq(s) \in Seq(X)
<1>1. CASE n = 0
  <2>1. s = <<>> /\ Len(s) = 0
    BY <1>1
  <2> QED
    BY <2>1, EmptySeq DEF I!FlattenSeq
<1>2. CASE n # 0
  <2>1. PICK g : Flattens(g, n, s, X) /\ I!FlattenSeq(s) = g[n]
    BY <1>2, FlattenIs
  <2> QED
    BY <1>2, <2>1 DEF Flattens
<1> QED
  BY <1>1, <1>2

LEMMA JoinedOf ==
  ASSUME NEW X, NEW s \in Seq(X), NEW t \in Seq(X)
  PROVE  /\ s \o t \in Seq(X) /\ Len(s \o t) = Len(s) + Len(t)
         /\ Len(s) \in Nat /\ Len(t) \in Nat
         /\ \A j \in 1 .. Len(s \o t) :
              (s \o t)[j] = IF j <= Len(s) THEN s[j] ELSE t[j - Len(s)]
BY ConcatProperties, LenProperties

LEMMA PieceOf ==
  ASSUME NEW X, NEW s \in Seq(X), NEW l \in Nat, NEW h \in Nat, h <= Len(s), l <= h
  PROVE  /\ SubSeq(s, l + 1, h) \in Seq(X) /\ Len(SubSeq(s, l + 1, h)) = h - l
         /\ \A j \in 1 .. h - l : SubSeq(s, l + 1, h)[j] = s[l + j]
<1>1. Len(s) \in Nat
  BY LenProperties
<1>2. \A j \in l + 1 .. h : s[j] \in X
  BY <1>1, ElementOfSeq
<1>3. /\ SubSeq(s, l + 1, h) \in Seq(X)
      /\ Len(SubSeq(s, l + 1, h)) = IF l + 1 <= h THEN h - (l + 1) + 1 ELSE 0
      /\ \A j \in 1 .. h - (l + 1) + 1 : SubSeq(s, l + 1, h)[j] = s[l + 1 + j - 1]
  BY <1>1, <1>2, SubSeqProperties
<1>4. \A j \in 1 .. h - l : l + 1 + j - 1 = l + j
  OBVIOUS
<1> QED
  BY <1>1, <1>3, <1>4

(* The first k of what is joined, and what is left without them.           *)
LEMMA FirstOf ==
  ASSUME NEW X, NEW s \in Seq(X), NEW t \in Seq(X), NEW k \in Nat, k <= Len(s)
  PROVE  SubSeq(s \o t, 1, k) = SubSeq(s, 1, k)
<1> DEFINE st == s \o t
<1>1. /\ st \in Seq(X) /\ Len(st) = Len(s) + Len(t) /\ Len(s) \in Nat /\ Len(t) \in Nat
      /\ \A j \in 1 .. Len(st) : st[j] = IF j <= Len(s) THEN s[j] ELSE t[j - Len(s)]
  BY JoinedOf
<1> HIDE DEF st
<1>2. /\ SubSeq(st, 0 + 1, k) \in Seq(X) /\ Len(SubSeq(st, 0 + 1, k)) = k - 0
      /\ \A j \in 1 .. k - 0 : SubSeq(st, 0 + 1, k)[j] = st[0 + j]
  BY <1>1, PieceOf
<1>3. /\ SubSeq(s, 0 + 1, k) \in Seq(X) /\ Len(SubSeq(s, 0 + 1, k)) = k - 0
      /\ \A j \in 1 .. k - 0 : SubSeq(s, 0 + 1, k)[j] = s[0 + j]
  BY <1>1, PieceOf
<1>4. \A j \in 1 .. k - 0 : j \in 1 .. Len(st) /\ 0 + j = j /\ j <= Len(s)
  BY <1>1
<1>5. SubSeq(st, 0 + 1, k) = SubSeq(s, 0 + 1, k)
  <2> DEFINE v == SubSeq(st, 0 + 1, k)
             w == SubSeq(s, 0 + 1, k)
  <2>1. v \in Seq(X) /\ w \in Seq(X) /\ Len(v) = Len(w) /\ \A j \in 1 .. Len(v) : v[j] = w[j]
    BY <1>1, <1>2, <1>3, <1>4
  <2> HIDE DEF v, w
  <2>2. v = w
    BY <2>1, SeqEqual
  <2> QED
    BY <2>2 DEF v, w
<1>6. 0 + 1 = 1
  OBVIOUS
<1> QED
  BY <1>5, <1>6 DEF st

LEMMA DropOf ==
  ASSUME NEW X, NEW s \in Seq(X), NEW k \in Nat, k <= Len(s)
  PROVE  /\ I!Drop(s, k) \in Seq(X) /\ Len(I!Drop(s, k)) = Len(s) - k
         /\ \A j \in 1 .. Len(s) - k : I!Drop(s, k)[j] = s[k + j]
<1>1. Len(s) \in Nat
  BY LenProperties
<1> QED
  BY <1>1, PieceOf DEF I!Drop

LEMMA DropJoined ==
  ASSUME NEW X, NEW s \in Seq(X), NEW t \in Seq(X), NEW k \in Nat, k <= Len(s)
  PROVE  I!Drop(s \o t, k) = I!Drop(s, k) \o t
<1> DEFINE st == s \o t
           v == I!Drop(st, k)
           d == I!Drop(s, k)
           w == d \o t
<1>1. /\ st \in Seq(X) /\ Len(st) = Len(s) + Len(t) /\ Len(s) \in Nat /\ Len(t) \in Nat
      /\ \A j \in 1 .. Len(st) : st[j] = IF j <= Len(s) THEN s[j] ELSE t[j - Len(s)]
  BY JoinedOf
<1>2. d \in Seq(X) /\ Len(d) = Len(s) - k /\ \A j \in 1 .. Len(s) - k : d[j] = s[k + j]
  BY DropOf
<1> HIDE DEF st, d
<1>3. v \in Seq(X) /\ Len(v) = Len(st) - k /\ \A j \in 1 .. Len(st) - k : v[j] = st[k + j]
  <2>1. k <= Len(st)
    BY <1>1
  <2> QED
    BY <1>1, <2>1, DropOf
<1>4. /\ w \in Seq(X) /\ Len(w) = Len(d) + Len(t)
      /\ \A j \in 1 .. Len(w) : w[j] = IF j <= Len(d) THEN d[j] ELSE t[j - Len(d)]
  BY <1>2, JoinedOf
<1> HIDE DEF v, w
<1>5. ASSUME NEW j \in 1 .. Len(v) PROVE v[j] = w[j]
  <2>1. v[j] = st[k + j] /\ k + j \in 1 .. Len(st) /\ j \in 1 .. Len(w)
    BY <1>1, <1>2, <1>3, <1>4
  <2>2. CASE j <= Len(d)
    <3>1. j \in 1 .. Len(s) - k /\ k + j <= Len(s)
      BY <1>1, <1>2, <2>1, <2>2
    <3> QED
      BY <1>1, <1>2, <1>4, <2>1, <2>2, <3>1
  <2>3. CASE ~(j <= Len(d))
    <3>1. ~(k + j <= Len(s)) /\ (k + j) - Len(s) = j - Len(d)
      BY <1>1, <1>2, <2>1, <2>3
    <3> QED
      BY <1>1, <1>4, <2>1, <2>3, <3>1
  <2> QED
    BY <2>2, <2>3
<1>6. v \in Seq(X) /\ w \in Seq(X) /\ Len(v) = Len(w)
  BY <1>1, <1>2, <1>3, <1>4
<1>7. v = w
  BY <1>5, <1>6, SeqEqual
<1> QED
  BY <1>7 DEF v, w, st, d

(* All of the first part and k of the second are left out.                 *)
LEMMA DropMore ==
  ASSUME NEW X, NEW s \in Seq(X), NEW t \in Seq(X), NEW k \in Nat, k <= Len(t)
  PROVE  I!Drop(s \o t, Len(s) + k) = I!Drop(t, k)
<1> DEFINE st == s \o t
           n == Len(s) + k
           v == I!Drop(st, n)
           w == I!Drop(t, k)
<1>1. /\ st \in Seq(X) /\ Len(st) = Len(s) + Len(t) /\ Len(s) \in Nat /\ Len(t) \in Nat
      /\ \A j \in 1 .. Len(st) : st[j] = IF j <= Len(s) THEN s[j] ELSE t[j - Len(s)]
  BY JoinedOf
<1>2. w \in Seq(X) /\ Len(w) = Len(t) - k /\ \A j \in 1 .. Len(t) - k : w[j] = t[k + j]
  BY DropOf
<1>3. n \in Nat /\ n <= Len(st)
  BY <1>1
<1> HIDE DEF st, w
<1>4. v \in Seq(X) /\ Len(v) = Len(st) - n /\ \A j \in 1 .. Len(st) - n : v[j] = st[n + j]
  <2> HIDE DEF n
  <2> QED
    BY <1>1, <1>3, DropOf
<1> HIDE DEF v
<1>5. Len(v) = Len(w)
  BY <1>1, <1>2, <1>4
<1>6. ASSUME NEW j \in 1 .. Len(v) PROVE v[j] = w[j]
  <2>1. /\ v[j] = st[n + j] /\ w[j] = t[k + j] /\ n + j \in 1 .. Len(st)
        /\ ~(n + j <= Len(s)) /\ (n + j) - Len(s) = k + j
    BY <1>1, <1>2, <1>4, <1>5
  <2> QED
    BY <1>1, <2>1
<1>7. v = w
  BY <1>2, <1>4, <1>5, <1>6, SeqEqual
<1> QED
  BY <1>7 DEF v, w, st

LEMMA DropNone ==
  ASSUME NEW X, NEW s \in Seq(X)
  PROVE  /\ I!Drop(s, 0) = s /\ I!Drop(s, Len(s)) = <<>> /\ SubSeq(s, 1, 0) = <<>>
         /\ <<>> \in Seq(X) /\ <<>> \o s = s /\ s \o <<>> = s /\ Len(<<>>) = 0
<1>1. Len(s) \in Nat /\ <<>> \in Seq(X) /\ Len(<<>>) = 0
  BY LenProperties
<1>2. /\ I!Drop(s, 0) \in Seq(X) /\ Len(I!Drop(s, 0)) = Len(s) - 0
      /\ \A j \in 1 .. Len(s) - 0 : I!Drop(s, 0)[j] = s[0 + j]
  BY <1>1, DropOf
<1>3. I!Drop(s, 0) = s
  <2> DEFINE v == I!Drop(s, 0)
  <2>1. v \in Seq(X) /\ Len(v) = Len(s) /\ \A j \in 1 .. Len(v) : v[j] = s[j]
    BY <1>1, <1>2
  <2> HIDE DEF v
  <2>2. v = s
    BY <2>1, SeqEqual
  <2> QED
    BY <2>2 DEF v
<1>4. I!Drop(s, Len(s)) \in Seq(X) /\ Len(I!Drop(s, Len(s))) = 0
  BY <1>1, DropOf
<1>5. I!Drop(s, Len(s)) = <<>>
  BY <1>4, EmptySeq
<1>6. SubSeq(s, 0 + 1, 0) \in Seq(X) /\ Len(SubSeq(s, 0 + 1, 0)) = 0 - 0
  BY <1>1, PieceOf
<1>7. SubSeq(s, 1, 0) = <<>>
  BY <1>6, EmptySeq
<1> QED
  BY <1>1, <1>3, <1>5, <1>7, ConcatEmptySeq

-----------------------------------------------------------------------------
(* The bytes of the pieces of a batch.                                     *)
Entry == [type : {"buf", "file"}, from : Int, offset : Nat, n : Nat]
Byte == Int \X Int

LEMMA EntryIs ==
  ASSUME NEW e \in Entry
  PROVE  e.type \in {"buf", "file"} /\ e.from \in Int /\ e.offset \in Nat /\ e.n \in Nat
BY DEF Entry

LEMMA BytesAre ==
  ASSUME NEW e \in Entry
  PROVE  /\ I!BytesOf(e) \in Seq(Byte) /\ Len(I!BytesOf(e)) = e.n
         /\ \A j \in 1 .. e.n : I!BytesOf(e)[j] = <<e.from, e.offset + j - 1>>
<1>1. e.n \in Nat /\ e.from \in Int /\ e.offset \in Nat
  BY EntryIs
<1>2. \A j \in 1 .. e.n : <<e.from, e.offset + j - 1>> \in Byte
  BY <1>1 DEF Byte
<1>3. /\ I!BytesOf(e) \in [1 .. e.n -> Byte]
      /\ \A j \in 1 .. e.n : I!BytesOf(e)[j] = <<e.from, e.offset + j - 1>>
  BY <1>2 DEF I!BytesOf
<1> HIDE DEF I!BytesOf
<1> QED
  BY <1>1, <1>3, LenProperties

(* An entry of which k bytes were sent.                                    *)
LEMMA BytesLeft ==
  ASSUME NEW e \in Entry, NEW k \in Nat, k <= e.n, NEW f \in Entry,
         f.from = e.from, f.offset = e.offset + k, f.n = e.n - k
  PROVE  I!BytesOf(f) = I!Drop(I!BytesOf(e), k)
<1> DEFINE v == I!BytesOf(e)
           w == I!BytesOf(f)
           d == I!Drop(v, k)
<1>1. /\ e.n \in Nat /\ e.from \in Int /\ e.offset \in Nat
  BY EntryIs
<1>2. /\ v \in Seq(Byte) /\ Len(v) = e.n
      /\ \A j \in 1 .. e.n : v[j] = <<e.from, e.offset + j - 1>>
  BY BytesAre
<1>3. /\ w \in Seq(Byte) /\ Len(w) = e.n - k
      /\ \A j \in 1 .. e.n - k : w[j] = <<e.from, e.offset + k + j - 1>>
  BY BytesAre
<1> HIDE DEF v, w
<1>4. d \in Seq(Byte) /\ Len(d) = e.n - k /\ \A j \in 1 .. e.n - k : d[j] = v[k + j]
  <2>1. k <= Len(v)
    BY <1>2
  <2>2. d \in Seq(Byte) /\ Len(d) = Len(v) - k /\ \A j \in 1 .. Len(v) - k : d[j] = v[k + j]
    BY <1>2, <2>1, DropOf
  <2> QED
    BY <1>2, <2>2
<1> HIDE DEF d
<1>5. ASSUME NEW j \in 1 .. e.n - k PROVE d[j] = w[j]
  <2>1. k + j \in 1 .. e.n /\ e.offset + (k + j) - 1 = e.offset + k + j - 1
    BY <1>1
  <2>2. v[k + j] = <<e.from, e.offset + (k + j) - 1>>
    BY <1>2, <2>1
  <2> QED
    BY <1>3, <1>4, <2>1, <2>2
<1>6. d = w
  BY <1>3, <1>4, <1>5, SeqEqual
<1> QED
  BY <1>6 DEF v, w, d

LEMMA PiecesNone ==
  ASSUME NEW s, NEW f
  PROVE  I!Pieces(s, f, 0) = <<>>
<1> DEFINE u == [j \in 1 .. 0 |-> I!BytesOf(s[f + j - 1])]
<1>1. u = <<>> /\ Len(u) = 0
  OBVIOUS
<1>2. I!FlattenSeq(u) = <<>>
  BY <1>1 DEF I!FlattenSeq
<1> QED
  BY <1>2 DEF I!Pieces

LEMMA PiecesGrow ==
  ASSUME NEW s \in Seq(Entry), NEW f \in Nat, f >= 1, NEW k \in Nat, f + k <= Len(s)
  PROVE  I!Pieces(s, f, k + 1) = I!Pieces(s, f, k) \o I!BytesOf(s[f + k])
<1> DEFINE u == [j \in 1 .. k + 1 |-> I!BytesOf(s[f + j - 1])]
           v == [j \in 1 .. k |-> I!BytesOf(s[f + j - 1])]
<1>1. ASSUME NEW j \in 1 .. k + 1 PROVE I!BytesOf(s[f + j - 1]) \in Seq(Byte)
  <2>1. f + j - 1 \in 1 .. Len(s)
    BY LenProperties
  <2>2. s[f + j - 1] \in Entry
    BY <2>1, ElementOfSeq
  <2> QED
    BY <2>2, BytesAre
<1>2. u \in [1 .. k + 1 -> Seq(Byte)]
  BY <1>1
<1>3. \A j \in 1 .. k : u[j] = v[j]
  OBVIOUS
<1>4. u[k + 1] = I!BytesOf(s[f + k])
  <2>1. k + 1 \in 1 .. k + 1 /\ f + (k + 1) - 1 = f + k
    OBVIOUS
  <2> QED
    BY <2>1
<1>5. v = [j \in 1 .. k |-> u[j]]
  BY <1>3
<1>6. I!Pieces(s, f, k + 1) = I!FlattenSeq(u) /\ I!Pieces(s, f, k) = I!FlattenSeq(v)
  BY DEF I!Pieces
<1> HIDE DEF u, v
<1>7. I!FlattenSeq(u) = I!FlattenSeq([j \in 1 .. k |-> u[j]]) \o u[k + 1]
  BY <1>2, FlattenGrows
<1> QED
  BY <1>4, <1>5, <1>6, <1>7

LEMMA PiecesType ==
  ASSUME NEW s \in Seq(Entry), NEW f \in Nat, f >= 1, NEW k \in Nat, f + k <= Len(s) + 1
  PROVE  I!Pieces(s, f, k) \in Seq(Byte)
<1> DEFINE v == [j \in 1 .. k |-> I!BytesOf(s[f + j - 1])]
<1>1. ASSUME NEW j \in 1 .. k PROVE I!BytesOf(s[f + j - 1]) \in Seq(Byte)
  <2>1. f + j - 1 \in 1 .. Len(s)
    BY LenProperties
  <2>2. s[f + j - 1] \in Entry
    BY <2>1, ElementOfSeq
  <2> QED
    BY <2>2, BytesAre
<1>2. v \in [1 .. k -> Seq(Byte)]
  BY <1>1
<1>3. I!Pieces(s, f, k) = I!FlattenSeq(v)
  BY DEF I!Pieces
<1> HIDE DEF v
<1> QED
  BY <1>2, <1>3, FlattenType

LEMMA PiecesSame ==
  ASSUME NEW s, NEW t, NEW f, NEW g, NEW k \in Nat, \A j \in 1 .. k : s[f + j - 1] = t[g + j - 1]
  PROVE  I!Pieces(s, f, k) = I!Pieces(t, g, k)
BY DEF I!Pieces

LEMMA PiecesOn ==
  ASSUME NEW s \in Seq(Entry), NEW f \in Nat, f >= 1, NEW l \in Nat, NEW k \in Nat,
         f + l + k <= Len(s) + 1
  PROVE  I!Pieces(s, f, l + k) = I!Pieces(s, f, l) \o I!Pieces(s, f + l, k)
<1> DEFINE S == {c \in Nat : c <= k =>
                   I!Pieces(s, f, l + c) = I!Pieces(s, f, l) \o I!Pieces(s, f + l, c)}
<1>0. Len(s) \in Nat
  BY LenProperties
<1>1. 0 \in S
  <2>1. I!Pieces(s, f, l) \in Seq(Byte)
    BY <1>0, PiecesType
  <2>2. I!Pieces(s, f, l) \o <<>> = I!Pieces(s, f, l)
    BY <2>1, DropNone
  <2>3. I!Pieces(s, f + l, 0) = <<>> /\ l + 0 = l
    BY PiecesNone
  <2> QED
    BY <2>2, <2>3
<1>2. ASSUME NEW c \in Nat, c \in S PROVE c + 1 \in S
  <2>1. SUFFICES ASSUME c + 1 <= k
                 PROVE  I!Pieces(s, f, l + (c + 1)) = I!Pieces(s, f, l) \o I!Pieces(s, f + l, c + 1)
    OBVIOUS
  <2> DEFINE q == I!Pieces(s, f, l)
             y == I!Pieces(s, f + l, c)
             z == I!BytesOf(s[f + (l + c)])
  <2>2. I!Pieces(s, f, l + c) = q \o y
    <3>1. c <= k
      BY <2>1
    <3> QED
      BY <1>2, <3>1
  <2>3. /\ l + c \in Nat /\ f + (l + c) <= Len(s) /\ f + l \in Nat /\ f + l >= 1
        /\ (f + l) + c <= Len(s) /\ (l + c) + 1 = l + (c + 1) /\ (f + l) + c = f + (l + c)
        /\ f + (l + c) \in 1 .. Len(s) /\ f + l <= Len(s) + 1 /\ (f + l) + c <= Len(s) + 1
    BY <1>0, <2>1
  <2>4. I!Pieces(s, f, l + (c + 1)) = I!Pieces(s, f, l + c) \o z
    BY <2>3, PiecesGrow
  <2>5. I!Pieces(s, f + l, c + 1) = y \o z
    BY <2>3, PiecesGrow
  <2>6. q \in Seq(Byte) /\ y \in Seq(Byte) /\ z \in Seq(Byte)
    <3>1. s[f + (l + c)] \in Entry
      BY <2>3, ElementOfSeq
    <3>2. z \in Seq(Byte)
      BY <3>1, BytesAre
    <3> QED
      BY <2>3, <3>2, PiecesType
  <2> HIDE DEF q, y, z
  <2>7. (q \o y) \o z = q \o (y \o z)
    BY <2>6, ConcatAssociative
  <2> QED
    BY <2>2, <2>4, <2>5, <2>7 DEF q
<1> HIDE DEF S
<1>3. k \in S
  BY <1>1, <1>2, NumbersIn
<1> QED
  BY <1>3 DEF S

(* n entries from f on are l of them, and k from g on.                     *)
Parts(s, f, n, l, g, k) ==
  /\ s \in Seq(Entry) /\ f \in Nat /\ f >= 1 /\ l \in Nat /\ k \in Nat
  /\ g = f + l /\ n = l + k /\ g + k <= Len(s) + 1

LEMMA PiecesSplit ==
  ASSUME NEW s, NEW f, NEW n, NEW l, NEW g, NEW k, Parts(s, f, n, l, g, k)
  PROVE  I!Pieces(s, f, n) = I!Pieces(s, f, l) \o I!Pieces(s, g, k)
<1>1. /\ s \in Seq(Entry) /\ f \in Nat /\ f >= 1 /\ l \in Nat /\ k \in Nat
      /\ g = f + l /\ n = l + k /\ f + l + k <= Len(s) + 1
  BY LenProperties DEF Parts
<1>2. I!Pieces(s, f, l + k) = I!Pieces(s, f, l) \o I!Pieces(s, f + l, k)
  BY <1>1, PiecesOn
<1> QED
  BY <1>1, <1>2

LEMMA PiecesFirst ==
  ASSUME NEW s \in Seq(Entry), NEW f \in Nat, f >= 1, NEW k \in Nat, f + k <= Len(s)
  PROVE  /\ I!Pieces(s, f, 1) = I!BytesOf(s[f])
         /\ I!Pieces(s, f, k + 1) = I!BytesOf(s[f]) \o I!Pieces(s, f + 1, k)
<1>0. Len(s) \in Nat /\ f \in 1 .. Len(s) /\ f + 0 <= Len(s) /\ 0 + 1 = 1 /\ f + 0 = f
      /\ f + 1 + k <= Len(s) + 1 /\ 1 + k = k + 1
  BY LenProperties
<1>1. I!BytesOf(s[f]) \in Seq(Byte)
  <2>1. s[f] \in Entry
    BY <1>0, ElementOfSeq
  <2> QED
    BY <2>1, BytesAre
<1>2. I!Pieces(s, f, 1) = I!BytesOf(s[f])
  <2>1. I!Pieces(s, f, 0 + 1) = I!Pieces(s, f, 0) \o I!BytesOf(s[f + 0])
    BY <1>0, PiecesGrow
  <2>2. <<>> \o I!BytesOf(s[f]) = I!BytesOf(s[f])
    BY <1>1, DropNone
  <2> QED
    BY <1>0, <2>1, <2>2, PiecesNone
<1>3. I!Pieces(s, f, k + 1) = I!Pieces(s, f, 1) \o I!Pieces(s, f + 1, k)
  <2> DEFINE g == f + 1
             n == k + 1
  <2>1. Parts(s, f, n, 1, g, k)
    BY <1>0 DEF Parts
  <2> HIDE DEF g, n
  <2>2. I!Pieces(s, f, n) = I!Pieces(s, f, 1) \o I!Pieces(s, g, k)
    BY <2>1, PiecesSplit
  <2> QED
    BY <2>2 DEF g, n
<1> QED
  BY <1>0, <1>2, <1>3

LEMMA PiecesEmpty ==
  ASSUME NEW s \in Seq(Entry), NEW f \in Nat, f >= 1, NEW k \in Nat, f + k <= Len(s) + 1,
         \A j \in f .. f + k - 1 : s[j].n = 0
  PROVE  I!Pieces(s, f, k) = <<>>
<1> DEFINE S == {c \in Nat : c <= k => I!Pieces(s, f, c) = <<>>}
<1>0. Len(s) \in Nat
  BY LenProperties
<1>1. 0 \in S
  BY PiecesNone
<1>2. ASSUME NEW c \in Nat, c \in S PROVE c + 1 \in S
  <2>1. SUFFICES ASSUME c + 1 <= k PROVE I!Pieces(s, f, c + 1) = <<>>
    OBVIOUS
  <2>2. c <= k /\ f + c <= Len(s) /\ f + c \in f .. f + k - 1 /\ f + c \in 1 .. Len(s)
    BY <1>0, <2>1
  <2>3. I!Pieces(s, f, c) = <<>> /\ s[f + c].n = 0 /\ s[f + c] \in Entry
    BY <1>2, <2>2, ElementOfSeq
  <2>4. I!BytesOf(s[f + c]) \in Seq(Byte) /\ Len(I!BytesOf(s[f + c])) = 0
    BY <2>3, BytesAre
  <2>5. I!BytesOf(s[f + c]) = <<>>
    BY <2>4, EmptySeq
  <2>6. I!Pieces(s, f, c + 1) = I!Pieces(s, f, c) \o I!BytesOf(s[f + c])
    BY <2>2, PiecesGrow
  <2>7. <<>> \o <<>> = <<>>
    BY <2>4, <2>5, DropNone
  <2> QED
    BY <2>3, <2>5, <2>6, <2>7
<1> HIDE DEF S
<1>3. k \in S
  BY <1>1, <1>2, NumbersIn
<1> QED
  BY <1>3 DEF S

(* What is left to send when k bytes of the entry at f, the first that has *)
(* any, were sent.                                                         *)
LEMMA PiecesLeft ==
  ASSUME NEW s \in Seq(Entry), NEW t \in Seq(Entry), Len(t) = Len(s),
         NEW f \in 1 .. Len(s), \A j \in f + 1 .. Len(s) : t[j] = s[j],
         NEW k \in Nat, k <= s[f].n, I!BytesOf(t[f]) = I!Drop(I!BytesOf(s[f]), k)
  PROVE  LET m == Len(s) - f + 1
         IN  /\ I!Pieces(t, f, m) = I!Drop(I!Pieces(s, f, m), k)
             /\ SubSeq(I!Pieces(s, f, m), 1, k) = SubSeq(I!BytesOf(s[f]), 1, k)
             /\ I!Pieces(s, f, m) \in Seq(Byte) /\ k <= Len(I!Pieces(s, f, m))
<1> DEFINE c == Len(s) - f
           q == I!BytesOf(s[f])
           y == I!Pieces(s, f + 1, c)
<1>1. /\ Len(s) \in Nat /\ f \in Nat /\ f >= 1 /\ c \in Nat /\ f + c <= Len(s) /\ f + c <= Len(t)
      /\ f + 1 \in Nat /\ f + 1 >= 1 /\ (f + 1) + c <= Len(s) + 1 /\ Len(s) - f + 1 = c + 1
  BY LenProperties
<1>2. s[f] \in Entry /\ q \in Seq(Byte) /\ Len(q) = s[f].n
  BY ElementOfSeq, BytesAre
<1>3. y \in Seq(Byte)
  <2> HIDE DEF c
  <2> QED
    BY <1>1, PiecesType
<1>4. I!Pieces(s, f, c + 1) = q \o y
  <2> HIDE DEF c
  <2> QED
    BY <1>1, PiecesFirst
<1>5. I!Pieces(t, f, c + 1) = I!BytesOf(t[f]) \o I!Pieces(t, f + 1, c)
  <2> HIDE DEF c
  <2> QED
    BY <1>1, PiecesFirst
<1>6. I!Pieces(t, f + 1, c) = y
  <2>1. \A j \in 1 .. c : f + 1 + j - 1 \in f + 1 .. Len(s)
    BY <1>1
  <2>2. \A j \in 1 .. c : t[f + 1 + j - 1] = s[f + 1 + j - 1]
    BY <2>1
  <2> QED
    BY <2>2 DEF I!Pieces
<1> HIDE DEF c, q, y
<1>7. I!Drop(q \o y, k) = I!Drop(q, k) \o y /\ SubSeq(q \o y, 1, k) = SubSeq(q, 1, k)
  BY <1>2, <1>3, DropJoined, FirstOf
<1>8. q \o y \in Seq(Byte) /\ Len(q \o y) = Len(q) + Len(y) /\ Len(q) \in Nat /\ Len(y) \in Nat
  BY <1>2, <1>3, JoinedOf
<1>9. I!BytesOf(t[f]) = I!Drop(q, k)
  BY DEF q
<1>10. k <= Len(q \o y)
  BY <1>2, <1>8
<1>11. SubSeq(q, 1, k) = SubSeq(I!BytesOf(s[f]), 1, k)
  BY DEF q
<1> QED
  BY <1>1, <1>4, <1>5, <1>6, <1>7, <1>8, <1>9, <1>10, <1>11

-----------------------------------------------------------------------------
(* What the two functions keep.                                            *)

(* A chunk that is mapped is of the file that is sent next.                *)
MapOurs ==
  \/ mapped = I!NoMap
  \/ \E k \in first .. Len(batch) :
       /\ batch[k].n # 0 /\ batch[k].type = "file" /\ batch[k].from = mapped.file
       /\ \A l \in first .. k - 1 : batch[l].n = 0

Passed == \A k \in first .. here - 1 : batch[k].n = 0

InStep ==
  /\ batch \in Seq(Entry) /\ first \in Nat \ {0} /\ first <= Len(batch) + 1
  /\ ~mixed /\ owed = I!Ahead /\ bytesleft = Len(owed)
  /\ place = "loop" => here \in first .. Len(batch) + 1 /\ Passed
  /\ MapOurs

Buffers == {k \in 1 .. Len(batch) : batch[k].type = "buf"}

(* iob_send leaves no entry without bytes.                                 *)
SendKnown ==
  /\ place = "idle" /\ mapped = I!NoMap /\ ~lostTrack /\ ~leftMap
  /\ \A k \in first .. Len(batch) : batch[k].n # 0
  /\ owed = <<>> => batch = <<>>
  /\ bufs \in Nat /\ Cardinality(Buffers) <= bufs

BatchInv ==
  /\ by \in {"send", "write"} /\ added \in Nat
  /\ by = "send" => SendKnown
  /\ lostTrack \/ leftMap \/ InStep

LEMMA Least ==
  ASSUME NEW S \in SUBSET Nat, S # {}
  PROVE  I!Min(S) \in S /\ \A y \in S : I!Min(S) =< y
BY LeastNumber DEF I!Min

LEMMA StepTypes ==
  ASSUME InStep
  PROVE  /\ Len(batch) \in Nat /\ Len(batch) - first + 1 \in Nat
         /\ first + (Len(batch) - first + 1) = Len(batch) + 1
         /\ owed = I!Pieces(batch, first, Len(batch) - first + 1)
         /\ owed \in Seq(Byte) /\ bytesleft \in Nat /\ Len(owed) \in Nat
         /\ \A k \in 1 .. Len(batch) : batch[k] \in Entry
<1> DEFINE m == Len(batch) - first + 1
<1>1. /\ Len(batch) \in Nat /\ m \in Nat /\ first + m = Len(batch) + 1 /\ first \in Nat /\ first >= 1
      /\ batch \in Seq(Entry)
  BY LenProperties DEF InStep
<1>2. owed = I!Pieces(batch, first, m)
  BY DEF InStep, I!Ahead
<1> HIDE DEF m
<1>3. I!Pieces(batch, first, m) \in Seq(Byte)
  BY <1>1, PiecesType
<1>4. owed \in Seq(Byte) /\ Len(owed) \in Nat /\ bytesleft \in Nat
  BY <1>2, <1>3, LenProperties DEF InStep
<1> QED
  BY <1>1, <1>2, <1>4, ElementOfSeq DEF m

LEMMA AddKeeps ==
  ASSUME InStep, by = "send" => SendKnown, NEW e \in Entry, e.n # 0, I!Add(e)
  PROVE  InStep' /\ (by = "send" => SendKnown')
<1> DEFINE L == Len(batch)
           m == L - first + 1
<1>0. /\ first' = first /\ place = "idle" /\ place' = place /\ here' = here /\ mapped' = mapped
      /\ mixed' = mixed /\ lostTrack' = lostTrack /\ leftMap' = leftMap
  BY DEF I!Add, I!local
<1>1. CASE UNCHANGED <<batch, bytesleft, bufs, owed>>
  <2>1. InStep'
    BY <1>0, <1>1 DEF InStep, MapOurs, Passed, I!Ahead
  <2>2. by = "send" => SendKnown'
    BY <1>0, <1>1 DEF SendKnown, Buffers
  <2> QED
    BY <2>1, <2>2
<1>2. CASE /\ batch' = Append(batch, e) /\ bytesleft' = bytesleft + e.n
           /\ bufs' = IF e.type = "buf" THEN bufs + 1 ELSE bufs
           /\ owed' = owed \o I!BytesOf(e)
  <2>1. /\ L \in Nat /\ m \in Nat /\ first + m = L + 1 /\ first \in Nat /\ first >= 1
        /\ owed = I!Pieces(batch, first, m) /\ owed \in Seq(Byte)
        /\ batch \in Seq(Entry) /\ first \in Nat \ {0}
    BY StepTypes DEF InStep
  <2>2. /\ batch' \in Seq(Entry) /\ Len(batch') = L + 1 /\ batch'[L + 1] = e
        /\ \A k \in 1 .. L : batch'[k] = batch[k]
    <3>1. batch' = Append(batch, e)
      BY <1>2
    <3> QED
      BY <2>1, <3>1, AppendProperties
  <2>3. e.n \in Nat /\ I!BytesOf(e) \in Seq(Byte) /\ Len(I!BytesOf(e)) = e.n
    BY EntryIs, BytesAre
  <2>4. owed' \in Seq(Byte) /\ Len(owed') = Len(owed) + e.n /\ Len(owed) \in Nat
    <3> DEFINE z == I!BytesOf(e)
    <3>1. z \in Seq(Byte) /\ owed \in Seq(Byte) /\ Len(z) = e.n /\ owed' = owed \o z
      BY <1>2, <2>1, <2>3
    <3> HIDE DEF z
    <3>2. owed \o z \in Seq(Byte) /\ Len(owed \o z) = Len(owed) + Len(z) /\ Len(owed) \in Nat
      BY <3>1, JoinedOf
    <3> QED
      BY <3>1, <3>2
  <2>5. I!Pieces(batch', first, m + 1) = I!Pieces(batch', first, m) \o I!BytesOf(e)
    <3>1. first + m <= Len(batch')
      BY <2>1, <2>2
    <3> HIDE DEF m, L
    <3>2. I!Pieces(batch', first, m + 1) = I!Pieces(batch', first, m) \o I!BytesOf(batch'[first + m])
      BY <2>1, <2>2, <3>1, PiecesGrow
    <3> QED
      BY <2>1, <2>2, <3>2
  <2>6. I!Pieces(batch', first, m) = owed
    <3>1. \A j \in 1 .. m : first + j - 1 \in 1 .. L
      BY <2>1
    <3>2. \A j \in 1 .. m : batch'[first + j - 1] = batch[first + j - 1]
      BY <2>2, <3>1
    <3> QED
      BY <2>1, <3>2 DEF I!Pieces
  <2>7. owed' = I!Ahead'
    <3>1. Len(batch') - first' + 1 = m + 1
      BY <1>0, <2>1, <2>2
    <3> HIDE DEF m
    <3>2. I!Ahead' = I!Pieces(batch', first, m + 1)
      BY <1>0, <3>1 DEF I!Ahead
    <3> QED
      BY <1>2, <2>5, <2>6, <3>2
  <2>8. MapOurs'
    <3>1. CASE mapped = I!NoMap
      <4>1. I!NoMap' = I!NoMap
        BY DEF I!NoMap
      <4> QED
        BY <1>0, <3>1, <4>1 DEF MapOurs
    <3>2. CASE \E k \in first .. Len(batch) :
                 /\ batch[k].n # 0 /\ batch[k].type = "file" /\ batch[k].from = mapped.file
                 /\ \A l \in first .. k - 1 : batch[l].n = 0
      <4>1. PICK k \in first .. L :
                 /\ batch[k].n # 0 /\ batch[k].type = "file" /\ batch[k].from = mapped.file
                 /\ \A l \in first .. k - 1 : batch[l].n = 0
        BY <3>2
      <4>2. /\ k \in 1 .. L /\ k \in first' .. Len(batch')
            /\ \A l \in first .. k - 1 : l \in 1 .. L
        BY <1>0, <2>1, <2>2
      <4>3. batch'[k] = batch[k] /\ \A l \in first .. k - 1 : batch'[l].n = 0
        BY <2>2, <4>1, <4>2
      <4> QED
        BY <1>0, <4>1, <4>2, <4>3 DEF MapOurs
    <3> QED
      BY <3>1, <3>2 DEF InStep, MapOurs
  <2>9. InStep'
    <3>1. bytesleft' = Len(owed') /\ first' <= Len(batch') + 1
      BY <1>0, <1>2, <2>1, <2>2, <2>4 DEF InStep
    <3> QED
      BY <1>0, <2>1, <2>2, <2>7, <2>8, <3>1 DEF InStep
  <2>10. ASSUME by = "send" PROVE SendKnown'
    <3>1. SendKnown
      BY <2>10
    <3>2. \A k \in first' .. Len(batch') : batch'[k].n # 0
      <4>1. \A k \in first' .. Len(batch') : k = L + 1 \/ (k \in 1 .. L /\ k \in first .. L)
        BY <1>0, <2>1, <2>2
      <4> QED
        BY <2>2, <3>1, <4>1 DEF SendKnown
    <3>3. owed' # <<>>
      BY <2>3, <2>4
    <3>4. bufs' \in Nat /\ Cardinality(Buffers') <= bufs'
      <4>1. bufs \in Nat /\ Cardinality(Buffers) <= bufs
        BY <3>1 DEF SendKnown
      <4>2. IsFiniteSet(Buffers) /\ Cardinality(Buffers) \in Nat
        <5>1. IsFiniteSet(1 .. L)
          BY <2>1, FS_Interval
        <5>2. Buffers \in SUBSET (1 .. L)
          BY DEF Buffers
        <5>3. IsFiniteSet(Buffers)
          BY <5>1, <5>2, FS_Subset
        <5> QED
          BY <5>3, FS_CardinalityType
      <4>3. L + 1 \notin Buffers
        BY <2>1 DEF Buffers
      <4>4. Buffers' = IF e.type = "buf" THEN Buffers \cup {L + 1} ELSE Buffers
        <5>1. \A k : k \in 1 .. Len(batch') <=> (k \in 1 .. L \/ k = L + 1)
          BY <2>1, <2>2
        <5>2. \A k : k \in Buffers' <=> k \in 1 .. Len(batch') /\ batch'[k].type = "buf"
          BY DEF Buffers
        <5>3. \A k : k \in Buffers <=> k \in 1 .. L /\ batch[k].type = "buf"
          BY DEF Buffers
        <5>4. \A k \in 1 .. L : k # L + 1
          BY <2>1
        <5> HIDE DEF L, Buffers
        <5>5. CASE e.type = "buf"
          BY <2>2, <5>1, <5>2, <5>3, <5>5
        <5>6. CASE e.type # "buf"
          BY <2>2, <5>1, <5>2, <5>3, <5>6
        <5> QED
          BY <5>5, <5>6
      <4>5. Cardinality(Buffers \cup {L + 1}) = Cardinality(Buffers) + 1
        BY <4>2, <4>3, FS_AddElement
      <4> HIDE DEF Buffers
      <4> QED
        BY <1>2, <4>1, <4>2, <4>4, <4>5
    <3>5. I!NoMap' = I!NoMap
      BY DEF I!NoMap
    <3> QED
      BY <1>0, <3>1, <3>2, <3>3, <3>4, <3>5 DEF SendKnown
  <2> QED
    BY <2>9, <2>10
<1> QED
  BY <1>1, <1>2 DEF I!Add

(* An empty batch.                                                         *)
LEMMA ClearedKeeps ==
  ASSUME I!Cleared, owed' = <<>>, ~mixed', place' = "idle", mapped' = I!NoMap
  PROVE  InStep' /\ (SendKnown /\ ~lostTrack' /\ ~leftMap' => SendKnown')
<1>1. batch' = <<>> /\ first' = 1 /\ bytesleft' = 0 /\ bufs' = 0
  BY DEF I!Cleared
<1>2. batch' \in Seq(Entry) /\ Len(batch') = 0
  BY <1>1
<1>3. I!Ahead' = <<>>
  <2>1. Len(batch') - first' + 1 = 0
    BY <1>1, <1>2
  <2> QED
    BY <2>1, PiecesNone DEF I!Ahead
<1>4. I!NoMap' = I!NoMap
  BY DEF I!NoMap
<1>5. InStep'
  <2>1. Len(owed') = 0 /\ first' \in Nat \ {0} /\ first' <= Len(batch') + 1
    BY <1>1, <1>2
  <2> QED
    BY <1>1, <1>2, <1>3, <1>4, <2>1 DEF InStep, MapOurs
<1>6. ASSUME ~lostTrack', ~leftMap' PROVE SendKnown'
  <2>1. Buffers' = {}
    BY <1>2 DEF Buffers
  <2>2. Cardinality({}) = 0
    BY FS_EmptySet
  <2>3. first' .. Len(batch') = {}
    BY <1>1, <1>2
  <2>4. bufs' \in Nat /\ Cardinality(Buffers') <= bufs'
    BY <1>1, <2>1, <2>2
  <2> QED
    BY <1>1, <1>4, <1>6, <2>3, <2>4 DEF SendKnown
<1> QED
  BY <1>5, <1>6

LEMMA ResetKeeps ==
  ASSUME InStep, by = "send" => SendKnown, ~leftMap, I!Reset
  PROVE  (leftMap' \/ InStep') /\ (by = "send" => SendKnown')
<1>1. /\ I!Cleared /\ owed' = <<>> /\ mixed' = mixed /\ place' = "idle" /\ mapped' = mapped
      /\ lostTrack' = lostTrack /\ leftMap' = (leftMap \/ mapped # I!NoMap)
  BY DEF I!Reset, I!local
<1>2. CASE mapped = I!NoMap
  <2>1. ~mixed' /\ ~leftMap' /\ mapped' = I!NoMap
    BY <1>1, <1>2 DEF InStep
  <2> QED
    BY <1>1, <2>1, ClearedKeeps DEF SendKnown
<1>3. CASE mapped # I!NoMap
  BY <1>1, <1>3 DEF SendKnown
<1> QED
  BY <1>2, <1>3

-----------------------------------------------------------------------------
(* iob_send.                                                               *)

(* What is offered begins what is left to send; and the vectors.           *)
LEMMA OfferedIs ==
  ASSUME InStep, bytesleft > 0
  PROVE  /\ first <= Len(batch)
         /\ I!Headers \in 0 .. Len(batch) - first + 1
         /\ \A k \in 0 .. I!Headers - 1 : batch[first + k].type # "file"
         /\ \E t \in Seq(Byte) : I!Offered \in Seq(Byte) /\ owed = I!Offered \o t
<1> DEFINE m == Len(batch) - first + 1
           S == {k \in 0 .. m : k = m \/ batch[first + k].type = "file"}
           h == I!Headers
<1>1. /\ Len(batch) \in Nat /\ m \in Nat /\ first + m = Len(batch) + 1 /\ first \in Nat /\ first >= 1
      /\ owed = I!Pieces(batch, first, m) /\ owed \in Seq(Byte)
      /\ batch \in Seq(Entry) /\ bytesleft = Len(owed)
  BY StepTypes DEF InStep
<1>2. m # 0
  <2>1. SUFFICES ASSUME m = 0 PROVE FALSE
    OBVIOUS
  <2>2. owed = <<>>
    BY <1>1, <2>1, PiecesNone
  <2>3. Len(owed) = 0
    BY <2>2
  <2> QED
    BY <1>1, <2>3
<1>3. S \in SUBSET Nat /\ m \in S
  BY <1>1
<1>4. h = I!Min(S)
  BY DEF I!Headers
<1> HIDE DEF h
<1>5. h \in S /\ \A y \in S : h =< y
  BY <1>3, <1>4, Least
<1>6. h \in 0 .. m /\ h \in Nat
  BY <1>1, <1>5
<1>7. ASSUME NEW k \in 0 .. h - 1 PROVE batch[first + k].type # "file"
  <2>1. k \in 0 .. m /\ ~(h =< k)
    BY <1>1, <1>6
  <2>2. k \notin S
    BY <1>5, <2>1
  <2> QED
    BY <2>1, <2>2
<1> DEFINE g == IF h = 0 THEN 1 ELSE h
           c == m - g
           f == first + g
           t == I!Pieces(batch, f, c)
<1>8. /\ g \in Nat /\ c \in Nat /\ m = g + c /\ f + c <= Len(batch) + 1 /\ f = first + g
      /\ f \in Nat /\ f >= 1 /\ first + g <= Len(batch) + 1
  BY <1>1, <1>2, <1>6
<1>9. I!Offered = I!Pieces(batch, first, g)
  BY DEF I!Offered, h
<1> HIDE DEF g, c, m, f
<1>10. I!Pieces(batch, first, m) = I!Pieces(batch, first, g) \o t
  <2>1. Parts(batch, first, m, g, f, c)
    BY <1>1, <1>8 DEF Parts
  <2> QED
    BY <2>1, PiecesSplit
<1>11. t \in Seq(Byte) /\ I!Pieces(batch, first, g) \in Seq(Byte)
  BY <1>1, <1>8, PiecesType
<1>12. first <= Len(batch)
  BY <1>1, <1>2
<1>13. owed = I!Offered \o t
  BY <1>1, <1>8, <1>9, <1>10
<1> QED
  BY <1>6, <1>7, <1>9, <1>11, <1>12, <1>13 DEF h, m

(* The entries that the sent bytes cover to their end, and the next one.   *)
LEMMA SkippedIs ==
  ASSUME InStep, NEW sent \in Nat, sent < bytesleft
  PROVE  LET k == I!Skipped(batch, first, sent)
             left == sent - I!SumOf(batch, first, k)
         IN  /\ k \in Nat /\ first + k <= Len(batch)
             /\ left \in Nat /\ left < batch[first + k].n
<1> DEFINE m == Len(batch) - first + 1
           S == {k \in 0 .. m : k = m \/ I!SumOf(batch, first, k + 1) > sent}
           k == I!Skipped(batch, first, sent)
           P(c) == I!Pieces(batch, first, c)
<1>1. /\ Len(batch) \in Nat /\ m \in Nat /\ first + m = Len(batch) + 1 /\ first \in Nat /\ first >= 1
      /\ owed = P(m) /\ owed \in Seq(Byte)
      /\ batch \in Seq(Entry) /\ bytesleft = Len(owed) /\ bytesleft \in Nat
  BY StepTypes DEF InStep
<1>2. S \in SUBSET Nat /\ m \in S
  BY <1>1
<1>3. k = I!Min(S)
  BY DEF I!Skipped
<1> HIDE DEF k
<1>4. k \in S /\ \A y \in S : k =< y
  BY <1>2, <1>3, Least
<1>5. k \in 0 .. m /\ k \in Nat /\ \A c \in 0 .. k - 1 : c \notin S /\ c \in 0 .. m
  BY <1>1, <1>4
<1>6. \A c \in 0 .. m : P(c) \in Seq(Byte) /\ Len(P(c)) \in Nat
  <2>1. ASSUME NEW c \in 0 .. m PROVE P(c) \in Seq(Byte)
    <3>1. c \in Nat /\ first + c <= Len(batch) + 1
      BY <1>1
    <3> QED
      BY <1>1, <3>1, PiecesType
  <2> QED
    BY <2>1, LenProperties
<1>7. Len(P(k)) <= sent
  <2>1. CASE k = 0
    <3>1. P(0) = <<>> /\ Len(<<>>) = 0
      BY PiecesNone
    <3> QED
      BY <2>1, <3>1
  <2>2. CASE k # 0
    <3>1. k - 1 \in 0 .. k - 1 /\ (k - 1) + 1 = k
      BY <1>5, <2>2
    <3>2. ~(I!SumOf(batch, first, (k - 1) + 1) > sent)
      BY <1>5, <3>1
    <3>3. ~(Len(P(k)) > sent)
      BY <3>1, <3>2 DEF I!SumOf
    <3> QED
      BY <1>5, <1>6, <3>3
  <2> QED
    BY <2>1, <2>2
<1>8. k # m
  <2>1. Len(P(m)) > sent
    BY <1>1
  <2> QED
    BY <1>6, <1>7, <2>1
<1>9. Len(P(k + 1)) > sent
  <2>1. I!SumOf(batch, first, k + 1) > sent
    BY <1>4, <1>8
  <2> QED
    BY <2>1 DEF I!SumOf
<1>10. /\ first + k <= Len(batch) /\ first + k \in 1 .. Len(batch)
  BY <1>1, <1>5, <1>8
<1>11. P(k + 1) = P(k) \o I!BytesOf(batch[first + k])
  BY <1>1, <1>5, <1>10, PiecesGrow
<1>12. /\ batch[first + k] \in Entry /\ batch[first + k].n \in Nat
       /\ I!BytesOf(batch[first + k]) \in Seq(Byte)
       /\ Len(I!BytesOf(batch[first + k])) = batch[first + k].n
  <2>1. batch[first + k] \in Entry
    BY <1>1, <1>10, ElementOfSeq
  <2> QED
    BY <2>1, EntryIs, BytesAre
<1>13. Len(P(k + 1)) = Len(P(k)) + batch[first + k].n /\ Len(P(k)) \in Nat
  <2> DEFINE q == P(k)
             y == I!BytesOf(batch[first + k])
  <2>1. q \in Seq(Byte) /\ y \in Seq(Byte)
    BY <1>5, <1>6, <1>12
  <2> HIDE DEF q, y
  <2>2. Len(q \o y) = Len(q) + Len(y) /\ Len(q) \in Nat
    BY <2>1, JoinedOf
  <2> QED
    BY <1>11, <1>12, <2>2 DEF q, y
<1>14. I!SumOf(batch, first, k) = Len(P(k))
  BY DEF I!SumOf
<1> HIDE DEF P
<1>15. sent - Len(P(k)) \in Nat /\ sent - Len(P(k)) < batch[first + k].n
  BY <1>7, <1>9, <1>12, <1>13
<1> QED
  BY <1>5, <1>10, <1>14, <1>15 DEF k

LEMMA SendKeeps ==
  ASSUME InStep, SendKnown, NEW sent \in 1 .. bytesleft, I!Send(sent)
  PROVE  InStep' /\ SendKnown'
<1> DEFINE m == Len(batch) - first + 1
<1>1. /\ Len(batch) \in Nat /\ m \in Nat /\ first + m = Len(batch) + 1 /\ first \in Nat /\ first >= 1
      /\ owed = I!Pieces(batch, first, m) /\ owed \in Seq(Byte)
      /\ batch \in Seq(Entry) /\ bytesleft = Len(owed) /\ bytesleft \in Nat
  BY StepTypes DEF InStep
<1>2. sent \in Nat /\ sent > 0 /\ sent <= Len(owed) /\ bytesleft > 0
  BY <1>1
<1>3. /\ sent <= Len(I!Offered) /\ owed' = I!Drop(owed, sent)
      /\ mixed' = (mixed \/ SubSeq(I!Offered, 1, sent) # SubSeq(owed, 1, sent))
      /\ place' = place /\ mapped' = mapped /\ lostTrack' = lostTrack /\ leftMap' = leftMap
      /\ place = "idle" /\ mapped = I!NoMap /\ ~lostTrack /\ ~leftMap
      /\ IF sent = bytesleft THEN I!Cleared
         ELSE LET k == I!Skipped(batch, first, sent)
                  left == sent - I!SumOf(batch, first, k)
              IN  /\ first' = first + k /\ bytesleft' = bytesleft - sent
                  /\ batch' = IF left = 0 THEN batch
                              ELSE [batch EXCEPT ![first + k].offset = @ + left,
                                                 ![first + k].n = @ - left]
                  /\ UNCHANGED bufs
  BY DEF I!Send, I!local, SendKnown
<1>4. ~mixed'
  <2>1. PICK t \in Seq(Byte) : I!Offered \in Seq(Byte) /\ owed = I!Offered \o t
    BY <1>2, OfferedIs
  <2>2. SubSeq(owed, 1, sent) = SubSeq(I!Offered, 1, sent)
    BY <1>2, <1>3, <2>1, FirstOf
  <2> QED
    BY <1>3, <2>2 DEF InStep
<1>5. /\ owed' \in Seq(Byte) /\ Len(owed') = bytesleft - sent
  BY <1>1, <1>2, <1>3, DropOf
<1>6. CASE sent = bytesleft
  <2>1. owed' = <<>>
    BY <1>1, <1>3, <1>6, DropNone
  <2> QED
    BY <1>3, <1>4, <1>6, <2>1, ClearedKeeps
<1>7. CASE sent # bytesleft
  <2> DEFINE k == I!Skipped(batch, first, sent)
             s == I!SumOf(batch, first, k)
             left == sent - s
             f == first + k
             e == batch[f]
             c == Len(batch) - f + 1
             z == [e EXCEPT !.offset = @ + left, !.n = @ - left]
  <2>1. sent < bytesleft
    BY <1>1, <1>2, <1>7
  <2>2. k \in Nat /\ f <= Len(batch) /\ left \in Nat /\ left < e.n
    BY <1>2, <2>1, SkippedIs
  <2> HIDE DEF k, s, left
  <2>3. /\ f \in Nat /\ f >= 1 /\ f \in 1 .. Len(batch) /\ c \in Nat /\ m = k + c /\ f = first + k
        /\ f + c <= Len(batch) + 1 /\ first + k <= Len(batch) + 1
    <3> HIDE DEF e, z
    <3> QED
      BY <1>1, <2>2
  <2>4. /\ first' = f /\ bytesleft' = bytesleft - sent /\ bufs' = bufs
        /\ batch' = IF left = 0 THEN batch
                    ELSE [batch EXCEPT ![f].offset = @ + left, ![f].n = @ - left]
    BY <1>3, <1>7 DEF k, s, left
  <2>5. e \in Entry
    BY <1>1, <2>3, ElementOfSeq
  <2>6. e.n \in Nat /\ e.offset \in Nat /\ e.from \in Int /\ e.type \in {"buf", "file"}
    BY <2>5, EntryIs
  <2>7. s = Len(I!Pieces(batch, first, k))
    BY DEF s, I!SumOf
  <2> HIDE DEF f, e, c, m
  <2>8. z \in Entry /\ z.from = e.from /\ z.type = e.type /\ z.offset = e.offset + left /\ z.n = e.n - left
        /\ z.n # 0
    <3>1. e.n - left \in Nat /\ e.offset + left \in Nat /\ e.n - left # 0
      BY <2>2, <2>6
    <3> QED
      BY <2>5, <3>1 DEF Entry
  <2>9. /\ batch' \in Seq(Entry) /\ Len(batch') = Len(batch)
        /\ \A j \in 1 .. Len(batch) : j # f => batch'[j] = batch[j]
        /\ left # 0 => batch'[f] = z
        /\ left = 0 => batch'[f] = e
    <3>1. CASE left = 0
      BY <1>1, <2>4, <3>1 DEF e
    <3>2. CASE left # 0
      <4>1. batch' = [batch EXCEPT ![f] = z]
        BY <2>4, <3>2 DEF e
      <4> HIDE DEF z
      <4>2. /\ batch' \in Seq(Entry) /\ Len(batch') = Len(batch) /\ batch'[f] = z
            /\ \A j \in 1 .. Len(batch) : j # f => batch'[j] = batch[j]
        BY <1>1, <2>3, <2>8, <4>1, ExceptSeq
      <4> QED
        BY <3>2, <4>2
    <3> QED
      BY <3>1, <3>2
  <2>10. /\ batch'[f].n # 0 /\ batch'[f].type = e.type
         /\ I!BytesOf(batch'[f]) = I!Drop(I!BytesOf(e), left)
    <3>1. CASE left = 0
      <4>1. I!BytesOf(e) \in Seq(Byte)
        BY <2>5, BytesAre
      <4>2. I!Drop(I!BytesOf(e), 0) = I!BytesOf(e)
        BY <4>1, DropNone
      <4>3. e.n # 0
        BY <2>2, <2>6, <3>1
      <4> QED
        BY <2>9, <3>1, <4>2, <4>3
    <3>2. CASE left # 0
      <4> HIDE DEF z
      <4>1. left <= e.n
        BY <2>2, <2>6
      <4>2. I!BytesOf(z) = I!Drop(I!BytesOf(e), left)
        BY <2>2, <2>5, <2>8, <4>1, BytesLeft
      <4> QED
        BY <2>8, <2>9, <3>2, <4>2
    <3> QED
      BY <3>1, <3>2
  <2> HIDE DEF z
  <2> DEFINE q == I!Pieces(batch, first, k)
             y == I!Pieces(batch, f, c)
  <2>11. owed = q \o y /\ q \in Seq(Byte)
    <3>1. I!Pieces(batch, first, m) = I!Pieces(batch, first, k) \o I!Pieces(batch, f, c)
      <4>1. Parts(batch, first, m, k, f, c)
        BY <1>1, <2>2, <2>3 DEF Parts
      <4> QED
        BY <4>1, PiecesSplit
    <3>2. q \in Seq(Byte)
      BY <1>1, <2>2, <2>3, PiecesType
    <3> QED
      BY <1>1, <2>3, <3>1, <3>2
  <2>12. /\ I!Pieces(batch', f, c) = I!Drop(y, left) /\ y \in Seq(Byte) /\ left <= Len(y)
    <3>1. \A j \in f + 1 .. Len(batch) : batch'[j] = batch[j]
      <4>1. \A j \in f + 1 .. Len(batch) : j \in 1 .. Len(batch) /\ j # f
        <5>1. f \in Nat /\ Len(batch) \in Nat
          BY <1>1, <2>3
        <5> QED
          BY <5>1
      <4> QED
        BY <2>9, <4>1
    <3>2. I!BytesOf(batch'[f]) = I!Drop(I!BytesOf(batch[f]), left) /\ left <= batch[f].n
      <4>1. left <= e.n
        BY <2>2, <2>6
      <4> QED
        BY <2>10, <4>1 DEF e
    <3>3. /\ I!Pieces(batch', f, Len(batch) - f + 1) = I!Drop(I!Pieces(batch, f, Len(batch) - f + 1), left)
          /\ I!Pieces(batch, f, Len(batch) - f + 1) \in Seq(Byte)
          /\ left <= Len(I!Pieces(batch, f, Len(batch) - f + 1))
      <4>1. /\ batch \in Seq(Entry) /\ batch' \in Seq(Entry) /\ Len(batch') = Len(batch)
            /\ f \in 1 .. Len(batch) /\ left \in Nat
        BY <1>1, <2>2, <2>3, <2>9
      <4> QED
        BY <3>1, <3>2, <4>1, PiecesLeft
    <3> QED
      BY <3>3 DEF c
  <2>13. owed' = I!Drop(y, left)
    <3>1. sent = Len(q) + left
      <4>1. Len(q) \in Nat
        BY <2>11, LenProperties
      <4>2. s = Len(q)
        BY <2>7
      <4> QED
        BY <1>2, <4>1, <4>2 DEF left
    <3> HIDE DEF q, y
    <3> QED
      BY <1>3, <2>2, <2>11, <2>12, <3>1, DropMore
  <2>14. owed' = I!Ahead'
    <3>1. Len(batch') - first' + 1 = c
      BY <2>4, <2>9 DEF c
    <3>2. I!Ahead' = I!Pieces(batch', f, c)
      BY <2>4, <3>1 DEF I!Ahead
    <3> QED
      BY <2>12, <2>13, <3>2
  <2>15. I!NoMap' = I!NoMap
    BY DEF I!NoMap
  <2>16. InStep'
    <3>1. bytesleft' = Len(owed') /\ first' \in Nat \ {0} /\ first' <= Len(batch') + 1
      BY <1>1, <1>5, <2>3, <2>4, <2>9
    <3> QED
      BY <1>3, <1>4, <2>9, <2>14, <2>15, <3>1 DEF InStep, MapOurs
  <2>17. SendKnown'
    <3>1. \A j \in first' .. Len(batch') : batch'[j].n # 0
      <4>1. ASSUME NEW j \in first' .. Len(batch'), j # f PROVE batch'[j].n # 0
        <5>1. j \in 1 .. Len(batch) /\ j \in first .. Len(batch)
          <6>1. first' = f /\ Len(batch') = Len(batch)
            BY <2>4, <2>9
          <6>2. f \in Nat /\ first \in Nat /\ f >= 1 /\ first <= f /\ Len(batch) \in Nat
            BY <1>1, <2>2, <2>3
          <6>3. j \in f .. Len(batch)
            BY <6>1
          <6> QED
            BY <6>2, <6>3
        <5> QED
          BY <2>9, <4>1, <5>1 DEF SendKnown
      <4> QED
        BY <2>10, <4>1
    <3>2. owed' # <<>>
      <4>1. Len(owed') # 0
        BY <1>1, <1>2, <1>5, <2>1
      <4> QED
        BY <4>1
    <3>3. Buffers' = Buffers
      <4>1. \A j \in 1 .. Len(batch) : batch'[j].type = batch[j].type
        BY <2>9, <2>10 DEF e
      <4> QED
        BY <2>9, <4>1 DEF Buffers
    <3> QED
      BY <1>3, <2>4, <2>15, <3>1, <3>2, <3>3 DEF SendKnown
  <2> QED
    BY <2>16, <2>17
<1> QED
  BY <1>6, <1>7

-----------------------------------------------------------------------------
(* iob_write.                                                              *)

LEMMA WriteKeeps == ASSUME InStep, I!Write PROVE InStep'
<1>1. /\ place' = "loop" /\ here' = first /\ first' = first /\ batch' = batch /\ bytesleft' = bytesleft
      /\ owed' = owed /\ mixed' = mixed /\ mapped' = mapped
  BY DEF I!Write
<1>2. Len(batch) \in Nat /\ first \in Nat /\ first <= Len(batch) + 1
  BY LenProperties DEF InStep
<1>3. first \in first .. Len(batch) + 1 /\ first .. first - 1 = {}
  BY <1>2
<1>4. I!Ahead' = I!Ahead
  BY <1>1 DEF I!Ahead
<1>5. MapOurs'
  BY <1>1 DEF InStep, MapOurs
<1>6. Passed'
  BY <1>1, <1>3 DEF Passed
<1> QED
  BY <1>1, <1>3, <1>4, <1>5, <1>6 DEF InStep

(* The callback is given the bytes of the entry, from whichever chunk.     *)
LEMMA HandedIs ==
  ASSUME InStep, place = "loop", here <= Len(batch), batch[here].type = "file", batch[here].n # 0
  PROVE  /\ mapped = I!NoMap \/ mapped.file = batch[here].from
         /\ I!Handed(batch[here]) = I!BytesOf(batch[here])
<1> DEFINE e == batch[here]
<1>1. /\ here \in first .. Len(batch) /\ here \in Nat /\ first \in Nat /\ first >= 1
      /\ Len(batch) \in Nat /\ Passed
  BY LenProperties DEF InStep
<1>2. e \in Entry
  <2>1. here \in 1 .. Len(batch)
    BY <1>1
  <2> QED
    BY <2>1, StepTypes
<1>3. e.n \in Nat /\ e.offset \in Nat /\ e.from \in Int
  BY <1>2, EntryIs
<1>4. mapped = I!NoMap \/ mapped.file = e.from
  <2>1. SUFFICES ASSUME mapped # I!NoMap PROVE mapped.file = e.from
    OBVIOUS
  <2>2. PICK k \in first .. Len(batch) :
          /\ batch[k].n # 0 /\ batch[k].type = "file" /\ batch[k].from = mapped.file
          /\ \A l \in first .. k - 1 : batch[l].n = 0
    BY <2>1 DEF InStep, MapOurs
  <2>3. k \notin first .. here - 1
    BY <1>1, <2>2 DEF Passed
  <2>4. here \notin first .. k - 1
    BY <2>2
  <2>5. k = here
    BY <1>1, <2>3, <2>4
  <2> QED
    BY <2>2, <2>5
<1>5. ASSUME NEW j \in 1 .. e.n
      PROVE  (IF I!InMap(mapped, e.offset + j - 1) THEN mapped.file ELSE e.from) = e.from
  <2> DEFINE off == e.offset + j - 1
  <2>1. off \in Nat
    BY <1>3
  <2>2. CASE mapped = I!NoMap
    <3>1. mapped.ofs = 0 /\ mapped.len = 0
      BY <2>2 DEF I!NoMap
    <3>2. ~(off < 0 + 0)
      BY <2>1
    <3> HIDE DEF off
    <3>3. ~I!InMap(mapped, off)
      BY <3>1, <3>2 DEF I!InMap
    <3> QED
      BY <3>3 DEF off
  <2>3. CASE mapped.file = e.from
    BY <2>3
  <2> QED
    BY <1>4, <2>2, <2>3
<1>6. I!Handed(e) = I!BytesOf(e)
  <2>1. \A j \in 1 .. e.n :
          <<IF I!InMap(mapped, e.offset + j - 1) THEN mapped.file ELSE e.from, e.offset + j - 1>>
            = <<e.from, e.offset + j - 1>>
    BY <1>5
  <2> HIDE DEF e
  <2> QED
    BY <2>1 DEF I!Handed, I!BytesOf
<1> QED
  BY <1>4, <1>6

LEMMA WriteEntryKeeps == ASSUME InStep, I!WriteEntry PROVE InStep'
<1> DEFINE e == batch[here]
           m == Len(batch) - first + 1
           l == here - first
           c == Len(batch) - here + 1
<1>1. PICK sent \in 0 .. e.n :
        LET gone == SubSeq(IF e.type = "file" THEN I!Handed(e) ELSE I!BytesOf(e), 1, sent)
        IN  /\ batch' = [batch EXCEPT ![here].offset = @ + sent, ![here].n = @ - sent]
            /\ bytesleft' = bytesleft - sent
            /\ owed' = I!Drop(owed, sent)
            /\ mixed' = (mixed \/ gone # SubSeq(owed, 1, sent))
            /\ mapped' = IF e.type = "file" /\ e.n > 0 THEN I!MapAfter(e, sent) ELSE mapped
            /\ here' = here + 1
            /\ place' = IF sent = e.n THEN "loop" ELSE IF sent = 0 THEN "idle" ELSE "end"
  BY DEF I!WriteEntry
<1>2. place = "loop" /\ here <= Len(batch) /\ first' = first
  BY DEF I!WriteEntry
<1>3. /\ Len(batch) \in Nat /\ m \in Nat /\ first + m = Len(batch) + 1 /\ first \in Nat /\ first >= 1
      /\ owed = I!Pieces(batch, first, m) /\ owed \in Seq(Byte)
      /\ batch \in Seq(Entry) /\ bytesleft = Len(owed) /\ bytesleft \in Nat
      /\ here \in first .. Len(batch) /\ here \in Nat /\ here \in 1 .. Len(batch) /\ Passed
      /\ l \in Nat /\ c \in Nat
  BY <1>2, StepTypes DEF InStep
<1>4. e \in Entry
  BY <1>3, StepTypes
<1>5. /\ e.n \in Nat /\ e.offset \in Nat /\ e.from \in Int /\ e.type \in {"buf", "file"}
      /\ sent \in Nat /\ sent <= e.n
  BY <1>4, EntryIs
<1> DEFINE z == [e EXCEPT !.offset = @ + sent, !.n = @ - sent]
<1> HIDE DEF e
<1>6. z \in Entry /\ z.from = e.from /\ z.type = e.type /\ z.offset = e.offset + sent /\ z.n = e.n - sent
  <2>1. e.n - sent \in Nat /\ e.offset + sent \in Nat
    BY <1>5
  <2> QED
    BY <1>4, <2>1 DEF Entry
<1>7. batch' = [batch EXCEPT ![here] = z]
  BY <1>1 DEF e
<1> HIDE DEF z
<1>8. /\ batch' \in Seq(Entry) /\ Len(batch') = Len(batch) /\ batch'[here] = z
      /\ \A j \in 1 .. Len(batch) : j # here => batch'[j] = batch[j]
  BY <1>3, <1>6, <1>7, ExceptSeq
<1>9. I!BytesOf(z) = I!Drop(I!BytesOf(e), sent)
  BY <1>4, <1>5, <1>6, BytesLeft
<1>10. /\ Parts(batch, first, m, l, here, c) /\ Parts(batch', first, m, l, here, c)
       /\ first + l <= Len(batch) + 1 /\ first + l <= Len(batch') + 1
  BY <1>3, <1>8 DEF Parts
<1>11. I!Pieces(batch, first, l) = <<>> /\ I!Pieces(batch', first, l) = <<>>
  <2>1. \A j \in first .. first + l - 1 : j \in first .. here - 1 /\ j \in 1 .. Len(batch) /\ j # here
    BY <1>3
  <2>2. \A j \in first .. first + l - 1 : batch[j].n = 0 /\ batch'[j].n = 0
    BY <1>3, <1>8, <2>1 DEF Passed
  <2> HIDE DEF l
  <2> QED
    BY <1>3, <1>8, <1>10, <2>2, PiecesEmpty
<1> DEFINE y == I!Pieces(batch, here, c)
<1>12. /\ I!Pieces(batch', here, c) = I!Drop(y, sent) /\ SubSeq(y, 1, sent) = SubSeq(I!BytesOf(e), 1, sent)
       /\ y \in Seq(Byte) /\ sent <= Len(y)
  <2>1. \A j \in here + 1 .. Len(batch) : batch'[j] = batch[j]
    <3>1. \A j \in here + 1 .. Len(batch) : j \in 1 .. Len(batch) /\ j # here
      BY <1>3
    <3> QED
      BY <1>8, <3>1
  <2>2. I!BytesOf(batch'[here]) = I!Drop(I!BytesOf(batch[here]), sent) /\ sent <= batch[here].n
    BY <1>5, <1>8, <1>9 DEF e
  <2>3. /\ I!Pieces(batch', here, Len(batch) - here + 1)
             = I!Drop(I!Pieces(batch, here, Len(batch) - here + 1), sent)
        /\ SubSeq(I!Pieces(batch, here, Len(batch) - here + 1), 1, sent)
             = SubSeq(I!BytesOf(batch[here]), 1, sent)
        /\ I!Pieces(batch, here, Len(batch) - here + 1) \in Seq(Byte)
        /\ sent <= Len(I!Pieces(batch, here, Len(batch) - here + 1))
    BY <1>3, <1>5, <1>8, <2>1, <2>2, PiecesLeft
  <2> QED
    BY <2>3 DEF e
<1> HIDE DEF l, c, m
<1>13. owed = y
  <2>1. I!Pieces(batch, first, m) = I!Pieces(batch, first, l) \o I!Pieces(batch, here, c)
    BY <1>10, PiecesSplit
  <2>2. <<>> \o y = y
    BY <1>12, DropNone
  <2> QED
    BY <1>3, <1>11, <2>1, <2>2
<1>14. I!Drop(y, sent) \in Seq(Byte) /\ Len(I!Drop(y, sent)) = Len(y) - sent
  BY <1>5, <1>12, DropOf
<1>15. owed' = I!Ahead'
  <2>1. I!Pieces(batch', first, m) = I!Pieces(batch', first, l) \o I!Pieces(batch', here, c)
    BY <1>10, PiecesSplit
  <2>2. I!Pieces(batch', first, m) = I!Drop(y, sent)
    BY <1>11, <1>12, <1>14, <2>1, DropNone
  <2>3. Len(batch') - first' + 1 = m
    BY <1>2, <1>8 DEF m
  <2>4. I!Ahead' = I!Pieces(batch', first, m)
    BY <1>2, <2>3 DEF I!Ahead
  <2> QED
    BY <1>1, <1>13, <2>2, <2>4
<1>16. bytesleft' = Len(owed')
  BY <1>1, <1>3, <1>13, <1>14
<1>17. ~mixed'
  <2>1. CASE e.n = 0
    <3>1. sent = 0
      BY <1>5, <2>1
    <3>2. I!BytesOf(e) \in Seq(Byte)
      BY <1>4, BytesAre
    <3>3. e.type = "file" => I!Handed(e) = I!BytesOf(e)
      <4>1. 1 .. e.n = {}
        BY <2>1
      <4> QED
        BY <4>1 DEF I!Handed, I!BytesOf
    <3>4. SubSeq(I!BytesOf(e), 1, sent) = SubSeq(owed, 1, sent)
      BY <1>12, <1>13
    <3> QED
      BY <1>1, <3>3, <3>4 DEF InStep
  <2>2. CASE e.n # 0
    <3>1. e.type = "file" => I!Handed(e) = I!BytesOf(e)
      BY <1>2, <2>2, HandedIs DEF e
    <3>2. SubSeq(I!BytesOf(e), 1, sent) = SubSeq(owed, 1, sent)
      BY <1>12, <1>13
    <3> QED
      BY <1>1, <3>1, <3>2 DEF InStep
  <2> QED
    BY <2>1, <2>2
<1>18. place' = "loop" => here' \in first' .. Len(batch') + 1 /\ Passed'
  <2>0. place' = "loop" => sent = e.n
    BY <1>1
  <2>1. SUFFICES ASSUME sent = e.n PROVE here' \in first' .. Len(batch') + 1 /\ Passed'
    BY <2>0
  <2>2. here' = here + 1 /\ here' \in first' .. Len(batch') + 1
    <3>1. here' = here + 1 /\ first' = first /\ Len(batch') = Len(batch)
      BY <1>1, <1>2, <1>8
    <3>2. here \in Nat /\ first \in Nat /\ Len(batch) \in Nat /\ first <= here /\ here <= Len(batch)
      BY <1>3
    <3> QED
      BY <3>1, <3>2
  <2>3. batch'[here].n = 0
    BY <1>5, <1>6, <1>8, <2>1
  <2>4. \A k \in first' .. here' - 1 : k = here \/ (k \in first .. here - 1 /\ k \in 1 .. Len(batch) /\ k # here)
    BY <1>2, <1>3, <2>2
  <2>5. \A k \in first' .. here' - 1 : batch'[k].n = 0
    BY <1>3, <1>8, <2>3, <2>4 DEF Passed
  <2> QED
    BY <2>2, <2>5 DEF Passed
<1>19. MapOurs'
  <2>0. I!NoMap' = I!NoMap
    BY DEF I!NoMap
  <2>1. CASE e.n = 0
    <3>1. mapped' = mapped
      BY <1>1, <2>1
    <3>2. z.n = 0
      <4>1. sent = 0
        BY <1>5, <2>1
      <4> QED
        BY <1>6, <2>1, <4>1
    <3>3. CASE mapped = I!NoMap
      BY <2>0, <3>1, <3>3 DEF MapOurs
    <3>4. CASE mapped # I!NoMap
      <4>1. PICK k \in first .. Len(batch) :
              /\ batch[k].n # 0 /\ batch[k].type = "file" /\ batch[k].from = mapped.file
              /\ \A j \in first .. k - 1 : batch[j].n = 0
        BY <3>4 DEF InStep, MapOurs
      <4>2. k # here /\ k \in 1 .. Len(batch) /\ k \in first' .. Len(batch')
        BY <1>2, <1>3, <1>8, <2>1, <4>1 DEF e
      <4>3. \A j \in first .. k - 1 : j \in 1 .. Len(batch)
        BY <1>3
      <4>4. \A j \in first .. k - 1 : batch'[j].n = 0
        BY <1>8, <3>2, <4>1, <4>3
      <4> QED
        BY <1>2, <1>8, <3>1, <4>1, <4>2, <4>4 DEF MapOurs
    <3> QED
      BY <3>3, <3>4
  <2>2. CASE e.n # 0 /\ e.type = "file"
    <3>1. mapped' = I!MapAfter(e, sent)
      BY <1>1, <1>5, <2>2
    <3>2. CASE sent = e.n
      BY <2>0, <3>1, <3>2 DEF I!MapAfter, MapOurs
    <3>3. CASE sent # e.n
      <4>1. mapped = I!NoMap \/ mapped.file = e.from
        BY <1>2, <2>2, HandedIs DEF e
      <4>2. mapped' = I!NoMap \/ mapped'.file = e.from
        <5> DEFINE off == e.offset + sent
                   w == [e EXCEPT !.offset = off, !.n = e.n - sent]
        <5>1. w.from = e.from
          BY <1>4 DEF Entry
        <5>2. mapped' = mapped \/ mapped' = I!MapFor(w)
          BY <3>1, <3>3 DEF I!MapAfter
        <5> HIDE DEF w
        <5>3. I!MapFor(w).file = w.from
          BY DEF I!MapFor
        <5> QED
          BY <4>1, <5>1, <5>2, <5>3
      <4>3. batch'[here].n # 0 /\ batch'[here].type = "file" /\ batch'[here].from = e.from
        BY <1>5, <1>6, <1>8, <2>2, <3>3
      <4>4. \A j \in first .. here - 1 : batch'[j].n = 0
        <5>1. \A j \in first .. here - 1 : j \in 1 .. Len(batch) /\ j # here
          BY <1>3
        <5> QED
          BY <1>3, <1>8, <5>1 DEF Passed
      <4>5. here \in first' .. Len(batch')
        BY <1>2, <1>3, <1>8
      <4> QED
        BY <1>2, <2>0, <4>2, <4>3, <4>4, <4>5 DEF MapOurs
    <3> QED
      BY <3>2, <3>3
  <2>3. CASE e.n # 0 /\ e.type # "file"
    <3>1. mapped' = mapped
      BY <1>1, <2>3
    <3>2. mapped = I!NoMap
      <4>1. SUFFICES ASSUME mapped # I!NoMap PROVE FALSE
        OBVIOUS
      <4>2. PICK k \in first .. Len(batch) :
              /\ batch[k].n # 0 /\ batch[k].type = "file"
              /\ \A j \in first .. k - 1 : batch[j].n = 0
        BY <4>1 DEF InStep, MapOurs
      <4>3. k \notin first .. here - 1 /\ here \notin first .. k - 1 /\ k # here
        BY <1>3, <2>3, <4>2 DEF Passed, e
      <4> QED
        BY <1>3, <4>2, <4>3
    <3> QED
      BY <2>0, <3>1, <3>2 DEF MapOurs
  <2> QED
    BY <2>1, <2>2, <2>3
<1> QED
  <2>1. first' \in Nat \ {0} /\ first' <= Len(batch') + 1
    BY <1>2, <1>3, <1>8
  <2> QED
    BY <1>8, <1>15, <1>16, <1>17, <1>18, <1>19, <2>1 DEF InStep

LEMMA WriteFailsKeeps ==
  ASSUME InStep, I!WriteFails
  PROVE  InStep' /\ (lostTrack => lostTrack')
<1>1. /\ batch' = batch /\ first' = first /\ bytesleft' = bytesleft /\ place' = "idle"
      /\ mapped' = I!NoMap /\ owed' = owed /\ mixed' = mixed /\ (lostTrack => lostTrack')
  BY DEF I!WriteFails
<1>2. I!Ahead' = I!Ahead
  BY <1>1 DEF I!Ahead
<1>3. MapOurs'
  <2>1. I!NoMap' = I!NoMap
    BY DEF I!NoMap
  <2> QED
    BY <1>1, <2>1 DEF MapOurs
<1> QED
  BY <1>1, <1>2, <1>3 DEF InStep

LEMMA WriteEndKeeps ==
  ASSUME InStep, I!WriteEnd
  PROVE  lostTrack' \/ InStep'
<1>1. CASE total = bytesleft
  BY <1>1 DEF I!WriteEnd
<1>2. CASE total # bytesleft
  <2>1. /\ batch' = batch /\ first' = first /\ bytesleft' = bytesleft /\ place' = "idle"
        /\ mapped' = mapped /\ owed' = owed /\ mixed' = mixed
    BY <1>2 DEF I!WriteEnd
  <2>2. I!Ahead' = I!Ahead
    BY <2>1 DEF I!Ahead
  <2>3. MapOurs'
    BY <2>1 DEF InStep, MapOurs
  <2> QED
    BY <2>1, <2>2, <2>3 DEF InStep
<1> QED
  BY <1>1, <1>2

-----------------------------------------------------------------------------
LEMMA InitBatch == I!Init => BatchInv
<1> SUFFICES ASSUME I!Init PROVE BatchInv
  OBVIOUS
<1>1. /\ by \in {"send", "write"} /\ batch = <<>> /\ first = 1 /\ bytesleft = 0 /\ bufs = 0
      /\ place = "idle" /\ mapped = I!NoMap /\ owed = <<>> /\ ~mixed /\ added = 0
      /\ ~lostTrack /\ ~leftMap
  BY DEF I!Init
<1>2. batch \in Seq(Entry) /\ Len(batch) = 0 /\ Len(owed) = 0
  BY <1>1
<1>3. I!Ahead = <<>>
  <2>1. Len(batch) - first + 1 = 0
    BY <1>1, <1>2
  <2> QED
    BY <2>1, PiecesNone DEF I!Ahead
<1>4. InStep
  BY <1>1, <1>2, <1>3 DEF InStep, MapOurs
<1>5. SendKnown
  <2>1. Buffers = {} /\ first .. Len(batch) = {}
    BY <1>1, <1>2 DEF Buffers
  <2> QED
    BY <1>1, <2>1, FS_EmptySet DEF SendKnown
<1> QED
  BY <1>1, <1>4, <1>5 DEF BatchInv

LEMMA NextBatch ==
  ASSUME I!BatchAssumption, BatchInv, [I!Next]_I!vars
  PROVE  BatchInv'
<1>1. CASE \E e \in Entry : e.n # 0 /\ I!Add(e)
  <2>1. /\ by' = by /\ added' \in Nat /\ lostTrack' = lostTrack /\ leftMap' = leftMap
    BY <1>1 DEF I!Add, BatchInv
  <2>2. CASE lostTrack \/ leftMap
    BY <2>1, <2>2 DEF BatchInv, SendKnown
  <2>3. CASE InStep
    BY <1>1, <2>1, <2>3, AddKeeps DEF BatchInv
  <2> QED
    BY <2>2, <2>3 DEF BatchInv
<1>2. CASE I!Reset
  <2>1. /\ by' = by /\ added' = added /\ lostTrack' = lostTrack /\ (leftMap => leftMap')
    BY <1>2 DEF I!Reset
  <2>2. CASE lostTrack \/ leftMap
    BY <2>1, <2>2 DEF BatchInv, SendKnown
  <2>3. CASE InStep /\ ~leftMap
    BY <1>2, <2>1, <2>3, ResetKeeps DEF BatchInv
  <2> QED
    BY <2>2, <2>3 DEF BatchInv
<1>3. CASE \E sent \in 1 .. bytesleft : I!Send(sent)
  <2>1. /\ by' = by /\ added' = added /\ by = "send"
    BY <1>3 DEF I!Send
  <2>2. SendKnown /\ InStep
    BY <2>1 DEF BatchInv, SendKnown
  <2>3. InStep' /\ SendKnown'
    BY <1>3, <2>2, SendKeeps
  <2> QED
    BY <2>1, <2>3 DEF BatchInv
<1>4. CASE I!Write \/ I!WriteEntry \/ I!WriteFails \/ I!WriteEnd
  <2>1. /\ by' = by /\ added' = added /\ (lostTrack => lostTrack') /\ (leftMap => leftMap')
    BY <1>4 DEF I!Write, I!WriteEntry, I!WriteFails, I!WriteEnd
  <2>2. by # "send"
    BY <1>4 DEF I!Write, I!WriteEntry, I!WriteFails, I!WriteEnd, BatchInv, SendKnown
  <2>3. lostTrack' \/ leftMap' \/ InStep'
    BY <1>4, <2>1, WriteKeeps, WriteEntryKeeps, WriteFailsKeeps, WriteEndKeeps DEF BatchInv
  <2> QED
    BY <2>1, <2>2, <2>3 DEF BatchInv
<1>5. CASE UNCHANGED I!vars
  <2>1. /\ by' = by /\ batch' = batch /\ first' = first /\ bytesleft' = bytesleft /\ bufs' = bufs
        /\ place' = place /\ here' = here /\ mapped' = mapped /\ owed' = owed /\ mixed' = mixed
        /\ added' = added /\ lostTrack' = lostTrack /\ leftMap' = leftMap
    BY <1>5 DEF I!vars, I!local
  <2>2. InStep => InStep'
    BY <2>1 DEF InStep, MapOurs, Passed, I!Ahead
  <2>3. SendKnown => SendKnown'
    BY <2>1 DEF SendKnown, Buffers
  <2> QED
    BY <2>1, <2>2, <2>3 DEF BatchInv
<1>6. CASE \E n \in Lengths : I!AddBuf(n)
  <2>1. PICK n \in Lengths : I!AddBuf(n)
    BY <1>6
  <2> DEFINE e == [type |-> "buf", from |-> added, offset |-> 0, n |-> n]
  <2>2. e \in Entry /\ e.n # 0
    BY DEF Entry, I!BatchAssumption, BatchInv
  <2>3. I!Add(e)
    BY <2>1 DEF I!AddBuf
  <2> QED
    BY <1>1, <2>2, <2>3
<1>7. CASE \E n \in Lengths, f \in Files, off \in Offsets : I!AddFile(f, off, n)
  <2>1. PICK n \in Lengths, f \in Files, off \in Offsets : I!AddFile(f, off, n)
    BY <1>7
  <2> DEFINE e == [type |-> "file", from |-> f, offset |-> off, n |-> n]
  <2>2. e \in Entry /\ e.n # 0
    BY DEF Entry, I!BatchAssumption
  <2>3. I!Add(e)
    BY <2>1 DEF I!AddFile
  <2> QED
    BY <1>1, <2>2, <2>3
<1> QED
  BY <1>2, <1>3, <1>4, <1>5, <1>6, <1>7 DEF I!Next

LEMMA BatchInvHolds ==
  ASSUME I!BatchAssumption
  PROVE  I!Spec => []BatchInv
<1>1. BatchInv /\ [I!Next]_I!vars => BatchInv'
  BY NextBatch
<1> QED
  BY InitBatch, <1>1, PTL DEF I!Spec

(* What goes out over a socket is what was added to the batch, in its      *)
(* order and nothing twice, for pieces of any length and number, any       *)
(* partial writes and chunks of any size (iob_send, iob_write,             *)
(* io_mmapwritefile); a batch that iob_send has sent is empty.  Behind the *)
(* two calls that go wrong nothing is said.                                *)
THEOREM BatchGoesOutInOrder ==
  ASSUME I!BatchAssumption
  PROVE  I!Spec => []I!BatchInOrder
<1>1. BatchInv => I!BatchInOrder
  BY DEF BatchInv, InStep, SendKnown, I!BatchInOrder
<1> QED
  BY BatchInvHolds, <1>1, PTL

(* iob_send has as many vectors on its stack as it fills (bufs).           *)
THEOREM BatchEnoughVectors ==
  ASSUME I!BatchAssumption
  PROVE  I!Spec => []I!EnoughVectors
<1>1. ASSUME BatchInv, batch # <<>>, by = "send"
      PROVE  I!Headers <= bufs
  <2> DEFINE h == I!Headers
             V == first .. first + h - 1
  <2>1. SendKnown /\ InStep
    BY <1>1 DEF BatchInv, SendKnown
  <2>2. bytesleft > 0
    <3>1. owed # <<>> /\ owed \in Seq(Byte) /\ bytesleft = Len(owed) /\ bytesleft \in Nat
      BY <1>1, <2>1, StepTypes DEF SendKnown, InStep
    <3> QED
      BY <3>1, EmptySeq
  <2>3. /\ h \in 0 .. Len(batch) - first + 1
        /\ \A k \in 0 .. h - 1 : batch[first + k].type # "file"
    BY <2>1, <2>2, OfferedIs
  <2> HIDE DEF h
  <2>4. first \in Nat /\ first >= 1 /\ Len(batch) \in Nat /\ h \in Nat
    BY <2>1, <2>3, LenProperties DEF InStep
  <2>5. V \subseteq Buffers
    <3>1. ASSUME NEW v \in V PROVE v \in Buffers
      <4>1. v - first \in 0 .. h - 1 /\ first + (v - first) = v /\ v \in 1 .. Len(batch)
        BY <2>3, <2>4
      <4>2. batch[v].type # "file"
        BY <2>3, <4>1
      <4>3. batch[v].type \in {"buf", "file"}
        BY <2>1, <4>1, StepTypes, EntryIs
      <4> QED
        BY <4>1, <4>2, <4>3 DEF Buffers
    <3> QED
      BY <3>1
  <2>6. Cardinality(V) = h
    <3> DEFINE to == first + h - 1
    <3>1. first \in Int /\ to \in Int /\ to - first + 1 = h /\ (first > to => h = 0)
      BY <2>4
    <3> HIDE DEF to
    <3>2. Cardinality(first .. to) = IF first > to THEN 0 ELSE to - first + 1
      BY <3>1, FS_Interval
    <3> QED
      BY <3>1, <3>2 DEF to
  <2>7. IsFiniteSet(Buffers)
    <3>1. IsFiniteSet(1 .. Len(batch)) /\ Buffers \in SUBSET (1 .. Len(batch))
      BY <2>4, FS_Interval DEF Buffers
    <3> QED
      BY <3>1, FS_Subset
  <2>8. Cardinality(V) <= Cardinality(Buffers) /\ Cardinality(Buffers) \in Nat
    BY <2>5, <2>7, FS_Subset, FS_CardinalityType
  <2>9. Cardinality(Buffers) <= bufs /\ bufs \in Nat
    BY <2>1 DEF SendKnown
  <2> QED
    BY <2>4, <2>6, <2>8, <2>9 DEF h
<1>2. BatchInv => I!EnoughVectors
  BY <1>1 DEF I!EnoughVectors
<1> QED
  BY BatchInvHolds, <1>2, PTL

-----------------------------------------------------------------------------
(* md5: a message in pieces.  Words and places are remainders.             *)

LEMMA ModOf ==
  ASSUME NEW a \in Int, NEW w \in Nat \ {0}
  PROVE  /\ a % w \in 0 .. w - 1 /\ a \div w \in Int /\ a = w * (a \div w) + (a % w)
         /\ a \in Nat => a \div w \in Nat
OBVIOUS

LEMMA ModIs ==
  ASSUME NEW a \in Int, NEW w \in Nat \ {0}, NEW q \in Int, NEW r \in 0 .. w - 1, a = w * q + r
  PROVE  a % w = r /\ a \div w = q
<1>1. /\ a % w \in 0 .. w - 1 /\ a \div w \in Int /\ a = w * (a \div w) + (a % w)
  BY ModOf
<1> DEFINE u == a % w
           v == a \div w
<1> HIDE DEF u, v
<1>2. u \in 0 .. w - 1 /\ v \in Int /\ w * q + r = w * v + u
  BY <1>1 DEF u, v
<1>3. w * (q - v) = u - r
  BY <1>2
<1>4. ~ (q - v >= 1)
  <2>1. SUFFICES ASSUME q - v >= 1 PROVE FALSE
    OBVIOUS
  <2>2. w * (q - v) >= w
    BY <1>2, <2>1
  <2> QED
    BY <1>2, <1>3, <2>2
<1>5. ~ (q - v <= -1)
  <2>1. SUFFICES ASSUME q - v <= -1 PROVE FALSE
    OBVIOUS
  <2>2. w * (q - v) <= -w
    BY <1>2, <2>1
  <2> QED
    BY <1>2, <1>3, <2>2
<1>6. q = v
  BY <1>2, <1>4, <1>5
<1>7. u = r
  BY <1>2, <1>6
<1> QED
  BY <1>6, <1>7 DEF u, v

LEMMA ModOfSum ==
  ASSUME NEW a \in Int, NEW b \in Int, NEW w \in Nat \ {0}
  PROVE  ((a % w) + b) % w = (a + b) % w
<1> DEFINE r == a % w
           q == a \div w
           t == (r + b) % w
           u == (r + b) \div w
<1>1. r \in 0 .. w - 1 /\ q \in Int /\ a = w * q + r
  BY ModOf
<1> HIDE DEF r, q
<1>2. t \in 0 .. w - 1 /\ u \in Int /\ r + b = w * u + t
  <2>1. r + b \in Int
    BY <1>1
  <2> QED
    BY <2>1, ModOf
<1> HIDE DEF t, u
<1>3. a + b = w * (q + u) + t /\ q + u \in Int /\ a + b \in Int
  BY <1>1, <1>2
<1>4. (a + b) % w = t
  BY <1>2, <1>3, ModIs
<1> QED
  BY <1>4 DEF t, r

(* The bits of a message, in the two words of the count.                   *)
Counts(a) == [lo |-> a % Wrap, hi |-> (a \div Wrap) % Wrap]

LEMMA CountsOfSum ==
  ASSUME NEW a \in Nat, NEW b \in Nat, Wrap \in Nat \ {0}
  PROVE  LET lo == ((a % Wrap) + b) % Wrap
         IN  /\ lo = (a + b) % Wrap
             /\ (((a \div Wrap) % Wrap) + (b \div Wrap) + (IF lo < b % Wrap THEN 1 ELSE 0)) % Wrap
                  = ((a + b) \div Wrap) % Wrap
<1> DEFINE ra == a % Wrap
           qa == a \div Wrap
           rb == b % Wrap
           qb == b \div Wrap
           lo == (ra + b) % Wrap
           c == IF lo < rb THEN 1 ELSE 0
<1>0. a \in Int /\ b \in Int /\ Wrap \in Nat \ {0}
  OBVIOUS
<1>1. ra \in 0 .. Wrap - 1 /\ qa \in Nat /\ a = Wrap * qa + ra
  BY <1>0, ModOf
<1>2. rb \in 0 .. Wrap - 1 /\ qb \in Nat /\ b = Wrap * qb + rb
  BY <1>0, ModOf
<1>3. lo = (a + b) % Wrap
  BY <1>0, ModOfSum
<1> HIDE DEF ra, qa, rb, qb, lo
<1>4. a + b \in Int /\ a + b = Wrap * (qa + qb) + (ra + rb) /\ qa + qb \in Int
  BY <1>1, <1>2
<1>5. (a + b) \div Wrap = qa + qb + c
  <2>1. CASE ra + rb < Wrap
    <3>1. ra + rb \in 0 .. Wrap - 1
      BY <1>1, <1>2, <2>1
    <3>2. lo = ra + rb /\ (a + b) \div Wrap = qa + qb
      BY <1>3, <1>4, <3>1, ModIs
    <3> QED
      BY <1>1, <1>2, <3>2
  <2>2. CASE ~ (ra + rb < Wrap)
    <3>1. ra + rb - Wrap \in 0 .. Wrap - 1 /\ qa + qb + 1 \in Int
      BY <1>1, <1>2, <2>2
    <3>2. a + b = Wrap * (qa + qb + 1) + (ra + rb - Wrap)
      BY <1>1, <1>2, <1>4
    <3>3. lo = ra + rb - Wrap /\ (a + b) \div Wrap = qa + qb + 1
      BY <1>3, <1>4, <3>1, <3>2, ModIs
    <3> QED
      BY <1>1, <1>2, <3>3
  <2> QED
    BY <2>1, <2>2
<1>6. ((qa % Wrap) + (qb + c)) % Wrap = (qa + (qb + c)) % Wrap
  <2>1. qa \in Int /\ qb + c \in Int
    BY <1>1, <1>2
  <2> HIDE DEF c
  <2> QED
    BY <2>1, ModOfSum
<1>7. /\ qa % Wrap \in Int /\ c \in Int
      /\ (qa % Wrap) + qb + c = (qa % Wrap) + (qb + c) /\ qa + (qb + c) = qa + qb + c
  <2>1. qa % Wrap \in 0 .. Wrap - 1
    BY <1>1, ModOf
  <2> QED
    BY <1>1, <1>2, <2>1
<1>8. ((qa % Wrap) + qb + c) % Wrap = ((a + b) \div Wrap) % Wrap
  BY <1>5, <1>6, <1>7
<1> QED
  BY <1>3, <1>8 DEF ra, qa, rb, qb, lo

LEMMA CountedIs ==
  ASSUME D!DigestAssumption, NEW l \in Nat, NEW n \in Nat
  PROVE  D!Counted(Counts(8 * l), n) = Counts(8 * (l + n))
<1> DEFINE a == 8 * l
           b == 8 * n
<1>1. a \in Nat /\ b \in Nat /\ 8 * (l + n) = a + b /\ Wrap \in Nat \ {0}
  BY DEF D!DigestAssumption
<1> HIDE DEF a
<1>2. LET lo == ((a % Wrap) + b) % Wrap
      IN  /\ lo = (a + b) % Wrap
          /\ (((a \div Wrap) % Wrap) + (b \div Wrap) + (IF lo < b % Wrap THEN 1 ELSE 0)) % Wrap
               = ((a + b) \div Wrap) % Wrap
  <2> HIDE DEF b
  <2> QED
    BY <1>1, CountsOfSum
<1> QED
  BY <1>1, <1>2 DEF D!Counted, Counts, a

(* The place in the block, and the zeros that the pad needs.               *)
LEMMA OffsetIs ==
  ASSUME D!DigestAssumption, NEW l \in Nat
  PROVE  /\ D!Offset(Counts(8 * l)) = l % Block
         /\ (Block - 3 - (Counts(8 * l).lo \div 8)) % Block = (-(l + 3)) % Block
<1>1. /\ Wrap \in Nat \ {0} /\ Block \in Nat \ {0} /\ 8 * Block \in Nat \ {0}
      /\ Wrap % (8 * Block) = 0 /\ 8 * l \in Int
  BY DEF D!DigestAssumption
<1> DEFINE v == Wrap \div (8 * Block)
           lo == (8 * l) % Wrap
           q == (8 * l) \div Wrap
<1>2. v \in Int /\ Wrap = (8 * Block) * v
  <2>1. v \in Int /\ Wrap = (8 * Block) * v + (Wrap % (8 * Block))
    <3> DEFINE e == 8 * Block
    <3> HIDE DEF e
    <3>1. Wrap \in Int /\ e \in Nat \ {0}
      BY <1>1 DEF e
    <3>2. Wrap \div e \in Int /\ Wrap = e * (Wrap \div e) + (Wrap % e)
      BY <3>1, ModOf
    <3> QED
      BY <3>2 DEF e
  <2> HIDE DEF v
  <2> QED
    BY <1>1, <2>1
<1>3. lo \in 0 .. Wrap - 1 /\ q \in Int /\ 8 * l = Wrap * q + lo
  BY <1>1, ModOf
<1> HIDE DEF v, lo, q
<1> DEFINE k == v * q
<1>4. k \in Int /\ Wrap * q = 8 * (Block * k)
  BY <1>1, <1>2, <1>3
<1> HIDE DEF k
<1> DEFINE y == Block * k
<1>5. y \in Int /\ 8 * l = 8 * y + lo
  BY <1>1, <1>3, <1>4
<1> HIDE DEF y
<1>6. lo \div 8 = l - y /\ l - y \in Int
  BY <1>3, <1>5
<1>7. (l - y) % Block = l % Block
  <2> DEFINE r == l % Block
             s == l \div Block
  <2>1. r \in 0 .. Block - 1 /\ s \in Int /\ l = Block * s + r
    BY <1>1, ModOf
  <2> HIDE DEF r, s
  <2>2. l - y = Block * (s - k) + r /\ s - k \in Int
    BY <1>1, <1>4, <2>1 DEF y
  <2>3. (l - y) % Block = r
    BY <1>1, <1>6, <2>1, <2>2, ModIs
  <2> QED
    BY <2>3 DEF r
<1>8. (Block - 3 - (l - y)) % Block = (-(l + 3)) % Block
  <2> DEFINE z == -(l + 3)
             r == z % Block
             s == z \div Block
  <2>0. z \in Int /\ z = -3 - l
    OBVIOUS
  <2> HIDE DEF z
  <2>1. r \in 0 .. Block - 1 /\ s \in Int /\ z = Block * s + r
    BY <1>1, <2>0, ModOf
  <2> HIDE DEF r, s
  <2>2. Block - 3 - (l - y) = Block * (s + k + 1) + r
    BY <1>1, <1>4, <2>0, <2>1 DEF y
  <2>3. s + k + 1 \in Int /\ Block - 3 - (l - y) \in Int
    BY <1>1, <1>4, <1>6, <2>1
  <2>4. (Block - 3 - (l - y)) % Block = r
    BY <1>1, <2>1, <2>2, <2>3, ModIs
  <2> QED
    BY <2>4 DEF r, z
<1>9. Counts(8 * l).lo = lo
  BY DEF Counts, lo
<1> QED
  BY <1>6, <1>7, <1>8, <1>9 DEF D!Offset

-----------------------------------------------------------------------------
(* The blocks, one behind the other.                                       *)

LEMMA SameFlatten ==
  ASSUME NEW s
  PROVE  D!FlattenSeq(s) = I!FlattenSeq(s)
BY DEF D!FlattenSeq, I!FlattenSeq

LEMMA FlattenBlock ==
  ASSUME NEW X, NEW s \in Seq(Seq(X)), NEW t \in Seq(X)
  PROVE  /\ D!FlattenSeq(s \o <<t>>) = D!FlattenSeq(s) \o t
         /\ D!FlattenSeq(s) \in Seq(X) /\ s \o <<t>> \in Seq(Seq(X))
<1> DEFINE Y == Seq(X)
           n == Len(s)
           v == s \o <<t>>
<1>1. n \in Nat /\ s \in [1 .. n -> Y]
  BY LenProperties
<1>2. <<t>> \in Seq(Y) /\ Len(<<t>>) = 1 /\ <<t>>[1] = t
  OBVIOUS
<1> HIDE DEF Y, n
<1>3. s \in Seq(Y) /\ Len(s) = n
  BY DEF Y, n
<1>4. /\ v \in Seq(Y) /\ Len(v) = n + 1
      /\ \A j \in 1 .. Len(v) : v[j] = IF j <= n THEN s[j] ELSE <<t>>[j - n]
  BY <1>1, <1>2, <1>3, JoinedOf
<1> HIDE DEF v
<1>5. v \in [1 .. n + 1 -> Y]
  BY <1>1, <1>4, LenProperties
<1>6. v[n + 1] = t
  BY <1>1, <1>2, <1>4
<1>7. [i \in 1 .. n |-> v[i]] = s
  <2>1. \A i \in 1 .. n : v[i] = s[i]
    BY <1>1, <1>4
  <2> QED
    BY <1>1, <2>1
<1>8. I!FlattenSeq(v) = I!FlattenSeq([i \in 1 .. n |-> v[i]]) \o v[n + 1]
  BY <1>1, <1>5, FlattenGrows DEF Y
<1>9. I!FlattenSeq(s) \in Seq(X)
  BY <1>1, FlattenType DEF Y
<1> QED
  BY <1>4, <1>6, <1>7, <1>8, <1>9, SameFlatten DEF v, Y

(* The k-th block of p behind its first c bytes.                           *)
BlockOf(q, c, k) == SubSeq(q, c + (k - 1) * Block + 1, c + k * Block)

Blocks(q, c, f) == [k \in 1 .. f |-> BlockOf(q, c, k)]

LEMMA BlockIs ==
  ASSUME NEW X, NEW q \in Seq(X), NEW c \in Nat, NEW k \in Nat \ {0}, Block \in Nat \ {0},
         c + k * Block <= Len(q)
  PROVE  BlockOf(q, c, k) \in Seq(X) /\ Len(BlockOf(q, c, k)) = Block
<1> DEFINE l == c + (k - 1) * Block
           h == c + k * Block
<1>1. l \in Nat /\ h \in Nat /\ h = l + Block /\ l <= h /\ c + (k - 1) * Block + 1 = l + 1
  <2>1. k - 1 \in Nat /\ (k - 1) * Block \in Nat /\ k * Block \in Nat
    OBVIOUS
  <2>2. k * Block = (k - 1) * Block + Block
    OBVIOUS
  <2> QED
    BY <2>1, <2>2
<1>2. h <= Len(q) /\ BlockOf(q, c, k) = SubSeq(q, l + 1, h)
  BY <1>1 DEF BlockOf
<1> HIDE DEF l, h
<1>3. SubSeq(q, l + 1, h) \in Seq(X) /\ Len(SubSeq(q, l + 1, h)) = h - l
  BY <1>1, <1>2, PieceOf
<1> QED
  BY <1>1, <1>2, <1>3

(* A name for \o, for steps that need not look into it.                    *)
Join(u, v) == u \o v

LEMMA JoinIs ==
  ASSUME NEW X, NEW u \in Seq(X), NEW v \in Seq(X)
  PROVE  /\ Join(u, v) \in Seq(X) /\ Len(Join(u, v)) = Len(u) + Len(v)
         /\ \A j \in 1 .. Len(Join(u, v)) :
              Join(u, v)[j] = IF j <= Len(u) THEN u[j] ELSE v[j - Len(u)]
BY JoinedOf DEF Join

LEMMA Grouped ==
  ASSUME NEW X, NEW u \in Seq(X), NEW v \in Seq(X), NEW w \in Seq(X)
  PROVE  Join(Join(u, v), w) = Join(u, Join(v, w))
BY ConcatAssociative DEF Join

LEMMA Multiples ==
  ASSUME NEW k \in Nat, NEW w \in Nat
  PROVE  /\ k * w \in Nat /\ (k + 1) * w = k * w + w
         /\ \A j \in 0 .. k : j * w \in Nat /\ j * w <= k * w
<1>1. ASSUME NEW j \in 0 .. k PROVE j * w \in Nat /\ j * w <= k * w
  <2>1. j \in Nat /\ k - j \in Nat
    OBVIOUS
  <2>2. (k - j) * w \in Nat /\ j * w \in Nat /\ k * w = j * w + (k - j) * w
    BY <2>1
  <2> QED
    BY <2>2
<1>2. k * w \in Nat /\ (k + 1) * w = k * w + w
  OBVIOUS
<1> QED
  BY <1>1, <1>2

LEMMA FlattenBlocks ==
  ASSUME NEW X, NEW s \in Seq(Seq(X)), NEW q \in Seq(X), NEW c \in Nat, NEW f \in Nat,
         Block \in Nat \ {0}, c + f * Block <= Len(q)
  PROVE  /\ s \o Blocks(q, c, f) \in Seq(Seq(X))
         /\ D!FlattenSeq(Join(s, Blocks(q, c, f)))
              = Join(D!FlattenSeq(s), SubSeq(q, c + 1, c + f * Block))
<1> DEFINE C(k) == [j \in 1 .. k |-> BlockOf(q, c, j)]
           Good(k) == /\ s \o C(k) \in Seq(Seq(X))
                      /\ D!FlattenSeq(s \o C(k)) = D!FlattenSeq(s) \o SubSeq(q, c + 1, c + k * Block)
           S == {k \in Nat : c + k * Block <= Len(q) => Good(k)}
<1>0. Len(q) \in Nat /\ D!FlattenSeq(s) \in Seq(X)
  BY LenProperties, FlattenBlock, EmptySeq
<1>1. 0 \in S
  <2>1. C(0) = <<>> /\ s \o <<>> = s
    BY ConcatEmptySeq
  <2>2. 0 * Block = 0 /\ SubSeq(q, c + 1, c + 0) = <<>>
    BY SubSeqEmpty
  <2>3. D!FlattenSeq(s) \o <<>> = D!FlattenSeq(s)
    BY <1>0, ConcatEmptySeq
  <2> QED
    BY <2>1, <2>2, <2>3
<1> HIDE DEF Good
<1>2. ASSUME NEW k \in Nat, k \in S PROVE k + 1 \in S
  <2> DEFINE h == c + k * Block
             t == BlockOf(q, c, k + 1)
  <2>1. SUFFICES ASSUME c + (k + 1) * Block <= Len(q) PROVE Good(k + 1)
    OBVIOUS
  <2>2. h \in Nat /\ c + (k + 1) * Block = h + Block /\ h <= Len(q) /\ h >= c
    <3> DEFINE a == k * Block
               b == (k + 1) * Block
    <3>1. a \in Nat /\ b = a + Block
      BY Multiples
    <3> HIDE DEF a, b
    <3>2. c + b <= Len(q)
      BY <2>1 DEF b
    <3>3. c + a \in Nat /\ c + b = (c + a) + Block /\ c + a <= Len(q) /\ c + a >= c
      BY <1>0, <3>1, <3>2
    <3> QED
      BY <3>3 DEF a, b
  <2>3. s \o C(k) \in Seq(Seq(X)) /\ D!FlattenSeq(s \o C(k)) = D!FlattenSeq(s) \o SubSeq(q, c + 1, h)
    BY <1>2, <2>2 DEF Good
  <2>4. t \in Seq(X) /\ t = SubSeq(q, h + 1, h + Block)
    <3>1. t \in Seq(X)
      BY <2>1, BlockIs
    <3>2. (k + 1) - 1 = k /\ c + k * Block + 1 = h + 1
      BY <2>2
    <3> QED
      BY <2>2, <3>1, <3>2 DEF BlockOf
  <2> HIDE DEF t, h
  <2>5. s \o C(k + 1) = (s \o C(k)) \o <<t>>
    <3> DEFINE Y == Seq(X)
               a == C(k)
               b == C(k + 1)
    <3>1. ASSUME NEW j \in 1 .. k + 1 PROVE BlockOf(q, c, j) \in Y
      <4>1. j \in Nat \ {0} /\ j \in 0 .. k + 1 /\ k + 1 \in Nat
        OBVIOUS
      <4>2. j * Block \in Nat /\ (k + 1) * Block \in Nat /\ j * Block <= (k + 1) * Block
        BY <4>1, Multiples
      <4>3. c + j * Block <= Len(q)
        <5> DEFINE m == j * Block
                   o == (k + 1) * Block
        <5>1. m \in Nat /\ o \in Nat /\ m <= o /\ c + o <= Len(q)
          BY <2>1, <4>2
        <5> HIDE DEF m, o
        <5>2. c + m <= Len(q)
          BY <1>0, <5>1
        <5> QED
          BY <5>2 DEF m
      <4> QED
        BY <4>1, <4>3, BlockIs
    <3>2. a \in Seq(Y) /\ Len(a) = k /\ <<t>> \in Seq(Y)
      BY <2>4, <3>1
    <3>3. b = a \o <<t>>
      <4>1. \A j \in 1 .. k + 1 : b[j] = IF j <= k THEN a[j] ELSE <<t>>[j - k]
        BY DEF t
      <4>2. b \in Seq(Y) /\ Len(b) = k + 1
        BY <3>1
      <4>3. /\ a \o <<t>> \in Seq(Y) /\ Len(a \o <<t>>) = k + 1
            /\ \A j \in 1 .. k + 1 : (a \o <<t>>)[j] = IF j <= k THEN a[j] ELSE <<t>>[j - k]
        BY <3>2, JoinedOf
      <4> HIDE DEF a, b, Y
      <4> QED
        BY <4>1, <4>2, <4>3, SeqEqual
    <3> HIDE DEF a, b
    <3>4. s \o (a \o <<t>>) = (s \o a) \o <<t>>
      BY <3>2, ConcatAssociative
    <3> QED
      BY <3>3, <3>4 DEF a, b
  <2> DEFINE w == s \o C(k)
  <2>6. D!FlattenSeq(w \o <<t>>) = D!FlattenSeq(w) \o t /\ w \o <<t>> \in Seq(Seq(X))
    BY <2>3, <2>4, FlattenBlock
  <2>7. /\ SubSeq(q, c + 1, h) \o SubSeq(q, h + 1, h + Block) = SubSeq(q, c + 1, h + Block)
        /\ SubSeq(q, c + 1, h) \in Seq(X)
    <3>1. c + 1 \in 1 .. Len(q) + 1 /\ h \in (c + 1) - 1 .. Len(q) /\ h + Block \in h .. Len(q)
      BY <1>0, <2>1, <2>2
    <3> QED
      BY <1>0, <2>2, <3>1, ConcatAdjacentSubSeq, PieceOf
  <2>8. D!FlattenSeq(w) = D!FlattenSeq(s) \o SubSeq(q, c + 1, h)
    BY <2>3
  <2> HIDE DEF w
  <2>9. (D!FlattenSeq(s) \o SubSeq(q, c + 1, h)) \o t = D!FlattenSeq(s) \o (SubSeq(q, c + 1, h) \o t)
    <3> DEFINE fs == D!FlattenSeq(s)
               sq == SubSeq(q, c + 1, h)
    <3>1. fs \in Seq(X) /\ sq \in Seq(X) /\ t \in Seq(X)
      BY <1>0, <2>4, <2>7
    <3> HIDE DEF fs, sq
    <3>2. Join(Join(fs, sq), t) = Join(fs, Join(sq, t))
      BY <3>1, Grouped
    <3> QED
      BY <3>2 DEF Join, fs, sq
  <2>10. D!FlattenSeq(w \o <<t>>) = D!FlattenSeq(s) \o SubSeq(q, c + 1, h + Block)
    BY <2>4, <2>6, <2>7, <2>8, <2>9
  <2>11. D!FlattenSeq(w \o <<t>>) = D!FlattenSeq(s) \o SubSeq(q, c + 1, c + (k + 1) * Block)
    BY <2>2, <2>10
  <2> QED
    BY <2>5, <2>6, <2>11 DEF w, Good
<1> HIDE DEF S
<1>3. \A k \in Nat : k \in S
  BY <1>1, <1>2, NumbersIn
<1>4. f \in S
  BY <1>3
<1> QED
  BY <1>4 DEF S, Good, Blocks, Join

-----------------------------------------------------------------------------
(* What mongo_md5_append keeps: the blocks and the part of one in buf are  *)
(* the bytes of the message, and count is their number of bits.            *)
Sym == Int

OfBlocks(s, X) == s \in Seq(Seq(X)) /\ \A k \in 1 .. Len(s) : Len(s[k]) = Block

Holds(s, m) ==
  /\ m \in Seq(Sym) /\ s.count = Counts(8 * Len(m))
  /\ s.buf \in [1 .. Block -> Sym] /\ OfBlocks(s.blocks, Sym)
  /\ D!FlattenSeq(s.blocks) \o SubSeq(s.buf, 1, Len(m) % Block) = m

LEMMA IntoIs ==
  ASSUME NEW X, Block \in Nat \ {0}, NEW b \in [1 .. Block -> X], NEW o \in Nat, NEW t \in Seq(X),
         o + Len(t) <= Block
  PROVE  /\ D!Into(b, o, t) \in [1 .. Block -> X]
         /\ SubSeq(D!Into(b, o, t), 1, o + Len(t)) = Join(SubSeq(b, 1, o), t)
<1> DEFINE c == D!Into(b, o, t)
           n == Len(t)
           v == SubSeq(c, 1, o + n)
           u == SubSeq(b, 1, o)
           w == u \o t
<1>1. n \in Nat /\ \A j \in 1 .. n : t[j] \in X
  BY LenProperties, ElementOfSeq
<1>2. c = [j \in 1 .. Block |-> IF j \in o + 1 .. o + n THEN t[j - o] ELSE b[j]]
  BY DEF D!Into
<1> HIDE DEF c, n
<1>3. \A j \in 1 .. Block : j \in o + 1 .. o + n => j - o \in 1 .. n
  BY <1>1
<1>4. c \in [1 .. Block -> X] /\ \A j \in 1 .. Block : c[j] = IF j \in o + 1 .. o + n THEN t[j - o] ELSE b[j]
  BY <1>1, <1>2, <1>3
<1>5. b \in Seq(X) /\ c \in Seq(X) /\ Len(b) = Block /\ Len(c) = Block
  BY <1>4, LenProperties
<1>6. o + n \in Nat /\ o + n <= Block /\ o <= Block /\ t \in Seq(X) /\ Len(t) = n
  BY <1>1 DEF n
<1>7. /\ SubSeq(c, 0 + 1, o + n) \in Seq(X) /\ Len(SubSeq(c, 0 + 1, o + n)) = o + n - 0
      /\ \A j \in 1 .. o + n - 0 : SubSeq(c, 0 + 1, o + n)[j] = c[0 + j]
  BY <1>5, <1>6, PieceOf
<1>8. /\ SubSeq(b, 0 + 1, o) \in Seq(X) /\ Len(SubSeq(b, 0 + 1, o)) = o - 0
      /\ \A j \in 1 .. o - 0 : SubSeq(b, 0 + 1, o)[j] = b[0 + j]
  BY <1>5, <1>6, PieceOf
<1>9. v \in Seq(X) /\ Len(v) = o + n /\ \A j \in 1 .. o + n : v[j] = c[j]
  BY <1>6, <1>7
<1>10. u \in Seq(X) /\ Len(u) = o /\ \A j \in 1 .. o : u[j] = b[j]
  BY <1>8
<1> HIDE DEF u, v
<1>11. /\ w \in Seq(X) /\ Len(w) = o + n
       /\ \A j \in 1 .. o + n : w[j] = IF j <= o THEN u[j] ELSE t[j - o]
  BY <1>6, <1>10, JoinedOf
<1> HIDE DEF w
<1>12. ASSUME NEW j \in 1 .. Len(v) PROVE v[j] = w[j]
  <2>1. j \in 1 .. o + n /\ j \in 1 .. Block /\ (j <= o \/ j \in o + 1 .. o + n)
    BY <1>6, <1>9
  <2> QED
    BY <1>4, <1>9, <1>10, <1>11, <2>1
<1>13. Len(v) = Len(w)
  BY <1>9, <1>11
<1>14. v = w
  BY <1>9, <1>11, <1>12, <1>13, SeqEqual
<1> QED
  BY <1>4, <1>14 DEF v, w, u, c, n, Join

LEMMA MoreBlocks ==
  ASSUME NEW X, Block \in Nat \ {0}, NEW s, OfBlocks(s, X), NEW t, OfBlocks(t, X)
  PROVE  OfBlocks(s \o t, X)
<1> DEFINE Y == Seq(X)
<1>1. s \in Seq(Y) /\ t \in Seq(Y)
  BY DEF OfBlocks
<1> HIDE DEF Y
<1>2. /\ s \o t \in Seq(Y) /\ Len(s \o t) = Len(s) + Len(t) /\ Len(s) \in Nat /\ Len(t) \in Nat
      /\ \A j \in 1 .. Len(s \o t) : (s \o t)[j] = IF j <= Len(s) THEN s[j] ELSE t[j - Len(s)]
  BY <1>1, JoinedOf
<1>3. ASSUME NEW j \in 1 .. Len(s \o t) PROVE Len((s \o t)[j]) = Block
  <2>1. j <= Len(s) => j \in 1 .. Len(s)
    BY <1>2
  <2>2. ~(j <= Len(s)) => j - Len(s) \in 1 .. Len(t)
    BY <1>2
  <2> QED
    BY <1>2, <2>1, <2>2 DEF OfBlocks
<1> QED
  BY <1>2, <1>3 DEF OfBlocks, Y

(* The blocks s are m and the first c bytes of q.                          *)
Upto(s, m, q, c) == D!FlattenSeq(s) = m \o SubSeq(q, 1, c)

Filled(s, q, c) ==
  s \o [k \in 1 .. (Len(q) - c) \div Block |-> SubSeq(q, c + (k - 1) * Block + 1, c + k * Block)]
RestIn(b, q, c) == D!Into(b, 0, SubSeq(q, c + ((Len(q) - c) \div Block) * Block + 1, Len(q)))

(* The full blocks of what is left of a piece, and the rest in buf.        *)
LEMMA WholeBlocks ==
  ASSUME NEW X, Block \in Nat \ {0}, NEW s, OfBlocks(s, X), NEW m \in Seq(X), NEW q \in Seq(X),
         NEW c \in 0 .. Len(q), Upto(s, m, q, c),
         NEW b \in [1 .. Block -> X]
  PROVE  /\ OfBlocks(Filled(s, q, c), X) /\ RestIn(b, q, c) \in [1 .. Block -> X]
         /\ Join(D!FlattenSeq(Filled(s, q, c)), SubSeq(RestIn(b, q, c), 1, (Len(q) - c) % Block))
              = Join(m, q)
<1> DEFINE n == Len(q)
           f == (n - c) \div Block
           r == (n - c) % Block
           C == Blocks(q, c, f)
           v == s \o C
           j == c + f * Block
           t == SubSeq(q, j + 1, n)
           w == D!Into(b, 0, t)
<1>1. n \in Nat /\ c \in Nat /\ n - c \in Nat
  BY LenProperties
<1> HIDE DEF n
<1>2. r \in 0 .. Block - 1 /\ f \in Nat /\ n - c = Block * f + r
  <2> DEFINE y == n - c
  <2>1. y \in Nat /\ y \in Int
    BY <1>1
  <2> HIDE DEF y
  <2>2. y % Block \in 0 .. Block - 1 /\ y \div Block \in Nat /\ y = Block * (y \div Block) + (y % Block)
    BY <2>1, ModOf
  <2> QED
    BY <2>2 DEF y
<1> HIDE DEF f, r
<1>3. f * Block \in Nat /\ Block * f = f * Block
  BY <1>2
<1> DEFINE z == f * Block
<1>4. z \in Nat /\ n - c = z + r /\ j = c + z
  BY <1>2, <1>3
<1> HIDE DEF z
<1>5. j \in Nat /\ j <= n /\ n - j = r /\ c <= j /\ j + r = n
  BY <1>1, <1>2, <1>4
<1>6. OfBlocks(C, X)
  <2>1. ASSUME NEW k \in 1 .. f PROVE C[k] \in Seq(X) /\ Len(C[k]) = Block
    <3>1. k \in Nat \ {0} /\ k \in 0 .. f
      BY <1>2
    <3>2. k * Block \in Nat /\ k * Block <= f * Block
      BY <1>2, <3>1, Multiples
    <3>3. c + k * Block <= Len(q)
      <4> DEFINE y == k * Block
      <4>1. y \in Nat /\ y <= z
        BY <3>2 DEF z
      <4> HIDE DEF y
      <4>2. c + y <= n
        BY <1>1, <1>2, <1>4, <4>1
      <4> QED
        BY <4>2 DEF y, n
    <3>4. C[k] = BlockOf(q, c, k)
      BY DEF Blocks
    <3> QED
      BY <1>1, <3>1, <3>3, <3>4, BlockIs
  <2>2. C \in Seq(Seq(X)) /\ Len(C) = f
    BY <1>2, <2>1 DEF Blocks
  <2> HIDE DEF C
  <2> QED
    BY <2>1, <2>2 DEF OfBlocks
<1>7. D!FlattenSeq(v) = D!FlattenSeq(s) \o SubSeq(q, c + 1, j)
  <2>1. s \in Seq(Seq(X)) /\ c + f * Block <= Len(q) /\ c \in Nat /\ f \in Nat
    BY <1>1, <1>2, <1>5 DEF OfBlocks, n
  <2> QED
    <3>1. D!FlattenSeq(Join(s, C)) = Join(D!FlattenSeq(s), SubSeq(q, c + 1, j))
      BY <2>1, FlattenBlocks
    <3> QED
      BY <3>1 DEF Join
<1>8. OfBlocks(v, X)
  <2> HIDE DEF C
  <2> QED
    BY <1>6, MoreBlocks
<1> HIDE DEF v
<1>9. t \in Seq(X) /\ Len(t) = r
  <2> HIDE DEF j
  <2>1. j <= Len(q) /\ n = Len(q)
    BY <1>5 DEF n
  <2> QED
    BY <1>1, <1>5, <2>1, PieceOf
<1> HIDE DEF j, t
<1>10. w \in [1 .. Block -> X] /\ SubSeq(w, 1, 0 + Len(t)) = Join(SubSeq(b, 1, 0), t)
  BY <1>2, <1>9, IntoIs
<1> HIDE DEF w
<1>11. SubSeq(w, 1, r) = t
  <2>1. 0 + Len(t) = r
    BY <1>2, <1>9
  <2>2. SubSeq(b, 1, 0) = <<>>
    BY SubSeqEmpty
  <2> QED
    BY <1>9, <1>10, <2>1, <2>2, ConcatEmptySeq DEF Join
<1> DEFINE q1 == SubSeq(q, 1, c)
           q2 == SubSeq(q, c + 1, j)
           qj == SubSeq(q, 1, j)
<1>12. q1 \in Seq(X) /\ q2 \in Seq(X) /\ qj \in Seq(X)
  <2>1. c <= Len(q) /\ j <= Len(q) /\ 0 <= c /\ 0 <= j
    BY <1>1, <1>5 DEF n
  <2>2. SubSeq(q, 0 + 1, c) \in Seq(X) /\ SubSeq(q, 0 + 1, j) \in Seq(X)
    BY <1>1, <1>5, <2>1, PieceOf
  <2>3. q2 \in Seq(X)
    BY <1>1, <1>5, <2>1, PieceOf
  <2>4. 0 + 1 = 1
    OBVIOUS
  <2> QED
    BY <2>2, <2>3, <2>4
<1>13. q1 \o q2 = qj
  <2>1. 1 \in 1 .. Len(q) + 1 /\ c \in 1 - 1 .. Len(q) /\ j \in c .. Len(q)
    BY <1>1, <1>5 DEF n
  <2> QED
    BY <2>1, ConcatAdjacentSubSeq
<1>14. qj \o t = q
  <2>1. 1 \in 1 .. Len(q) + 1 /\ j \in 1 - 1 .. Len(q) /\ n \in j .. Len(q)
    BY <1>1, <1>5 DEF n
  <2>2. qj \o t = SubSeq(q, 1, n)
    BY <2>1, ConcatAdjacentSubSeq DEF t
  <2>3. SubSeq(q, 1, n) = q
    BY SubSeqFull DEF n
  <2> QED
    BY <2>2, <2>3
<1> HIDE DEF q1, q2, qj
<1>15. (m \o q1) \o q2 = m \o qj
  <2>1. Join(Join(m, q1), q2) = Join(m, Join(q1, q2))
    BY <1>12, Grouped
  <2> QED
    BY <1>13, <2>1 DEF Join
<1>16. (m \o qj) \o t = m \o q
  <2>1. Join(Join(m, qj), t) = Join(m, Join(qj, t))
    BY <1>9, <1>12, Grouped
  <2> QED
    BY <1>14, <2>1 DEF Join
<1>17. D!FlattenSeq(v) \o SubSeq(w, 1, r) = m \o q
  <2>1. D!FlattenSeq(v) = m \o qj
    BY <1>7, <1>15 DEF q1, q2, Upto
  <2> QED
    BY <1>11, <1>16, <2>1
<1> QED
  BY <1>8, <1>10, <1>17 DEF v, C, w, t, j, r, f, n, Blocks, BlockOf, Filled, RestIn, Join

(* The part of a block that a piece begins with: copy bytes.               *)
CopyOf(o, n) == IF o = 0 THEN 0 ELSE IF o + n > Block THEN Block - o ELSE n

LEMMA CopyIs ==
  ASSUME Block \in Nat \ {0}, NEW l \in Nat, NEW n \in Nat
  PROVE  LET o == l % Block
             c == CopyOf(o, n)
         IN  /\ o \in 0 .. Block - 1 /\ c \in 0 .. n /\ o + c <= Block
             /\ o > 0 /\ o + c < Block => c = n /\ (l + n) % Block = o + n
             /\ ~(o > 0 /\ o + c < Block) =>
                  (o > 0 => o + c = Block) /\ (n - c) % Block = (l + n) % Block
<1> DEFINE o == l % Block
           e == l \div Block
           c == CopyOf(o, n)
           r == (n - c) % Block
           f == (n - c) \div Block
<1>1. o \in 0 .. Block - 1 /\ e \in Int /\ l = Block * e + o
  BY ModOf
<1> HIDE DEF o, e
<1>2. c \in 0 .. n /\ o + c <= Block
  BY <1>1 DEF CopyOf
<1>3. ASSUME o > 0, o + c < Block PROVE c = n /\ (l + n) % Block = o + n
  <2>1. c = n
    BY <1>1, <1>3 DEF CopyOf
  <2>2. o + n \in 0 .. Block - 1 /\ l + n = Block * e + (o + n) /\ l + n \in Int
    BY <1>1, <1>3, <2>1
  <2> QED
    BY <1>1, <2>1, <2>2, ModIs
<1>4. ASSUME ~(o > 0 /\ o + c < Block)
      PROVE  (o > 0 => o + c = Block) /\ r = (l + n) % Block
  <2>1. o > 0 => o + c = Block
    BY <1>1, <1>2, <1>4
  <2>2. o = 0 => c = 0
    BY DEF CopyOf
  <2> HIDE DEF c
  <2>3. n - c \in Nat /\ n - c \in Int
    BY <1>2
  <2>4. r \in 0 .. Block - 1 /\ f \in Int /\ n - c = Block * f + r
    <3> DEFINE y == n - c
    <3>1. y \in Int
      BY <2>3
    <3> HIDE DEF y
    <3>2. y % Block \in 0 .. Block - 1 /\ y \div Block \in Int /\ y = Block * (y \div Block) + (y % Block)
      BY <3>1, ModOf
    <3> QED
      BY <3>2 DEF y
  <2> HIDE DEF r, f
  <2>5. PICK g \in Int : l + n = Block * g + r
    <3>1. CASE o = 0
      <4>1. c = 0
        BY <2>2, <3>1
      <4>2. l + n = Block * (e + f) + r /\ e + f \in Int
        BY <1>1, <2>4, <3>1, <4>1
      <4> QED
        BY <4>2
    <3>2. CASE o # 0
      <4>1. o + c = Block
        BY <1>1, <2>1, <3>2
      <4>2. l + n = Block * (e + f + 1) + r /\ e + f + 1 \in Int
        BY <1>1, <1>2, <2>4, <4>1
      <4> QED
        BY <4>2
    <3> QED
      BY <3>1, <3>2
  <2>6. (l + n) % Block = r
    <3>1. l + n \in Int
      OBVIOUS
    <3> QED
      BY <2>4, <2>5, <3>1, ModIs
  <2> QED
    BY <2>1, <2>6
<1> QED
  BY <1>1, <1>2, <1>3, <1>4 DEF o, c, r

(* The blocks when the first part has filled one.                          *)
LEMMA BlockFilled ==
  ASSUME NEW X, Block \in Nat \ {0}, NEW s, OfBlocks(s, X), NEW b \in [1 .. Block -> X],
         NEW o \in 1 .. Block, NEW q \in Seq(X), NEW c \in 0 .. Len(q), o + c = Block,
         NEW m, Join(D!FlattenSeq(s), SubSeq(b, 1, o)) = m
  PROVE  LET fill == D!Into(b, o, SubSeq(q, 1, c))
         IN  /\ OfBlocks(s \o <<fill>>, X) /\ Upto(s \o <<fill>>, m, q, c)
             /\ fill \in [1 .. Block -> X]
<1> DEFINE q1 == SubSeq(q, 1, c)
           u == SubSeq(b, 1, o)
           fill == D!Into(b, o, q1)
           fs == D!FlattenSeq(s)
<1>1. b \in Seq(X) /\ Len(b) = Block /\ o \in Nat /\ c \in Nat /\ o <= Block /\ Len(q) \in Nat
  BY LenProperties
<1>2. q1 \in Seq(X) /\ Len(q1) = c
  <2>1. SubSeq(q, 0 + 1, c) \in Seq(X) /\ Len(SubSeq(q, 0 + 1, c)) = c - 0
    BY <1>1, PieceOf
  <2> QED
    BY <1>1, <2>1
<1>3. u \in Seq(X)
  <2>1. SubSeq(b, 0 + 1, o) \in Seq(X)
    BY <1>1, PieceOf
  <2> QED
    BY <2>1
<1> HIDE DEF q1, u
<1>4. fill \in [1 .. Block -> X] /\ SubSeq(fill, 1, Block) = Join(u, q1)
  <2>1. o + Len(q1) = Block /\ o + Len(q1) <= Block
    BY <1>1, <1>2
  <2>2. fill \in [1 .. Block -> X] /\ SubSeq(fill, 1, o + Len(q1)) = Join(SubSeq(b, 1, o), q1)
    BY <1>1, <1>2, <2>1, IntoIs
  <2> QED
    BY <2>1, <2>2 DEF u
<1> HIDE DEF fill
<1>5. fill \in Seq(X) /\ Len(fill) = Block
  BY <1>4, LenProperties
<1>6. SubSeq(fill, 1, Block) = fill
  BY <1>5, SubSeqFull
<1>7. s \in Seq(Seq(X))
  BY DEF OfBlocks
<1>8. fs \in Seq(X) /\ D!FlattenSeq(Join(s, <<fill>>)) = Join(fs, fill)
  BY <1>5, <1>7, FlattenBlock DEF Join
<1> HIDE DEF fs
<1>9. Join(Join(fs, u), q1) = Join(fs, Join(u, q1))
  BY <1>2, <1>3, <1>8, Grouped
<1>10. D!FlattenSeq(Join(s, <<fill>>)) = Join(m, q1)
  BY <1>4, <1>6, <1>8, <1>9 DEF fs, u
<1>11. OfBlocks(<<fill>>, X)
  BY <1>5 DEF OfBlocks
<1>12. OfBlocks(s \o <<fill>>, X)
  BY <1>11, MoreBlocks
<1> QED
  BY <1>4, <1>10, <1>12 DEF fill, q1, Join, Upto

LEMMA AppendKeeps ==
  ASSUME D!DigestAssumption, NEW s, NEW m, Holds(s, m), NEW q \in Seq(Sym)
  PROVE  Holds(D!mongo_md5_append(s, q), m \o q)
<1> DEFINE l == Len(m)
           n == Len(q)
           o == l % Block
           a == D!mongo_md5_append(s, q)
           c == CopyOf(o, n)
           fill == D!Into(s.buf, o, SubSeq(q, 1, c))
           base == s.blocks \o (IF o > 0 THEN <<fill>> ELSE <<>>)
           done == Filled(base, q, c)
           now == RestIn(fill, q, c)
           fs == D!FlattenSeq(s.blocks)
           u == SubSeq(s.buf, 1, o)
<1>1. /\ m \in Seq(Sym) /\ s.count = Counts(8 * l) /\ s.buf \in [1 .. Block -> Sym]
      /\ OfBlocks(s.blocks, Sym) /\ Join(fs, u) = m /\ Block \in Nat \ {0}
  BY DEF Holds, D!DigestAssumption, Join
<1>2. l \in Nat /\ n \in Nat /\ m \o q \in Seq(Sym) /\ Len(m \o q) = l + n
  BY <1>1, JoinedOf
<1>3. D!Offset(s.count) = o /\ D!Counted(s.count, n) = Counts(8 * (l + n))
  <2> HIDE DEF l, n
  <2> QED
    BY <1>1, <1>2, OffsetIs, CountedIs
<1>4. /\ o \in 0 .. Block - 1 /\ c \in 0 .. n /\ o + c <= Block
      /\ o > 0 /\ o + c < Block => c = n /\ (l + n) % Block = o + n
      /\ ~(o > 0 /\ o + c < Block) =>
           (o > 0 => o + c = Block) /\ (n - c) % Block = (l + n) % Block
  <2> HIDE DEF l, n
  <2> QED
    BY <1>1, <1>2, CopyIs
<1>5. a = IF q = <<>> THEN s
          ELSE IF o > 0 /\ o + c < Block
               THEN [count |-> Counts(8 * (l + n)), buf |-> fill, blocks |-> s.blocks]
               ELSE [count |-> Counts(8 * (l + n)), blocks |-> done, buf |-> now]
  BY <1>3 DEF D!mongo_md5_append, CopyOf, Filled, RestIn
<1> HIDE DEF l, n, o, a, c, fs, u
<1>6. CASE q = <<>>
  <2>1. a = s /\ m \o q = m
    BY <1>1, <1>5, <1>6, ConcatEmptySeq
  <2> QED
    BY <2>1 DEF a
<1>7. CASE q # <<>> /\ o > 0 /\ o + c < Block
  <2>1. /\ a.count = Counts(8 * (l + n)) /\ a.buf = fill /\ a.blocks = s.blocks
    BY <1>5, <1>7
  <2>2. c = n /\ (l + n) % Block = o + n /\ SubSeq(q, 1, c) = q /\ o + Len(q) <= Block /\ o \in Nat
    BY <1>4, <1>7, SubSeqFull DEF n
  <2>3. fill \in [1 .. Block -> Sym] /\ SubSeq(fill, 1, o + n) = Join(u, q)
    <3> DEFINE b == s.buf
    <3>1. fill = D!Into(b, o, q) /\ b \in [1 .. Block -> Sym]
      BY <1>1, <2>2
    <3> HIDE DEF b, fill
    <3>2. /\ D!Into(b, o, q) \in [1 .. Block -> Sym]
          /\ SubSeq(D!Into(b, o, q), 1, o + Len(q)) = Join(SubSeq(b, 1, o), q)
      BY <1>1, <2>2, <3>1, IntoIs
    <3> QED
      BY <3>1, <3>2 DEF u, n, b
  <2> HIDE DEF fill
  <2>4. fs \in Seq(Sym) /\ u \in Seq(Sym)
    <3>1. s.blocks \in Seq(Seq(Sym)) /\ <<>> \in Seq(Sym)
      BY <1>1 DEF OfBlocks
    <3>2. fs \in Seq(Sym)
      BY <3>1, FlattenBlock DEF fs
    <3>3. s.buf \in Seq(Sym) /\ Len(s.buf) = Block /\ 0 <= o /\ o <= Block
      BY <1>1, <1>4, LenProperties
    <3>4. SubSeq(s.buf, 0 + 1, o) \in Seq(Sym)
      BY <2>2, <3>3, PieceOf
    <3> QED
      BY <3>2, <3>4 DEF u
  <2>5. Join(Join(fs, u), q) = Join(fs, Join(u, q))
    BY <2>4, Grouped
  <2>6. Join(D!FlattenSeq(a.blocks), SubSeq(a.buf, 1, (l + n) % Block)) = Join(m, q)
    BY <1>1, <2>1, <2>2, <2>3, <2>5 DEF fs
  <2> QED
    BY <1>1, <1>2, <2>1, <2>3, <2>6 DEF Holds, Join, a
<1>8. CASE q # <<>> /\ ~(o > 0 /\ o + c < Block)
  <2>1. /\ a.count = Counts(8 * (l + n)) /\ a.buf = now /\ a.blocks = done
    BY <1>5, <1>8
  <2>2. OfBlocks(base, Sym) /\ Upto(base, m, q, c) /\ fill \in [1 .. Block -> Sym]
    <3>1. CASE o > 0
      <4>1. o \in 1 .. Block /\ c \in 0 .. Len(q) /\ o + c = Block
        BY <1>1, <1>4, <1>8, <3>1 DEF n
      <4>2. Join(D!FlattenSeq(s.blocks), SubSeq(s.buf, 1, o)) = m
        BY <1>1 DEF fs, u
      <4>3. /\ OfBlocks(s.blocks \o <<fill>>, Sym) /\ Upto(s.blocks \o <<fill>>, m, q, c)
            /\ fill \in [1 .. Block -> Sym]
        BY <1>1, <4>1, <4>2, BlockFilled
      <4> HIDE DEF fill
      <4>4. base = s.blocks \o <<fill>>
        BY <3>1
      <4> QED
        BY <4>3, <4>4
    <3>2. CASE ~(o > 0)
      <4>1. o = 0 /\ c = 0
        BY <1>1, <1>4, <3>2 DEF CopyOf, c
      <4>2. s.blocks \in Seq(Seq(Sym))
        BY <1>1 DEF OfBlocks
      <4>3. base = s.blocks
        <5> HIDE DEF fill
        <5>1. base = s.blocks \o <<>>
          BY <4>1
        <5> QED
          BY <4>2, <5>1, ConcatEmptySeq
      <4>4. u = <<>> /\ SubSeq(q, 1, c) = <<>>
        BY <4>1, SubSeqEmpty DEF u
      <4>5. fs \in Seq(Sym)
        BY <4>2, FlattenBlock, EmptySeq DEF fs
      <4>6. Join(fs, <<>>) = fs /\ Join(m, <<>>) = m
        BY <1>1, <4>5, ConcatEmptySeq DEF Join
      <4>7. D!FlattenSeq(base) = Join(m, SubSeq(q, 1, c))
        BY <1>1, <4>3, <4>4, <4>6 DEF fs
      <4>8. fill \in [1 .. Block -> Sym]
        <5>1. o + Len(<<>>) <= Block /\ o \in Nat /\ <<>> \in Seq(Sym)
          BY <1>1, <4>1
        <5>2. fill = D!Into(s.buf, o, <<>>)
          BY <4>4
        <5> HIDE DEF fill
        <5> QED
          BY <1>1, <5>1, <5>2, IntoIs
      <4> HIDE DEF base, fill
      <4> QED
        BY <1>1, <4>3, <4>7, <4>8 DEF Upto, Join
    <3> QED
      BY <3>1, <3>2
  <2> HIDE DEF base, fill
  <2> DEFINE r == (n - c) % Block
  <2>3. /\ OfBlocks(done, Sym) /\ now \in [1 .. Block -> Sym]
        /\ Join(D!FlattenSeq(done), SubSeq(now, 1, r)) = Join(m, q)
    <3>1. c \in 0 .. Len(q)
      BY <1>4 DEF n
    <3> QED
      BY <1>1, <2>2, <3>1, WholeBlocks DEF n
  <2>4. r = (l + n) % Block
    BY <1>4, <1>8
  <2> HIDE DEF done, now, r
  <2> QED
    BY <1>2, <2>1, <2>3, <2>4 DEF Holds, a, Join
<1> QED
  BY <1>6, <1>7, <1>8

-----------------------------------------------------------------------------
(* mongo_md5_finish, and the invariant.                                    *)
Zeros(k) == [i \in 1 .. k |-> 0]
EndOf(m) == <<Counts(8 * Len(m)).lo, Counts(8 * Len(m)).hi>>
Padded(m) == m \o D!Pad(((-(Len(m) + 3)) % Block) + 1)

LEMMA FinishIs ==
  ASSUME D!DigestAssumption, NEW s, NEW m, Holds(s, m)
  PROVE  /\ Holds(D!mongo_md5_finish(s), Padded(m) \o EndOf(m))
         /\ Len(Padded(m) \o EndOf(m)) % Block = 0
<1> DEFINE l == Len(m)
           z == -(l + 3)
           k == z % Block
           g == z \div Block
           pad == D!Pad(k + 1)
           end == EndOf(m)
           t == D!mongo_md5_append(s, pad)
<1>1. /\ m \in Seq(Sym) /\ s.count = Counts(8 * l) /\ Block \in Nat \ {0} /\ Wrap \in Nat \ {0}
  BY DEF Holds, D!DigestAssumption
<1>2. l \in Nat /\ z \in Int /\ z = -3 - l
  BY <1>1, LenProperties
<1> HIDE DEF z
<1>3. k \in 0 .. Block - 1 /\ g \in Int /\ z = Block * g + k
  BY <1>1, <1>2, ModOf
<1>4. (Block - 3 - (Counts(8 * l).lo \div 8)) % Block = k
  <2> HIDE DEF l
  <2> QED
    BY <1>2, OffsetIs DEF z
<1> HIDE DEF k, g
<1>5. pad \in Seq(Sym) /\ Len(pad) = k + 1
  <2>1. k + 1 \in Nat /\ pad \in [1 .. k + 1 -> Sym]
    BY <1>3 DEF D!Pad, D!PadByte, Sym
  <2> QED
    BY <2>1, LenProperties
<1>6. end \in Seq(Sym) /\ Len(end) = 2
  <2>1. (8 * l) % Wrap \in Int /\ ((8 * l) \div Wrap) % Wrap \in Int
    <3>1. 8 * l \in Int
      BY <1>2
    <3> DEFINE y == 8 * l
    <3> HIDE DEF y
    <3>2. y % Wrap \in Int /\ y \div Wrap \in Int
      BY <1>1, <3>1, ModOf DEF y
    <3>3. (y \div Wrap) % Wrap \in Int
      BY <1>1, <3>2, ModOf
    <3> QED
      BY <3>2, <3>3 DEF y
  <2> QED
    BY <2>1 DEF EndOf, Counts, Sym
<1>7. D!mongo_md5_finish(s) = D!mongo_md5_append(t, end)
  BY <1>1, <1>4 DEF D!mongo_md5_finish, EndOf
<1> HIDE DEF l, pad, end, t
<1>8. Holds(t, m \o pad)
  BY <1>5, AppendKeeps DEF t
<1>9. Holds(D!mongo_md5_append(t, end), (m \o pad) \o end)
  <2> DEFINE mp == m \o pad
  <2>1. Holds(t, mp)
    BY <1>8
  <2> HIDE DEF mp
  <2>2. Holds(D!mongo_md5_append(t, end), mp \o end)
    BY <1>6, <2>1, AppendKeeps
  <2> QED
    BY <2>2 DEF mp
<1>10. Padded(m) = m \o pad
  BY DEF Padded, pad, k, z, l
<1>11. Len((m \o pad) \o end) = Block * (-g)
  <2>1. m \o pad \in Seq(Sym) /\ Len(m \o pad) = l + (k + 1)
    <3>1. Join(m, pad) \in Seq(Sym) /\ Len(Join(m, pad)) = Len(m) + Len(pad)
      BY <1>1, <1>5, JoinIs
    <3> QED
      BY <1>5, <3>1 DEF l, Join
  <2>2. Len((m \o pad) \o end) = l + (k + 1) + 2
    <3> DEFINE mp == m \o pad
    <3>1. mp \in Seq(Sym) /\ Len(mp) = l + (k + 1)
      BY <2>1
    <3> HIDE DEF mp
    <3>2. Len(Join(mp, end)) = Len(mp) + Len(end)
      BY <1>6, <3>1, JoinIs
    <3> QED
      BY <1>6, <3>1, <3>2 DEF mp, Join
  <2>3. l + (k + 1) + 2 = Block * (-g)
    BY <1>1, <1>2, <1>3
  <2> QED
    BY <2>2, <2>3
<1>12. (Block * (-g)) % Block = 0
  <2>1. -g \in Int /\ 0 \in 0 .. Block - 1
    BY <1>1, <1>3
  <2> DEFINE y == Block * (-g)
  <2>2. y = Block * (-g) + 0 /\ y \in Int
    BY <1>1, <2>1
  <2> HIDE DEF y
  <2>3. y % Block = 0
    BY <1>1, <2>1, <2>2, ModIs
  <2> QED
    BY <2>3 DEF y
<1> QED
  BY <1>7, <1>9, <1>10, <1>11, <1>12 DEF end

(* What is behind the message, a byte and as few zeros as there can be.    *)
LEMMA PaddedIs ==
  ASSUME Block \in Nat \ {0}, NEW m \in Seq(Sym)
  PROVE  Padded(m) = (m \o <<D!PadByte>>) \o Zeros((-(Len(m) + 3)) % Block)
<1> DEFINE z == -(Len(m) + 3)
           k == z % Block
           pad == D!Pad(k + 1)
           y == <<D!PadByte>>
           w == Zeros(k)
<1>1. z \in Int
  BY LenProperties
<1> HIDE DEF z
<1>2. k \in Nat
  BY <1>1, ModOf
<1> HIDE DEF k
<1>3. y \in Seq(Sym) /\ w \in Seq(Sym) /\ Len(y) = 1 /\ Len(w) = k
  BY <1>2 DEF Zeros, Sym, D!PadByte
<1>4. pad \in Seq(Sym) /\ Len(pad) = k + 1
  BY <1>2 DEF D!Pad, D!PadByte, Sym
<1>5. \A j \in 1 .. k + 1 : pad[j] = IF j <= 1 THEN y[j] ELSE w[j - 1]
  BY <1>2 DEF D!Pad, Zeros
<1> HIDE DEF pad, y, w
<1> DEFINE yw == Join(y, w)
<1>6. /\ yw \in Seq(Sym) /\ Len(yw) = Len(y) + Len(w)
      /\ \A j \in 1 .. Len(yw) : yw[j] = IF j <= Len(y) THEN y[j] ELSE w[j - Len(y)]
  BY <1>3, JoinIs
<1> HIDE DEF yw
<1>7. Len(pad) = Len(yw) /\ \A j \in 1 .. Len(pad) : pad[j] = yw[j]
  BY <1>2, <1>3, <1>4, <1>5, <1>6
<1>8. pad = Join(y, w)
  <2>1. pad = yw
    BY <1>4, <1>6, <1>7, SeqEqual
  <2> QED
    BY <2>1 DEF yw
<1>9. Join(Join(m, y), w) = Join(m, Join(y, w))
  BY <1>3, Grouped
<1>10. Join(m, pad) = Join(Join(m, y), w)
  BY <1>8, <1>9
<1> QED
  BY <1>10 DEF Join, Padded, pad, k, z, y, w

DigestInv ==
  /\ closed \in BOOLEAN
  /\ ~closed => Holds(D!State, message)
  /\ closed => OfBlocks(hashed, Sym) /\ message \in Seq(Sym)
               /\ D!FlattenSeq(hashed) = Padded(message) \o EndOf(message)

LEMMA InitDigest == D!DigestAssumption /\ D!Init => DigestInv
<1> SUFFICES ASSUME D!DigestAssumption, D!Init PROVE DigestInv
  OBVIOUS
<1>1. /\ count = [lo |-> 0, hi |-> 0] /\ block = [j \in 1 .. Block |-> -2]
      /\ hashed = <<>> /\ message = <<>> /\ closed = FALSE
  BY DEF D!Init, D!Unset
<1>2. Block \in Nat \ {0} /\ Wrap \in Nat \ {0}
  BY DEF D!DigestAssumption
<1>3. 0 % Wrap = 0 /\ 0 \div Wrap = 0 /\ 0 % Block = 0
  <2>1. 0 \in Int /\ 0 \in 0 .. Wrap - 1 /\ 0 \in 0 .. Block - 1 /\ 0 = Wrap * 0 + 0 /\ 0 = Block * 0 + 0
    BY <1>2
  <2> QED
    BY <1>2, <2>1, ModIs
<1>4. Len(message) = 0 /\ count = Counts(8 * Len(message))
  BY <1>1, <1>3 DEF Counts
<1>5. block \in [1 .. Block -> Sym] /\ message \in Seq(Sym) /\ OfBlocks(hashed, Sym)
  BY <1>1, <1>2 DEF Sym, OfBlocks
<1>6. D!FlattenSeq(hashed) = <<>>
  BY <1>1 DEF D!FlattenSeq
<1>7. SubSeq(block, 1, Len(message) % Block) = <<>>
  BY <1>3, <1>4, SubSeqEmpty
<1>8. D!FlattenSeq(hashed) \o SubSeq(block, 1, Len(message) % Block) = message
  <2>1. <<>> \o <<>> = <<>>
    OBVIOUS
  <2> QED
    BY <1>1, <1>6, <1>7, <2>1
<1>9. Holds(D!State, message)
  BY <1>4, <1>5, <1>8 DEF Holds, D!State
<1> QED
  BY <1>1, <1>9 DEF DigestInv

LEMMA NextDigest ==
  ASSUME D!DigestAssumption, DigestInv, [D!Next]_D!vars
  PROVE  DigestInv'
<1>1. ASSUME D!Finish PROVE DigestInv'
  <2> DEFINE s == D!mongo_md5_finish(D!State)
  <2>1. /\ ~closed /\ closed' = TRUE /\ message' = message
        /\ hashed' = s.blocks
    BY <1>1 DEF D!Finish, D!Becomes
  <2>2. Holds(D!State, message)
    BY <2>1 DEF DigestInv
  <2>3. /\ Holds(s, Padded(message) \o EndOf(message))
        /\ Len(Padded(message) \o EndOf(message)) % Block = 0
    BY <2>2, FinishIs
  <2> HIDE DEF s
  <2> DEFINE m == Padded(message) \o EndOf(message)
             fs == D!FlattenSeq(s.blocks)
  <2>4. OfBlocks(s.blocks, Sym) /\ Join(fs, SubSeq(s.buf, 1, 0)) = m
    BY <2>3 DEF Holds, Join
  <2>5. fs \in Seq(Sym)
    BY <2>4, FlattenBlock, EmptySeq DEF OfBlocks
  <2>6. SubSeq(s.buf, 1, 0) = <<>>
    BY SubSeqEmpty
  <2> HIDE DEF m, fs
  <2>7. fs = m
    BY <2>4, <2>5, <2>6, ConcatEmptySeq DEF Join
  <2>8. message \in Seq(Sym)
    BY <2>2 DEF Holds
  <2> QED
    BY <2>1, <2>4, <2>7, <2>8 DEF DigestInv, m, fs
<1>2. ASSUME NEW n \in 0 .. MaxPiece, D!Append1(n) PROVE DigestInv'
  <2> DEFINE q == [i \in 1 .. n |-> Len(message) + i]
             s == D!mongo_md5_append(D!State, q)
  <2>1. /\ ~closed /\ closed' = closed /\ message' = message \o q
        /\ count' = s.count /\ block' = s.buf /\ hashed' = s.blocks
    BY <1>2 DEF D!Append1, D!Becomes
  <2>2. Holds(D!State, message)
    BY <2>1 DEF DigestInv
  <2>3. q \in Seq(Sym)
    <3>1. n \in Nat /\ Len(message) \in Nat
      BY <2>2, LenProperties DEF Holds, D!DigestAssumption
    <3> QED
      BY <3>1 DEF Sym
  <2> HIDE DEF q
  <2>4. Holds(s, message \o q)
    BY <2>2, <2>3, AppendKeeps
  <2> HIDE DEF s
  <2>5. Holds(D!State', message')
    BY <2>1, <2>4 DEF Holds, D!State
  <2> QED
    BY <2>1, <2>5 DEF DigestInv
<1>3. CASE UNCHANGED D!vars
  BY <1>3 DEF D!vars, DigestInv, D!State
<1> QED
  BY <1>1, <1>2, <1>3 DEF D!Next

(* The blocks that md5 hashes are the bytes of the message in their order, *)
(* however it was cut into pieces (mongo_md5_append); closed, they end     *)
(* with a pad and the number of its bits (mongo_md5_finish).               *)
THEOREM DigestBlocks ==
  ASSUME D!DigestAssumption
  PROVE  D!Spec => []D!BlocksAreMessage
<1>1. DigestInv /\ [D!Next]_D!vars => DigestInv'
  BY NextDigest
<1>2. ASSUME DigestInv PROVE D!BlocksAreMessage
  <2>1. Block \in Nat \ {0}
    BY DEF D!DigestAssumption
  <2>2. CASE closed
    <3>1. /\ OfBlocks(hashed, Sym) /\ message \in Seq(Sym)
          /\ D!FlattenSeq(hashed) = Padded(message) \o EndOf(message)
      BY <1>2, <2>2 DEF DigestInv
    <3>2. Padded(message) = (message \o <<D!PadByte>>) \o Zeros((-(Len(message) + 3)) % Block)
      BY <2>1, <3>1, PaddedIs
    <3>3. \A k \in DOMAIN hashed : Len(hashed[k]) = Block
      BY <3>1 DEF OfBlocks
    <3> QED
      BY <2>2, <3>1, <3>2, <3>3 DEF D!BlocksAreMessage, Zeros, EndOf, Counts
  <2>3. CASE ~closed
    <3>1. Holds(D!State, message)
      BY <1>2, <2>3 DEF DigestInv
    <3>2. /\ message \in Seq(Sym) /\ count = Counts(8 * Len(message)) /\ OfBlocks(hashed, Sym)
          /\ D!FlattenSeq(hashed) \o SubSeq(block, 1, Len(message) % Block) = message
      BY <3>1 DEF Holds, D!State
    <3>3. D!Offset(count) = Len(message) % Block
      <4> DEFINE l == Len(message)
      <4>1. l \in Nat /\ count = Counts(8 * l)
        BY <3>2, LenProperties
      <4> HIDE DEF l
      <4>2. D!Offset(count) = l % Block
        BY <4>1, OffsetIs
      <4> QED
        BY <4>2 DEF l
    <3>4. \A k \in DOMAIN hashed : Len(hashed[k]) = Block
      BY <3>2 DEF OfBlocks
    <3> QED
      BY <2>3, <3>2, <3>3, <3>4 DEF D!BlocksAreMessage, Counts
  <2> QED
    BY <2>2, <2>3
<1>3. DigestInv => D!BlocksAreMessage
  BY <1>2
<1>4. D!Init => DigestInv
  BY InitDigest
<1>5. D!Spec => []DigestInv
  BY <1>1, <1>4, PTL DEF D!Spec
<1> QED
  BY <1>3, <1>5, PTL

-----------------------------------------------------------------------------
(* The four together: arrays keep what the calls say, what goes through a  *)
(* buffer or a batch goes on in its order, and md5 hashes the message.     *)
THEOREM BytesAlwaysInOrder == StreamsSpec => []BytesInOrder
<1>0. A!ArraysAssumption /\ U!BufferAssumption /\ I!BatchAssumption /\ D!DigestAssumption
  BY StreamsAssumption DEF StreamsAssumption
<1>1. A!Spec => []A!Contents
  BY <1>0, ArraysContents
<1>2. U!Spec => []U!OutInOrder /\ []U!InInOrder
  BY <1>0, BufferOutInOrder, BufferInInOrder
<1>3. I!Spec => []I!BatchInOrder
  BY <1>0, BatchGoesOutInOrder
<1>4. D!Spec => []D!BlocksAreMessage
  BY <1>0, DigestBlocks
<1>5. A!Contents /\ U!OutInOrder /\ U!InInOrder /\ I!BatchInOrder /\ D!BlocksAreMessage => BytesInOrder
  BY DEF BytesInOrder
<1> QED
  BY <1>1, <1>2, <1>3, <1>4, <1>5, PTL DEF StreamsSpec
=============================================================================
