---------------------------- MODULE DriverProofs ----------------------------
(***************************************************************************)
(* What the driver promises over one connection, for any number of         *)
(* servers, sockets, documents and faults: first whose turn it is and what *)
(* is on its way, then what is known of the data.                          *)
(***************************************************************************)
EXTENDS Driver, FiniteSetTheorems, SequenceTheorems, WellFoundedInduction, TLAPS

Ticket == {0, 1}
Peers == Servers \cup {None}

Msgs ==
  [op : {"insert"}, arg : Seq(Ids), to : Ticket]
    \cup [op : {"update", "delete"}, arg : Ids, to : Ticket]
    \cup [op : {"get_more", "kill_cursors"}, arg : Cursors, to : Ticket]
    \cup [op : Asking \ {"get_more"}, arg : 0 .. 2, to : Ticket]

Replies == [to : Ticket, id : {0} \cup Cursors, batch : Seq(Ids), err : BOOLEAN,
            master : BOOLEAN, n : Nat]
SockRecords == [open : BOOLEAN, peer : Peers, up : BOOLEAN,
                out : Seq(Msgs), in : Seq(Replies), err : BOOLEAN]
Conns == [left : Peers, right : Peers, sock : Int, connected : BOOLEAN]
Thens == {"", "find", "more", "save", "getlasterror", "count", "master", "other"}
Calls == [at : {"idle", "read", "hung"}, then : Thens, doc : {0} \cup Ids]
Curs == [open : BOOLEAN, id : {0} \cup Cursors, batch : Seq(Ids), pos : Nat]

TypeOK ==
  /\ conn \in Conns /\ call \in Calls /\ cur \in Curs
  /\ socks \in [Socks -> SockRecords]
  /\ up \in SUBSET Servers /\ master \in Servers
  /\ kept \in [Servers -> [Cursors -> SUBSET Ids]]
  /\ docs \in SUBSET Ids /\ program \in Programs
  /\ ticket \in Ticket /\ clean \in BOOLEAN
  /\ believed \in SUBSET Ids /\ found \in SUBSET Ids /\ given \in SUBSET Ids

Link == socks[conn.sock]

(* What is connected is an open socket of the process, to left_opts.       *)
Current(c, sk) ==
  c.connected => /\ c.sock \in Socks /\ c.left \in Servers
                 /\ sk[c.sock].open /\ sk[c.sock].peer = c.left

(* Nothing is on its way over a socket the driver has let go of.           *)
Quiet ==
  \A s \in Socks : socks[s].out # <<>> \/ socks[s].in # <<>> =>
    conn.connected /\ s = conn.sock /\ socks[s].up

NoAsk(out) == \A i \in 1 .. Len(out) : out[i].op \notin Asking

(* The request a call reads the reply of.                                  *)
AskedBy(then) ==
  CASE then = "find" -> {"query"}
    [] then = "more" -> {"get_more"}
    [] then \in {"save", "getlasterror"} -> {"getlasterror"}
    [] then = "count" -> {"count"}
    [] then \in {"master", "other"} -> {"ismaster"}
    [] OTHER -> {}

(* The request is the last thing that was sent, or its reply is the only   *)
(* thing on its way.                                                       *)
Waits(L) ==
  /\ L.in = <<>> /\ L.out # <<>>
  /\ \A i \in 1 .. Len(L.out) - 1 : L.out[i].op \notin Asking
  /\ L.out[Len(L.out)].op \in AskedBy(call.then)
  /\ L.out[Len(L.out)].to = ticket

HasAnswer(L) == L.out = <<>> /\ Len(L.in) = 1 /\ L.in[1].to = ticket

Turn ==
  /\ call.at = "idle" =>
       call = Idle /\ \A s \in Socks : socks[s].in = <<>> /\ NoAsk(socks[s].out)
  /\ call.at # "idle" => conn.connected
  /\ call.at = "hung" => ~Link.up
  /\ call.at = "read" /\ Link.up => Waits(Link) \/ HasAnswer(Link)
  /\ call.then = "master" => conn.right \in Servers

(* No program both uses cursors and connects again.                        *)
Apart ==
  /\ call.then \in {"master", "other"} => program = "pair"
  /\ program = "pair" \/ conn.left = None =>
       cur = NoCur /\ call.then \notin {"find", "more", "save"}

LinkInv == TypeOK /\ Current(conn, socks) /\ Quiet /\ Turn /\ Apart

-----------------------------------------------------------------------------
(* Making and closing connections.                                         *)

LEMMA FreeSockType == FreeSock \in SockRecords
BY DEF FreeSock, SockRecords, Peers

(* The lowest free number is a free number.                                *)
LEMMA LowestFree ==
  ASSUME NEW S \in SUBSET Socks, S # {}
  PROVE  Min(S) \in S
<1>1. S \subseteq Nat
  BY DriverAssumption DEF Socks
<1>2. PICK c \in S : \A d \in S : ~ (<<d, c>> \in OpToRel(<, Nat))
  BY <1>1, NatLessThanWellFounded, WFMin
<1>3. \A d \in S : d \in Nat /\ ~ (d < c)
  BY <1>1, <1>2 DEF OpToRel
<1>4. \A d \in S : c =< d
  BY <1>1, <1>3
<1> QED
  BY <1>4 DEF Min

Silent(sk) == \A s \in Socks : sk[s].out = <<>> /\ sk[s].in = <<>>

(* A connection made, or given up: nothing is on its way yet.              *)
Made(c, sk) ==
  /\ c \in Conns /\ sk \in [Socks -> SockRecords]
  /\ Silent(sk) /\ Current(c, sk)
  /\ c.connected => sk[c.sock].up

(* The ways a step writes into a connection and into a socket.             *)
WithSock(c, a, b) == [c EXCEPT !.sock = a, !.connected = b]
Opened(a, b) == [FreeSock EXCEPT !.open = TRUE, !.peer = a, !.up = b]

LEMMA ConnSet ==
  ASSUME NEW c \in Conns, NEW a \in Int, NEW b \in BOOLEAN
  PROVE  LET d == WithSock(c, a, b)
         IN  /\ d \in Conns /\ d.sock = a /\ d.connected = b
             /\ d.left = c.left /\ d.right = c.right
<1>1. WithSock(c, a, b) \in Conns
  BY DEF Conns, WithSock
<1>2. WithSock(c, a, b).sock = a
  BY DEF Conns, WithSock
<1>3. WithSock(c, a, b).connected = b
  BY DEF Conns, WithSock
<1>4. WithSock(c, a, b).left = c.left
  BY DEF Conns, WithSock
<1>5. WithSock(c, a, b).right = c.right
  BY DEF Conns, WithSock
<1> QED
  BY <1>1, <1>2, <1>3, <1>4, <1>5

LEMMA Unconnected ==
  ASSUME NEW c \in Conns, NEW a \in Int
  PROVE  LET d == WithSock(c, a, FALSE)
         IN  /\ d \in Conns /\ ~d.connected
             /\ d.left = c.left /\ d.right = c.right
BY ConnSet

LEMMA OpenedIs ==
  ASSUME NEW a \in Servers, NEW b \in BOOLEAN
  PROVE  LET q == Opened(a, b)
         IN  /\ q \in SockRecords /\ q.open /\ q.peer = a /\ q.up = b
             /\ q.out = <<>> /\ q.in = <<>>
<1> DEFINE q == Opened(a, b)
<1>1. q \in SockRecords
  BY FreeSockType DEF Opened, SockRecords, Peers
<1>2. q.open
  BY FreeSockType DEF Opened, SockRecords
<1>3. q.peer = a
  BY FreeSockType DEF Opened, SockRecords
<1>4. q.up = b
  BY FreeSockType DEF Opened, SockRecords
<1>5. q.out = FreeSock.out
  BY FreeSockType DEF Opened, SockRecords
<1>6. q.in = FreeSock.in
  BY FreeSockType DEF Opened, SockRecords
<1>7. FreeSock.out = <<>> /\ FreeSock.in = <<>>
  BY DEF FreeSock
<1> HIDE DEF q
<1> QED
  BY <1>1, <1>2, <1>3, <1>4, <1>5, <1>6, <1>7 DEF q

LEMMA HelpedMakes ==
  ASSUME NEW c \in Conns, NEW sk \in [Socks -> SockRecords], Silent(sk),
         c.left \in Servers
  PROVE  /\ Made(Helped(c, sk).conn, Helped(c, sk).socks)
         /\ Helped(c, sk).conn.left = c.left
         /\ Helped(c, sk).conn.right = c.right
<1> DEFINE free == {s \in Socks : ~sk[s].open}
           s == Min(free)
           ok == c.left \in up
           h == Helped(c, sk)
<1>1. CASE free = {}
  <2> DEFINE none == -1
             d == WithSock(c, none, FALSE)
  <2>1. h.conn = d /\ h.socks = sk
    BY <1>1 DEF Helped, WithSock
  <2>2. none \in Int
    OBVIOUS
  <2> HIDE DEF none
  <2>3. d \in Conns /\ ~d.connected /\ d.left = c.left /\ d.right = c.right
    BY <2>2, Unconnected
  <2> HIDE DEF d, h
  <2> QED
    BY <2>1, <2>3 DEF Made, Current, h
<1>2. CASE free # {}
  <2>1. s \in Socks
    BY <1>2, LowestFree
  <2> HIDE DEF s
  <2> DEFINE d == WithSock(c, s, ok)
             new == Opened(c.left, ok)
             tk == [sk EXCEPT ![s] = new]
  <2>2. h.conn = d /\ h.socks = tk
    BY <1>2 DEF Helped, s, WithSock, Opened
  <2>3. s \in Int /\ ok \in BOOLEAN
    BY <2>1, DriverAssumption DEF Socks
  <2> HIDE DEF ok
  <2>4. /\ d \in Conns /\ d.sock = s /\ d.connected = ok
        /\ d.left = c.left /\ d.right = c.right
    BY <2>3, ConnSet
  <2>5. /\ new \in SockRecords /\ new.open /\ new.peer = c.left /\ new.up = ok
        /\ new.out = <<>> /\ new.in = <<>>
    BY <2>3, OpenedIs
  <2> HIDE DEF d, new, h
  <2>6. tk \in [Socks -> SockRecords] /\ tk[s] = new /\ Silent(tk)
    BY <2>1, <2>5 DEF Silent
  <2> HIDE DEF tk
  <2> QED
    BY <2>1, <2>2, <2>4, <2>5, <2>6 DEF Made, Current, h
<1> QED
  BY <1>1, <1>2

LEMMA DisconnectedMakes ==
  ASSUME NEW c \in Conns, NEW sk \in [Socks -> SockRecords],
         \A s \in Socks : sk[s].out # <<>> \/ sk[s].in # <<>> =>
                            c.connected /\ s = c.sock
  PROVE  /\ Made(Disconnected(c, sk).conn, Disconnected(c, sk).socks)
         /\ Disconnected(c, sk).conn.left = c.left
         /\ Disconnected(c, sk).conn.right = c.right
<1>1. CASE ~c.connected
  BY <1>1 DEF Disconnected, Made, Silent, Current
<1>2. CASE c.connected
  <2> DEFINE none == 0
             d == WithSock(c, none, FALSE)
             tk == [sk EXCEPT ![c.sock] = FreeSock]
  <2>a. none \in Int
    OBVIOUS
  <2> HIDE DEF none
  <2>1. d \in Conns /\ ~d.connected /\ d.left = c.left /\ d.right = c.right
    BY <2>a, Unconnected
  <2>2. FreeSock.out = <<>> /\ FreeSock.in = <<>>
    BY DEF FreeSock
  <2>3. tk \in [Socks -> SockRecords] /\ Silent(tk)
    BY <1>2, <2>2, FreeSockType DEF Silent
  <2>4. Disconnected(c, sk).conn = d /\ Disconnected(c, sk).socks = tk
    BY <1>2 DEF Disconnected, WithSock, none
  <2> HIDE DEF d, tk
  <2> QED
    BY <2>1, <2>3, <2>4 DEF Made, Current
<1> QED
  BY <1>1, <1>2

(* After a connection call: nothing to wait for, or who the master is.     *)
JustMade ==
  /\ conn \in Conns /\ socks \in [Socks -> SockRecords] /\ ticket \in Ticket
  /\ Current(conn, socks) /\ call \in Calls
  /\ conn.connected => Link.up
  /\ \/ call = Idle /\ Silent(socks)
     \/ /\ call.at = "read" /\ call.then \in {"master", "other"}
        /\ call.then = "master" => conn.right \in Servers
        /\ conn.connected
        /\ \A s \in Socks : /\ socks[s].in = <<>>
                            /\ s # conn.sock => socks[s].out = <<>>
        /\ Link.out = <<[op |-> "ismaster", arg |-> 0, to |-> ticket]>>

LEMMA DoneMade ==
  ASSUME NEW r, Made(r.conn, r.socks), Done(r), ticket \in Ticket
  PROVE  JustMade' /\ call' = Idle /\ call'.then = ""
<1>1. Idle \in Calls
  BY DEF Idle, Calls, Thens
<1>2. JustMade' /\ call' = Idle
  BY <1>1 DEF Made, Done, JustMade, Silent, Current, Link
<1> QED
  BY <1>2 DEF Idle

WithOut(q, a) == [q EXCEPT !.out = a]
WithIn(q, a) == [q EXCEPT !.in = a]
WithOutIn(q, a, b) == [q EXCEPT !.out = a, !.in = b]
WithOutErr(q, a, b) == [q EXCEPT !.out = a, !.err = b]
Crashed(q) == [q EXCEPT !.up = FALSE, !.out = <<>>, !.in = <<>>]

(* The same end of the same connection.                                    *)
SameEnd(q, r) == r \in SockRecords /\ r.open = q.open /\ r.peer = q.peer

LEMMA OutSet ==
  ASSUME NEW q \in SockRecords, NEW a \in Seq(Msgs)
  PROVE  LET r == WithOut(q, a)
         IN  /\ SameEnd(q, r) /\ r.up = q.up
             /\ r.out = a /\ r.in = q.in /\ r.err = q.err
<1>1. WithOut(q, a) \in SockRecords
  BY DEF SockRecords, WithOut
<1>2. WithOut(q, a).open = q.open /\ WithOut(q, a).peer = q.peer
  BY DEF SockRecords, WithOut
<1>3. WithOut(q, a).up = q.up /\ WithOut(q, a).out = a
  BY DEF SockRecords, WithOut
<1>4. WithOut(q, a).in = q.in /\ WithOut(q, a).err = q.err
  BY DEF SockRecords, WithOut
<1> QED
  BY <1>1, <1>2, <1>3, <1>4 DEF SameEnd

LEMMA InSet ==
  ASSUME NEW q \in SockRecords, NEW a \in Seq(Replies)
  PROVE  LET r == WithIn(q, a)
         IN  /\ SameEnd(q, r) /\ r.up = q.up
             /\ r.out = q.out /\ r.in = a /\ r.err = q.err
<1>1. WithIn(q, a) \in SockRecords
  BY DEF SockRecords, WithIn
<1>2. WithIn(q, a).open = q.open /\ WithIn(q, a).peer = q.peer
  BY DEF SockRecords, WithIn
<1>3. WithIn(q, a).up = q.up /\ WithIn(q, a).out = q.out
  BY DEF SockRecords, WithIn
<1>4. WithIn(q, a).in = a /\ WithIn(q, a).err = q.err
  BY DEF SockRecords, WithIn
<1> QED
  BY <1>1, <1>2, <1>3, <1>4 DEF SameEnd

LEMMA OutInSet ==
  ASSUME NEW q \in SockRecords, NEW a \in Seq(Msgs), NEW b \in Seq(Replies)
  PROVE  LET r == WithOutIn(q, a, b)
         IN  /\ SameEnd(q, r) /\ r.up = q.up
             /\ r.out = a /\ r.in = b /\ r.err = q.err
<1>1. WithOutIn(q, a, b) \in SockRecords
  BY DEF SockRecords, WithOutIn
<1>2. WithOutIn(q, a, b).open = q.open /\ WithOutIn(q, a, b).peer = q.peer
  BY DEF SockRecords, WithOutIn
<1>3. WithOutIn(q, a, b).up = q.up /\ WithOutIn(q, a, b).out = a
  BY DEF SockRecords, WithOutIn
<1>4. WithOutIn(q, a, b).in = b /\ WithOutIn(q, a, b).err = q.err
  BY DEF SockRecords, WithOutIn
<1> QED
  BY <1>1, <1>2, <1>3, <1>4 DEF SameEnd

LEMMA OutErrSet ==
  ASSUME NEW q \in SockRecords, NEW a \in Seq(Msgs), NEW b \in BOOLEAN
  PROVE  LET r == WithOutErr(q, a, b)
         IN  /\ SameEnd(q, r) /\ r.up = q.up
             /\ r.out = a /\ r.in = q.in /\ r.err = b
<1>1. WithOutErr(q, a, b) \in SockRecords
  BY DEF SockRecords, WithOutErr
<1>2. WithOutErr(q, a, b).open = q.open /\ WithOutErr(q, a, b).peer = q.peer
  BY DEF SockRecords, WithOutErr
<1>3. WithOutErr(q, a, b).up = q.up /\ WithOutErr(q, a, b).out = a
  BY DEF SockRecords, WithOutErr
<1>4. WithOutErr(q, a, b).in = q.in
  BY DEF SockRecords, WithOutErr
<1>5. WithOutErr(q, a, b).err = b
  BY DEF SockRecords, WithOutErr
<1> QED
  BY <1>1, <1>2, <1>3, <1>4, <1>5 DEF SameEnd

LEMMA CrashSet ==
  ASSUME NEW q \in SockRecords
  PROVE  LET r == Crashed(q)
         IN  /\ SameEnd(q, r) /\ ~r.up /\ r.out = <<>> /\ r.in = <<>>
<1>0. <<>> \in Seq(Msgs) /\ <<>> \in Seq(Replies)
  OBVIOUS
<1>1. Crashed(q) \in SockRecords
  BY <1>0 DEF SockRecords, Crashed
<1>2. Crashed(q).open = q.open /\ Crashed(q).peer = q.peer
  BY DEF SockRecords, Crashed
<1>3. ~Crashed(q).up
  BY DEF SockRecords, Crashed
<1>4. Crashed(q).out = <<>> /\ Crashed(q).in = <<>>
  BY DEF SockRecords, Crashed
<1> QED
  BY <1>1, <1>2, <1>3, <1>4 DEF SameEnd

(* What mongo_message_send does to a socket of the process.                *)
LEMMA SentIs ==
  ASSUME NEW sk \in [Socks -> SockRecords], NEW s \in Socks, NEW ms \in Seq(Msgs)
  PROVE  LET tk == Sent(sk, s, ms)
         IN  /\ tk \in [Socks -> SockRecords]
             /\ \A u \in Socks \ {s} : tk[u] = sk[u]
             /\ SameEnd(sk[s], tk[s]) /\ tk[s].up = sk[s].up
             /\ tk[s].in = sk[s].in /\ tk[s].err = sk[s].err
             /\ tk[s].out = IF sk[s].up THEN sk[s].out \o ms ELSE sk[s].out
<1>1. CASE ~sk[s].up
  BY <1>1 DEF Sent, SameEnd
<1>2. CASE sk[s].up
  <2> DEFINE q == WithOut(sk[s], sk[s].out \o ms)
  <2>1. sk[s] \in SockRecords
    OBVIOUS
  <2>2. sk[s].out \o ms \in Seq(Msgs)
    BY <2>1, ConcatProperties DEF SockRecords
  <2>3. /\ SameEnd(sk[s], q) /\ q.out = sk[s].out \o ms
        /\ q.up = sk[s].up /\ q.in = sk[s].in /\ q.err = sk[s].err
    BY <2>1, <2>2, OutSet
  <2>4. Sent(sk, s, ms) = [sk EXCEPT ![s] = q]
    BY <1>2 DEF Sent, WithOut
  <2> HIDE DEF q
  <2> QED
    BY <1>2, <2>3, <2>4 DEF SameEnd
<1> QED
  BY <1>1, <1>2

LEMMA RequestIs ==
  ASSUME NEW op, NEW arg, ticket \in Ticket
  PROVE  /\ Request(op, arg) = [op |-> op, arg |-> arg, to |-> 1 - ticket]
         /\ 1 - ticket \in Ticket
BY DEF Request, Msg, Ticket

LEMMA AskMasterMade ==
  ASSUME NEW r, Made(r.conn, r.socks), NEW then \in {"master", "other"},
         AskMaster(r, then), ticket \in Ticket,
         r.conn.connected, then = "master" => r.conn.right \in Servers
  PROVE  JustMade' /\ call'.then = then
<1> DEFINE m == Request("ismaster", 0)
           s == r.conn.sock
<1>1. m = [op |-> "ismaster", arg |-> 0, to |-> 1 - ticket] /\ 1 - ticket \in Ticket
  BY RequestIs
<1> HIDE DEF m
<1>2. m \in Msgs
  BY <1>1 DEF Msgs, Asking
<1>3. s \in Socks /\ r.socks[s].up /\ r.socks \in [Socks -> SockRecords]
  BY DEF Made, Current
<1> DEFINE ms == <<m>>
<1>4. ms \in Seq(Msgs)
  BY <1>2
<1>5. /\ r.socks[s].out = <<>> /\ r.socks[s].in = <<>> /\ <<>> \o ms = ms
      /\ ms = <<[op |-> "ismaster", arg |-> 0, to |-> 1 - ticket]>>
  BY <1>1, <1>3 DEF Made, Silent
<1>6. Asked(r.conn, r.socks, s, ms, then, 0)
  BY DEF AskMaster, m
<1> DEFINE sk == r.socks
           tk == Sent(sk, s, ms)
<1>a. sk \in [Socks -> SockRecords] /\ sk[s].up /\ sk[s].in = <<>> /\ sk[s].out = <<>>
  BY <1>3, <1>5
<1> HIDE DEF ms, s, sk
<1>7. /\ tk \in [Socks -> SockRecords]
      /\ \A u \in Socks \ {s} : tk[u] = sk[u]
      /\ SameEnd(sk[s], tk[s]) /\ tk[s].up = sk[s].up
      /\ tk[s].in = sk[s].in 
      /\ tk[s].out = IF sk[s].up THEN sk[s].out \o ms ELSE sk[s].out
  <2>1. sk \in [Socks -> SockRecords]
    BY <1>a
  <2>2. s \in Socks
    BY <1>3
  <2>3. ms \in Seq(Msgs)
    BY <1>4
  <2>4. SameEnd(sk[s], tk[s])
    BY <2>1, <2>2, <2>3, SentIs
  <2>5. \A u \in Socks \ {s} : tk[u] = sk[u]
    BY <2>1, <2>2, <2>3, SentIs
  <2> QED
    BY <2>1, <2>2, <2>3, SentIs
<1> HIDE DEF tk
<1>b. tk[s].up /\ tk[s].in = <<>> /\ tk[s].out = ms
  <2>1. tk[s].up
    BY <1>7, <1>a
  <2>2. tk[s].in = <<>>
    BY <1>7, <1>a
  <2>3. tk[s].out = sk[s].out \o ms
    BY <1>7, <1>a
  <2>4. sk[s].out \o ms = ms
    BY <1>5, <1>a
  <2> QED
    BY <2>1, <2>2, <2>3, <2>4
<1>8. socks' = tk /\ ticket' = 1 - ticket /\ conn' = r.conn
  BY <1>6 DEF Asked, sk, tk
<1>9. call' \in Calls /\ call'.at = "read" /\ call'.then = then
  BY <1>6 DEF Asked, Calls, Thens
<1>10. \A u \in Socks : tk[u].in = <<>> /\ (u # s => tk[u].out = <<>>)
  BY <1>7, <1>b DEF Made, Silent, sk
<1>11. Current(r.conn, tk) /\ r.conn \in Conns
  BY <1>3, <1>7 DEF Made, Current, s, SameEnd, sk
<1> QED
  BY <1>1, <1>3, <1>5, <1>7, <1>b, <1>8, <1>9, <1>10, <1>11 DEF JustMade, Link, s

LEMMA SwappedIs ==
  ASSUME NEW c \in Conns
  PROVE  /\ Swapped(c) \in Conns
         /\ Swapped(c).left = c.right /\ Swapped(c).right = c.left
<1>1. Swapped(c) \in Conns
  BY DEF Swapped, Conns
<1>2. Swapped(c).left = c.right /\ Swapped(c).right = c.left
  BY DEF Swapped, Conns
<1> QED
  BY <1>1, <1>2

LEMMA OtherServerMade ==
  ASSUME NEW c \in Conns, NEW sk \in [Socks -> SockRecords], Silent(sk),
         c.right \in Servers, OtherServer(c, sk), ticket \in Ticket
  PROVE  JustMade' /\ call'.then \in {"", "other"}
<1> DEFINE r == Helped(Swapped(c), sk)
<1>1. Made(r.conn, r.socks)
  BY SwappedIs, HelpedMakes
<1>2. IF r.conn.connected THEN AskMaster(r, "other") ELSE Done(r)
  BY DEF OtherServer
<1> HIDE DEF r
<1>3. CASE r.conn.connected /\ AskMaster(r, "other")
  BY <1>1, <1>3, AskMasterMade
<1>4. CASE Done(r)
  BY <1>1, <1>4, DoneMade
<1> QED
  BY <1>2, <1>3, <1>4

LEMMA ReconnectedMade ==
  ASSUME NEW c \in Conns, NEW sk \in [Socks -> SockRecords],
         \A s \in Socks : sk[s].out # <<>> \/ sk[s].in # <<>> =>
                            c.connected /\ s = c.sock,
         c.left \in Servers, Reconnected(c, sk), ticket \in Ticket
  PROVE  JustMade' /\ call'.then \in {"", "master", "other"}
<1> DEFINE d == Disconnected(c, sk)
           r == Helped(d.conn, d.socks)
<1>1. Made(d.conn, d.socks) /\ d.conn.left = c.left /\ d.conn.right = c.right
  BY DisconnectedMakes
<1>2. Made(r.conn, r.socks) /\ r.conn.left = c.left /\ r.conn.right = c.right
  <2> HIDE DEF d
  <2> QED
    BY <1>1, HelpedMakes DEF Made
<1>3. IF c.right = None THEN Done(r)
      ELSE IF r.conn.connected THEN AskMaster(r, "master")
      ELSE OtherServer(r.conn, r.socks)
  BY DEF Reconnected
<1> HIDE DEF r
<1>4. r.conn \in Conns /\ r.socks \in [Socks -> SockRecords] /\ Silent(r.socks)
  BY <1>2 DEF Made
<1>5. c.right # None => c.right \in Servers
  BY DEF Conns, Peers
<1>6. CASE Done(r)
  BY <1>2, <1>6, DoneMade
<1>7. CASE c.right # None /\ r.conn.connected /\ AskMaster(r, "master")
  BY <1>2, <1>5, <1>7, AskMasterMade
<1>8. CASE c.right # None /\ OtherServer(r.conn, r.socks)
  BY <1>2, <1>4, <1>5, <1>8, OtherServerMade
<1> QED
  BY <1>3, <1>6, <1>7, <1>8

(* The calls that make or close a connection leave the data alone.         *)
Connecting ==
  /\ JustMade' /\ call'.then \in {"", "master", "other"}
  /\ cur = NoCur /\ (call'.then # "" => program = "pair")
  /\ UNCHANGED <<cur, server, faults, found, given>>
  /\ clean' \in BOOLEAN /\ believed' \in SUBSET Ids
  /\ clean' => /\ \A v \in Servers, k \in Cursors : kept[v][k] = {}
               /\ believed' = docs

LEMMA ConnectConnects ==
  ASSUME LinkInv, NEW v \in Servers, MongoConnect(v)
  PROVE  Connecting
<1> DEFINE c == [conn EXCEPT !.left = v, !.right = None]
           r == Helped(c, socks)
<1>1. conn.left = None /\ call.at = "idle" /\ cur = NoCur
  BY DEF MongoConnect, LinkInv, Apart
<1>2. c \in Conns
  BY DEF LinkInv, TypeOK, Conns, Peers
<1>3. c.left = v
  BY DEF LinkInv, TypeOK, Conns, Peers
<1>4. ~conn.connected
  BY <1>1, DriverAssumption DEF LinkInv, Current
<1>5. Silent(socks) /\ socks \in [Socks -> SockRecords] /\ ticket \in Ticket
  BY <1>4 DEF LinkInv, Quiet, Silent, TypeOK
<1>6. Done(r) /\ Reset
  BY DEF MongoConnect
<1> HIDE DEF c
<1>7. Made(r.conn, r.socks)
  BY <1>2, <1>3, <1>5, HelpedMakes
<1> HIDE DEF r
<1>8. JustMade' /\ call'.then = ""
  BY <1>5, <1>6, <1>7, DoneMade
<1> QED
  BY <1>1, <1>6, <1>8 DEF Connecting, MongoConnect, Reset, LinkInv, TypeOK

LEMMA PairConnects ==
  ASSUME LinkInv, program = "pair",
         NEW v \in Servers, NEW w \in Servers, MongoConnectPair(v, w)
  PROVE  Connecting
<1> DEFINE c == [conn EXCEPT !.left = v, !.right = w, !.connected = FALSE]
<1>1. conn.left = None /\ cur = NoCur
  BY DEF MongoConnectPair, LinkInv, Apart
<1>2. c \in Conns
  BY DEF LinkInv, TypeOK, Conns, Peers
<1>3. c.left = v
  BY DEF LinkInv, TypeOK, Conns, Peers
<1>4. ~conn.connected
  BY <1>1, DriverAssumption DEF LinkInv, Current
<1>5. Silent(socks) /\ socks \in [Socks -> SockRecords] /\ ticket \in Ticket
  BY <1>4 DEF LinkInv, Quiet, Silent, TypeOK
<1>6. Reconnected(c, socks)
  BY DEF MongoConnectPair
<1> HIDE DEF c
<1>7. JustMade' /\ call'.then \in {"", "master", "other"}
  BY <1>2, <1>3, <1>5, <1>6, ReconnectedMade DEF Silent
<1> QED
  BY <1>1, <1>6, <1>7 DEF Connecting, MongoConnectPair, Reconnected, Reset, LinkInv, TypeOK

LEMMA ReconnectConnects ==
  ASSUME LinkInv, program = "pair", MongoReconnect
  PROVE  Connecting
<1>1. Reconnected(conn, socks) /\ cur = NoCur
  BY DEF MongoReconnect, LinkInv, Apart
<1>2. /\ conn \in Conns /\ socks \in [Socks -> SockRecords] /\ ticket \in Ticket
      /\ conn.left \in Servers
  BY DEF MongoReconnect, LinkInv, TypeOK, Conns, Peers
<1>3. JustMade' /\ call'.then \in {"", "master", "other"}
  BY <1>1, <1>2, ReconnectedMade DEF LinkInv, Quiet
<1> QED
  BY <1>1, <1>3 DEF Connecting, MongoReconnect, Reconnected, Reset, LinkInv, TypeOK

LEMMA DisconnectConnects ==
  ASSUME LinkInv, program = "pair", MongoDisconnect
  PROVE  Connecting
<1> DEFINE r == Disconnected(conn, socks)
<1>1. Done(r) /\ cur = NoCur
  BY DEF MongoDisconnect, LinkInv, Apart
<1>2. conn \in Conns /\ socks \in [Socks -> SockRecords] /\ ticket \in Ticket
  BY DEF LinkInv, TypeOK
<1>3. Made(r.conn, r.socks)
  BY <1>2, DisconnectedMakes DEF LinkInv, Quiet
<1> HIDE DEF r
<1>4. JustMade' /\ call'.then = ""
  BY <1>1, <1>2, <1>3, DoneMade
<1> QED
  BY <1>1, <1>4 DEF Connecting, MongoDisconnect, LinkInv, TypeOK

LEMMA DestroyConnects ==
  ASSUME LinkInv, program = "pair", MongoDestroy
  PROVE  Connecting
<1> DEFINE c == [conn EXCEPT !.left = None, !.right = None]
           r == Disconnected(c, socks)
<1>1. Done(r) /\ cur = NoCur
  BY DEF MongoDestroy, LinkInv, Apart
<1>2. socks \in [Socks -> SockRecords] /\ ticket \in Ticket
  BY DEF LinkInv, TypeOK
<1>3. c \in Conns
  BY DEF LinkInv, TypeOK, Conns, Peers
<1>4. c.connected = conn.connected /\ c.sock = conn.sock
  BY DEF LinkInv, TypeOK, Conns
<1> HIDE DEF c
<1>5. Made(r.conn, r.socks)
  BY <1>2, <1>3, <1>4, DisconnectedMakes DEF LinkInv, Quiet
<1> HIDE DEF r
<1>6. JustMade' /\ call'.then = ""
  BY <1>1, <1>2, <1>5, DoneMade
<1> QED
  BY <1>1, <1>6 DEF Connecting, MongoDestroy, LinkInv, TypeOK

-----------------------------------------------------------------------------
(* Reading the reply.                                                      *)

LEMMA OneElement ==
  ASSUME NEW S, NEW q \in Seq(S), Len(q) = 1
  PROVE  Head(q) = q[1] /\ q[1] \in S /\ Tail(q) = <<>>
<1>1. q # <<>>
  OBVIOUS
<1>2. Tail(q) \in Seq(S) /\ Len(Tail(q)) = 0
  BY <1>1, HeadTailProperties
<1>3. Tail(q) = <<>>
  BY <1>2, EmptySeq
<1> QED
  BY <1>1, <1>3

(* Only the call at hand has an answer, and it is the only one.            *)
LEMMA ToRead ==
  ASSUME LinkInv, MongoReadResponse
  PROVE  /\ call.at = "read" /\ conn.connected /\ conn.sock \in Socks
         /\ conn.left \in Servers
         /\ Link \in SockRecords /\ Link.up /\ HasAnswer(Link)
         /\ Head(Link.in) = Link.in[1] /\ Link.in[1] \in Replies
         /\ Tail(Link.in) = <<>>
<1>1. call.at = "read" /\ Link.in # <<>>
  BY DEF MongoReadResponse, Link
<1>2. conn.connected /\ conn.sock \in Socks /\ conn.left \in Servers
  BY <1>1 DEF LinkInv, Turn, Current
<1>3. Link \in SockRecords /\ Link.up
  BY <1>1, <1>2 DEF LinkInv, TypeOK, Quiet, Link
<1>4. HasAnswer(Link)
  BY <1>1, <1>3 DEF LinkInv, Turn, Waits
<1>5. Link.in \in Seq(Replies)
  BY <1>3 DEF SockRecords
<1>6. Head(Link.in) = Link.in[1] /\ Link.in[1] \in Replies /\ Tail(Link.in) = <<>>
  BY <1>4, <1>5, OneElement DEF HasAnswer
<1> QED
  BY <1>1, <1>2, <1>3, <1>4, <1>6

LEMMA PoppedIs ==
  ASSUME LinkInv, MongoReadResponse
  PROVE  /\ Popped \in [Socks -> SockRecords]
         /\ \A u \in Socks \ {conn.sock} : Popped[u] = socks[u]
         /\ SameEnd(Link, Popped[conn.sock]) /\ Popped[conn.sock].up
         /\ Popped[conn.sock].out = <<>> /\ Popped[conn.sock].in = <<>>
         /\ Popped[conn.sock].err = Link.err
         /\ Silent(Popped)
<1> DEFINE s == conn.sock
           q == WithIn(Link, <<>>)
<1>1. /\ s \in Socks /\ Link \in SockRecords /\ Link.up
      /\ Link.out = <<>> /\ Tail(Link.in) = <<>>
  BY ToRead DEF HasAnswer
<1>2. socks \in [Socks -> SockRecords]
  BY DEF LinkInv, TypeOK
<1>3. Popped = [socks EXCEPT ![s] = q]
  BY <1>1 DEF Popped, WithIn, Link
<1>4. /\ SameEnd(Link, q) /\ q.up = Link.up
      /\ q.out = Link.out /\ q.in = <<>> /\ q.err = Link.err
  <2> DEFINE e == <<>>
  <2>1. e \in Seq(Replies)
    OBVIOUS
  <2> HIDE DEF e
  <2>2. /\ SameEnd(Link, WithIn(Link, e)) /\ WithIn(Link, e).up = Link.up
        /\ WithIn(Link, e).out = Link.out /\ WithIn(Link, e).in = e
        /\ WithIn(Link, e).err = Link.err
    BY <1>1, <2>1, InSet
  <2> QED
    BY <2>2 DEF e
<1>5. \A u \in Socks : u # s => socks[u].out = <<>> /\ socks[u].in = <<>>
  BY DEF LinkInv, Quiet
<1> HIDE DEF q
<1>6. Popped[s] = q /\ \A u \in Socks \ {s} : Popped[u] = socks[u]
  BY <1>1, <1>2, <1>3
<1>7. Popped \in [Socks -> SockRecords]
  BY <1>1, <1>2, <1>3, <1>4 DEF SameEnd
<1>8. Silent(Popped)
  BY <1>1, <1>4, <1>5, <1>6 DEF Silent
<1> QED
  BY <1>1, <1>4, <1>6, <1>7, <1>8

LEMMA NotMasterConnects ==
  ASSUME LinkInv, MongoReadResponse, OtherServer(conn, Popped), Reset,
         call.then = "master", UNCHANGED <<cur, server, faults, found, given>>
  PROVE  Connecting
<1>1. program = "pair" /\ cur = NoCur /\ conn.right \in Servers
  BY DEF LinkInv, Apart, Turn
<1>2. conn \in Conns /\ ticket \in Ticket
  BY DEF LinkInv, TypeOK
<1>3. JustMade' /\ call'.then \in {"", "other"}
  BY <1>1, <1>2, PoppedIs, OtherServerMade
<1> QED
  BY <1>1, <1>3 DEF Connecting, Reset, LinkInv, TypeOK

(* ... and a connection just made keeps the invariant.                     *)
LEMMA ConnectingKeeps ==
  ASSUME LinkInv, Connecting, program' = program
  PROVE  LinkInv'
<1>1. TypeOK'
  BY DEF LinkInv, TypeOK, Connecting, JustMade, server
<1>2. Current(conn', socks')
  BY DEF Connecting, JustMade
<1>3. Quiet'
  BY DEF Connecting, JustMade, Quiet, Silent, Link
<1>4. Turn'
  <2>1. CASE call' = Idle /\ (\A s \in Socks : socks'[s].out = <<>> /\ socks'[s].in = <<>>)
    <3>1. call'.at = "idle" /\ call'.then = ""
      BY <2>1 DEF Idle
    <3>2. \A s \in Socks : NoAsk(socks'[s].out)
      BY <2>1 DEF NoAsk
    <3>3. Idle' = Idle
      BY DEF Idle
    <3> QED
      BY <2>1, <3>1, <3>2, <3>3 DEF Turn
  <2>2. CASE /\ call'.at = "read" /\ call'.then \in {"master", "other"}
             /\ call'.then = "master" => conn'.right \in Servers
             /\ conn'.connected
             /\ \A s \in Socks : socks'[s].in = <<>>
             /\ Link'.out = <<[op |-> "ismaster", arg |-> 0, to |-> ticket']>>
    <3>1. conn'.sock \in Socks
      BY <1>2, <2>2 DEF Current
    <3>2. Waits(Link)'
      BY <2>2, <3>1 DEF Waits, AskedBy, Link
    <3> QED
      BY <2>2, <3>2 DEF Turn
  <2> QED
    BY <2>1, <2>2 DEF Connecting, JustMade, Silent
<1>5. Apart'
  BY DEF LinkInv, Apart, Connecting
<1> QED
  BY <1>1, <1>2, <1>3, <1>4, <1>5 DEF LinkInv

-----------------------------------------------------------------------------
(* Sending.                                                                *)

(* What a call sends over the link at hand.                                *)
LEMMA SendIs ==
  ASSUME LinkInv, conn.connected, NEW ms \in Seq(Msgs),
         conn' = conn, socks' = Sent(socks, conn.sock, ms)
  PROVE  /\ socks' \in [Socks -> SockRecords]
         /\ \A u \in Socks \ {conn.sock} : socks'[u] = socks[u]
         /\ Link' \in SockRecords /\ Link'.up = Link.up
         /\ Link'.in = Link.in /\ Link'.err = Link.err
         /\ Link.up => Link'.out = Link.out \o ms
         /\ ~Link.up => Link'.out = Link.out
         /\ Current(conn', socks')
<1> DEFINE s == conn.sock
<1>1. s \in Socks
  BY DEF LinkInv, Current
<1>2. socks \in [Socks -> SockRecords] /\ socks[s] \in SockRecords
  BY <1>1 DEF LinkInv, TypeOK
<1>3. /\ socks' \in [Socks -> SockRecords]
      /\ \A u \in Socks \ {s} : socks'[u] = socks[u]
      /\ SameEnd(socks[s], socks'[s]) /\ socks'[s].up = socks[s].up
      /\ socks'[s].in = socks[s].in /\ socks'[s].err = socks[s].err
      /\ socks'[s].out = IF socks[s].up THEN socks[s].out \o ms ELSE socks[s].out
  BY <1>1, <1>2, SentIs
<1>4. Link = socks[s] /\ Link' = socks'[s]
  BY DEF Link
<1>5. Current(conn', socks')
  BY <1>3 DEF SameEnd, LinkInv, Current
<1> HIDE DEF s
<1> QED
  BY <1>3, <1>4, <1>5 DEF SameEnd, s

LEMMA NoAskConcat ==
  ASSUME NEW a \in Seq(Msgs), NEW b \in Seq(Msgs), NoAsk(a), NoAsk(b)
  PROVE  NoAsk(a \o b)
BY DEF NoAsk

(* A write, or a cursor given up: no reply is due.                         *)
LEMMA WritingKeeps ==
  ASSUME LinkInv, conn.connected, call.at = "idle", NEW m \in Msgs, m.op \notin Asking,
         UNCHANGED <<conn, call>>,
         \/ socks' = Sent(socks, conn.sock, <<m>>)
         \/ socks' = Sent(socks, conn.sock, <<>>)
  PROVE  /\ socks' \in [Socks -> SockRecords] /\ Current(conn', socks')
         /\ Quiet' /\ Turn'
<1>1. PICK ms \in Seq(Msgs) : NoAsk(ms) /\ socks' = Sent(socks, conn.sock, ms)
  <2>1. <<m>> \in Seq(Msgs) /\ NoAsk(<<m>>)
    BY DEF NoAsk
  <2>2. <<>> \in Seq(Msgs) /\ NoAsk(<<>>)
    BY DEF NoAsk
  <2> QED
    BY <2>1, <2>2
<1>2. /\ socks' \in [Socks -> SockRecords]
      /\ \A u \in Socks \ {conn.sock} : socks'[u] = socks[u]
      /\ Link' \in SockRecords /\ Link'.up = Link.up
      /\ Link'.in = Link.in
      /\ Link.up => Link'.out = Link.out \o ms
      /\ ~Link.up => Link'.out = Link.out
      /\ Current(conn', socks')
  BY <1>1, SendIs
<1>3. Quiet'
  BY <1>2 DEF LinkInv, Quiet, Link
<1>4. conn.sock \in Socks /\ Link.out \in Seq(Msgs)
  BY DEF LinkInv, Current, TypeOK, SockRecords, Link
<1>5. \A s \in Socks : socks[s].in = <<>> /\ NoAsk(socks[s].out)
  BY DEF LinkInv, Turn
<1>6. NoAsk(Link'.out)
  BY <1>1, <1>2, <1>4, <1>5, NoAskConcat DEF Link
<1>7. \A s \in Socks : socks'[s].in = <<>> /\ NoAsk(socks'[s].out)
  BY <1>2, <1>5, <1>6, <1>4 DEF Link
<1>8. Idle' = Idle /\ Idle.then = ""
  BY DEF Idle
<1>9. Turn'
  BY <1>7, <1>8 DEF LinkInv, Turn
<1> QED
  BY <1>2, <1>3, <1>9

Question(ms, then) ==
  /\ ms # <<>> /\ \A i \in 1 .. Len(ms) - 1 : ms[i].op \notin Asking
  /\ ms[Len(ms)].op \in AskedBy(then) /\ ms[Len(ms)].to = 1 - ticket

(* Nothing waits for a reply on any socket.                                *)
MayAsk(sk) ==
  /\ sk \in [Socks -> SockRecords] /\ ticket \in Ticket
  /\ conn.connected /\ Current(conn, sk)
  /\ \A s \in Socks : /\ sk[s].in = <<>> /\ NoAsk(sk[s].out)
                      /\ sk[s].out # <<>> => s = conn.sock /\ sk[s].up

HasAsked(sk, ms, then, d) ==
  /\ socks' \in [Socks -> SockRecords] /\ conn' = conn
  /\ call' \in Calls /\ call'.at = "read" /\ call'.then = then /\ call'.doc = d
  /\ ticket' = 1 - ticket /\ ticket' \in Ticket
  /\ Current(conn', socks') /\ Quiet' /\ Turn'
  /\ Link'.up = sk[conn.sock].up /\ Link'.in = <<>>
  /\ Link'.err = sk[conn.sock].err
  /\ sk[conn.sock].up => Link'.out = sk[conn.sock].out \o ms

(* A request goes out behind all the rest.                                 *)
LEMMA AskedIs ==
  ASSUME NEW sk, MayAsk(sk), NEW ms \in Seq(Msgs), NEW d \in {0} \cup Ids,
         NEW then \in {"find", "more", "save", "getlasterror", "count"},
         Question(ms, then), Asked(conn, sk, conn.sock, ms, then, d)
  PROVE  HasAsked(sk, ms, then, d)
<1> DEFINE s == conn.sock
<1>00. /\ sk \in [Socks -> SockRecords] /\ ticket \in Ticket
       /\ conn.connected /\ Current(conn, sk)
       /\ \A u \in Socks : /\ sk[u].in = <<>> /\ NoAsk(sk[u].out)
                           /\ sk[u].out # <<>> => u = conn.sock /\ sk[u].up
  BY DEF MayAsk
<1>0. 1 - ticket \in Ticket
  BY <1>00 DEF Ticket
<1>1. /\ conn' = conn /\ ticket' = 1 - ticket /\ ticket' \in Ticket
      /\ socks' = Sent(sk, s, ms)
  BY <1>0 DEF Asked
<1>2. call' \in Calls /\ call'.at = "read" /\ call'.then = then /\ call'.doc = d
  BY DEF Asked, Calls, Thens
<1>3. s \in Socks /\ sk[s] \in SockRecords
  BY <1>00 DEF Current
<1>4. /\ socks' \in [Socks -> SockRecords]
      /\ \A u \in Socks \ {s} : socks'[u] = sk[u]
      /\ SameEnd(sk[s], socks'[s]) /\ socks'[s].up = sk[s].up
      /\ socks'[s].in = sk[s].in /\ socks'[s].err = sk[s].err
      /\ socks'[s].out = IF sk[s].up THEN sk[s].out \o ms ELSE sk[s].out
  <2> HIDE DEF s
  <2> QED
    BY <1>00, <1>1, <1>3, SentIs
<1>5. Link' = socks'[s]
  BY <1>1 DEF Link
<1>6. Current(conn', socks')
  BY <1>00, <1>1, <1>4 DEF SameEnd, Current
<1>7. Quiet'
  BY <1>00, <1>1, <1>4, <1>5 DEF Quiet
<1>8. ASSUME sk[s].up
      PROVE  Waits(Link)'
  <2> DEFINE out == sk[s].out
             new == out \o ms
  <2>1. out \in Seq(Msgs) /\ NoAsk(out)
    BY <1>00, <1>3 DEF SockRecords
  <2>2. Link'.out = new /\ Link'.in = <<>>
    BY <1>00, <1>3, <1>4, <1>5, <1>8
  <2> HIDE DEF out
  <2>a. ms # <<>> /\ Len(ms) > 0 /\ Len(new) = Len(out) + Len(ms)
    BY <2>1 DEF Question
  <2>b. new # <<>> /\ new[Len(new)] = ms[Len(ms)]
    BY <2>1, <2>a
  <2>c. ASSUME NEW i \in 1 .. Len(new) - 1
        PROVE  new[i].op \notin Asking
    <3>1. CASE i =< Len(out)
      <4>1. new[i] = out[i]
        BY <2>1, <2>a, <3>1
      <4> HIDE DEF new
      <4> QED
        BY <2>1, <3>1, <4>1 DEF NoAsk
    <3>2. CASE i > Len(out)
      <4>1. new[i] = ms[i - Len(out)] /\ i - Len(out) \in 1 .. Len(ms) - 1
        BY <2>1, <2>a, <3>2
      <4> HIDE DEF new
      <4> QED
        BY <4>1 DEF Question
    <3> QED
      BY <2>1, <3>1, <3>2
  <2>3. /\ new # <<>> /\ new[Len(new)] = ms[Len(ms)]
        /\ \A i \in 1 .. Len(new) - 1 : new[i].op \notin Asking
    BY <2>b, <2>c
  <2> HIDE DEF new
  <2> QED
    BY <1>1, <1>2, <2>2, <2>3 DEF Waits, Question
<1>9. Turn'
  BY <1>00, <1>1, <1>2, <1>4, <1>5, <1>8 DEF Turn
<1> HIDE DEF s
<1> QED
  BY <1>00, <1>1, <1>2, <1>3, <1>4, <1>5, <1>6, <1>7, <1>9 DEF s, HasAsked

LEMMA WriteKeeps ==
  ASSUME LinkInv, program' = program, NEW m \in Msgs, m.op \notin Asking,
         NEW b \in SUBSET Ids, Write(m, b)
  PROVE  LinkInv'
<1>1. /\ call.at = "idle" /\ conn.connected /\ socks' = Sent(socks, conn.sock, <<m>>)
      /\ UNCHANGED <<conn, call, cur>>
  BY DEF Write, Ready, client
<1>2. /\ socks' \in [Socks -> SockRecords] /\ Current(conn', socks')
      /\ Quiet' /\ Turn'
  BY <1>1, WritingKeeps
<1>3. TypeOK'
  BY <1>1, <1>2 DEF LinkInv, TypeOK, Write, server
<1>4. Apart'
  BY <1>1 DEF LinkInv, Apart
<1> QED
  BY <1>2, <1>3, <1>4 DEF LinkInv

LEMMA PlainMsgs ==
  ASSUME LinkInv
  PROVE  /\ \A d \in Ids : /\ Msg("update", d) \in Msgs /\ Msg("delete", d) \in Msgs
                           /\ InsertMsg(<<d>>) \in Msgs
         /\ \A d, e \in Ids : InsertMsg(<<d, e>>) \in Msgs
         /\ \A a : /\ Msg("update", a).op = "update" /\ Msg("update", a).arg = a
                  /\ Msg("delete", a).op = "delete" /\ Msg("delete", a).arg = a
                  /\ InsertMsg(a).op = "insert" /\ InsertMsg(a).arg = a
<1>1. ticket \in Ticket
  BY DEF LinkInv, TypeOK
<1>2. \A d \in Ids : Msg("update", d) \in Msgs /\ Msg("delete", d) \in Msgs
  BY <1>1 DEF Msg, Msgs
<1>3. \A q \in Seq(Ids) : InsertMsg(q) \in Msgs
  BY <1>1 DEF Msg, Msgs, InsertMsg
<1>4. \A d \in Ids : <<d>> \in Seq(Ids)
  OBVIOUS
<1>5. \A d, e \in Ids : <<d, e>> \in Seq(Ids)
  OBVIOUS
<1>6. \A a : /\ Msg("update", a).op = "update" /\ Msg("update", a).arg = a
             /\ Msg("delete", a).op = "delete" /\ Msg("delete", a).arg = a
             /\ InsertMsg(a).op = "insert" /\ InsertMsg(a).arg = a
  BY DEF Msg, InsertMsg
<1> QED
  BY <1>2, <1>3, <1>4, <1>5, <1>6

LEMMA InsertedIds ==
  ASSUME NEW ds \in SUBSET Ids, NEW ms \in Seq(Ids)
  PROVE  InsertedBy(ds, ms).docs \in SUBSET Ids /\ InsertedBy(ds, ms).err \in BOOLEAN
<1>1. \A k \in DOMAIN ms : ms[k] \in Ids
  OBVIOUS
<1> QED
  BY <1>1 DEF InsertedBy

LEMMA WritesKeep ==
  ASSUME LinkInv, program' = program
  PROVE  /\ \A d \in Ids : MongoUpdate(d) \/ MongoRemove(d) => LinkInv'
         /\ \A d, e \in Ids : MongoInsertBatch(<<d, e>>) => LinkInv'
<1>1. believed \in SUBSET Ids
  BY DEF LinkInv, TypeOK
<1>2. ASSUME NEW d \in Ids, MongoUpdate(d)
      PROVE  LinkInv'
  <2> DEFINE m == Msg("update", d)
             b == believed \cup {d}
  <2>1. m \in Msgs /\ m.op \notin Asking /\ b \in SUBSET Ids
    BY <1>1, PlainMsgs DEF Asking
  <2>2. Write(m, b)
    BY <1>2 DEF MongoUpdate
  <2> HIDE DEF m, b
  <2> QED
    BY <2>1, <2>2, WriteKeeps
<1>3. ASSUME NEW d \in Ids, MongoRemove(d)
      PROVE  LinkInv'
  <2> DEFINE m == Msg("delete", d)
             b == believed \ {d}
  <2>1. m \in Msgs /\ m.op \notin Asking /\ b \in SUBSET Ids
    BY <1>1, PlainMsgs DEF Asking
  <2>2. Write(m, b)
    BY <1>3 DEF MongoRemove
  <2> HIDE DEF m, b
  <2> QED
    BY <2>1, <2>2, WriteKeeps
<1>4. ASSUME NEW d \in Ids, NEW e \in Ids, MongoInsertBatch(<<d, e>>)
      PROVE  LinkInv'
  <2> DEFINE q == <<d, e>>
             m == InsertMsg(q)
             b == InsertedBy(believed, q).docs
  <2>1. q \in Seq(Ids) /\ m \in Msgs /\ m.op \notin Asking
    BY PlainMsgs DEF Asking
  <2>2. Write(m, b)
    BY <1>4 DEF MongoInsertBatch
  <2>3. b \in SUBSET Ids
    <3> HIDE DEF q
    <3> QED
      BY <1>1, <2>1, InsertedIds
  <2> HIDE DEF m, b
  <2> QED
    BY <2>1, <2>2, <2>3, WriteKeeps
<1> QED
  BY <1>2, <1>3, <1>4

LEMMA IdleMayAsk ==
  ASSUME LinkInv, conn.connected, call.at = "idle"
  PROVE  MayAsk(socks)
BY DEF LinkInv, TypeOK, Turn, Quiet, MayAsk

(* Every request with a reply, and what goes out with it.                  *)
LEMMA AskKeeps ==
  ASSUME LinkInv, program' = program, Ready, cur' = cur, believed' \in SUBSET Ids,
         NEW ms \in Seq(Msgs), NEW d \in {0} \cup Ids,
         NEW then \in {"find", "more", "save", "getlasterror", "count"},
         then \in {"find", "more", "save"} => program # "pair",
         Question(ms, then), Ask(ms, then, d)
  PROVE  LinkInv'
<1>1. /\ Asked(conn, socks, conn.sock, ms, then, d) /\ conn.connected
      /\ call.at = "idle"
  BY DEF Ask, Ready
<1>2. MayAsk(socks)
  BY <1>1, IdleMayAsk
<1>a. HasAsked(socks, ms, then, d)
  BY <1>1, <1>2, AskedIs
<1>3. /\ socks' \in [Socks -> SockRecords] /\ conn' = conn
      /\ call' \in Calls /\ call'.then = then
      /\ ticket' \in Ticket /\ Current(conn', socks') /\ Quiet' /\ Turn'
  BY <1>a DEF HasAsked
<1>4. TypeOK'
  BY <1>3 DEF LinkInv, TypeOK, Ask, server
<1>5. Apart'
  <2>1. conn.left # None
    BY <1>2, DriverAssumption DEF Current, MayAsk
  <2> QED
    BY <1>3, <2>1 DEF LinkInv, Apart
<1> QED
  BY <1>3, <1>4, <1>5 DEF LinkInv

LEMMA OneAsks ==
  ASSUME NEW m \in Msgs, NEW then, m.op \in AskedBy(then), m.to = 1 - ticket
  PROVE  <<m>> \in Seq(Msgs) /\ Question(<<m>>, then)
BY DEF Question

LEMMA FindAsks ==
  ASSUME ticket \in Ticket, NEW n \in 0 .. 2
  PROVE  LET ms == <<Request("query", n)>> IN ms \in Seq(Msgs) /\ Question(ms, "find")
<1> DEFINE m == Request("query", n)
<1>1. m = [op |-> "query", arg |-> n, to |-> 1 - ticket] /\ 1 - ticket \in Ticket
  BY RequestIs
<1> HIDE DEF m
<1>2. m \in Msgs
  BY <1>1 DEF Msgs, Asking
<1>3. m.op \in AskedBy("find") /\ m.to = 1 - ticket
  BY <1>1 DEF AskedBy
<1> QED
  BY <1>2, <1>3, OneAsks DEF m

LEMMA MoreAsks ==
  ASSUME ticket \in Ticket, cur.id \in Cursors
  PROVE  LET ms == <<GetMoreMsg>> IN ms \in Seq(Msgs) /\ Question(ms, "more")
<1>1. /\ GetMoreMsg = [op |-> "get_more", arg |-> cur.id, to |-> 1 - ticket]
      /\ 1 - ticket \in Ticket
  BY RequestIs DEF GetMoreMsg
<1>2. GetMoreMsg \in Msgs
  BY <1>1 DEF Msgs
<1>3. GetMoreMsg.op \in AskedBy("more") /\ GetMoreMsg.to = 1 - ticket
  BY <1>1 DEF AskedBy
<1> QED
  BY <1>2, <1>3, OneAsks

LEMMA CommandAsks ==
  ASSUME ticket \in Ticket, NEW name \in {"getlasterror", "count"}
  PROVE  LET ms == <<Request(name, 0)>> IN ms \in Seq(Msgs) /\ Question(ms, name)
<1> DEFINE m == Request(name, 0)
<1>1. m = [op |-> name, arg |-> 0, to |-> 1 - ticket] /\ 1 - ticket \in Ticket
  BY RequestIs
<1> HIDE DEF m
<1>2. m \in Msgs
  BY <1>1 DEF Msgs, Asking
<1>3. m.op \in AskedBy(name) /\ m.to = 1 - ticket
  BY <1>1 DEF AskedBy
<1> QED
  BY <1>2, <1>3, OneAsks DEF m

LEMMA SaveAsks ==
  ASSUME LinkInv, NEW d \in Ids
  PROVE  /\ Inserts(d) \in Seq(Msgs) /\ Question(Inserts(d), "save")
         /\ Len(Inserts(d)) = 2
         /\ Inserts(d)[1].op = "insert" /\ Inserts(d)[1].arg = <<d>>
<1> DEFINE m == Request("getlasterror", 0)
           i == InsertMsg(<<d>>)
<1>1. ticket \in Ticket
  BY DEF LinkInv, TypeOK
<1>2. m = [op |-> "getlasterror", arg |-> 0, to |-> 1 - ticket] /\ 1 - ticket \in Ticket
  BY <1>1, RequestIs
<1>3. i \in Msgs /\ i.op = "insert" /\ i.arg = <<d>>
  BY PlainMsgs
<1>4. Inserts(d) = <<i, m>>
  BY DEF Inserts
<1> HIDE DEF m, i
<1>5. m \in Msgs
  BY <1>2 DEF Msgs, Asking
<1>6. m.op \in AskedBy("save") /\ m.to = 1 - ticket
  BY <1>2 DEF AskedBy
<1>7. i.op \notin Asking
  BY <1>3 DEF Asking
<1>8. Question(<<i, m>>, "save") /\ <<i, m>> \in Seq(Msgs)
  BY <1>3, <1>5, <1>6, <1>7 DEF Question
<1> QED
  BY <1>3, <1>4, <1>8

LEMMA EdbCallsKeep ==
  ASSUME LinkInv, program' = program, EdbCalls
  PROVE  LinkInv'
<1>1. /\ program # "pair" /\ ticket \in Ticket /\ cur \in Curs
      /\ believed \in SUBSET Ids
  BY DEF EdbCalls, LinkInv, TypeOK
<1>2. ASSUME NEW d \in Ids, Save(d)
      PROVE  LinkInv'
  <2>1. Ready /\ Ask(Inserts(d), "save", d) /\ cur' = cur /\ believed' \in SUBSET Ids
    BY <1>1, <1>2 DEF Save, Believes
  <2> QED
    BY <1>1, <2>1, SaveAsks, AskKeeps
<1>3. ASSUME NEW n \in 0 .. 2, MongoFind(n)
      PROVE  LinkInv'
  <2> DEFINE ms == <<Request("query", n)>>
  <2>1. ms \in Seq(Msgs) /\ Question(ms, "find")
    BY <1>1, FindAsks
  <2>2. Ready /\ Ask(ms, "find", 0) /\ cur' = cur /\ believed' \in SUBSET Ids
    BY <1>1, <1>3 DEF MongoFind
  <2> HIDE DEF ms
  <2> QED
    BY <1>1, <2>1, <2>2, AskKeeps
<1>4. ASSUME RunCommand("count")
      PROVE  LinkInv'
  <2> DEFINE ms == <<Request("count", 0)>>
  <2>1. ms \in Seq(Msgs) /\ Question(ms, "count")
    BY <1>1, CommandAsks
  <2>2. Ready /\ Ask(ms, "count", 0) /\ cur' = cur /\ believed' \in SUBSET Ids
    BY <1>1, <1>4 DEF RunCommand
  <2> HIDE DEF ms
  <2> QED
    BY <1>1, <2>1, <2>2, AskKeeps
<1>5. CASE CursorGetMore
  <2> DEFINE ms == <<GetMoreMsg>>
  <2>1. ms \in Seq(Msgs) /\ Question(ms, "more")
    BY <1>1, <1>5, MoreAsks DEF CursorGetMore, Curs
  <2>2. Ready /\ Ask(ms, "more", 0) /\ cur' = cur /\ believed' \in SUBSET Ids
    BY <1>1, <1>5 DEF CursorGetMore
  <2> HIDE DEF ms
  <2> QED
    BY <1>1, <2>1, <2>2, AskKeeps
<1>6. CASE CursorStep
  <2>1. cur.open /\ cur # NoCur
    BY <1>6 DEF CursorStep, NoCur
  <2>2. cur' \in Curs
    BY <1>1, <1>6 DEF CursorStep, Curs
  <2>3. given' \in SUBSET Ids
    BY <1>1, <1>6 DEF CursorStep, Curs, LinkInv, TypeOK
  <2> QED
    BY <1>6, <2>1, <2>2, <2>3
       DEF CursorStep, LinkInv, TypeOK, Quiet, Turn, Waits, HasAnswer, Apart, server, Link
<1>7. CASE CursorDestroy
  <2>1. NoCur \in Curs
    BY DEF NoCur, Curs
  <2>2. /\ cur' = NoCur /\ call.at = "idle" /\ found' = {} /\ given' = {}
        /\ UNCHANGED <<conn, call, ticket, clean, believed, server>>
    BY <1>7 DEF CursorDestroy
  <2>3. /\ socks' \in [Socks -> SockRecords] /\ Current(conn', socks')
        /\ Quiet' /\ Turn'
    <3>1. CASE ~conn.connected
      <4>1. socks' = socks
        BY <1>7, <3>1 DEF CursorDestroy
      <4> QED
        BY <2>2, <4>1
           DEF LinkInv, TypeOK, Quiet, Turn, Waits, HasAnswer, Link
    <3>2. CASE conn.connected /\ cur.id = 0
      <4>1. socks' = Sent(socks, conn.sock, <<>>)
        BY <1>7, <3>2 DEF CursorDestroy, Kills
      <4>2. \E m \in Msgs : m.op \notin Asking
        <5>1. [op |-> "kill_cursors", arg |-> 1, to |-> 0] \in Msgs
          BY DEF Msgs, Cursors, Ticket
        <5> QED
          BY <5>1 DEF Asking
      <4> QED
        BY <2>2, <3>2, <4>1, <4>2, WritingKeeps
    <3>3. CASE conn.connected /\ cur.id # 0
      <4> DEFINE m == Msg("kill_cursors", cur.id)
      <4>1. m \in Msgs /\ m.op \notin Asking
        BY <1>1, <3>3 DEF Msg, Msgs, Curs, Asking
      <4>2. socks' = Sent(socks, conn.sock, <<m>>)
        BY <1>7, <3>3 DEF CursorDestroy, Kills
      <4> HIDE DEF m
      <4> QED
        BY <2>2, <3>3, <4>1, <4>2, WritingKeeps
    <3> QED
      BY <3>1, <3>2, <3>3
  <2>4. TypeOK'
    BY <2>1, <2>2, <2>3 DEF LinkInv, TypeOK, server
  <2>5. Apart'
    BY <1>1, <2>2 DEF LinkInv, Apart
  <2> QED
    BY <2>3, <2>4, <2>5 DEF LinkInv
<1> QED
  BY <1>2, <1>3, <1>4, <1>5, <1>6, <1>7, WritesKeep DEF EdbCalls

LEMMA PairCallsKeep ==
  ASSUME LinkInv, program' = program, PairCalls
  PROVE  LinkInv'
<1>1. program = "pair" /\ ticket \in Ticket /\ believed \in SUBSET Ids
  BY DEF PairCalls, LinkInv, TypeOK
<1>2. CASE Connecting
  BY <1>2, ConnectingKeeps
<1>3. ASSUME NEW name \in {"getlasterror", "count"}, RunCommand(name)
      PROVE  LinkInv'
  <2> DEFINE ms == <<Request(name, 0)>>
  <2>1. ms \in Seq(Msgs) /\ Question(ms, name)
    BY <1>1, CommandAsks
  <2>2. Ready /\ Ask(ms, name, 0) /\ cur' = cur /\ believed' \in SUBSET Ids
    BY <1>1, <1>3 DEF RunCommand
  <2> HIDE DEF ms
  <2> QED
    BY <1>1, <2>1, <2>2, AskKeeps
<1>4. ASSUME MongoUpdate(1)
      PROVE  LinkInv'
  <2>1. 1 \in Ids
    BY DriverAssumption DEF Ids
  <2> QED
    BY <1>4, <2>1, WritesKeep
<1>5. ASSUME NEW v \in Servers, NEW w \in Servers \ {v}, MongoConnectPair(v, w)
      PROVE  Connecting
  BY <1>1, <1>5, PairConnects
<1> QED
  BY <1>1, <1>2, <1>3, <1>4, <1>5, ReconnectConnects, DisconnectConnects, DestroyConnects
     DEF PairCalls

LEMMA PoppedMayAsk ==
  ASSUME LinkInv, MongoReadResponse
  PROVE  MayAsk(Popped)
<1>1. Silent(Popped) /\ Popped \in [Socks -> SockRecords] /\ SameEnd(Link, Popped[conn.sock])
  BY PoppedIs
<1>2. conn.connected /\ Current(conn, socks) /\ ticket \in Ticket
  BY ToRead DEF LinkInv, TypeOK
<1>3. Current(conn, Popped)
  BY <1>1, <1>2 DEF Current, SameEnd, Link
<1>4. \A s \in Socks : Popped[s].in = <<>> /\ Popped[s].out = <<>> /\ NoAsk(Popped[s].out)
  BY <1>1 DEF Silent, NoAsk
<1> QED
  BY <1>1, <1>2, <1>3, <1>4 DEF MayAsk

LEMMA RepliesKeep ==
  ASSUME LinkInv, program' = program, MongoReadResponse
  PROVE  LinkInv'
<1> DEFINE r == Head(Link.in)
<1>1. /\ call.at = "read" /\ conn.connected /\ conn.sock \in Socks
      /\ conn.left \in Servers /\ r \in Replies /\ ReadReply(r)
  BY ToRead DEF MongoReadResponse, Link
<1>2. /\ ticket \in Ticket /\ cur \in Curs /\ given \in SUBSET Ids
      /\ believed \in SUBSET Ids /\ Current(conn, socks) /\ call \in Calls
  BY DEF LinkInv, TypeOK
<1>3. Silent(Popped) /\ Popped \in [Socks -> SockRecords] /\ Current(conn, Popped)
  BY <1>2, PoppedIs DEF Current, SameEnd, Link
<1> HIDE DEF r
<1>4. ASSUME Returns, cur' \in Curs, given' \in SUBSET Ids,
             call.then \in {"find", "more", "save"} \/ cur' = cur
      PROVE  LinkInv'
  <2>1. /\ call' = Idle /\ socks' = Popped
        /\ UNCHANGED <<conn, server, faults, ticket, clean, believed, found>>
    BY <1>4 DEF Returns
  <2>2. Idle \in Calls /\ Idle.at = "idle" /\ Idle.then = "" /\ Idle' = Idle
    BY DEF Idle, Calls, Thens
  <2>3. TypeOK'
    BY <1>3, <1>4, <2>1, <2>2 DEF LinkInv, TypeOK, server
  <2>4. Quiet'
    BY <1>3, <2>1 DEF Quiet, Silent
  <2>5. Turn'
    <3>1. \A s \in Socks : NoAsk(Popped[s].out) /\ Popped[s].in = <<>>
      BY <1>3 DEF Silent, NoAsk
    <3> QED
      BY <2>1, <2>2, <3>1 DEF Turn
  <2>6. Apart'
    BY <1>1, <1>4, <2>1, <2>2, DriverAssumption DEF LinkInv, Apart
  <2> QED
    BY <1>3, <2>1, <2>3, <2>4, <2>5, <2>6 DEF LinkInv
<1>5. CASE Returns /\ UNCHANGED <<cur, given>>
  BY <1>2, <1>4, <1>5
<1>6. ASSUME Returns, call.then = "find", given' = given,
             cur' = [open |-> TRUE, id |-> r.id, batch |-> r.batch, pos |-> 0]
      PROVE  LinkInv'
  <2>1. cur' \in Curs
    BY <1>1, <1>6 DEF Replies, Curs
  <2> QED
    BY <1>2, <1>4, <1>6, <2>1
<1>7. ASSUME Returns, call.then = "more",
             cur' = [cur EXCEPT !.id = r.id, !.batch = r.batch, !.pos = PosIn(r.batch)],
             given' = given \cup (IF r.batch = <<>> THEN {} ELSE {Head(r.batch)})
      PROVE  LinkInv'
  <2>1. PosIn(r.batch) \in Nat
    BY <1>2 DEF PosIn, Curs
  <2>2. r.id \in {0} \cup Cursors /\ r.batch \in Seq(Ids)
    BY <1>1 DEF Replies
  <2> DEFINE p == PosIn(r.batch)
             i == r.id
             b == r.batch
  <2> HIDE DEF p, i, b
  <2>a. p \in Nat /\ i \in {0} \cup Cursors /\ b \in Seq(Ids)
    BY <2>1, <2>2 DEF p, i, b
  <2>b. cur' = [cur EXCEPT !.id = i, !.batch = b, !.pos = p]
    BY <1>7 DEF p, i, b
  <2>3. cur' \in Curs
    BY <1>2, <2>a, <2>b DEF Curs
  <2>4. given' \in SUBSET Ids
    BY <1>2, <1>7, <2>2
  <2> QED
    BY <1>4, <1>7, <2>3, <2>4
<1>8. ASSUME NEW d \in Ids, Asked(conn, Popped, conn.sock, Inserts(d), "save", d),
             Believes(d), call.then = "save",
             UNCHANGED <<cur, server, faults, clean, found, given>>
      PROVE  LinkInv'
  <2>1. MayAsk(Popped)
    BY PoppedMayAsk
  <2>2. HasAsked(Popped, Inserts(d), "save", d)
    BY <1>8, <2>1, SaveAsks, AskedIs
  <2>3. /\ socks' \in [Socks -> SockRecords] /\ conn' = conn
        /\ call' \in Calls /\ call'.then = "save"
        /\ ticket' \in Ticket /\ Current(conn', socks') /\ Quiet' /\ Turn'
    BY <2>2 DEF HasAsked
  <2>4. believed' \in SUBSET Ids
    BY <1>2, <1>8 DEF Believes
  <2>5. TypeOK'
    BY <1>8, <2>3, <2>4 DEF LinkInv, TypeOK, server
  <2>6. Apart'
    BY <1>8, <2>3 DEF LinkInv, Apart
  <2> QED
    BY <2>3, <2>5, <2>6 DEF LinkInv
<1>9. CASE Connecting
  BY <1>9, ConnectingKeeps
<1> QED
  BY <1>1, <1>5, <1>6, <1>7, <1>8, <1>9, NotMasterConnects DEF ReadReply

LEMMA ClientKeeps ==
  ASSUME LinkInv, Client
  PROVE  LinkInv'
<1>1. program' = program
  BY DEF Client
<1>2. CASE LoopHangs
  <2>1. call' \in Calls /\ call'.at = "hung" /\ call'.then = call.then
    BY <1>2 DEF LoopHangs, LinkInv, TypeOK, Calls
  <2> QED
    BY <1>1, <1>2, <2>1
       DEF LoopHangs, LinkInv, TypeOK, Quiet, Turn, Apart, Link, server, history
<1> QED
  BY <1>1, <1>2, PairCallsKeep, EdbCallsKeep, RepliesKeep, ConnectConnects, ConnectingKeeps
     DEF Client

-----------------------------------------------------------------------------
(* The servers.                                                            *)

LEMMA FiniteIds ==
  ASSUME NEW ds \in SUBSET Ids
  PROVE  IsFiniteSet(ds) /\ Cardinality(ds) \in Nat
<1>1. IsFiniteSet(Ids)
  BY FS_Interval, DriverAssumption DEF Ids
<1>2. IsFiniteSet(ds)
  BY <1>1, FS_Subset
<1> QED
  BY <1>2, FS_CardinalityType

Injective(b) == \A i, j \in 1 .. Len(b) : b[i] = b[j] => i = j

(* What a server cuts off the front of its documents.                      *)
Cut(order, k) == SubSeq(order, 1, k)
First(order, k) == {order[i] : i \in 1 .. k}

LEMMA CutIs ==
  ASSUME NEW ds \in SUBSET Ids, NEW order \in Orders(ds),
         NEW k \in 0 .. Cardinality(ds)
  PROVE  /\ Cut(order, k) \in Seq(Ids) /\ Len(Cut(order, k)) = k
         /\ Injective(Cut(order, k))
         /\ Range(Cut(order, k)) = First(order, k) /\ First(order, k) \subseteq ds
<1> DEFINE n == Cardinality(ds)
           b == Cut(order, k)
<1>1. n \in Nat
  BY FiniteIds
<1>2. order \in [1 .. n -> ds] /\ \A i, j \in 1 .. n : order[i] = order[j] => i = j
  BY DEF Orders
<1> HIDE DEF n
<1>3. k \in 0 .. n
  BY DEF n
<1>4. order \in Seq(ds) /\ Len(order) = n
  BY <1>1, <1>2, IsASeq
<1>5. b \in Seq(ds) /\ Len(b) = k /\ \A i \in 1 .. k : b[i] = order[i]
  BY <1>1, <1>3, <1>4 DEF Cut
<1> HIDE DEF b
<1>6. b \in Seq(Ids)
  BY <1>5
<1>7. Injective(b)
  BY <1>1, <1>2, <1>3, <1>5 DEF Injective
<1>8. DOMAIN b = 1 .. k
  BY <1>5
<1>9. Range(b) = First(order, k)
  BY <1>5, <1>8 DEF Range, First
<1>10. First(order, k) \subseteq ds
  BY <1>1, <1>2, <1>3 DEF First
<1> QED
  BY <1>5, <1>6, <1>7, <1>9, <1>10 DEF b

WithBatch(r, b) == [r EXCEPT !.batch = b]
WithId(r, c) == [r EXCEPT !.id = c]
WithBatchId(r, b, c) == [r EXCEPT !.batch = b, !.id = c]
WithState(r, e, m, c) == [r EXCEPT !.err = e, !.master = m, !.n = c]

LEMMA ReplyIs ==
  ASSUME NEW m, m.to \in Ticket
  PROVE  /\ Reply(m) \in Replies
         /\ Reply(m).to = m.to /\ Reply(m).id = 0 /\ Reply(m).batch = <<>>
BY DEF Reply, Replies

LEMMA BatchSet ==
  ASSUME NEW r \in Replies, NEW b \in Seq(Ids)
  PROVE  LET q == WithBatch(r, b)
         IN  q \in Replies /\ q.to = r.to /\ q.id = r.id /\ q.batch = b
<1>1. WithBatch(r, b) \in Replies
  BY DEF WithBatch, Replies
<1>2. WithBatch(r, b).to = r.to /\ WithBatch(r, b).id = r.id
  BY DEF WithBatch, Replies
<1>3. WithBatch(r, b).batch = b
  BY DEF WithBatch, Replies
<1> QED
  BY <1>1, <1>2, <1>3

LEMMA IdSet ==
  ASSUME NEW r \in Replies, NEW c \in {0} \cup Cursors
  PROVE  LET q == WithId(r, c)
         IN  q \in Replies /\ q.to = r.to /\ q.id = c /\ q.batch = r.batch
<1>1. WithId(r, c) \in Replies
  BY DEF WithId, Replies
<1>2. WithId(r, c).to = r.to /\ WithId(r, c).id = c
  BY DEF WithId, Replies
<1>3. WithId(r, c).batch = r.batch
  BY DEF WithId, Replies
<1> QED
  BY <1>1, <1>2, <1>3

LEMMA BatchIdSet ==
  ASSUME NEW r \in Replies, NEW b \in Seq(Ids), NEW c \in {0} \cup Cursors
  PROVE  LET q == WithBatchId(r, b, c)
         IN  q \in Replies /\ q.to = r.to /\ q.id = c /\ q.batch = b
<1>1. WithBatchId(r, b, c) \in Replies
  BY DEF WithBatchId, Replies
<1>2. WithBatchId(r, b, c).to = r.to
  BY DEF WithBatchId, Replies
<1>3. WithBatchId(r, b, c).id = c
  BY DEF WithBatchId, Replies
<1>4. WithBatchId(r, b, c).batch = b
  BY DEF WithBatchId, Replies
<1> QED
  BY <1>1, <1>2, <1>3, <1>4

LEMMA StateSet ==
  ASSUME NEW r \in Replies, NEW e \in BOOLEAN, NEW m \in BOOLEAN, NEW c \in Nat
  PROVE  LET q == WithState(r, e, m, c)
         IN  /\ q \in Replies /\ q.to = r.to /\ q.err = e /\ q.n = c
<1>1. WithState(r, e, m, c) \in Replies
  BY DEF WithState, Replies
<1>2. WithState(r, e, m, c).to = r.to
  BY DEF WithState, Replies
<1>3. WithState(r, e, m, c).err = e
  BY DEF WithState, Replies
<1>4. WithState(r, e, m, c).n = c
  BY DEF WithState, Replies
<1> QED
  BY <1>1, <1>2, <1>3, <1>4

(* What a server still has for a reply, and how the two share what there   *)
(* is to give: nothing is in both, and nothing is in neither.              *)
Later(r, v) == IF r.id = 0 THEN {} ELSE kept'[v][r.id]

Hands(r, v, all) ==
  /\ r \in Replies /\ Injective(r.batch) /\ (r.batch = <<>> => r.id = 0)
  /\ all \subseteq Range(r.batch) \cup Later(r, v)
  /\ Range(r.batch) \cap Later(r, v) = {}
  /\ kept' \in [Servers -> [Cursors -> SUBSET Ids]]
  /\ \A k \in Cursors : kept'[v][k] # {} => k = r.id \/ kept'[v][k] = kept[v][k]

(* The next ones of a cursor c are some of what there is to give.          *)
HandsNext(r, v, c, ds) ==
  /\ Hands(r, v, ds) /\ Range(r.batch) \cup Later(r, v) \subseteq ds
  /\ r.id = c \/ kept'[v][c] = {}

LEMMA KeptSet ==
  ASSUME NEW kp \in [Servers -> [Cursors -> SUBSET Ids]], NEW v \in Servers,
         NEW c \in Cursors, NEW ds \in SUBSET Ids
  PROVE  LET kq == [kp EXCEPT ![v][c] = ds]
         IN  /\ kq \in [Servers -> [Cursors -> SUBSET Ids]]
             /\ kq[v][c] = ds /\ \A k \in Cursors \ {c} : kq[v][k] = kp[v][k]
OBVIOUS

LEMMA BatchHands ==
  ASSUME NEW s, NEW m, m.to \in Ticket, NEW v \in Servers, NEW ds \in SUBSET Ids, NEW n,
         kept \in [Servers -> [Cursors -> SUBSET Ids]], Batch(s, m, v, ds, n)
  PROVE  \E r : /\ Answered(s, r) /\ r.to = m.to /\ Hands(r, v, found')
                /\ found' \in SUBSET ds
<1>1. PICK order \in Orders(ds), k \in 0 .. Cardinality(ds) :
        LET first == First(order, k)
            answer == WithBatch(Reply(m), Cut(order, k))
        IN  /\ (k = 0) = (ds = {})
            /\ \/ /\ ds = first \/ n = 1
                  /\ Answered(s, answer)
                  /\ UNCHANGED kept
               \/ /\ ds # first /\ n # 1
                  /\ \E c \in Cursors :
                       /\ kept[v][c] = {}
                       /\ Answered(s, WithId(answer, c))
                       /\ kept' = [kept EXCEPT ![v][c] = ds \ first]
            /\ found' = IF n = 1 THEN first ELSE ds
  BY Zenon DEF Batch, First, WithBatch, WithId, Cut
<1> DEFINE first == First(order, k)
           b == Cut(order, k)
           answer == WithBatch(Reply(m), b)
<1>2. /\ b \in Seq(Ids) /\ Len(b) = k /\ Injective(b)
      /\ Range(b) = first /\ first \subseteq ds
  BY CutIs
<1>3. answer \in Replies /\ answer.to = m.to /\ answer.id = 0 /\ answer.batch = b
  BY <1>2, ReplyIs, BatchSet
<1>4. b = <<>> => ds = {}
  BY <1>1, <1>2
<1>5. found' \in SUBSET ds
  BY <1>1, <1>2
<1> HIDE DEF first, b, answer
<1>6. CASE (ds = first \/ n = 1) /\ Answered(s, answer) /\ UNCHANGED kept
  <2>1. found' = first
    BY <1>1, <1>6 DEF first
  <2>2. Hands(answer, v, found')
    BY <1>2, <1>3, <1>6, <2>1 DEF Hands, Later
  <2> QED
    BY <1>3, <1>5, <1>6, <2>2
<1>7. ASSUME NEW c \in Cursors, ds # first, n # 1, Answered(s, WithId(answer, c)),
             kept' = [kept EXCEPT ![v][c] = ds \ first]
      PROVE  \E r : /\ Answered(s, r) /\ r.to = m.to /\ Hands(r, v, found')
                    /\ found' \in SUBSET ds
  <2> DEFINE r == WithId(answer, c)
  <2>1. r \in Replies /\ r.to = m.to /\ r.id = c /\ r.batch = b
    BY <1>3, IdSet
  <2> HIDE DEF r
  <2>2. /\ kept' \in [Servers -> [Cursors -> SUBSET Ids]]
        /\ kept'[v][c] = ds \ first /\ \A j \in Cursors \ {c} : kept'[v][j] = kept[v][j]
    BY <1>7, KeptSet
  <2>3. found' = ds
    BY <1>1, <1>7
  <2>4. c # 0
    BY DEF Cursors
  <2>5. b # <<>>
    BY <1>2, <1>4, <1>7
  <2>6. Hands(r, v, found')
    BY <1>2, <2>1, <2>2, <2>3, <2>4, <2>5 DEF Hands, Later
  <2> QED
    BY <1>5, <1>7, <2>1, <2>6 DEF r
<1> QED
  BY <1>1, <1>6, <1>7 DEF first, b, answer

LEMMA NextHands ==
  ASSUME NEW s, NEW m, m.to \in Ticket, m.arg \in Cursors, NEW v \in Servers,
         NEW ds \in SUBSET Ids, kept \in [Servers -> [Cursors -> SUBSET Ids]],
         NextBatch(s, m, v, ds)
  PROVE  \E r : /\ Answered(s, r) /\ r.to = m.to /\ HandsNext(r, v, m.arg, ds)
<1>1. PICK order \in Orders(ds), k \in 0 .. Cardinality(ds) :
        LET rest == ds \ First(order, k)
        IN  /\ (k = 0) = (ds = {})
            /\ Answered(s, WithBatchId(Reply(m), Cut(order, k),
                                       IF rest = {} THEN 0 ELSE m.arg))
            /\ kept' = [kept EXCEPT ![v][m.arg] = rest]
  BY Zenon DEF NextBatch, First, WithBatchId, Cut
<1> DEFINE first == First(order, k)
           b == Cut(order, k)
           rest == ds \ first
           c == IF rest = {} THEN 0 ELSE m.arg
           r == WithBatchId(Reply(m), b, c)
<1>2. /\ b \in Seq(Ids) /\ Len(b) = k /\ Injective(b)
      /\ Range(b) = first /\ first \subseteq ds
  BY CutIs
<1>3. c \in {0} \cup Cursors
  OBVIOUS
<1>4. /\ rest = {} => c = 0
      /\ rest # {} => c = m.arg
      /\ m.arg # 0
  BY DEF Cursors
<1>5. rest \in SUBSET Ids
  OBVIOUS
<1>6. b = <<>> => ds = {}
  BY <1>1, <1>2
<1> HIDE DEF c
<1>7. r \in Replies /\ r.to = m.to /\ r.id = c /\ r.batch = b
  BY <1>2, <1>3, ReplyIs, BatchIdSet
<1>8. Answered(s, r) /\ kept' = [kept EXCEPT ![v][m.arg] = rest]
  BY <1>1 DEF c
<1> HIDE DEF r, b
<1>9. /\ kept' \in [Servers -> [Cursors -> SUBSET Ids]]
      /\ kept'[v][m.arg] = rest
      /\ \A j \in Cursors \ {m.arg} : kept'[v][j] = kept[v][j]
  <2> DEFINE d == m.arg
  <2>1. d \in Cursors /\ kept' = [kept EXCEPT ![v][d] = rest]
    BY <1>8
  <2> HIDE DEF d, rest
  <2>2. /\ kept' \in [Servers -> [Cursors -> SUBSET Ids]]
        /\ kept'[v][d] = rest /\ \A j \in Cursors \ {d} : kept'[v][j] = kept[v][j]
    BY <1>5, <2>1, KeptSet
  <2> QED
    BY <2>2 DEF d
<1>10. Later(r, v) = rest
  BY <1>4, <1>7, <1>9 DEF Later
<1>11. r.batch = <<>> => r.id = 0
  BY <1>2, <1>4, <1>6, <1>7
<1>a. r.id = m.arg \/ kept'[v][m.arg] = {}
  BY <1>4, <1>7, <1>9
<1> HIDE DEF rest
<1>12. Hands(r, v, ds)
  <2>1. ds \subseteq first \cup rest /\ first \cap rest = {}
    BY DEF rest
  <2>2. ASSUME NEW k2 \in Cursors, kept'[v][k2] # {}
        PROVE  k2 = r.id \/ kept'[v][k2] = kept[v][k2]
    BY <1>4, <1>7, <1>9, <2>2
  <2> QED
    BY <1>2, <1>7, <1>9, <1>10, <1>11, <2>1, <2>2 DEF Hands
<1> QED
  BY <1>2, <1>a, <1>7, <1>8, <1>10, <1>12 DEF rest, HandsNext

(* The server at the other end takes the first thing on its way.           *)
AtHand(s) ==
  /\ s = conn.sock /\ conn.connected /\ conn.sock \in Socks
  /\ conn.left \in Servers /\ Link.peer = conn.left
  /\ Link \in SockRecords /\ Link.up /\ Link.in = <<>> /\ call.at # "hung"
  /\ Link.out # <<>> /\ Head(Link.out) \in Msgs /\ Tail(Link.out) \in Seq(Msgs)
  /\ Head(Link.out) = Link.out[1] /\ Len(Tail(Link.out)) = Len(Link.out) - 1
  /\ \A i \in 1 .. Len(Link.out) - 1 : Tail(Link.out)[i] = Link.out[i + 1]

LEMMA ServedIs ==
  ASSUME LinkInv, NEW s \in Socks, Serve(s), call.at # "hung"
  PROVE  AtHand(s)
<1>1. conn.connected /\ s = conn.sock /\ Link.up /\ Link.out # <<>>
  BY DEF Serve, LinkInv, Quiet, Link
<1>2. conn.left \in Servers /\ Link.peer = conn.left
  BY <1>1 DEF LinkInv, Current, Link
<1>3. Link \in SockRecords /\ Link.out \in Seq(Msgs)
  BY <1>1 DEF LinkInv, TypeOK, Link, SockRecords
<1>4. Link.in = <<>>
  <2>1. call.at \in {"idle", "read"}
    BY DEF LinkInv, TypeOK, Calls
  <2> QED
    BY <1>1, <2>1 DEF LinkInv, Turn, Waits, HasAnswer, Link
<1>5. /\ Head(Link.out) \in Msgs /\ Tail(Link.out) \in Seq(Msgs)
      /\ Head(Link.out) = Link.out[1] /\ Len(Tail(Link.out)) = Len(Link.out) - 1
      /\ \A i \in 1 .. Len(Link.out) - 1 : Tail(Link.out)[i] = Link.out[i + 1]
  <2> DEFINE q == Link.out
  <2>1. q \in Seq(Msgs) /\ q # <<>>
    BY <1>1, <1>3
  <2> HIDE DEF q
  <2>2. /\ Head(q) \in Msgs /\ Tail(q) \in Seq(Msgs)
        /\ Head(q) = q[1] /\ Len(Tail(q)) = Len(q) - 1
        /\ \A i \in 1 .. Len(q) - 1 : Tail(q)[i] = q[i + 1]
    BY <2>1, HeadTailProperties
  <2> QED
    BY <2>2 DEF q
<1> QED
  BY <1>1, <1>2, <1>3, <1>4, <1>5 DEF AtHand, LinkInv, Current

(* What it takes is no request unless it is the last thing, and the one    *)
(* the call waits for.                                                     *)
LEMMA HeadTurn ==
  ASSUME LinkInv, NEW s, AtHand(s)
  PROVE  LET m == Head(Link.out)
         IN  /\ m.op \in Asking =>
                  /\ call.at = "read" /\ Len(Link.out) = 1 /\ Tail(Link.out) = <<>>
                  /\ m.op \in AskedBy(call.then) /\ m.to = ticket
             /\ m.op \notin Asking /\ call.at = "read" => Len(Link.out) > 1
<1>1. call.at \in {"idle", "read"}
  BY DEF LinkInv, TypeOK, Calls, AtHand
<1>2. Link.out \in Seq(Msgs) /\ Link.out # <<>> /\ Len(Link.out) > 0
  BY DEF AtHand, SockRecords
<1>3. call.at = "idle" => Head(Link.out).op \notin Asking
  BY <1>2 DEF AtHand, LinkInv, Turn, NoAsk, Link
<1>4. call.at = "read" => Waits(Link)
  BY DEF AtHand, LinkInv, Turn, HasAnswer
<1> DEFINE q == Link.out
<1>5. /\ Head(q) = q[1] /\ Tail(q) \in Seq(Msgs) /\ Len(Tail(q)) = Len(q) - 1
      /\ Len(q) \in Nat \ {0}
  BY <1>2 DEF AtHand
<1>6. call.at = "read" => /\ \A i \in 1 .. Len(q) - 1 : q[i].op \notin Asking
                          /\ q[Len(q)].op \in AskedBy(call.then) /\ q[Len(q)].to = ticket
  BY <1>4 DEF Waits
<1>7. q[1].op \in Asking => call.at = "read"
  BY <1>1, <1>3, <1>5
<1> HIDE DEF q
<1>8. call.at = "read" /\ q[1].op \in Asking => Len(q) = 1
  BY <1>5, <1>6
<1>9. Len(q) = 1 => Tail(q) = <<>>
  <2> DEFINE t == Tail(q)
  <2>1. t \in Seq(Msgs) /\ (Len(q) = 1 => Len(t) = 0)
    BY <1>5
  <2> HIDE DEF t
  <2>2. Len(q) = 1 => t = <<>>
    BY <2>1, EmptySeq
  <2> QED
    BY <2>2 DEF t
<1>10. call.at = "read" /\ Len(q) = 1 => q[1].op \in Asking
  BY <1>6 DEF AskedBy, Asking
<1>11. q[1].op \notin Asking /\ call.at = "read" => Len(q) > 1
  BY <1>5, <1>10
<1>12. ASSUME q[1].op \in Asking
       PROVE  /\ call.at = "read" /\ Len(q) = 1 /\ Tail(q) = <<>>
              /\ q[1].op \in AskedBy(call.then) /\ q[1].to = ticket
  <2>1. call.at = "read" /\ Len(q) = 1
    BY <1>7, <1>8, <1>12
  <2> QED
    BY <1>6, <1>9, <2>1
<1>13. Head(q).op = q[1].op /\ Head(q).to = q[1].to
  BY <1>5
<1> QED
  BY <1>11, <1>12, <1>13 DEF q

(* What it leaves of the socket without a reply, and with one.             *)
HasTaken(e) ==
  /\ socks' \in [Socks -> SockRecords] /\ Current(conn', socks')
  /\ \A u \in Socks \ {conn.sock} : socks'[u] = socks[u]
  /\ Link' \in SockRecords /\ Link'.up /\ Link'.in = <<>>
  /\ Link'.out = Tail(Link.out) /\ Link'.err = e

HasGiven(r) ==
  /\ socks' \in [Socks -> SockRecords] /\ Current(conn', socks')
  /\ \A u \in Socks \ {conn.sock} : socks'[u] = socks[u]
  /\ Link' \in SockRecords /\ Link'.up /\ Link'.in = <<r>>
  /\ Link'.out = Tail(Link.out) /\ Link'.err = Link.err

LEMMA OneSocket ==
  ASSUME LinkInv, NEW s, AtHand(s), conn' = conn, NEW q, SameEnd(Link, q), q.up = Link.up,
         socks' = [socks EXCEPT ![s] = q]
  PROVE  /\ socks' \in [Socks -> SockRecords] /\ Current(conn', socks')
         /\ \A u \in Socks \ {conn.sock} : socks'[u] = socks[u]
         /\ Link' = q /\ Link'.up
<1>1. s = conn.sock /\ s \in Socks /\ socks \in [Socks -> SockRecords] /\ Link.up
  BY DEF AtHand, LinkInv, TypeOK
<1>2. socks'[s] = q /\ \A u \in Socks \ {s} : socks'[u] = socks[u]
  BY <1>1
<1>3. socks' \in [Socks -> SockRecords]
  BY <1>1 DEF SameEnd
<1>4. Link' = q
  BY <1>1, <1>2 DEF Link
<1>5. Current(conn', socks')
  BY <1>1, <1>2 DEF Current, LinkInv, SameEnd, Link
<1> QED
  BY <1>1, <1>2, <1>3, <1>4, <1>5

LEMMA TakenIs ==
  ASSUME LinkInv, NEW s, AtHand(s), conn' = conn, NEW e \in BOOLEAN,
         socks' = [socks EXCEPT ![s].out = Tail(@), ![s].err = e]
  PROVE  HasTaken(e)
<1> DEFINE t == Tail(Link.out)
           q == WithOutErr(Link, t, e)
<1>1. s = conn.sock /\ Link \in SockRecords /\ t \in Seq(Msgs)
  BY DEF AtHand
<1>3. socks' = [socks EXCEPT ![s] = q]
  BY <1>1 DEF WithOutErr, Link, LinkInv, TypeOK
<1> HIDE DEF t
<1>2. /\ SameEnd(Link, q) /\ q.up = Link.up /\ q.out = t
      /\ q.in = Link.in /\ q.err = e
  BY <1>1, OutErrSet
<1> HIDE DEF q
<1>4. /\ socks' \in [Socks -> SockRecords] /\ Current(conn', socks')
      /\ \A u \in Socks \ {conn.sock} : socks'[u] = socks[u]
      /\ Link' = q /\ Link'.up
  BY <1>2, <1>3, OneSocket
<1> QED
  BY <1>2, <1>4 DEF HasTaken, AtHand, SameEnd, t

LEMMA DroppedIs ==
  ASSUME LinkInv, NEW s, AtHand(s), conn' = conn,
         socks' = [socks EXCEPT ![s].out = Tail(@)]
  PROVE  HasTaken(Link.err)
<1> DEFINE q == WithOut(Link, Tail(Link.out))
<1>1. s = conn.sock /\ Link \in SockRecords /\ Tail(Link.out) \in Seq(Msgs)
  BY DEF AtHand
<1>2. /\ SameEnd(Link, q) /\ q.up = Link.up /\ q.out = Tail(Link.out)
      /\ q.in = Link.in /\ q.err = Link.err
  BY <1>1, OutSet
<1>3. socks' = [socks EXCEPT ![s] = q]
  BY <1>1 DEF WithOut, Link, LinkInv, TypeOK
<1> HIDE DEF q
<1>4. /\ socks' \in [Socks -> SockRecords] /\ Current(conn', socks')
      /\ \A u \in Socks \ {conn.sock} : socks'[u] = socks[u]
      /\ Link' = q /\ Link'.up
  BY <1>2, <1>3, OneSocket
<1> QED
  BY <1>2, <1>4 DEF HasTaken, AtHand, SameEnd

LEMMA AnsweredIs ==
  ASSUME LinkInv, NEW s, AtHand(s), conn' = conn, NEW r \in Replies, Answered(s, r)
  PROVE  HasGiven(r)
<1> DEFINE b == Append(Link.in, r)
           t == Tail(Link.out)
           q == WithOutIn(Link, t, b)
<1>1. /\ s = conn.sock /\ Link \in SockRecords /\ t \in Seq(Msgs)
      /\ Link.in = <<>>
  BY DEF AtHand
<1>2. b = <<r>> /\ b \in Seq(Replies)
  BY <1>1
<1>3. socks' = [socks EXCEPT ![s] = q]
  <2>1. Link = socks[s]
    BY <1>1 DEF Link
  <2>2. socks \in [Socks -> SockRecords]
    BY DEF LinkInv, TypeOK
  <2> QED
    BY <2>1, <2>2 DEF WithOutIn, Answered
<1> HIDE DEF b, t
<1>6. Link \in SockRecords /\ t \in Seq(Msgs) /\ b \in Seq(Replies)
  BY <1>1, <1>2
<1>4. /\ SameEnd(Link, q) /\ q.up = Link.up /\ q.out = t
      /\ q.in = b /\ q.err = Link.err
  BY <1>6, OutInSet
<1> HIDE DEF q
<1>5. /\ socks' \in [Socks -> SockRecords] /\ Current(conn', socks')
      /\ \A u \in Socks \ {conn.sock} : socks'[u] = socks[u]
      /\ Link' = q /\ Link'.up
  BY <1>3, <1>4, OneSocket
<1> QED
  BY <1>2, <1>4, <1>5 DEF HasGiven, AtHand, SameEnd, t

LEMMA TakingTurns ==
  ASSUME LinkInv, NEW s, AtHand(s), NEW e, HasTaken(e), UNCHANGED <<conn, call, ticket>>,
         Head(Link.out).op \notin Asking
  PROVE  Quiet' /\ Turn'
<1> DEFINE q == Link.out
           t == Link'.out
<1>1. /\ \A u \in Socks : socks'[u].in = <<>>
      /\ \A u \in Socks \ {conn.sock} : socks'[u].out = <<>>
      /\ conn.sock \in Socks /\ Link' = socks'[conn.sock] /\ Link'.up /\ conn.connected
  BY DEF HasTaken, AtHand, LinkInv, Quiet, Link
<1>2. Quiet'
  BY <1>1 DEF Quiet, Link
<1>3. /\ Len(t) = Len(q) - 1 /\ \A i \in 1 .. Len(q) - 1 : t[i] = q[i + 1]
      /\ Len(q) \in Nat \ {0} /\ t \in Seq(Msgs)
  BY DEF HasTaken, AtHand, SockRecords
<1>4. call.at \in {"idle", "read"}
  BY DEF LinkInv, TypeOK, Calls, AtHand
<1>5. ASSUME call.at = "idle"
      PROVE  Turn'
  <2>1. \A i \in 1 .. Len(q) : q[i].op \notin Asking
    BY <1>1, <1>5 DEF LinkInv, Turn, NoAsk, Link
  <2> HIDE DEF q, t
  <2>2. \A i \in 1 .. Len(t) : t[i].op \notin Asking
    <3>1. ASSUME NEW i \in 1 .. Len(t)
          PROVE  t[i] = q[i + 1] /\ i + 1 \in 1 .. Len(q)
      BY <1>3
    <3> QED
      BY <2>1, <3>1
  <2>3. \A u \in Socks : NoAsk(socks'[u].out)
    BY <1>1, <2>2 DEF NoAsk, t
  <2>4. call' = Idle /\ Idle' = Idle /\ Idle.then = ""
    BY <1>5 DEF LinkInv, Turn, Idle
  <2> QED
    BY <1>1, <1>5, <2>3, <2>4 DEF Turn
<1>6. ASSUME call.at = "read"
      PROVE  Turn'
  <2>1. Waits(Link) /\ Len(q) > 1
    BY <1>6, HeadTurn DEF LinkInv, Turn, AtHand, HasAnswer
  <2>2. /\ \A i \in 1 .. Len(q) - 1 : q[i].op \notin Asking
        /\ q[Len(q)].op \in AskedBy(call.then) /\ q[Len(q)].to = ticket
    BY <2>1 DEF Waits
  <2> HIDE DEF q, t
  <2>3. \A i \in 1 .. Len(t) - 1 : t[i].op \notin Asking
    <3>1. ASSUME NEW i \in 1 .. Len(t) - 1
          PROVE  t[i] = q[i + 1] /\ i + 1 \in 1 .. Len(q) - 1
      BY <1>3
    <3> QED
      BY <2>2, <3>1
  <2>4. t # <<>> /\ t[Len(t)] = q[Len(q)]
    BY <1>3, <2>1
  <2>5. Waits(Link)'
    BY <1>1, <2>2, <2>3, <2>4 DEF Waits, t
  <2> QED
    BY <1>1, <1>6, <2>5 DEF Turn, LinkInv
<1> QED
  BY <1>2, <1>4, <1>5, <1>6

LEMMA GivingTurns ==
  ASSUME LinkInv, NEW s, AtHand(s), NEW r \in Replies, HasGiven(r),
         UNCHANGED <<conn, call, ticket>>,
         Head(Link.out).op \in Asking, r.to = Head(Link.out).to
  PROVE  Quiet' /\ Turn'
<1>1. /\ \A u \in Socks \ {conn.sock} : socks'[u].out = <<>> /\ socks'[u].in = <<>>
      /\ conn.sock \in Socks /\ Link' = socks'[conn.sock] /\ Link'.up /\ conn.connected
  BY DEF HasGiven, AtHand, LinkInv, Quiet, Link
<1>2. Quiet'
  BY <1>1 DEF Quiet, Link
<1>3. /\ call.at = "read" /\ Link'.out = <<>> /\ Link'.in = <<r>> /\ r.to = ticket
  BY HeadTurn DEF HasGiven
<1>4. HasAnswer(Link)'
  BY <1>3 DEF HasAnswer
<1>5. Turn'
  BY <1>1, <1>3, <1>4 DEF Turn, LinkInv
<1> QED
  BY <1>2, <1>5

(* What a server does with a message, of each kind.                        *)
LEMMA MessageArg ==
  ASSUME NEW m \in Msgs
  PROVE  /\ m.to \in Ticket
         /\ m.op \in {"insert", "update", "delete", "get_more", "kill_cursors", "query",
                     "getlasterror", "ismaster", "count"}
         /\ m.op = "insert" => m.arg \in Seq(Ids)
         /\ m.op \in {"update", "delete"} => m.arg \in Ids
         /\ m.op \in {"get_more", "kill_cursors"} => m.arg \in Cursors
BY DEF Msgs, Asking

(* The part of the invariant that a server at work leaves to each kind of  *)
(* message: the documents, and the cursors.                                *)
ServedWell ==
  /\ docs' \in SUBSET Ids /\ found' \in SUBSET Ids
  /\ kept' \in [Servers -> [Cursors -> SUBSET Ids]]

LEMMA WritesServed ==
  ASSUME LinkInv, NEW s, AtHand(s), UNCHANGED <<client, ticket>>,
         NEW m, m = Head(Link.out), Handles(s, m, conn.left),
         m.op \in {"insert", "update", "delete", "kill_cursors"}
  PROVE  ServedWell /\ Quiet' /\ Turn' /\ \E e \in BOOLEAN : HasTaken(e)
<1>1. m \in Msgs
  BY DEF AtHand
<1>2. /\ docs \in SUBSET Ids /\ found \in SUBSET Ids /\ conn.left \in Servers
      /\ kept \in [Servers -> [Cursors -> SUBSET Ids]] /\ Link.err \in BOOLEAN
  BY DEF LinkInv, TypeOK, AtHand, SockRecords
<1>3. UNCHANGED <<conn, call, ticket>>
  BY DEF client
<1>4. m.op \notin Asking
  BY DEF Asking
<1>5. ASSUME NEW e \in BOOLEAN, HasTaken(e), ServedWell
      PROVE  ServedWell /\ Quiet' /\ Turn' /\ \E f \in BOOLEAN : HasTaken(f)
  BY <1>3, <1>4, <1>5, TakingTurns
<1>6. CASE m.op = "insert"
  <2> DEFINE e == InsertedBy(docs, m.arg).err
  <2>1. m.arg \in Seq(Ids)
    BY <1>1, <1>6, MessageArg
  <2>2. e \in BOOLEAN
    BY DEF InsertedBy
  <2>3. InsertedBy(docs, m.arg).docs \in SUBSET Ids
    BY <1>2, <2>1, InsertedIds
  <2>4. /\ docs' = InsertedBy(docs, m.arg).docs
        /\ socks' = [socks EXCEPT ![s].out = Tail(@), ![s].err = e]
        /\ UNCHANGED <<kept, found>>
    BY <1>6 DEF Handles
  <2> HIDE DEF e
  <2>5. HasTaken(e)
    BY <1>3, <2>2, <2>4, TakenIs
  <2>6. ServedWell
    BY <1>2, <2>3, <2>4 DEF ServedWell
  <2> QED
    BY <1>5, <2>2, <2>5, <2>6
<1>7. CASE m.op \in {"update", "delete"}
  <2> DEFINE e == FALSE
  <2>1. m.arg \in Ids
    BY <1>1, <1>7, MessageArg
  <2>2. e \in BOOLEAN
    OBVIOUS
  <2>3. /\ docs' = IF m.op = "update" THEN docs \cup {m.arg} ELSE docs \ {m.arg}
        /\ found' = IF m.op = "delete" THEN found \ {m.arg} ELSE found
        /\ socks' = [socks EXCEPT ![s].out = Tail(@), ![s].err = e]
        /\ UNCHANGED kept
    BY <1>7 DEF Handles
  <2> HIDE DEF e
  <2>4. HasTaken(e)
    BY <1>3, <2>2, <2>3, TakenIs
  <2>5. ServedWell
    BY <1>2, <2>1, <2>3 DEF ServedWell
  <2> QED
    BY <1>5, <2>2, <2>4, <2>5
<1>8. CASE m.op = "kill_cursors"
  <2> DEFINE d == m.arg
             v == conn.left
  <2>1. d \in Cursors
    BY <1>1, <1>8, MessageArg
  <2>2. /\ kept' = [kept EXCEPT ![v][d] = {}]
        /\ socks' = [socks EXCEPT ![s].out = Tail(@)]
        /\ UNCHANGED <<docs, found>>
    BY <1>8 DEF Handles
  <2>3. v \in Servers
    BY <1>2
  <2> HIDE DEF d, v
  <2>4. HasTaken(Link.err)
    BY <1>3, <2>2, DroppedIs
  <2>5. kept' \in [Servers -> [Cursors -> SUBSET Ids]]
    BY <1>2, <2>1, <2>2, <2>3
  <2>6. ServedWell
    BY <1>2, <2>2, <2>5 DEF ServedWell
  <2> QED
    BY <1>2, <1>5, <2>4, <2>6
<1> QED
  BY <1>6, <1>7, <1>8

LEMMA AsksServed ==
  ASSUME LinkInv, NEW s, AtHand(s), UNCHANGED <<client, ticket>>,
         NEW m, m = Head(Link.out), Handles(s, m, conn.left),
         m.op \in {"query", "get_more", "getlasterror", "ismaster", "count"}
  PROVE  ServedWell /\ Quiet' /\ Turn' /\ \E r \in Replies : HasGiven(r)
<1>1. m \in Msgs
  BY DEF AtHand
<1>2. /\ docs \in SUBSET Ids /\ found \in SUBSET Ids /\ conn.left \in Servers
      /\ kept \in [Servers -> [Cursors -> SUBSET Ids]] /\ Link.err \in BOOLEAN
      /\ s = conn.sock
  BY DEF LinkInv, TypeOK, AtHand, SockRecords
<1>3. UNCHANGED <<conn, call, ticket>>
  BY DEF client
<1>4. m.op \in Asking /\ m.to \in Ticket
  BY <1>1, MessageArg DEF Asking
<1>5. ASSUME NEW r \in Replies, Answered(s, r), r.to = m.to, ServedWell
      PROVE  ServedWell /\ Quiet' /\ Turn' /\ \E q \in Replies : HasGiven(q)
  BY <1>3, <1>4, <1>5, AnsweredIs, GivingTurns
<1>6. CASE m.op = "query"
  <2> DEFINE v == conn.left
             n == m.arg
  <2>1. v \in Servers
    BY <1>2
  <2>2. Batch(s, m, v, docs, n) /\ UNCHANGED docs
    BY <1>6 DEF Handles
  <2> HIDE DEF v, n
  <2>3. PICK r : /\ Answered(s, r) /\ r.to = m.to /\ Hands(r, v, found')
                 /\ found' \in SUBSET docs
    BY <1>2, <1>4, <2>1, <2>2, BatchHands
  <2>4. r \in Replies /\ ServedWell
    BY <1>2, <2>2, <2>3 DEF ServedWell, Hands
  <2> QED
    BY <1>5, <2>3, <2>4
<1>7. CASE m.op = "get_more"
  <2> DEFINE v == conn.left
             ds == kept[conn.left][m.arg] \cap docs
  <2>1. v \in Servers /\ m.arg \in Cursors /\ ds \in SUBSET Ids
    BY <1>1, <1>2, <1>7, MessageArg
  <2>2. NextBatch(s, m, v, ds) /\ UNCHANGED <<docs, found>>
    BY <1>7 DEF Handles
  <2> HIDE DEF v, ds
  <2>3. PICK r : Answered(s, r) /\ r.to = m.to /\ HandsNext(r, v, m.arg, ds)
    BY <1>2, <1>4, <2>1, <2>2, NextHands
  <2>4. r \in Replies /\ ServedWell
    BY <1>2, <2>2, <2>3 DEF ServedWell, HandsNext, Hands
  <2> QED
    BY <1>5, <2>3, <2>4
<1>8. CASE m.op \in {"getlasterror", "ismaster", "count"}
  <2> DEFINE e == Link.err
             b == (conn.left = master)
             n == Cardinality(docs)
             r == WithState(Reply(m), e, b, n)
  <2>1. Answered(s, r) /\ UNCHANGED <<kept, docs, found>>
    BY <1>2, <1>8 DEF Handles, WithState, Link
  <2>2. e \in BOOLEAN /\ b \in BOOLEAN /\ n \in Nat
    BY <1>2, FiniteIds
  <2> HIDE DEF e, b, n
  <2>3. r \in Replies /\ r.to = m.to
    BY <1>4, <2>2, ReplyIs, StateSet
  <2>4. ServedWell
    BY <1>2, <2>1 DEF ServedWell
  <2> HIDE DEF r
  <2> QED
    BY <1>5, <2>1, <2>3, <2>4
<1> QED
  BY <1>6, <1>7, <1>8

LEMMA ServeKeeps ==
  ASSUME LinkInv, NEW s \in Socks, Serve(s), call.at # "hung", UNCHANGED program
  PROVE  LinkInv'
<1> DEFINE m == Head(Link.out)
<1>1. AtHand(s)
  BY ServedIs
<1>2. UNCHANGED <<client, up, master, faults, ticket, clean, believed, given>>
  BY DEF Serve
<1>3. Handles(s, m, conn.left)
  BY <1>1 DEF Serve, AtHand, Link
<1>4. m \in Msgs
  BY <1>1 DEF AtHand
<1>5. UNCHANGED <<conn, call, cur>>
  BY <1>2 DEF client
<1> HIDE DEF m
<1>6. /\ ServedWell /\ Quiet' /\ Turn'
      /\ socks' \in [Socks -> SockRecords] /\ Current(conn', socks')
  <2>1. m.op \in {"insert", "update", "delete", "kill_cursors"}
          \/ m.op \in {"query", "get_more", "getlasterror", "ismaster", "count"}
    BY <1>4, MessageArg
  <2> QED
    BY <1>1, <1>2, <1>3, <2>1, WritesServed, AsksServed DEF m, HasTaken, HasGiven
<1>7. TypeOK'
  BY <1>2, <1>5, <1>6 DEF ServedWell, LinkInv, TypeOK
<1>8. Apart'
  BY <1>5 DEF LinkInv, Apart
<1> QED
  BY <1>6, <1>7, <1>8 DEF LinkInv

(* Faults and restarts.                                                    *)
LEMMA FaultKeeps ==
  ASSUME LinkInv, Fault, call.at # "hung", UNCHANGED program
  PROVE  LinkInv'
<1>1. UNCHANGED <<conn, call, cur, docs, ticket, believed, found, given>> /\ clean' = FALSE
  BY DEF Fault, client
<1>2. Apart'
  BY <1>1 DEF LinkInv, Apart
<1>3. ASSUME NEW v \in up, up' = up \ {v},
             socks' = [s \in Socks |->
               IF socks[s].peer = v
               THEN [socks[s] EXCEPT !.up = FALSE, !.out = <<>>, !.in = <<>>]
               ELSE socks[s]],
             kept' = [kept EXCEPT ![v] = [k \in Cursors |-> {}]], UNCHANGED master
      PROVE  LinkInv'
  <2>1. socks \in [Socks -> SockRecords] /\ v \in Servers
    BY <1>3 DEF LinkInv, TypeOK
  <2>2. ASSUME NEW s \in Socks
        PROVE  /\ socks'[s] = IF socks[s].peer = v THEN Crashed(socks[s]) ELSE socks[s]
               /\ socks[s] \in SockRecords
    BY <1>3, <2>1 DEF Crashed
  <2>3. ASSUME NEW s \in Socks
        PROVE  /\ socks'[s] \in SockRecords /\ socks'[s].open = socks[s].open
               /\ socks'[s].peer = socks[s].peer
               /\ \/ socks'[s] = socks[s]
                  \/ ~socks'[s].up /\ socks'[s].out = <<>> /\ socks'[s].in = <<>>
    BY <2>2, CrashSet DEF SameEnd
  <2>4. socks' \in [Socks -> SockRecords]
    BY <1>3, <2>3
  <2>5. kept' \in [Servers -> [Cursors -> SUBSET Ids]]
    BY <1>3, <2>1 DEF LinkInv, TypeOK
  <2>6. up' \in SUBSET Servers
    BY <1>3 DEF LinkInv, TypeOK
  <2>7. TypeOK'
    BY <1>1, <1>3, <2>4, <2>5, <2>6 DEF LinkInv, TypeOK
  <2>8. Current(conn', socks')
    BY <1>1, <2>3 DEF LinkInv, Current
  <2>9. Quiet'
    BY <1>1, <2>3 DEF LinkInv, Quiet
  <2>10. Turn'
    <3>1. ASSUME call.at = "idle"
          PROVE  call' = Idle /\ \A s \in Socks : socks'[s].in = <<>> /\ NoAsk(socks'[s].out)
      <4>1. ASSUME NEW s \in Socks
            PROVE  socks'[s].in = <<>> /\ NoAsk(socks'[s].out)
        BY <2>3, <3>1 DEF LinkInv, Turn, NoAsk
      <4> QED
        BY <1>1, <3>1, <4>1 DEF LinkInv, Turn
    <3>2. call.at \in {"idle", "read"}
      BY DEF LinkInv, TypeOK, Calls
    <3>3. ASSUME call.at = "read", Link'.up
          PROVE  Waits(Link)' \/ HasAnswer(Link)'
      <4>1. conn.sock \in Socks
        BY <3>3 DEF LinkInv, Turn, Current
      <4>2. Link' = Link
        BY <1>1, <2>3, <3>3, <4>1 DEF Link
      <4> QED
        BY <1>1, <3>3, <4>2 DEF LinkInv, Turn, Waits, HasAnswer
    <3> QED
      BY <1>1, <3>1, <3>2, <3>3 DEF LinkInv, Turn
  <2> QED
    BY <1>2, <2>7, <2>8, <2>9, <2>10 DEF LinkInv
<1>4. ASSUME kept' \in [Servers -> [Cursors -> SUBSET Ids]], master' \in Servers,
             UNCHANGED <<up, socks>>
      PROVE  LinkInv'
  BY <1>1, <1>2, <1>4 DEF LinkInv, TypeOK, Current, Quiet, Turn, Waits, HasAnswer, Link
<1>5. ASSUME NEW v \in Servers, NEW k \in Cursors, kept' = [kept EXCEPT ![v][k] = {}]
      PROVE  kept' \in [Servers -> [Cursors -> SUBSET Ids]]
  BY <1>5 DEF LinkInv, TypeOK
<1> QED
  BY <1>3, <1>4, <1>5 DEF Fault, LinkInv, TypeOK

LEMMA ExternalKeeps ==
  ASSUME LinkInv, External
  PROVE  LinkInv'
<1>1. call.at # "hung" /\ UNCHANGED program
  BY DEF External
<1>2. ASSUME NEW v \in Servers, Restart(v)
      PROVE  LinkInv'
  BY <1>1, <1>2
     DEF Restart, LinkInv, TypeOK, Current, Quiet, Turn, Apart, Waits, HasAnswer, Link,
         client, history
<1> QED
  BY <1>1, <1>2, ServeKeeps, FaultKeeps DEF External

LEMMA InitGood == Init => LinkInv
<1> SUFFICES ASSUME Init
             PROVE  LinkInv
  OBVIOUS
<1>1. socks \in [Socks -> SockRecords] /\ \A s \in Socks : socks[s].out = <<>> /\ socks[s].in = <<>>
  BY FreeSockType DEF Init, FreeSock
<1>2. NoConn \in Conns /\ Idle \in Calls /\ NoCur \in Curs
  BY DriverAssumption DEF NoConn, Conns, Idle, Calls, Thens, NoCur, Curs, Peers
<1>3. TypeOK
  BY <1>1, <1>2 DEF Init, TypeOK, Ticket
<1>4. Current(conn, socks) /\ Quiet /\ Apart
  BY <1>1 DEF Init, Current, Quiet, Apart, NoConn, Idle
<1>5. \A s \in Socks : NoAsk(socks[s].out)
  BY <1>1 DEF NoAsk
<1>6. call = Idle /\ call.at = "idle" /\ call.then = ""
  BY DEF Init, Idle
<1>7. Turn
  BY <1>1, <1>5, <1>6 DEF Turn
<1> QED
  BY <1>3, <1>4, <1>7 DEF LinkInv

LEMMA LinkInvKept == LinkInv /\ [Next]_vars => LinkInv'
<1> SUFFICES ASSUME LinkInv, [Next]_vars
             PROVE  LinkInv'
  OBVIOUS
<1>1. CASE Client
  BY <1>1, ClientKeeps
<1>2. CASE External
  BY <1>2, ExternalKeeps
<1>3. CASE UNCHANGED vars
  BY <1>3
     DEF LinkInv, TypeOK, Current, Quiet, Turn, Apart, Waits, HasAnswer, Link,
         vars, client, server, history
<1> QED
  BY <1>1, <1>2, <1>3 DEF Next

(* The connections, sockets and messages are as LinkInv says in every      *)
(* state, for any number of servers, documents, sockets and faults.        *)
THEOREM LinkInvHolds == Spec => []LinkInv
BY InitGood, LinkInvKept, PTL DEF Spec

-----------------------------------------------------------------------------
(* mongo.h:50: a connection goes to left_opts, whatever pairs, failovers   *)
(* and failed attempts came before.                                        *)
THEOREM DriverLeftIsCurrent == Spec => []LeftIsCurrent
<1>1. LinkInv => LeftIsCurrent
  BY DEF LinkInv, Current, LeftIsCurrent
<1> QED
  BY <1>1, LinkInvHolds, PTL

(* Requests are counted: what is due or has come is what the call asked    *)
(* for, and nothing when no call is under way.                             *)
LEMMA OneDue ==
  ASSUME LinkInv, conn.connected, Link.up
  PROVE  LET due == {i \in DOMAIN Link.out : Link.out[i].op \in Asking}
         IN  /\ Cardinality(due) + Len(Link.in) = IF call.at = "read" THEN 1 ELSE 0
             /\ \A i \in due : Link.out[i].to = ticket
             /\ \A i \in DOMAIN Link.in : Link.in[i].to = ticket
<1> DEFINE q == Link.out
           due == {i \in DOMAIN q : q[i].op \in Asking}
<1>1. conn.sock \in Socks /\ Link \in SockRecords
  BY DEF LinkInv, Current, TypeOK, Link
<1>2. q \in Seq(Msgs) /\ Link.in \in Seq(Replies) /\ DOMAIN q = 1 .. Len(q) /\ Len(q) \in Nat
  BY <1>1 DEF SockRecords
<1>3. call.at \in {"idle", "read"}
  BY DEF LinkInv, TypeOK, Calls, Turn
<1>4. CASE call.at = "idle"
  <2>1. Link.in = <<>> /\ \A i \in 1 .. Len(q) : q[i].op \notin Asking
    BY <1>1, <1>4 DEF LinkInv, Turn, NoAsk, Link
  <2>2. due = {}
    BY <1>2, <2>1
  <2>3. Cardinality(due) = 0
    BY <2>2, FS_EmptySet
  <2> QED
    BY <1>4, <2>1, <2>2, <2>3
<1>5. CASE call.at = "read" /\ Waits(Link)
  <2>1. /\ Link.in = <<>> /\ q # <<>> /\ \A i \in 1 .. Len(q) - 1 : q[i].op \notin Asking
        /\ q[Len(q)].op \in AskedBy(call.then) /\ q[Len(q)].to = ticket
    BY <1>5 DEF Waits
  <2>2. q[Len(q)].op \in Asking
    BY <2>1 DEF AskedBy, Asking
  <2> HIDE DEF q
  <2>3. Len(q) > 0
    BY <1>2, <2>1, EmptySeq
  <2>4. due = {Len(q)}
    BY <1>2, <2>1, <2>2, <2>3
  <2> HIDE DEF due
  <2>5. Cardinality(due) = 1
    BY <2>4, FS_Singleton
  <2> QED
    BY <1>5, <2>1, <2>4, <2>5 DEF q, due
<1>6. CASE call.at = "read" /\ HasAnswer(Link)
  <2>1. q = <<>> /\ Len(Link.in) = 1 /\ Link.in[1].to = ticket
    BY <1>6 DEF HasAnswer
  <2>2. due = {}
    BY <1>2, <2>1
  <2>3. Cardinality(due) = 0
    BY <2>2, FS_EmptySet
  <2>4. DOMAIN Link.in = {1}
    BY <1>2, <2>1
  <2> QED
    BY <1>6, <2>1, <2>2, <2>3, <2>4
<1> QED
  BY <1>3, <1>4, <1>5, <1>6 DEF LinkInv, Turn

(* No responseTo is compared, and yet each reply answers the request at    *)
(* hand, for every number of writes on their way before it.                *)
THEOREM DriverRepliesMatch == Spec => []RepliesMatch
<1>1. LinkInv => RepliesMatch
  BY OneDue DEF RepliesMatch, Link
<1> QED
  BY <1>1, LinkInvHolds, PTL
-----------------------------------------------------------------------------
(* The data.  What the calls promise of it: writes that nobody acknowledges *)
(* are seen by what is read after them, a cursor hands out all it found and *)
(* nothing twice, it leaves nothing on the server, and a save ends with the *)
(* document in the collection.                                              *)


(* What the server makes of a message, and of the ones on their way.       *)
Effect(D, m) ==
  CASE m.op = "insert" -> InsertedBy(D, m.arg).docs
    [] m.op = "update" -> D \cup {m.arg}
    [] m.op = "delete" -> D \ {m.arg}
    [] OTHER -> D

Path(D, out, E) ==
  \E f \in [0 .. Len(out) -> SUBSET Ids] :
    /\ f[0] = D /\ f[Len(out)] = E
    /\ \A i \in 1 .. Len(out) : f[i] = Effect(f[i - 1], out[i])

(* A connection without a fault is up, and what was sent over it makes of  *)
(* the documents what the program believes.                                *)
CleanUp == clean /\ conn.connected => Link.up
Believed == clean /\ conn.connected => Path(docs, Link.out, believed)

Reads == call.at = "read" /\ Link.up

Counted ==
  Reads /\ call.then = "count" /\ Link.in # <<>> => Link.in[1].n = Cardinality(docs)

(* The document of a save goes out just before getlasterror; then the      *)
(* server has it, or had it.                                               *)
SaveKnown ==
  Reads /\ call.then = "save" =>
    /\ Link.in = <<>> /\ Len(Link.out) > 1 =>
         /\ Link.out[Len(Link.out) - 1].op = "insert"
         /\ Link.out[Len(Link.out) - 1].arg = <<call.doc>>
    /\ Len(Link.out) =< 1 => Link.err \/ call.doc \in docs
    /\ Link.in # <<>> => Link.in[1].err = Link.err

WritesKnown == CleanUp /\ Believed /\ Counted /\ SaveKnown

(* What a cursor has still to hand out, here and at the server.            *)
Answering == Reads /\ call.then \in {"find", "more"} /\ Link.in # <<>>
Rest == {cur.batch[i] : i \in cur.pos + 1 .. Len(cur.batch)}
Ahead == IF Answering THEN Range(Link.in[1].batch) ELSE Rest
Num == IF Answering THEN Link.in[1].id ELSE cur.id
Behind == IF Num = 0 THEN {} ELSE kept[conn.left][Num]

CurShape ==
  /\ ~cur.open => cur = NoCur /\ given = {}
  /\ cur.open => conn.connected
  /\ Injective(cur.batch)
  /\ cur.batch = <<>> => cur.id = 0
  /\ cur.batch # <<>> => cur.pos =< Len(cur.batch)

CallShape ==
  /\ call.then = "find" => ~cur.open
  /\ call.then = "more" => cur.open /\ cur.batch # <<>> /\ NeedsMore /\ cur.id # 0
  /\ Reads /\ call.then = "more" /\ Link.in = <<>> =>
       Link.out[Len(Link.out)].arg = cur.id

AnswerShape ==
  Answering => /\ Injective(Link.in[1].batch)
               /\ Link.in[1].batch = <<>> => Link.in[1].id = 0

NoneAgain ==
  /\ Ahead \cap given = {}
  /\ Behind \cap (Ahead \cup given) = {}

AllThere ==
  /\ found \subseteq docs
  /\ clean /\ conn.connected /\ (cur.open \/ Answering) =>
       found \subseteq given \cup Ahead \cup Behind

KillsAt(k) ==
  \E i \in 1 .. Len(Link.out) : Link.out[i].op = "kill_cursors" /\ Link.out[i].arg = k

(* Every cursor of the server is the one at hand, or on its way to be      *)
(* killed, and never both.                                                 *)
Accounted ==
  clean /\ conn.connected =>
    /\ \A k \in Cursors : kept[conn.left][k] # {} => k = Num \/ KillsAt(k)
    /\ cur.open => \A k \in Cursors : ~KillsAt(k)

CursorKnown ==
  CurShape /\ CallShape /\ AnswerShape /\ NoneAgain /\ AllThere /\ Accounted

-----------------------------------------------------------------------------
(* The messages on their way.                                              *)

LEMMA EffectIds ==
  ASSUME NEW D \in SUBSET Ids, NEW m \in Msgs
  PROVE  Effect(D, m) \in SUBSET Ids
<1>1. m.op = "insert" => InsertedBy(D, m.arg).docs \in SUBSET Ids
  BY MessageArg, InsertedIds
<1>2. m.op \in {"update", "delete"} => m.arg \in Ids
  BY MessageArg
<1> QED
  BY <1>1, <1>2 DEF Effect

LEMMA PathEmpty ==
  ASSUME NEW D \in SUBSET Ids, NEW E, NEW out, out = <<>>
  PROVE  Path(D, out, E) <=> D = E
<1>1. Len(out) = 0
  OBVIOUS
<1>2. ASSUME D = E
      PROVE  Path(D, out, E)
  <2> DEFINE f == [i \in 0 .. 0 |-> D]
  <2>1. f \in [0 .. Len(out) -> SUBSET Ids] /\ f[0] = D
    BY <1>1
  <2> HIDE DEF f
  <2> QED
    BY <1>1, <1>2, <2>1 DEF Path
<1> QED
  BY <1>1, <1>2 DEF Path

LEMMA PathAppend ==
  ASSUME NEW D, NEW E \in SUBSET Ids, NEW out \in Seq(Msgs), NEW m \in Msgs,
         Path(D, out, E)
  PROVE  Path(D, out \o <<m>>, Effect(E, m))
<1> DEFINE n == Len(out)
           new == out \o <<m>>
           e == Effect(E, m)
<1>1. n \in Nat /\ Len(new) = n + 1 /\ new[n + 1] = m /\ \A i \in 1 .. n : new[i] = out[i]
  OBVIOUS
<1>2. PICK f \in [0 .. n -> SUBSET Ids] :
        /\ f[0] = D /\ f[n] = E /\ \A i \in 1 .. n : f[i] = Effect(f[i - 1], out[i])
  BY DEF Path
<1>3. e \in SUBSET Ids
  BY EffectIds
<1> DEFINE g == [i \in 0 .. n + 1 |-> IF i = n + 1 THEN e ELSE f[i]]
<1> HIDE DEF n, new
<1>4. g \in [0 .. n + 1 -> SUBSET Ids] /\ g[n + 1] = e /\ \A i \in 0 .. n : g[i] = f[i]
  BY <1>1, <1>2, <1>3
<1> HIDE DEF g
<1>5. g[0] = D /\ g[n] = E
  BY <1>1, <1>2, <1>4
<1>6. ASSUME NEW i \in 1 .. n + 1
      PROVE  g[i] = Effect(g[i - 1], new[i])
  <2>1. CASE i = n + 1
    BY <1>1, <1>4, <1>5, <2>1 DEF e
  <2>2. CASE i # n + 1
    <3>1. i \in 1 .. n /\ i - 1 \in 0 .. n
      BY <1>1, <2>2
    <3> QED
      BY <1>1, <1>2, <1>4, <3>1
  <2> QED
    BY <2>1, <2>2
<1> HIDE DEF e
<1>7. Path(D, new, e)
  BY <1>1, <1>4, <1>5, <1>6 DEF Path
<1> QED
  BY <1>7 DEF new, e

LEMMA PathTail ==
  ASSUME NEW D, NEW E, NEW out \in Seq(Msgs), NEW t \in Seq(Msgs), NEW m,
         Path(D, out, E), Len(out) > 0, m = out[1], Len(t) = Len(out) - 1,
         \A i \in 1 .. Len(out) - 1 : t[i] = out[i + 1]
  PROVE  Path(Effect(D, m), t, E)
<1> DEFINE n == Len(out)
<1>1. PICK f \in [0 .. n -> SUBSET Ids] :
        /\ f[0] = D /\ f[n] = E /\ \A i \in 1 .. n : f[i] = Effect(f[i - 1], out[i])
  BY DEF Path
<1>2. n \in Nat \ {0} /\ Len(t) = n - 1 /\ \A i \in 1 .. n - 1 : t[i] = out[i + 1]
  OBVIOUS
<1> DEFINE g == [i \in 0 .. n - 1 |-> f[i + 1]]
<1> HIDE DEF n
<1>3. g \in [0 .. n - 1 -> SUBSET Ids] /\ \A i \in 0 .. n - 1 : g[i] = f[i + 1]
  BY <1>1, <1>2
<1> HIDE DEF g
<1>4. f[1] = Effect(D, m)
  <2>1. f[1] = Effect(f[1 - 1], out[1])
    BY <1>1, <1>2
  <2>2. f[1 - 1] = D
    BY <1>1
  <2> QED
    BY <2>1, <2>2
<1>5. g[0] = Effect(D, m) /\ g[n - 1] = E
  BY <1>1, <1>2, <1>3, <1>4
<1>6. ASSUME NEW i \in 1 .. n - 1
      PROVE  g[i] = Effect(g[i - 1], t[i])
  <2>1. i + 1 \in 1 .. n /\ (i + 1) - 1 = i /\ i - 1 \in 0 .. n - 1 /\ (i - 1) + 1 = i
    BY <1>2
  <2>2. f[i + 1] = Effect(f[(i + 1) - 1], out[i + 1])
    BY <1>1, <2>1
  <2>3. g[i] = f[i + 1] /\ g[i - 1] = f[(i - 1) + 1]
    BY <1>2, <1>3, <2>1
  <2> QED
    BY <1>2, <2>1, <2>2, <2>3
<1> QED
  BY <1>2, <1>3, <1>5, <1>6 DEF Path

(* One document is inserted or is there.                                   *)
LEMMA InsertedOne ==
  ASSUME NEW D, NEW d, NEW ds, ds = <<d>>
  PROVE  InsertedBy(D, ds).docs = D \cup {d} /\ InsertedBy(D, ds).err = (d \in D)
<1>1. DOMAIN ds = {1} /\ ds[1] = d
  OBVIOUS
<1> DEFINE new == {k \in DOMAIN ds : ds[k] \notin D \cup {ds[j] : j \in 1 .. k - 1}}
           taken == {k \in DOMAIN ds : 1 .. k \subseteq new}
<1>2. new = IF d \in D THEN {} ELSE {1}
  <2>1. {ds[j] : j \in 1 .. 1 - 1} = {}
    OBVIOUS
  <2> QED
    BY <1>1, <2>1
<1> HIDE DEF new
<1>3. taken = new
  <2>1. 1 .. 1 = {1}
    OBVIOUS
  <2> QED
    BY <1>1, <1>2, <2>1
<1>4. InsertedBy(D, ds) = [docs |-> D \cup {ds[k] : k \in taken}, err |-> taken # DOMAIN ds]
  BY DEF InsertedBy, new
<1> HIDE DEF taken
<1>5. CASE d \in D
  <2>1. taken = {}
    BY <1>2, <1>3, <1>5
  <2> QED
    BY <1>1, <1>4, <1>5, <2>1
<1>6. CASE d \notin D
  <2>1. taken = {1}
    BY <1>2, <1>3, <1>6
  <2>2. {ds[k] : k \in taken} = {d}
    BY <1>1, <2>1
  <2> QED
    BY <1>1, <1>4, <1>6, <2>1, <2>2
<1> QED
  BY <1>5, <1>6

-----------------------------------------------------------------------------
(* The steps, as the invariant sees them.                                  *)

(* A call sends ms, and the server has done nothing yet.                   *)
Said(ms) ==
  /\ conn.connected /\ Link.in # <<>> => Link.out = <<>>
  /\ Link.out \in Seq(Msgs) /\ ms \in Seq(Msgs)
  /\ Link'.up = Link.up /\ Link'.err = Link.err /\ Link'.in = <<>>
  /\ Link.up => Link'.out = Link.out \o ms
  /\ UNCHANGED <<conn, docs, kept, clean>>

(* The server at the other end takes m, and gives r if it is a request.    *)
Served(m) ==
  /\ conn.connected /\ conn.left \in Servers /\ call.at # "hung"
  /\ Link.up /\ Link'.up /\ Link.in = <<>>
  /\ m \in Msgs /\ Link.out \in Seq(Msgs) /\ Link'.out \in Seq(Msgs)
  /\ Len(Link.out) > 0 /\ m = Link.out[1] /\ Len(Link'.out) = Len(Link.out) - 1
  /\ \A i \in 1 .. Len(Link.out) - 1 : Link'.out[i] = Link.out[i + 1]
  /\ UNCHANGED <<conn, call, cur, clean, believed, given>>

(* A write or a cursor to kill, and what became of it.                     *)
Takes(m) ==
  /\ Served(m) /\ m.op \in {"insert", "update", "delete", "kill_cursors"}
  /\ Link'.in = <<>> /\ docs' = Effect(docs, m)
  /\ m.op = "insert" => Link'.err = InsertedBy(docs, m.arg).err
  /\ found' = IF m.op = "delete" THEN found \ {m.arg} ELSE found
  /\ kept' \in [Servers -> [Cursors -> SUBSET Ids]]
  /\ IF m.op = "kill_cursors"
     THEN /\ m.arg \in Cursors /\ kept'[conn.left][m.arg] = {}
          /\ \A k \in Cursors \ {m.arg} : kept'[conn.left][k] = kept[conn.left][k]
     ELSE kept' = kept

Gives(m, r) ==
  /\ Served(m) /\ call.at = "read" /\ Len(Link.out) = 1 /\ Link'.out = <<>>
  /\ m.op \in AskedBy(call.then)
  /\ r \in Replies /\ Link'.in = <<r>> /\ Link'.err = Link.err /\ docs' = docs
  /\ CASE call.then = "find" ->
            Hands(r, conn.left, found') /\ found' \subseteq docs
       [] call.then = "more" ->
            /\ m.arg \in Cursors /\ found' = found
            /\ HandsNext(r, conn.left, m.arg, kept[conn.left][m.arg] \cap docs)
       [] OTHER ->
            r.err = Link.err /\ r.n = Cardinality(docs) /\ UNCHANGED <<kept, found>>

(* A call ends with the reply it read.                                     *)
Ended ==
  /\ call.at = "read" /\ conn.connected /\ Link.up /\ Link.out = <<>>
  /\ Link.in # <<>> /\ Link.in[1] \in Replies /\ Head(Link.in) = Link.in[1]
  /\ Returns /\ call'.at = "idle" /\ call'.then = ""
  /\ Link'.up /\ Link'.out = <<>> /\ Link'.in = <<>>

LEMMA SendSaid ==
  ASSUME LinkInv, Ready, NEW ms \in Seq(Msgs), UNCHANGED <<conn, docs, kept, clean>>,
         socks' = Sent(socks, conn.sock, ms)
  PROVE  Said(ms)
<1>1. conn.connected /\ call.at = "idle" /\ conn.sock \in Socks
  BY DEF Ready, LinkInv, Current
<1>2. Link.in = <<>>
  BY <1>1 DEF LinkInv, Turn, Link
<1>3. Link \in SockRecords
  BY <1>1 DEF LinkInv, TypeOK, Link
<1>4. Link.out \in Seq(Msgs)
  BY <1>3 DEF SockRecords
<1>5. /\ Link'.up = Link.up /\ Link'.in = Link.in /\ Link'.err = Link.err
      /\ Link.up => Link'.out = Link.out \o ms
  BY <1>1, SendIs
<1> QED
  BY <1>1, <1>2, <1>4, <1>5 DEF Said

LEMMA AskSaid ==
  ASSUME LinkInv, Ready, NEW ms \in Seq(Msgs), NEW d, NEW then, Ask(ms, then, d)
  PROVE  /\ Said(ms) /\ call'.at = "read" /\ call'.then = then /\ call'.doc = d
         /\ UNCHANGED <<found, given>>
<1>1. /\ UNCHANGED <<conn, docs, kept, clean, found, given>>
      /\ socks' = Sent(socks, conn.sock, ms)
      /\ call'.at = "read" /\ call'.then = then /\ call'.doc = d
  BY DEF Ask, Asked, server
<1> QED
  BY <1>1, SendSaid

(* The save whose _id was in use sends the document again.                 *)
LEMMA AgainSaid ==
  ASSUME LinkInv, MongoReadResponse, NEW d \in Ids,
         Asked(conn, Popped, conn.sock, Inserts(d), "save", d),
         UNCHANGED <<server, clean>>
  PROVE  /\ Said(Inserts(d)) /\ call'.at = "read" /\ call'.then = "save" /\ call'.doc = d
<1>1. HasAsked(Popped, Inserts(d), "save", d)
  BY PoppedMayAsk, SaveAsks, AskedIs
<1>2. /\ conn' = conn /\ call'.at = "read" /\ call'.then = "save" /\ call'.doc = d
      /\ Link'.up = Popped[conn.sock].up /\ Link'.in = <<>>
      /\ Link'.err = Popped[conn.sock].err
      /\ Popped[conn.sock].up => Link'.out = Popped[conn.sock].out \o Inserts(d)
  BY <1>1 DEF HasAsked
<1>3. /\ Popped[conn.sock].up /\ Popped[conn.sock].out = <<>>
      /\ Popped[conn.sock].err = Link.err
  BY PoppedIs
<1>4. conn.connected /\ Link.up /\ Link.out = <<>>
  BY ToRead DEF HasAnswer
<1>5. Link.out \in Seq(Msgs) /\ Inserts(d) \in Seq(Msgs)
  BY <1>4, SaveAsks
<1> QED
  BY <1>2, <1>3, <1>4, <1>5 DEF Said, server

LEMMA ServeServed ==
  ASSUME LinkInv, NEW s \in Socks, Serve(s), call.at # "hung"
  PROVE  LET m == Head(Link.out)
         IN  AtHand(s) /\ Handles(s, m, conn.left) /\ m \in Msgs /\ UNCHANGED <<client, ticket>>
<1>1. AtHand(s)
  BY ServedIs
<1> QED
  BY <1>1 DEF Serve, AtHand, Link

LEMMA AtHandServed ==
  ASSUME LinkInv, NEW s, AtHand(s), UNCHANGED <<client, clean, believed, given>>,
         Link'.up, Link'.out = Tail(Link.out)
  PROVE  Served(Head(Link.out))
<1>1. Link.out \in Seq(Msgs)
  BY DEF AtHand, SockRecords
<1> DEFINE q == Link.out
<1>2. q # <<>> /\ q \in Seq(Msgs)
  BY <1>1 DEF AtHand
<1> HIDE DEF q
<1>3. Len(q) > 0
  BY <1>2, EmptySeq
<1> QED
  BY <1>1, <1>3 DEF Served, AtHand, client, q

LEMMA ServeTakes ==
  ASSUME LinkInv, NEW s \in Socks, Serve(s), call.at # "hung",
         Head(Link.out).op \in {"insert", "update", "delete", "kill_cursors"}
  PROVE  Takes(Head(Link.out))
<1> DEFINE m == Head(Link.out)
           v == conn.left
<1>1. AtHand(s) /\ Handles(s, m, v) /\ m \in Msgs /\ UNCHANGED <<client, ticket>>
  BY ServeServed
<1>2. UNCHANGED <<client, clean, believed, given>>
  BY DEF Serve
<1> HIDE DEF m
<1>3. ServedWell /\ \E e \in BOOLEAN : HasTaken(e)
  BY <1>1, WritesServed DEF m
<1>4. Link'.up /\ Link'.out = Tail(Link.out) /\ Link'.in = <<>>
  BY <1>3 DEF HasTaken
<1>5. Served(m)
  BY <1>1, <1>2, <1>4, AtHandServed DEF m
<1>6. v \in Servers /\ kept \in [Servers -> [Cursors -> SUBSET Ids]]
  BY <1>1 DEF AtHand, LinkInv, TypeOK
<1>7. kept' \in [Servers -> [Cursors -> SUBSET Ids]]
  BY <1>3 DEF ServedWell
<1>8. /\ docs' = Effect(docs, m)
      /\ found' = IF m.op = "delete" THEN found \ {m.arg} ELSE found
      /\ m.op # "kill_cursors" => kept' = kept
  BY <1>1 DEF Handles, Effect, m
<1>9. ASSUME m.op = "insert"
      PROVE  Link'.err = InsertedBy(docs, m.arg).err
  <2> DEFINE e == InsertedBy(docs, m.arg).err
  <2>1. socks' = [socks EXCEPT ![s].out = Tail(@), ![s].err = e]
    BY <1>1, <1>9 DEF Handles
  <2>2. e \in BOOLEAN /\ conn' = conn
    BY <1>1 DEF InsertedBy, client
  <2> HIDE DEF e
  <2>3. HasTaken(e)
    BY <1>1, <2>1, <2>2, TakenIs
  <2> QED
    BY <2>3 DEF HasTaken, e
<1>10. ASSUME m.op = "kill_cursors"
       PROVE  /\ m.arg \in Cursors /\ kept'[v][m.arg] = {}
              /\ \A k \in Cursors \ {m.arg} : kept'[v][k] = kept[v][k]
  <2> DEFINE d == m.arg
  <2>1. d \in Cursors
    BY <1>1, <1>10, MessageArg
  <2>2. kept' = [kept EXCEPT ![v][d] = {}]
    BY <1>1, <1>10 DEF Handles
  <2> HIDE DEF d, v
  <2>3. kept'[v][d] = {} /\ \A k \in Cursors \ {d} : kept'[v][k] = kept[v][k]
    BY <1>6, <2>1, <2>2
  <2> QED
    BY <2>1, <2>3 DEF d
<1>11. m.op \in {"insert", "update", "delete", "kill_cursors"}
  BY DEF m
<1>12. Takes(m)
  BY <1>4, <1>5, <1>7, <1>8, <1>9, <1>10, <1>11 DEF Takes
<1> QED
  BY <1>12 DEF m

LEMMA ServeGives ==
  ASSUME LinkInv, NEW s \in Socks, Serve(s), call.at # "hung",
         Head(Link.out).op \in {"query", "get_more", "getlasterror", "ismaster", "count"}
  PROVE  \E r : Gives(Head(Link.out), r)
<1> DEFINE m == Head(Link.out)
           v == conn.left
<1>1. AtHand(s) /\ Handles(s, m, v) /\ m \in Msgs /\ UNCHANGED <<client, ticket>>
  BY ServeServed
<1>2. UNCHANGED <<client, clean, believed, given>> /\ conn' = conn
  BY DEF Serve, client
<1>3. /\ docs \in SUBSET Ids /\ v \in Servers /\ s = conn.sock
      /\ kept \in [Servers -> [Cursors -> SUBSET Ids]] /\ Link.err \in BOOLEAN
      /\ Link \in SockRecords
  BY <1>1 DEF LinkInv, TypeOK, AtHand, SockRecords
<1>4. m.to \in Ticket /\ m.op \in Asking
  BY <1>1, MessageArg DEF Asking
<1>5. call.at = "read" /\ Len(Link.out) = 1 /\ Tail(Link.out) = <<>> /\ m.op \in AskedBy(call.then)
  BY <1>1, <1>4, HeadTurn
<1> HIDE DEF m, v
<1>6. ASSUME NEW r \in Replies, Answered(s, r)
      PROVE  Served(m) /\ Link'.out = <<>> /\ Link'.in = <<r>> /\ Link'.err = Link.err
  <2>1. HasGiven(r)
    BY <1>1, <1>2, <1>6, AnsweredIs
  <2>2. Link'.up /\ Link'.out = Tail(Link.out) /\ Link'.in = <<r>> /\ Link'.err = Link.err
    BY <2>1 DEF HasGiven
  <2> QED
    BY <1>1, <1>2, <1>5, <2>2, AtHandServed DEF m
<1>7. CASE m.op = "query"
  <2> DEFINE n == m.arg
  <2>1. Batch(s, m, v, docs, n) /\ docs' = docs
    BY <1>1, <1>7 DEF Handles
  <2> HIDE DEF n
  <2>2. PICK r : Answered(s, r) /\ Hands(r, v, found') /\ found' \in SUBSET docs
    BY <1>3, <1>4, <2>1, BatchHands
  <2>3. r \in Replies
    BY <2>2 DEF Hands
  <2>4. Served(m) /\ Link'.out = <<>> /\ Link'.in = <<r>> /\ Link'.err = Link.err
    BY <1>6, <2>2, <2>3
  <2>5. call.then = "find"
    BY <1>5, <1>7 DEF AskedBy
  <2> HIDE <1>6
  <2>6. Gives(m, r)
    BY <1>5, <2>1, <2>2, <2>3, <2>4, <2>5 DEF Gives, v
  <2> QED
    BY <2>6 DEF m
<1>8. CASE m.op = "get_more"
  <2> DEFINE ds == kept[v][m.arg] \cap docs
  <2>1. m.arg \in Cursors /\ ds \in SUBSET Ids
    BY <1>1, <1>3, <1>8, MessageArg
  <2>2. NextBatch(s, m, v, ds) /\ UNCHANGED <<docs, found>>
    BY <1>1, <1>8 DEF Handles
  <2> HIDE DEF ds
  <2>3. PICK r : Answered(s, r) /\ HandsNext(r, v, m.arg, ds)
    <3>1. /\ m.to \in Ticket /\ m.arg \in Cursors /\ v \in Servers /\ ds \in SUBSET Ids
          /\ kept \in [Servers -> [Cursors -> SUBSET Ids]] /\ NextBatch(s, m, v, ds)
      BY <1>3, <1>4, <2>1, <2>2
    <3> QED
      BY <3>1, NextHands
  <2>4. r \in Replies
    BY <2>3 DEF HandsNext, Hands
  <2>5. Served(m) /\ Link'.out = <<>> /\ Link'.in = <<r>> /\ Link'.err = Link.err
    BY <1>6, <2>3, <2>4
  <2>6. call.then = "more"
    BY <1>5, <1>8 DEF AskedBy
  <2>7. Gives(m, r)
    BY <1>5, <2>1, <2>2, <2>3, <2>4, <2>5, <2>6 DEF Gives, v, ds
  <2> QED
    BY <2>7 DEF m
<1>9. CASE m.op \in {"getlasterror", "ismaster", "count"}
  <2> DEFINE e == Link.err
             b == (v = master)
             n == Cardinality(docs)
             r == WithState(Reply(m), e, b, n)
  <2>1. Answered(s, r) /\ UNCHANGED <<kept, docs, found>>
    BY <1>1, <1>3, <1>9 DEF Handles, WithState, Link
  <2>2. e \in BOOLEAN /\ b \in BOOLEAN /\ n \in Nat
    BY <1>3, FiniteIds
  <2>3. e = Link.err /\ n = Cardinality(docs)
    OBVIOUS
  <2> HIDE DEF e, b, n
  <2>4. r \in Replies /\ r.err = e /\ r.n = n
    BY <1>4, <2>2, ReplyIs, StateSet
  <2> HIDE DEF r
  <2>5. Served(m) /\ Link'.out = <<>> /\ Link'.in = <<r>> /\ Link'.err = Link.err
    BY <1>6, <2>1, <2>4
  <2>6. call.then \notin {"find", "more"}
    BY <1>5, <1>9 DEF AskedBy
  <2>7. Gives(m, r)
    BY <1>5, <2>1, <2>3, <2>4, <2>5, <2>6 DEF Gives
  <2> QED
    BY <2>7 DEF m
<1>10. m.op \in {"query", "get_more", "getlasterror", "ismaster", "count"}
  BY DEF m
<1> QED
  BY <1>7, <1>8, <1>9, <1>10

LEMMA ReturnsEnded ==
  ASSUME LinkInv, MongoReadResponse, Returns
  PROVE  Ended
<1>1. /\ call.at = "read" /\ conn.connected /\ Link.up /\ Link.out = <<>>
      /\ Link.in[1] \in Replies /\ Head(Link.in) = Link.in[1] /\ Link.in # <<>>
  BY ToRead DEF HasAnswer
<1>2. call'.at = "idle" /\ call'.then = ""
  BY DEF Returns, Idle
<1>3. Link' = Popped[conn.sock]
  BY DEF Returns, Link
<1>4. Link'.up /\ Link'.out = <<>> /\ Link'.in = <<>>
  BY <1>3, PoppedIs
<1> QED
  BY <1>1, <1>2, <1>4 DEF Ended

-----------------------------------------------------------------------------
(* What the writes come to.                                                *)

LEMMA SaidOne ==
  ASSUME LinkInv, CleanUp, Believed, NEW m \in Msgs, NEW ms, ms = <<m>>, Said(ms),
         Link.up => believed' = Effect(believed, m)
  PROVE  CleanUp' /\ Believed'
<1>1. CleanUp'
  BY DEF Said, CleanUp
<1>2. ASSUME clean', conn'.connected
      PROVE  Path(docs', Link'.out, believed')
  <2>1. clean /\ conn.connected /\ Link.up
    BY <1>2 DEF Said, CleanUp
  <2>2. Path(docs, Link.out, believed) /\ Link.out \in Seq(Msgs) /\ believed \in SUBSET Ids
    BY <2>1 DEF Believed, Said, LinkInv, TypeOK
  <2>3. Path(docs, Link.out \o <<m>>, Effect(believed, m))
    BY <2>2, PathAppend
  <2> QED
    BY <2>1, <2>3 DEF Said
<1> QED
  BY <1>1, <1>2 DEF Believed

LEMMA SaidNothing ==
  ASSUME CleanUp, Believed, NEW ms, ms = <<>>, Said(ms), believed' = believed
  PROVE  CleanUp' /\ Believed'
<1>1. CleanUp'
  BY DEF Said, CleanUp
<1>2. Link.up => Link'.out = Link.out
  <2> DEFINE q == Link.out
  <2>1. q \in Seq(Msgs)
    BY DEF Said
  <2> HIDE DEF q
  <2>2. q \o <<>> = q
    BY <2>1
  <2> QED
    BY <2>2 DEF Said, q
<1> QED
  BY <1>1, <1>2 DEF Said, CleanUp, Believed

LEMMA ConcatTwo ==
  ASSUME NEW q \in Seq(Msgs), NEW a \in Msgs, NEW b \in Msgs
  PROVE  (q \o <<a>>) \o <<b>> = q \o <<a, b>>
<1> DEFINE n == Len(q)
           w == q \o <<a>>
           x == w \o <<b>>
           y == q \o <<a, b>>
<1>1. n \in Nat
  OBVIOUS
<1>2. w \in Seq(Msgs) /\ Len(w) = n + 1 /\ w[n + 1] = a /\ \A i \in 1 .. n : w[i] = q[i]
  OBVIOUS
<1> HIDE DEF w
<1>3. /\ x \in Seq(Msgs) /\ Len(x) = n + 2 /\ x[n + 2] = b
      /\ \A i \in 1 .. n + 1 : x[i] = w[i]
  BY <1>1, <1>2
<1>4. /\ y \in Seq(Msgs) /\ Len(y) = n + 2 /\ y[n + 1] = a /\ y[n + 2] = b
      /\ \A i \in 1 .. n : y[i] = q[i]
  OBVIOUS
<1> HIDE DEF x, y, n
<1>5. ASSUME NEW i \in 1 .. Len(x)
      PROVE  x[i] = y[i]
  <2>1. i \in 1 .. n \/ i = n + 1 \/ i = n + 2
    BY <1>1, <1>3
  <2> QED
    BY <1>1, <1>2, <1>3, <1>4, <2>1
<1>6. x = y
  BY <1>3, <1>4, <1>5, SeqEqual
<1> QED
  BY <1>6 DEF x, y, w

LEMMA ConcatPair ==
  ASSUME NEW q \in Seq(Msgs), NEW ms \in Seq(Msgs), Len(ms) = 2
  PROVE  /\ Len(q \o ms) > 1 /\ Len(q \o ms) \in Nat
         /\ (q \o ms)[Len(q \o ms) - 1] = ms[1]
<1>b. Len(q) \in Nat
  BY LenProperties
<1>a. Len(q \o ms) = Len(q) + Len(ms)
  BY ConcatProperties
<1>1. Len(q) \in Nat /\ Len(q \o ms) = Len(q) + 2
  BY <1>a, <1>b
<1>2. (q \o ms)[Len(q) + 1] = ms[1]
  <2> DEFINE w == q \o ms
             n == Len(q)
  <2>1. \A i \in 1 .. n + Len(ms) : w[i] = IF i =< n THEN q[i] ELSE ms[i - n]
    BY ConcatProperties
  <2>2. n \in Nat
    BY <1>1
  <2> HIDE DEF w, n
  <2>3. n + 1 \in 1 .. n + Len(ms) /\ ~(n + 1 =< n) /\ (n + 1) - n = 1
    BY <2>2
  <2>4. w[n + 1] = ms[(n + 1) - n]
    BY <2>1, <2>3
  <2> QED
    BY <2>3, <2>4 DEF w, n
<1>3. Len(q \o ms) - 1 = Len(q) + 1
  BY <1>1
<1> QED
  BY <1>1, <1>2, <1>3

LEMMA SaidInserts ==
  ASSUME LinkInv, CleanUp, Believed, NEW d \in Ids, Said(Inserts(d)), Believes(d)
  PROVE  CleanUp' /\ Believed'
<1> DEFINE i == InsertMsg(<<d>>)
           g == Request("getlasterror", 0)
           e == believed \cup {d}
<1>1. CleanUp'
  BY DEF Said, CleanUp
<1>2. i \in Msgs /\ i.op = "insert" /\ i.arg = <<d>>
  BY PlainMsgs
<1>3. g \in Msgs /\ g.op = "getlasterror"
  <2>1. ticket \in Ticket
    BY DEF LinkInv, TypeOK
  <2>2. g = [op |-> "getlasterror", arg |-> 0, to |-> 1 - ticket] /\ 1 - ticket \in Ticket
    BY <2>1, RequestIs
  <2> QED
    BY <2>2 DEF Msgs, Asking
<1>4. Inserts(d) = <<i, g>>
  BY DEF Inserts
<1> HIDE DEF i, g
<1>5. Effect(believed, i) = e /\ Effect(e, g) = e
  BY <1>2, <1>3, InsertedOne DEF Effect
<1>6. e \in SUBSET Ids /\ believed \in SUBSET Ids
  BY DEF LinkInv, TypeOK
<1>7. ASSUME clean', conn'.connected
      PROVE  Path(docs', Link'.out, believed')
  <2> DEFINE q == Link.out
  <2>1. clean /\ conn.connected /\ Link.up
    BY <1>7 DEF Said, CleanUp
  <2>2. Path(docs, q, believed) /\ q \in Seq(Msgs) /\ docs' = docs /\ Link'.out = q \o <<i, g>>
    BY <1>4, <2>1 DEF Believed, Said
  <2> HIDE DEF e, q
  <2>3. q \o <<i>> \in Seq(Msgs) /\ Path(docs, q \o <<i>>, e)
    BY <1>2, <1>5, <1>6, <2>2, PathAppend
  <2> DEFINE w == q \o <<i>>
  <2>4. w \o <<g>> = q \o <<i, g>>
    BY <1>2, <1>3, <2>2, ConcatTwo
  <2>5. w \in Seq(Msgs) /\ Path(docs, w, e)
    BY <2>3
  <2> HIDE DEF w
  <2>6. Path(docs, w \o <<g>>, e)
    BY <1>3, <1>5, <1>6, <2>5, PathAppend
  <2>7. believed' = e
    BY <2>1 DEF Believes, Link, e
  <2> QED
    BY <2>2, <2>4, <2>6, <2>7
<1> QED
  BY <1>1, <1>7 DEF Believed

LEMMA SaidCall ==
  ASSUME LinkInv, NEW ms, Said(ms),
         call'.then = "save" => call'.doc \in Ids /\ ms = Inserts(call'.doc)
  PROVE  Counted' /\ SaveKnown'
<1>1. Counted'
  BY DEF Said, Counted
<1>2. ASSUME Reads', call'.then = "save"
      PROVE  /\ Len(Link'.out) > 1
             /\ Link'.out[Len(Link'.out) - 1].op = "insert"
             /\ Link'.out[Len(Link'.out) - 1].arg = <<call'.doc>>
  <2> DEFINE d == call'.doc
             q == Link.out
  <2>1. d \in Ids /\ ms = Inserts(d)
    BY <1>2
  <2>2. q \in Seq(Msgs) /\ ms \in Seq(Msgs) /\ Link'.out = q \o ms
    BY <1>2 DEF Said, Reads
  <2> HIDE DEF d, q
  <2>3. /\ Len(ms) = 2 /\ ms[1].op = "insert" /\ ms[1].arg = <<d>>
    BY <2>1, SaveAsks
  <2>4. q \in Seq(Msgs) /\ ms \in Seq(Msgs) /\ Len(ms) = 2
    BY <2>2, <2>3
  <2>5. Len(q \o ms) > 1 /\ (q \o ms)[Len(q \o ms) - 1] = ms[1]
    BY <2>4, ConcatPair
  <2> QED
    BY <2>2, <2>3, <2>5 DEF d
<1>3. Link'.in = <<>>
  BY DEF Said
<1>4. Reads' /\ call'.then = "save" => ~(Len(Link'.out) =< 1)
  <2> SUFFICES ASSUME Reads', call'.then = "save"
               PROVE  ~(Len(Link'.out) =< 1)
    OBVIOUS
  <2> DEFINE q == Link.out
             t == Link'.out
  <2>1. q \in Seq(Msgs) /\ ms \in Seq(Msgs) /\ t = q \o ms
    BY DEF Said, Reads
  <2>2. Len(t) > 1
    BY <1>2
  <2> HIDE DEF q, t
  <2>3. Len(t) \in Nat
    BY <2>1
  <2>4. ~(Len(t) =< 1)
    BY <2>2, <2>3
  <2> QED
    BY <2>4 DEF t
<1> QED
  BY <1>1, <1>2, <1>3, <1>4 DEF SaveKnown

(* One step of the path is done when the server takes a message.           *)
LEMMA ServedBelieved ==
  ASSUME Believed, CleanUp, NEW m, Served(m), docs' = Effect(docs, m)
  PROVE  Believed' /\ CleanUp'
<1>1. CleanUp'
  BY DEF Served, CleanUp
<1>2. ASSUME clean', conn'.connected
      PROVE  Path(docs', Link'.out, believed')
  <2> DEFINE q == Link.out
             t == Link'.out
  <2>1. Path(docs, q, believed)
    BY <1>2 DEF Served, Believed
  <2>2. /\ q \in Seq(Msgs) /\ t \in Seq(Msgs) /\ Len(q) > 0 /\ m = q[1]
        /\ Len(t) = Len(q) - 1 /\ \A i \in 1 .. Len(q) - 1 : t[i] = q[i + 1]
        /\ believed' = believed
    BY DEF Served
  <2> HIDE DEF q, t
  <2>3. Path(Effect(docs, m), t, believed)
    BY <2>1, <2>2, PathTail
  <2> QED
    BY <2>2, <2>3 DEF t
<1> QED
  BY <1>1, <1>2 DEF Believed

LEMMA TakesWrites ==
  ASSUME LinkInv, LinkInv', WritesKnown, NEW m, Takes(m)
  PROVE  WritesKnown'
<1>1. Served(m) /\ docs' = Effect(docs, m) /\ Link'.in = <<>>
  BY DEF Takes
<1>2. Believed' /\ CleanUp'
  BY <1>1, ServedBelieved DEF WritesKnown
<1>3. Counted'
  BY <1>1 DEF Counted
<1>4. ASSUME Reads', call'.then = "save"
      PROVE  /\ Len(Link'.out) > 1 =>
                  /\ Link'.out[Len(Link'.out) - 1].op = "insert"
                  /\ Link'.out[Len(Link'.out) - 1].arg = <<call'.doc>>
             /\ Len(Link'.out) =< 1 => Link'.err \/ call'.doc \in docs'
  <2> DEFINE q == Link.out
             t == Link'.out
             d == call.doc
  <2>a. Reads /\ call.then = "save" /\ call' = call /\ Link.in = <<>>
    BY <1>1, <1>4 DEF Served, Reads
  <2>b. /\ q \in Seq(Msgs) /\ m = q[1] /\ Len(t) = Len(q) - 1 /\ Len(q) > 0
        /\ \A i \in 1 .. Len(q) - 1 : t[i] = q[i + 1]
    BY <1>1 DEF Served
  <2>c. Len(q) \in Nat
    BY <2>b
  <2>1. /\ Reads /\ call.then = "save" /\ call' = call /\ Link.in = <<>>
        /\ Len(q) \in Nat /\ m = q[1] /\ Len(t) = Len(q) - 1 /\ Len(q) > 0
        /\ \A i \in 1 .. Len(q) - 1 : t[i] = q[i + 1]
    BY <2>a, <2>b, <2>c
  <2>2. Len(q) > 1 => q[Len(q) - 1].op = "insert" /\ q[Len(q) - 1].arg = <<d>>
    BY <2>1 DEF WritesKnown, SaveKnown
  <2>3. Waits(Link)'
    <3>1. call'.at = "read" /\ Link'.up
      BY <1>4 DEF Reads
    <3>2. Len(Link'.in) # 1
      BY <1>1
    <3> QED
      BY <3>1, <3>2 DEF LinkInv, Turn, HasAnswer
  <2>4. t # <<>> /\ t \in Seq(Msgs)
    BY <1>1, <2>3 DEF Waits, Served
  <2> HIDE DEF q, t, d
  <2>5. Len(t) > 0
    BY <2>4, EmptySeq
  <2>6. Len(t) > 1 => t[Len(t) - 1] = q[Len(q) - 1]
    BY <2>1
  <2>7. ASSUME Len(t) =< 1
        PROVE  d \in docs'
    <3>1. m.op = "insert" /\ m.arg = <<d>>
      BY <2>1, <2>2, <2>5, <2>7
    <3> QED
      BY <1>1, <3>1, InsertedOne DEF Effect
  <2> QED
    BY <2>1, <2>2, <2>6, <2>7 DEF t, d
<1>5. SaveKnown'
  BY <1>1, <1>4 DEF SaveKnown
<1> QED
  BY <1>2, <1>3, <1>5 DEF WritesKnown

LEMMA GivesWrites ==
  ASSUME LinkInv, WritesKnown, NEW m, NEW r, Gives(m, r)
  PROVE  WritesKnown'
<1>1. /\ Served(m) /\ docs' = docs /\ m.op \in AskedBy(call.then) /\ Len(Link.out) = 1
      /\ Link'.out = <<>> /\ Link'.in = <<r>> /\ Link'.err = Link.err /\ call' = call
      /\ Link.up /\ call.at = "read" /\ Link.in = <<>>
  BY DEF Gives, Served
<1>2. m.op \notin {"insert", "update", "delete"}
  BY <1>1 DEF AskedBy
<1>3. docs' = Effect(docs, m)
  BY <1>1, <1>2 DEF Effect
<1>4. Believed' /\ CleanUp'
  BY <1>1, <1>3, ServedBelieved DEF WritesKnown
<1>5. call.then \notin {"find", "more"} => r.err = Link.err /\ r.n = Cardinality(docs)
  BY DEF Gives
<1>6. Link'.in[1] = r
  BY <1>1
<1>7. Counted'
  BY <1>1, <1>5, <1>6 DEF Counted
<1>8. Reads /\ call.then = "save" => Link.err \/ call.doc \in docs
  BY <1>1 DEF WritesKnown, SaveKnown
<1>9. SaveKnown'
  <2>1. Reads' => Reads
    BY <1>1 DEF Reads
  <2>2. Len(Link'.out) = 0
    BY <1>1
  <2>3. call'.then = "save" => r.err = Link'.err
    BY <1>1, <1>5
  <2>4. Reads' /\ call'.then = "save" => Link'.err \/ call'.doc \in docs'
    BY <1>1, <1>8, <2>1
  <2> QED
    BY <1>6, <2>2, <2>3, <2>4 DEF SaveKnown
<1> QED
  BY <1>4, <1>7, <1>9 DEF WritesKnown

LEMMA EndedWrites ==
  ASSUME LinkInv, WritesKnown, Ended
  PROVE  WritesKnown'
<1>1. /\ UNCHANGED <<conn, clean, docs, believed>> /\ Link'.up /\ Link.up
      /\ Link'.out = Link.out /\ ~Reads'
  BY DEF Ended, Returns, server, Reads
<1> QED
  BY <1>1 DEF WritesKnown, CleanUp, Believed, Counted, SaveKnown

LEMMA ConnectingWrites ==
  ASSUME LinkInv, Connecting
  PROVE  WritesKnown'
<1>1. /\ call'.then \notin {"count", "save"}
      /\ conn'.connected => Link'.up
  BY DEF Connecting, JustMade
<1>2. docs' \in SUBSET Ids
  BY DEF LinkInv, TypeOK, Connecting, server
<1>3. ASSUME clean', conn'.connected
      PROVE  Path(docs', Link'.out, believed')
  <2>1. believed' = docs'
    <3>1. believed' = docs
      BY <1>3 DEF Connecting
    <3>2. docs' = docs
      BY DEF Connecting, server
    <3> QED
      BY <3>1, <3>2
  <2>2. conn'.sock \in Socks /\ Link' = socks'[conn'.sock]
    BY <1>3 DEF Connecting, JustMade, Current, Link
  <2>3. CASE Silent(socks)'
    <3>1. Link'.out = <<>>
      BY <2>2, <2>3 DEF Silent
    <3> QED
      BY <1>2, <2>1, <3>1, PathEmpty
  <2>4. CASE Link'.out = <<[op |-> "ismaster", arg |-> 0, to |-> ticket']>>
    <3> DEFINE m == [op |-> "ismaster", arg |-> 0, to |-> ticket']
               e == <<>>
    <3>1. ticket' \in Ticket
      BY DEF Connecting, JustMade
    <3>2. m \in Msgs /\ m.op = "ismaster"
      BY <3>1 DEF Msgs, Asking
    <3> HIDE DEF m
    <3>3. e \in Seq(Msgs) /\ e \o <<m>> = <<m>>
      BY <3>2
    <3>4. e = <<>>
      OBVIOUS
    <3> HIDE DEF e
    <3>5. Path(docs', e, docs')
      BY <1>2, <3>4, PathEmpty
    <3>6. Path(docs', e \o <<m>>, Effect(docs', m))
      BY <1>2, <3>2, <3>3, <3>5, PathAppend
    <3>7. Effect(docs', m) = docs'
      BY <3>2 DEF Effect
    <3> QED
      BY <2>1, <2>4, <3>3, <3>6, <3>7 DEF m
  <2> QED
    BY <2>3, <2>4 DEF Connecting, JustMade
<1> QED
  BY <1>1, <1>3 DEF WritesKnown, CleanUp, Believed, Counted, SaveKnown

(* Steps that send and take nothing.                                       *)
LEMMA OtherWrites ==
  ASSUME WritesKnown, clean' \/ Reads' => Link' = Link, clean' => clean,
         UNCHANGED <<conn, docs, believed>>, call' = call \/ call'.at = "hung"
  PROVE  WritesKnown'
BY DEF WritesKnown, CleanUp, Believed, Counted, SaveKnown, Reads

-----------------------------------------------------------------------------
(* What a cursor has handed out and has still to.                          *)

(* The view of it that a step may leave as it is.                          *)
Still == UNCHANGED <<cur, kept, given, conn>> /\ ~Answering /\ ~Answering'

LEMMA StillSame ==
  ASSUME Still
  PROVE  Ahead' = Ahead /\ Num' = Num /\ Behind' = Behind /\ Ahead = Rest /\ Num = cur.id
<1>1. Rest' = Rest
  BY DEF Still, Rest
<1>2. Ahead' = Ahead /\ Num' = Num /\ Ahead = Rest /\ Num = cur.id
  BY <1>1 DEF Still, Ahead, Num
<1>3. Behind' = Behind
  BY <1>2 DEF Still, Behind
<1> QED
  BY <1>2, <1>3

LEMMA StillKnown ==
  ASSUME CursorKnown, Still, found' \subseteq found, found' \subseteq docs',
         clean' => clean
  PROVE  CurShape' /\ AnswerShape' /\ NoneAgain' /\ AllThere'
<1>1. UNCHANGED <<cur, given, conn, kept>> /\ ~Answering /\ ~Answering'
  BY DEF Still
<1>2. CurShape'
  BY <1>1 DEF CursorKnown, CurShape
<1>3. AnswerShape'
  BY <1>1 DEF AnswerShape
<1>4. NoneAgain'
  BY <1>1, StillSame DEF CursorKnown, NoneAgain
<1>5. AllThere'
  BY <1>1, StillSame DEF CursorKnown, AllThere
<1> QED
  BY <1>2, <1>3, <1>4, <1>5

(* Something is sent, and not to kill the cursor at hand.                  *)
LEMMA SaidAccounted ==
  ASSUME LinkInv, Accounted, CleanUp, Still, NEW ms, Said(ms),
         \A i \in 1 .. Len(ms) : ms[i].op # "kill_cursors"
  PROVE  Accounted'
<1> SUFFICES ASSUME clean', conn'.connected
             PROVE  /\ \A k \in Cursors : kept'[conn'.left][k] # {} => k = Num' \/ KillsAt(k)'
                    /\ cur'.open => \A k \in Cursors : ~KillsAt(k)'
  BY DEF Accounted
<1> DEFINE q == Link.out
<1>1. clean /\ conn.connected /\ Link.up
  BY DEF Said, CleanUp
<1>2. q \in Seq(Msgs) /\ ms \in Seq(Msgs) /\ Link'.out = q \o ms
  BY <1>1 DEF Said
<1>3. ASSUME NEW k \in Cursors
      PROVE  KillsAt(k)' <=> KillsAt(k)
  <2> HIDE DEF q
  <2>1. /\ Len(q \o ms) = Len(q) + Len(ms) /\ Len(q) \in Nat /\ Len(ms) \in Nat
        /\ \A i \in 1 .. Len(q) + Len(ms) :
             (q \o ms)[i] = IF i =< Len(q) THEN q[i] ELSE ms[i - Len(q)]
    BY <1>2, ConcatProperties, LenProperties
  <2> DEFINE w == q \o ms
             n == Len(q)
             n2 == Len(ms)
  <2>2. /\ Len(w) = n + n2 /\ n \in Nat /\ n2 \in Nat
        /\ \A i \in 1 .. n + n2 : w[i] = IF i =< n THEN q[i] ELSE ms[i - n]
    BY <2>1
  <2>3. \A i \in 1 .. n2 : ms[i].op # "kill_cursors"
    OBVIOUS
  <2> HIDE DEF w, n, n2
  <2>4. ASSUME NEW i \in 1 .. n + n2, w[i].op = "kill_cursors"
        PROVE  i \in 1 .. n /\ w[i] = q[i]
    <3>1. CASE i =< n
      BY <2>2, <3>1
    <3>2. CASE i > n
      <4>1. i - n \in 1 .. n2 /\ w[i] = ms[i - n]
        BY <2>2, <3>2
      <4> QED
        BY <2>3, <2>4, <4>1
    <3> QED
      BY <2>2, <3>1, <3>2
  <2>5. \A i \in 1 .. n : i \in 1 .. n + n2 /\ w[i] = q[i]
    BY <2>2
  <2>6. (\E i \in 1 .. Len(w) : w[i].op = "kill_cursors" /\ w[i].arg = k)
          <=> (\E i \in 1 .. n : q[i].op = "kill_cursors" /\ q[i].arg = k)
    BY <2>2, <2>4, <2>5
  <2> QED
    BY <1>2, <2>6 DEF KillsAt, w, n, q
<1>4. UNCHANGED <<cur, kept, conn>>
  BY DEF Still
<1> HIDE DEF q
<1> QED
  BY <1>1, <1>3, <1>4, StillSame DEF Accounted

(* A call sends nothing but requests and writes.                           *)
LEMMA SaidCursor ==
  ASSUME LinkInv, CursorKnown, CleanUp, NEW ms, Said(ms), UNCHANGED <<cur, found, given>>,
         call.then \notin {"find", "more"} \/ call.at # "read",
         \A i \in 1 .. Len(ms) : ms[i].op # "kill_cursors",
         CallShape'
  PROVE  CursorKnown'
<1>1. Still
  BY DEF Said, Still, Answering, Reads
<1>2. UNCHANGED <<docs, clean>>
  BY DEF Said
<1>3. CurShape' /\ AnswerShape' /\ NoneAgain' /\ AllThere'
  BY <1>1, <1>2, StillKnown DEF CursorKnown, AllThere
<1>4. Accounted'
  BY <1>1, SaidAccounted DEF CursorKnown
<1> QED
  BY <1>3, <1>4 DEF CursorKnown

(* No request of a cursor leaves CallShape alone.                          *)
LEMMA PlainCall ==
  ASSUME call'.then \notin {"find", "more"}
  PROVE  CallShape'
BY DEF CallShape

LEMMA SaidWrite ==
  ASSUME LinkInv, CursorKnown, CleanUp, NEW ms, Said(ms), UNCHANGED <<cur, found, given>>,
         call.then \notin {"find", "more"}, call'.then \notin {"find", "more"},
         \A i \in 1 .. Len(ms) : ms[i].op # "kill_cursors"
  PROVE  CursorKnown'
BY SaidCursor, PlainCall

(* get_more names the cursor at hand.                                      *)
LEMMA MoreCall ==
  ASSUME NEW m \in Msgs, NEW ms, ms = <<m>>, Said(ms), m.arg = cur.id, cur' = cur,
         cur.open, cur.batch # <<>>, NeedsMore, cur.id # 0, call'.then = "more"
  PROVE  CallShape'
<1>1. ASSUME Link'.up
      PROVE  Link'.out[Len(Link'.out)].arg = cur.id
  <2> DEFINE q == Link.out
  <2>1. q \in Seq(Msgs) /\ Link'.out = q \o <<m>>
    BY <1>1 DEF Said
  <2> HIDE DEF q
  <2>2. Len(q \o <<m>>) = Len(q) + 1 /\ (q \o <<m>>)[Len(q) + 1] = m
    BY <2>1
  <2> QED
    BY <2>1, <2>2
<1>2. NeedsMore'
  BY DEF NeedsMore
<1> QED
  BY <1>1, <1>2 DEF CallShape, Reads

(* The front of the messages is gone, and no other.                        *)
LEMMA ServedKills ==
  ASSUME NEW m, Served(m), NEW k
  PROVE  KillsAt(k) <=> KillsAt(k)' \/ (m.op = "kill_cursors" /\ m.arg = k)
<1> DEFINE q == Link.out
           t == Link'.out
           n == Len(q)
<1>1. /\ q \in Seq(Msgs) /\ n > 0 /\ m = q[1] /\ Len(t) = n - 1
      /\ \A i \in 1 .. n - 1 : t[i] = q[i + 1]
  BY DEF Served
<1>2. n \in Nat
  BY <1>1, LenProperties
<1>3. KillsAt(k) <=> \E i \in 1 .. n : q[i].op = "kill_cursors" /\ q[i].arg = k
  BY DEF KillsAt
<1>4. KillsAt(k)' <=> \E i \in 1 .. n - 1 : t[i].op = "kill_cursors" /\ t[i].arg = k
  BY <1>1 DEF KillsAt
<1> HIDE DEF q, t, n
<1>5. ASSUME NEW i \in 1 .. n, q[i].op = "kill_cursors", q[i].arg = k
      PROVE  KillsAt(k)' \/ (m.op = "kill_cursors" /\ m.arg = k)
  <2>1. CASE i = 1
    BY <1>1, <1>5, <2>1
  <2>2. CASE i # 1
    <3>1. i - 1 \in 1 .. n - 1 /\ (i - 1) + 1 = i
      BY <1>2, <2>2
    <3>2. t[i - 1] = q[(i - 1) + 1]
      BY <1>1, <3>1
    <3> QED
      BY <1>4, <1>5, <3>1, <3>2
  <2> QED
    BY <2>1, <2>2
<1>6. ASSUME NEW i \in 1 .. n - 1, t[i].op = "kill_cursors", t[i].arg = k
      PROVE  KillsAt(k)
  <2>1. i + 1 \in 1 .. n /\ t[i] = q[i + 1]
    BY <1>1, <1>2
  <2> QED
    BY <1>3, <1>6, <2>1
<1>7. 1 \in 1 .. n
  BY <1>1, <1>2
<1> QED
  BY <1>1, <1>3, <1>4, <1>5, <1>6, <1>7

LEMMA TakesCall ==
  ASSUME LinkInv, LinkInv', CallShape, NEW m, Takes(m)
  PROVE  CallShape'
<1>1. Served(m) /\ Link'.in = <<>>
  BY DEF Takes
<1>2. /\ UNCHANGED <<call, cur, conn>> /\ Link.up /\ Link'.up /\ Link.in = <<>>
  BY <1>1 DEF Served
<1>3. ASSUME Reads', call'.then = "more"
      PROVE  Link'.out[Len(Link'.out)].arg = cur'.id
  <2> DEFINE q == Link.out
             t == Link'.out
             n == Len(q)
  <2>1. q[n].arg = cur.id
    BY <1>2, <1>3 DEF CallShape, Reads
  <2>2. Waits(Link)'
    <3>1. call'.at = "read" /\ Link'.up
      BY <1>3 DEF Reads
    <3>2. Len(Link'.in) # 1
      BY <1>1
    <3> QED
      BY <3>1, <3>2 DEF LinkInv, Turn, HasAnswer
  <2>3. t # <<>> /\ t \in Seq(Msgs) /\ q \in Seq(Msgs)
    BY <1>1, <2>2 DEF Waits, Served
  <2>4. Len(t) = n - 1 /\ \A i \in 1 .. n - 1 : t[i] = q[i + 1]
    BY <1>1 DEF Served
  <2> HIDE DEF t
  <2>5. Len(t) > 0 /\ Len(t) \in Nat
    BY <2>3, EmptySeq
  <2>6. n \in Nat
    BY <2>3, LenProperties
  <2> HIDE DEF q, n
  <2>7. n - 1 \in 1 .. n - 1 /\ (n - 1) + 1 = n
    BY <2>4, <2>5, <2>6
  <2>8. t[n - 1] = q[n]
    BY <2>4, <2>7
  <2> QED
    BY <1>2, <2>1, <2>4, <2>8 DEF t
<1>4. NeedsMore' = NeedsMore
  BY <1>2 DEF NeedsMore
<1> QED
  BY <1>2, <1>3, <1>4 DEF CallShape

LEMMA TakesDocs ==
  ASSUME LinkInv, NEW m, Takes(m), found \subseteq docs
  PROVE  found' \subseteq found /\ found' \subseteq docs'
<1>1. /\ docs' = Effect(docs, m)
      /\ found' = IF m.op = "delete" THEN found \ {m.arg} ELSE found
  BY DEF Takes
<1>2. docs \subseteq InsertedBy(docs, m.arg).docs
  BY DEF InsertedBy
<1> QED
  BY <1>1, <1>2 DEF Effect

LEMMA TakesCursor ==
  ASSUME LinkInv, LinkInv', CursorKnown, NEW m, Takes(m)
  PROVE  CursorKnown'
<1>1. /\ Served(m) /\ Link'.in = <<>> /\ Link.in = <<>> /\ conn.left \in Servers
      /\ UNCHANGED <<conn, call, cur, clean, given>>
  BY DEF Takes, Served
<1>2. CallShape'
  BY TakesCall DEF CursorKnown
<1>3. found' \subseteq found /\ found' \subseteq docs'
  BY TakesDocs DEF CursorKnown, AllThere
<1>4. ~Answering /\ ~Answering'
  BY <1>1 DEF Answering
<1>5. CASE m.op # "kill_cursors"
  <2>1. kept' = kept
    BY <1>5 DEF Takes
  <2>2. Still
    BY <1>1, <1>4, <2>1 DEF Still
  <2>3. CurShape' /\ AnswerShape' /\ NoneAgain' /\ AllThere'
    BY <1>1, <1>3, <2>2, StillKnown
  <2>4. \A k \in Cursors : KillsAt(k)' <=> KillsAt(k)
    BY <1>1, <1>5, ServedKills
  <2>5. Accounted'
    BY <1>1, <2>1, <2>2, <2>4, StillSame DEF CursorKnown, Accounted
  <2> QED
    BY <1>2, <2>3, <2>5 DEF CursorKnown
<1>6. CASE m.op = "kill_cursors"
  <2>1. /\ m.arg \in Cursors /\ kept'[conn.left][m.arg] = {}
        /\ \A k \in Cursors \ {m.arg} : kept'[conn.left][k] = kept[conn.left][k]
    BY <1>6 DEF Takes
  <2>2. Rest' = Rest
    BY <1>1 DEF Rest
  <2>3. Ahead' = Ahead /\ Num' = Num /\ Num = cur.id /\ Ahead = Rest
    BY <1>1, <1>4, <2>2 DEF Ahead, Num
  <2>4. cur.id \in {0} \cup Cursors
    BY DEF LinkInv, TypeOK, Curs
  <2>5. Behind' \subseteq Behind
    <3> DEFINE k == cur.id
               v == conn.left
    <3>1. Behind = IF k = 0 THEN {} ELSE kept[v][k]
      BY <2>3 DEF Behind
    <3>2. Behind' = IF k = 0 THEN {} ELSE kept'[v][k]
      BY <1>1, <2>3 DEF Behind
    <3>3. k # 0 => kept'[v][k] = {} \/ kept'[v][k] = kept[v][k]
      BY <2>1, <2>4
    <3> QED
      BY <3>1, <3>2, <3>3
  <2>6. CurShape' /\ AnswerShape'
    BY <1>1, <1>4 DEF CursorKnown, CurShape, AnswerShape
  <2>7. NoneAgain'
    BY <1>1, <2>3, <2>5 DEF CursorKnown, NoneAgain
  <2>8. KillsAt(m.arg)
    BY <1>1, <1>6, ServedKills
  <2>9. AllThere'
    BY <1>1, <1>3, <1>4, <2>1, <2>8 DEF CursorKnown, AllThere, Accounted
  <2>10. ASSUME clean', conn'.connected
         PROVE  /\ \A k \in Cursors : kept'[conn'.left][k] # {} => k = Num' \/ KillsAt(k)'
                /\ cur'.open => \A k \in Cursors : ~KillsAt(k)'
    <3>1. ~cur'.open
      BY <1>1, <2>1, <2>8, <2>10 DEF CursorKnown, Accounted
    <3>2. ASSUME NEW k \in Cursors, kept'[conn'.left][k] # {}
          PROVE  k = Num' \/ KillsAt(k)'
      <4>1. k # m.arg /\ kept[conn.left][k] # {}
        BY <1>1, <2>1, <3>2
      <4>2. k = Num \/ KillsAt(k)
        BY <1>1, <2>10, <4>1 DEF CursorKnown, Accounted
      <4>3. KillsAt(k) => KillsAt(k)'
        BY <1>1, <4>1, ServedKills
      <4> QED
        BY <2>3, <4>2, <4>3
    <3> QED
      BY <3>1, <3>2
  <2>11. Accounted'
    BY <2>10 DEF Accounted
  <2> QED
    BY <1>2, <2>6, <2>7, <2>9, <2>11 DEF CursorKnown
<1> QED
  BY <1>5, <1>6

(* The answer to a request, of the cursor or not.                          *)
LEMMA GivesCall ==
  ASSUME CallShape, NEW m, NEW r, Gives(m, r)
  PROVE  CallShape'
<1>1. UNCHANGED <<call, cur>> /\ Link'.in # <<>>
  BY DEF Gives, Served
<1>2. NeedsMore' = NeedsMore
  BY <1>1 DEF NeedsMore
<1> QED
  BY <1>1, <1>2 DEF CallShape

LEMMA GivesKills ==
  ASSUME NEW m, NEW r, Gives(m, r), NEW k
  PROVE  ~KillsAt(k) /\ ~KillsAt(k)'
<1>1. Served(m) /\ Link'.out = <<>> /\ m.op \in AskedBy(call.then)
  BY DEF Gives
<1>2. m.op # "kill_cursors"
  BY <1>1 DEF AskedBy
<1>3. Len(Link'.out) = 0
  BY <1>1
<1>4. ~KillsAt(k)'
  BY <1>3 DEF KillsAt
<1> QED
  BY <1>1, <1>2, <1>4, ServedKills

LEMMA GivesFind ==
  ASSUME LinkInv, CursorKnown, NEW m, NEW r, Gives(m, r), call.then = "find"
  PROVE  CursorKnown'
<1> DEFINE v == conn.left
           b == r.batch
           L == Later(r, v)
<1>1. /\ UNCHANGED <<conn, call, cur, clean, given, docs>> /\ Link.in = <<>>
      /\ Link'.in = <<r>> /\ Link'.up /\ call.at = "read"
  BY DEF Gives, Served
<1>2. Hands(r, v, found') /\ found' \subseteq docs
  BY DEF Gives
<1>3. /\ Injective(b) /\ (b = <<>> => r.id = 0) /\ found' \subseteq Range(b) \cup L
      /\ Range(b) \cap L = {}
      /\ \A k \in Cursors : kept'[v][k] # {} => k = r.id \/ kept'[v][k] = kept[v][k]
  BY <1>2 DEF Hands
<1>4. ~cur.open /\ cur = NoCur /\ given = {}
  BY DEF CursorKnown, CallShape, CurShape
<1>5. ~Answering /\ Num = 0
  BY <1>1, <1>4 DEF Answering, Num, NoCur
<1>6. Answering' /\ Link'.in[1] = r
  BY <1>1 DEF Answering, Reads
<1>7. Ahead' = Range(b) /\ Num' = r.id
  BY <1>6 DEF Ahead, Num
<1>8. Behind' = L
  BY <1>1, <1>7 DEF Behind, Later
<1> HIDE DEF b, L
<1>9. CurShape'
  BY <1>1 DEF CursorKnown, CurShape
<1>10. CallShape'
  BY GivesCall DEF CursorKnown
<1>11. AnswerShape'
  BY <1>3, <1>6 DEF AnswerShape, b
<1>12. NoneAgain'
  BY <1>1, <1>3, <1>4, <1>7, <1>8 DEF NoneAgain
<1>13. AllThere'
  BY <1>1, <1>2, <1>3, <1>7, <1>8 DEF AllThere
<1>14. Accounted'
  <2>1. \A k \in Cursors : ~KillsAt(k) /\ ~KillsAt(k)'
    BY GivesKills
  <2>2. clean /\ conn.connected => \A k \in Cursors : kept[v][k] = {}
    <3>1. \A k \in Cursors : k # 0
      BY DEF Cursors
    <3> QED
      BY <1>5, <2>1, <3>1 DEF CursorKnown, Accounted
  <2> QED
    BY <1>1, <1>3, <1>7, <2>1, <2>2 DEF Accounted
<1> QED
  BY <1>9, <1>10, <1>11, <1>12, <1>13, <1>14 DEF CursorKnown

LEMMA GivesMore ==
  ASSUME LinkInv, CursorKnown, NEW m, NEW r, Gives(m, r), call.then = "more"
  PROVE  CursorKnown'
<1> DEFINE v == conn.left
           b == r.batch
           L == Later(r, v)
           c == m.arg
           ds == kept[v][c] \cap docs
<1>1. /\ UNCHANGED <<conn, call, cur, clean, given, docs>> /\ Link.in = <<>>
      /\ Link'.in = <<r>> /\ Link'.up /\ Link.up /\ call.at = "read"
      /\ Len(Link.out) = 1 /\ m = Link.out[1]
  BY DEF Gives, Served
<1>2. c \in Cursors /\ found' = found /\ HandsNext(r, v, c, ds)
  BY DEF Gives
<1>3. /\ Injective(b) /\ (b = <<>> => r.id = 0) /\ ds \subseteq Range(b) \cup L
      /\ Range(b) \cap L = {} /\ Range(b) \cup L \subseteq ds
      /\ \A k \in Cursors : kept'[v][k] # {} => k = r.id \/ kept'[v][k] = kept[v][k]
      /\ r.id = c \/ kept'[v][c] = {}
  BY <1>2 DEF Hands, HandsNext
<1>4. cur.open /\ cur.batch # <<>> /\ NeedsMore /\ cur.id # 0
  BY DEF CursorKnown, CallShape
<1>5. c = cur.id
  BY <1>1 DEF CursorKnown, CallShape, Reads
<1>6. ~Answering
  BY <1>1 DEF Answering
<1>7. Ahead = {} /\ Num = c /\ Behind = kept[v][c]
  <2>1. cur.pos >= Len(cur.batch) /\ cur.pos \in Nat
    BY <1>4 DEF NeedsMore, LinkInv, TypeOK, Curs
  <2>2. Len(cur.batch) \in Nat
    BY DEF LinkInv, TypeOK, Curs
  <2>3. cur.pos + 1 .. Len(cur.batch) = {}
    BY <2>1, <2>2
  <2>4. Rest = {}
    BY <2>3 DEF Rest
  <2>5. Ahead = {} /\ Num = c
    BY <1>5, <1>6, <2>4 DEF Ahead, Num
  <2> QED
    BY <1>4, <1>5, <2>5 DEF Behind
<1>8. Answering' /\ Link'.in[1] = r
  BY <1>1 DEF Answering, Reads
<1>9. Ahead' = Range(b) /\ Num' = r.id
  BY <1>8 DEF Ahead, Num
<1>10. Behind' = L
  BY <1>1, <1>9 DEF Behind, Later
<1>11. ds = Behind \cap docs
  BY <1>7
<1> HIDE DEF b, L, c, ds, v
<1>12. CurShape'
  BY <1>1 DEF CursorKnown, CurShape
<1>13. CallShape'
  BY GivesCall DEF CursorKnown
<1>14. AnswerShape'
  BY <1>3, <1>8 DEF AnswerShape, b
<1>15. NoneAgain'
  BY <1>1, <1>3, <1>9, <1>10, <1>11 DEF CursorKnown, NoneAgain
<1>16. AllThere'
  <2>1. found \subseteq docs
    BY DEF CursorKnown, AllThere
  <2>2. clean /\ conn.connected => found \subseteq given \cup Behind
    BY <1>4, <1>7 DEF CursorKnown, AllThere
  <2> QED
    BY <1>1, <1>2, <1>3, <1>9, <1>10, <1>11, <2>1, <2>2 DEF AllThere
<1>17. Accounted'
  <2>1. \A k \in Cursors : ~KillsAt(k) /\ ~KillsAt(k)'
    BY GivesKills
  <2>2. ASSUME clean, conn.connected, NEW k \in Cursors, kept'[v][k] # {}
        PROVE  k = r.id
    <3>1. k = r.id \/ kept[v][k] # {}
      BY <1>3, <2>2
    <3>2. kept[v][k] # {} => k = Num
      BY <2>1, <2>2 DEF CursorKnown, Accounted, v
    <3> QED
      BY <1>3, <1>7, <2>2, <3>1, <3>2
  <2> QED
    BY <1>1, <1>9, <2>1, <2>2 DEF Accounted, v
<1> QED
  BY <1>12, <1>13, <1>14, <1>15, <1>16, <1>17 DEF CursorKnown

LEMMA GivesCursor ==
  ASSUME LinkInv, CursorKnown, NEW m, NEW r, Gives(m, r)
  PROVE  CursorKnown'
<1>1. CASE call.then \notin {"find", "more"}
  <2>1. /\ UNCHANGED <<conn, call, cur, clean, given, docs, kept, found>> /\ Link.in = <<>>
    BY <1>1 DEF Gives, Served
  <2>2. Still
    BY <1>1, <2>1 DEF Still, Answering
  <2>3. CurShape' /\ AnswerShape' /\ NoneAgain' /\ AllThere'
    BY <2>1, <2>2, StillKnown DEF CursorKnown, AllThere
  <2>4. CallShape'
    BY GivesCall DEF CursorKnown
  <2>5. \A k \in Cursors : ~KillsAt(k) /\ ~KillsAt(k)'
    BY GivesKills
  <2>6. Accounted'
    BY <2>1, <2>2, <2>5, StillSame DEF CursorKnown, Accounted
  <2> QED
    BY <2>3, <2>4, <2>6 DEF CursorKnown
<1> QED
  BY <1>1, GivesFind, GivesMore

(* A reply is read.                                                        *)
LEMMA EndedStays ==
  ASSUME Ended
  PROVE  /\ UNCHANGED <<conn, kept, docs, clean, believed, found>> /\ ~Answering'
         /\ CallShape' /\ \A k : ~KillsAt(k) /\ ~KillsAt(k)'
         /\ Answering <=> call.then \in {"find", "more"}
<1>1. /\ UNCHANGED <<conn, kept, docs, clean, believed, found>>
      /\ call'.at = "idle" /\ call'.then = ""
      /\ Link.out = <<>> /\ Link'.out = <<>> /\ Link.up /\ call.at = "read" /\ Link.in # <<>>
  BY DEF Ended, Returns, server
<1>2. Len(Link.out) = 0 /\ Len(Link'.out) = 0
  BY <1>1
<1>3. \A k : ~KillsAt(k) /\ ~KillsAt(k)'
  BY <1>2 DEF KillsAt
<1>4. CallShape'
  BY <1>1 DEF CallShape
<1> QED
  BY <1>1, <1>3, <1>4 DEF Answering, Reads

LEMMA EndedPlain ==
  ASSUME LinkInv, CursorKnown, Ended, call.then \notin {"find", "more"},
         UNCHANGED <<cur, given>>
  PROVE  CursorKnown'
<1>1. /\ UNCHANGED <<conn, kept, docs, clean, believed, found>> /\ ~Answering'
      /\ CallShape' /\ \A k : ~KillsAt(k) /\ ~KillsAt(k)'
      /\ ~Answering
  BY EndedStays
<1>2. Still
  BY <1>1 DEF Still
<1>3. CurShape' /\ AnswerShape' /\ NoneAgain' /\ AllThere'
  BY <1>1, <1>2, StillKnown DEF CursorKnown, AllThere
<1>4. Accounted'
  BY <1>1, <1>2, StillSame DEF CursorKnown, Accounted
<1> QED
  BY <1>1, <1>3, <1>4 DEF CursorKnown

LEMMA EndedFind ==
  ASSUME LinkInv, CursorKnown, Ended, call.then = "find", given' = given,
         NEW r, r = Link.in[1],
         cur' = [open |-> TRUE, id |-> r.id, batch |-> r.batch, pos |-> 0]
  PROVE  CursorKnown'
<1> DEFINE b == r.batch
<1>1. /\ UNCHANGED <<conn, kept, docs, clean, believed, found>> /\ ~Answering'
      /\ CallShape' /\ \A k : ~KillsAt(k) /\ ~KillsAt(k)'
      /\ Answering
  BY EndedStays
<1>2. conn.connected /\ b \in Seq(Ids)
  BY DEF Ended, Replies
<1>3. Ahead = Range(b) /\ Num = r.id /\ Injective(b) /\ (b = <<>> => r.id = 0)
  BY <1>1 DEF Ahead, Num, CursorKnown, AnswerShape
<1>4. /\ cur'.open /\ cur'.id = r.id /\ cur'.batch = b /\ cur'.pos = 0
  OBVIOUS
<1> HIDE DEF b
<1>5. Rest' = Range(b)
  <2>1. Rest' = {b[i] : i \in 0 + 1 .. Len(b)}
    BY <1>4 DEF Rest
  <2>2. DOMAIN b = 1 .. Len(b)
    BY <1>2
  <2> QED
    BY <2>1, <2>2 DEF Range
<1>6. Ahead' = Ahead /\ Num' = Num
  BY <1>1, <1>3, <1>4, <1>5 DEF Ahead, Num
<1>7. Behind' = Behind
  BY <1>1, <1>6 DEF Behind
<1>8. CurShape'
  <2>1. 0 =< Len(b)
    BY <1>2, LenProperties
  <2> QED
    BY <1>1, <1>2, <1>3, <1>4, <2>1 DEF CurShape
<1>9. AnswerShape'
  BY <1>1 DEF AnswerShape
<1>10. NoneAgain'
  BY <1>6, <1>7 DEF CursorKnown, NoneAgain
<1>11. AllThere'
  BY <1>1, <1>2, <1>6, <1>7 DEF CursorKnown, AllThere
<1>12. Accounted'
  BY <1>1, <1>6 DEF CursorKnown, Accounted
<1> QED
  BY <1>1, <1>8, <1>9, <1>10, <1>11, <1>12 DEF CursorKnown

LEMMA EndedMore ==
  ASSUME LinkInv, CursorKnown, Ended, call.then = "more",
         NEW r, r = Link.in[1],
         cur' = [cur EXCEPT !.id = r.id, !.batch = r.batch, !.pos = PosIn(r.batch)],
         given' = given \cup (IF r.batch = <<>> THEN {} ELSE {Head(r.batch)})
  PROVE  CursorKnown'
<1> DEFINE b == r.batch
           p == PosIn(r.batch)
<1>1. /\ UNCHANGED <<conn, kept, docs, clean, believed, found>> /\ ~Answering'
      /\ CallShape' /\ \A k : ~KillsAt(k) /\ ~KillsAt(k)'
      /\ Answering
  BY EndedStays
<1>2. conn.connected /\ b \in Seq(Ids) /\ cur \in Curs /\ cur.open
  BY DEF Ended, Replies, LinkInv, TypeOK, CursorKnown, CallShape
<1>3. Ahead = Range(b) /\ Num = r.id /\ Injective(b) /\ (b = <<>> => r.id = 0)
  BY <1>1 DEF Ahead, Num, CursorKnown, AnswerShape
<1>4. cur'.open
  BY <1>2 DEF Curs
<1>a. cur'.id = r.id
  BY <1>2 DEF Curs
<1>b. cur'.batch = b
  BY <1>2 DEF Curs
<1>c. cur'.pos = p
  BY <1>2 DEF Curs
<1>5. b # <<>> => p = 1 /\ Head(b) = b[1]
  <2>1. b # <<>> => Head(b) = b[1]
    BY <1>2, HeadTailProperties
  <2> QED
    BY <2>1 DEF PosIn
<1>6. given' = given \cup (IF b = <<>> THEN {} ELSE {b[1]})
  BY <1>5
<1>7. Len(b) \in Nat /\ DOMAIN b = 1 .. Len(b) /\ (b # <<>> => Len(b) > 0) /\ (b = <<>> => Len(b) = 0)
  BY <1>2, LenProperties, EmptySeq
<1>d. p \in Nat
  BY <1>2 DEF PosIn, Curs
<1> HIDE DEF b, p
<1>8. Ahead' = {b[i] : i \in p + 1 .. Len(b)} /\ Num' = Num
  BY <1>1, <1>3, <1>a, <1>b, <1>c DEF Ahead, Num, Rest
<1>9. Behind' = Behind
  BY <1>1, <1>8 DEF Behind
<1>10. CASE b = <<>>
  <2>1. p + 1 .. Len(b) = {}
    BY <1>7, <1>10, <1>d
  <2>2. Ahead' = {} /\ Ahead = {} /\ given' = given
    BY <1>3, <1>6, <1>7, <1>8, <1>10, <2>1 DEF Range
  <2>3. CurShape'
    BY <1>1, <1>2, <1>3, <1>4, <1>a, <1>b, <1>10 DEF CurShape
  <2>4. NoneAgain'
    BY <1>9, <2>2 DEF CursorKnown, NoneAgain
  <2>5. AllThere'
    BY <1>1, <1>2, <1>9, <2>2 DEF CursorKnown, AllThere
  <2> QED
    BY <1>1, <1>8, <2>3, <2>4, <2>5 DEF CursorKnown, AnswerShape, Accounted
<1>11. CASE b # <<>>
  <2>1. Ahead = {b[1]} \cup Ahead' /\ b[1] \notin Ahead' /\ given' = given \cup {b[1]}
    <3>1. Ahead = {b[i] : i \in 1 .. Len(b)}
      BY <1>3, <1>7 DEF Range
    <3>2. Ahead' = {b[i] : i \in 2 .. Len(b)}
      BY <1>5, <1>8, <1>11
    <3>3. 1 .. Len(b) = {1} \cup 2 .. Len(b) /\ 1 \notin 2 .. Len(b)
      BY <1>7, <1>11
    <3>4. \A i \in 2 .. Len(b) : b[i] # b[1]
      BY <1>3, <1>7, <1>11 DEF Injective
    <3> QED
      BY <1>6, <1>11, <3>1, <3>2, <3>3, <3>4
  <2>2. CurShape'
    BY <1>1, <1>2, <1>3, <1>4, <1>5, <1>7, <1>a, <1>b, <1>c, <1>11 DEF CurShape
  <2>3. NoneAgain'
    BY <1>9, <2>1 DEF CursorKnown, NoneAgain
  <2>4. AllThere'
    BY <1>1, <1>2, <1>9, <2>1 DEF CursorKnown, AllThere
  <2> QED
    BY <1>1, <1>8, <2>2, <2>3, <2>4 DEF CursorKnown, AnswerShape, Accounted
<1> QED
  BY <1>10, <1>11

(* The next document of the message at hand.                               *)
LEMMA StepCursor ==
  ASSUME LinkInv, CursorKnown, CursorStep
  PROVE  CursorKnown'
<1> DEFINE b == cur.batch
           p == cur.pos
<1>1. /\ call.at = "idle" /\ cur.open /\ b # <<>> /\ ~NeedsMore
      /\ cur' = [cur EXCEPT !.pos = @ + 1]
      /\ UNCHANGED <<conn, call, socks, kept, docs, clean, believed, found>>
  BY DEF CursorStep, server
<1>2. call = Idle /\ Link' = Link
  BY <1>1 DEF LinkInv, Turn, Link
<1>3. ~Answering /\ ~Answering' /\ CallShape'
  BY <1>1, <1>2 DEF Answering, Reads, CallShape, Idle
<1>4. b \in Seq(Ids) /\ p \in Nat /\ cur \in Curs
  BY DEF LinkInv, TypeOK, Curs
<1>5. cur'.open /\ cur'.id = cur.id
  BY <1>1, <1>4 DEF Curs
<1>6. cur'.batch = b
  BY <1>1, <1>4 DEF Curs
<1>7. cur'.pos = p + 1
  BY <1>1, <1>4 DEF Curs
<1>8. Len(b) \in Nat /\ Len(b) > 0 /\ DOMAIN b = 1 .. Len(b)
  BY <1>1, <1>4, LenProperties, EmptySeq
<1>9. p + 1 \in 1 .. Len(b)
  BY <1>1, <1>4, <1>8 DEF NeedsMore
<1>10. given' = given \cup {b[p + 1]}
  <2>1. {p + 1} \cap DOMAIN b = {p + 1}
    BY <1>8, <1>9
  <2> QED
    BY <2>1 DEF CursorStep
<1>11. Injective(b)
  BY DEF CursorKnown, CurShape
<1>12. Ahead = {b[i] : i \in p + 1 .. Len(b)} /\ Num = cur.id
  BY <1>3 DEF Ahead, Num, Rest
<1> HIDE DEF b, p
<1>13. Ahead' = {b[i] : i \in (p + 1) + 1 .. Len(b)} /\ Num' = Num
  BY <1>3, <1>5, <1>6, <1>7, <1>12 DEF Ahead, Num, Rest
<1>14. Behind' = Behind
  BY <1>1, <1>13 DEF Behind
<1>15. Ahead = {b[p + 1]} \cup Ahead' /\ b[p + 1] \notin Ahead'
  <2> DEFINE n == Len(b)
             k == p + 1
  <2>1. n \in Nat /\ k \in 1 .. n
    BY <1>8, <1>9
  <2>2. \A i, j \in 1 .. n : b[i] = b[j] => i = j
    BY <1>11 DEF Injective
  <2> HIDE DEF n, k
  <2>3. k .. n = {k} \cup k + 1 .. n /\ k \notin k + 1 .. n
    BY <2>1
  <2>4. \A i \in k + 1 .. n : i \in 1 .. n
    BY <2>1
  <2>5. \A i \in k + 1 .. n : b[i] # b[k]
    BY <2>1, <2>2, <2>3, <2>4
  <2>6. Ahead = {b[i] : i \in k .. n} /\ Ahead' = {b[i] : i \in k + 1 .. n}
    BY <1>12, <1>13 DEF k, n
  <2> QED
    BY <2>3, <2>5, <2>6 DEF k
<1>16. CurShape'
  <2>1. p + 1 =< Len(b) /\ cur.open /\ conn.connected
    BY <1>1, <1>8, <1>9 DEF CursorKnown, CurShape
  <2> QED
    BY <1>1, <1>5, <1>6, <1>7, <1>11, <2>1 DEF CurShape
<1>17. NoneAgain'
  BY <1>10, <1>14, <1>15 DEF CursorKnown, NoneAgain
<1>18. AllThere'
  BY <1>1, <1>3, <1>5, <1>10, <1>14, <1>15 DEF CursorKnown, AllThere
<1>19. Accounted'
  <2>1. \A k \in Cursors : KillsAt(k)' <=> KillsAt(k)
    BY <1>2 DEF KillsAt
  <2> QED
    BY <1>1, <1>13, <2>1 DEF CursorKnown, Accounted
<1> QED
  BY <1>3, <1>16, <1>17, <1>18, <1>19 DEF CursorKnown, AnswerShape

(* No cursor is open and no reply comes for one.                           *)
LEMMA NoCursorNow ==
  ASSUME cur' = NoCur, given' = {}, ~Answering'
  PROVE  CurShape' /\ AnswerShape' /\ NoneAgain' /\ Num' = 0 /\ ~cur'.open
<1>1. /\ cur'.open = FALSE /\ cur'.id = 0 /\ cur'.batch = <<>> /\ cur'.pos = 0
  BY DEF NoCur
<1>2. NoCur' = NoCur
  BY DEF NoCur
<1>3. Len(cur'.batch) = 0
  BY <1>1
<1>4. Rest' = {}
  <2>1. cur'.pos + 1 .. Len(cur'.batch) = {}
    BY <1>1, <1>3
  <2> QED
    BY <2>1 DEF Rest
<1>5. Ahead' = {} /\ Num' = 0
  BY <1>1, <1>4 DEF Ahead, Num
<1>6. Behind' = {}
  BY <1>5 DEF Behind
<1>7. NoneAgain'
  BY <1>5, <1>6 DEF NoneAgain
<1>8. CurShape'
  BY <1>1, <1>2, <1>3 DEF CurShape, Injective
<1> QED
  BY <1>1, <1>5, <1>7, <1>8 DEF AnswerShape

LEMMA ConnectingCursor ==
  ASSUME LinkInv, CursorKnown, Connecting
  PROVE  CursorKnown'
<1>1. /\ call'.then \notin {"find", "more"} /\ cur = NoCur /\ cur' = cur
      /\ UNCHANGED <<kept, docs, found, given>>
      /\ clean' => \A v \in Servers, k \in Cursors : kept[v][k] = {}
  BY DEF Connecting, server
<1>2. given' = {}
  BY <1>1 DEF CursorKnown, CurShape, NoCur
<1>3. ~Answering' /\ CallShape'
  BY <1>1 DEF Answering, CallShape
<1>4. CurShape' /\ AnswerShape' /\ NoneAgain' /\ Num' = 0 /\ ~cur'.open
  BY <1>1, <1>2, <1>3, NoCursorNow
<1>5. AllThere'
  BY <1>1, <1>3, <1>4 DEF CursorKnown, AllThere
<1>6. Accounted'
  <2>1. conn'.connected => conn'.left \in Servers
    BY DEF Connecting, JustMade, Current
  <2> QED
    BY <1>1, <1>4, <2>1 DEF Accounted
<1> QED
  BY <1>3, <1>4, <1>5, <1>6 DEF CursorKnown

LEMMA DestroySaid ==
  ASSUME LinkInv, CursorKnown, CursorDestroy
  PROVE  /\ Said(Kills) /\ Kills \in Seq(Msgs) /\ call' = Idle /\ conn.connected
         /\ cur.id # 0 => \E m \in Msgs : /\ Kills = <<m>> /\ m.op = "kill_cursors"
                                         /\ m.arg = cur.id
         /\ cur.id = 0 => Kills = <<>>
<1>1. /\ call.at = "idle" /\ cur.open /\ UNCHANGED <<conn, call, docs, kept, clean>>
  BY DEF CursorDestroy, server
<1>2. conn.connected /\ Ready /\ call' = Idle
  BY <1>1 DEF CursorKnown, CurShape, Ready, LinkInv, Turn
<1>3. socks' = Sent(socks, conn.sock, Kills)
  BY <1>2 DEF CursorDestroy
<1>4. ASSUME cur.id # 0
      PROVE  \E m \in Msgs : /\ Kills = <<m>> /\ m.op = "kill_cursors" /\ m.arg = cur.id
  <2> DEFINE m == Msg("kill_cursors", cur.id)
  <2>1. m = [op |-> "kill_cursors", arg |-> cur.id, to |-> ticket]
    BY DEF Msg
  <2>2. cur.id \in Cursors /\ ticket \in Ticket
    BY <1>4 DEF LinkInv, TypeOK, Curs
  <2> HIDE DEF m
  <2>3. m \in Msgs
    BY <2>1, <2>2 DEF Msgs
  <2>4. Kills = <<m>>
    BY <1>4 DEF Kills, m
  <2> QED
    BY <2>1, <2>3, <2>4
<1>5. cur.id = 0 => Kills = <<>>
  BY DEF Kills
<1>6. Kills \in Seq(Msgs)
  <2>1. \A m \in Msgs : <<m>> \in Seq(Msgs)
    OBVIOUS
  <2>2. <<>> \in Seq(Msgs)
    OBVIOUS
  <2> QED
    BY <1>4, <1>5, <2>1, <2>2
<1>7. Said(Kills)
  BY <1>1, <1>2, <1>3, <1>6, SendSaid
<1> QED
  BY <1>2, <1>4, <1>5, <1>6, <1>7

LEMMA DestroyWrites ==
  ASSUME LinkInv, WritesKnown, CursorKnown, CursorDestroy
  PROVE  WritesKnown'
<1>1. Said(Kills) /\ call' = Idle
  BY DestroySaid
<1>2. believed' = believed
  BY DEF CursorDestroy
<1>3. CleanUp' /\ Believed'
  <2>1. CASE cur.id = 0
    BY <1>1, <1>2, <2>1, DestroySaid, SaidNothing DEF WritesKnown
  <2>2. CASE cur.id # 0
    <3>1. PICK m \in Msgs : Kills = <<m>> /\ m.op = "kill_cursors"
      BY <2>2, DestroySaid
    <3>2. Effect(believed, m) = believed
      BY <3>1 DEF Effect
    <3> QED
      BY <1>1, <1>2, <3>1, <3>2, SaidOne DEF WritesKnown
  <2> QED
    BY <2>1, <2>2
<1>4. call'.then # "save"
  BY <1>1 DEF Idle
<1>5. Counted' /\ SaveKnown'
  BY <1>1, <1>4, SaidCall
<1> QED
  BY <1>3, <1>5 DEF WritesKnown

LEMMA DestroyCursor ==
  ASSUME LinkInv, WritesKnown, CursorKnown, CursorDestroy
  PROVE  CursorKnown'
<1>1. Said(Kills) /\ call' = Idle /\ Kills \in Seq(Msgs)
  BY DestroySaid
<1>2. /\ cur.open /\ cur' = NoCur /\ found' = {} /\ given' = {} /\ call.at = "idle"
      /\ UNCHANGED <<conn, kept, clean>>
  BY DEF CursorDestroy, server
<1>3. ~Answering' /\ CallShape'
  BY <1>1 DEF Answering, CallShape, Idle, Reads
<1>4. CurShape' /\ AnswerShape' /\ NoneAgain' /\ Num' = 0 /\ ~cur'.open
  BY <1>2, <1>3, NoCursorNow
<1>5. AllThere'
  BY <1>2 DEF AllThere, NoCur
<1>6. Num = cur.id
  BY <1>2 DEF Num, Answering, Reads
<1>7. ASSUME clean, conn.connected, NEW k \in Cursors, kept[conn.left][k] # {}
      PROVE  KillsAt(k)'
  <2> DEFINE q == Link.out
             ms == Kills
  <2>1. Link.up /\ q \in Seq(Msgs) /\ ms \in Seq(Msgs) /\ Link'.out = q \o ms
    BY <1>1, <1>7 DEF Said, WritesKnown, CleanUp
  <2>2. k = cur.id \/ KillsAt(k)
    BY <1>6, <1>7 DEF CursorKnown, Accounted
  <2>3. k # 0
    BY DEF Cursors
  <2>4. k = cur.id => Len(ms) = 1 /\ ms[1].op = "kill_cursors" /\ ms[1].arg = k
    BY <2>3, DestroySaid
  <2> DEFINE n == Len(q)
             w == q \o ms
  <2> HIDE DEF q, ms
  <2>5. n \in Nat /\ Len(ms) \in Nat
    BY <2>1, LenProperties
  <2>6. /\ Len(w) = n + Len(ms)
        /\ \A i \in 1 .. n + Len(ms) : w[i] = IF i =< n THEN q[i] ELSE ms[i - n]
    BY <2>1, ConcatProperties
  <2> HIDE DEF n, w
  <2>7. ASSUME k = cur.id
        PROVE  \E i \in 1 .. Len(w) : w[i].op = "kill_cursors" /\ w[i].arg = k
    <3>1. Len(ms) = 1 /\ ms[1].op = "kill_cursors" /\ ms[1].arg = k
      BY <2>4, <2>7
    <3>2. n + 1 \in 1 .. n + Len(ms) /\ ~(n + 1 =< n) /\ (n + 1) - n = 1
      BY <2>5, <3>1
    <3>3. w[n + 1] = ms[1]
      BY <2>6, <3>2
    <3> QED
      BY <2>6, <3>1, <3>2, <3>3
  <2>8. ASSUME KillsAt(k)
        PROVE  \E i \in 1 .. Len(w) : w[i].op = "kill_cursors" /\ w[i].arg = k
    <3>1. PICK i \in 1 .. n : q[i].op = "kill_cursors" /\ q[i].arg = k
      BY <2>8 DEF KillsAt, q, n
    <3>2. i \in 1 .. n + Len(ms) /\ i =< n
      BY <2>5
    <3>3. w[i] = q[i]
      BY <2>6, <3>2
    <3> QED
      BY <2>6, <3>1, <3>2, <3>3
  <2> QED
    BY <2>1, <2>2, <2>7, <2>8 DEF KillsAt, w
<1>8. Accounted'
  BY <1>2, <1>4, <1>7 DEF Accounted
<1> QED
  BY <1>3, <1>4, <1>5, <1>8 DEF CursorKnown

(* Steps that leave the cursor, its server and its messages alone.         *)
LEMMA OtherCursor ==
  ASSUME CursorKnown, Link' = Link, UNCHANGED <<conn, call, cur, kept, docs, found, given>>,
         clean' => clean
  PROVE  CursorKnown'
<1>1. Reads' = Reads /\ Answering' = Answering /\ Rest' = Rest /\ NeedsMore' = NeedsMore
  BY DEF Reads, Answering, Rest, NeedsMore
<1>2. Ahead' = Ahead /\ Num' = Num
  BY <1>1 DEF Ahead, Num
<1>3. Behind' = Behind
  BY <1>2 DEF Behind
<1>4. \A k \in Cursors : KillsAt(k)' <=> KillsAt(k)
  BY DEF KillsAt
<1>5. CurShape' /\ CallShape' /\ AnswerShape'
  BY <1>1 DEF CursorKnown, CurShape, CallShape, AnswerShape
<1>6. NoneAgain' /\ AllThere' /\ Accounted'
  BY <1>1, <1>2, <1>3, <1>4 DEF CursorKnown, NoneAgain, AllThere, Accounted
<1> QED
  BY <1>5, <1>6 DEF CursorKnown

LEMMA HangCursor ==
  ASSUME LinkInv, WritesKnown, CursorKnown, LoopHangs
  PROVE  CursorKnown'
<1>1. /\ UNCHANGED <<conn, cur, kept, docs, found, given, clean>> /\ Link' = Link
      /\ conn.connected /\ ~Link.up
  BY DEF LoopHangs, server, history, Link
<1>2. call'.then = call.then
  BY DEF LoopHangs, LinkInv, TypeOK, Calls
<1>3. ~Reads /\ ~Reads'
  BY <1>1 DEF Reads
<1>4. Still
  BY <1>1, <1>3 DEF Still, Answering
<1>5. ~clean
  BY <1>1 DEF WritesKnown, CleanUp
<1>6. CurShape' /\ AnswerShape' /\ NoneAgain' /\ AllThere'
  BY <1>1, <1>4, StillKnown DEF CursorKnown, AllThere
<1>7. NeedsMore' = NeedsMore
  BY <1>1 DEF NeedsMore
<1>8. CallShape' /\ Accounted'
  BY <1>1, <1>2, <1>3, <1>5, <1>7 DEF CursorKnown, CallShape, Accounted
<1> QED
  BY <1>6, <1>8 DEF CursorKnown

(* After a fault only what was handed out counts, and less is left.        *)
LEMMA LessCursor ==
  ASSUME CursorKnown, ~clean', UNCHANGED <<conn, call, cur, docs, found, given>>,
         Reads' => Link' = Link,
         Ahead' = Ahead \/ Ahead' = {}, Behind' \subseteq Behind
  PROVE  CursorKnown'
<1>1. Reads' => Link' = Link /\ Reads
  BY DEF Reads
<1>2. NeedsMore' = NeedsMore
  BY DEF NeedsMore
<1>3. CurShape' /\ CallShape' /\ AnswerShape'
  BY <1>1, <1>2 DEF CursorKnown, CurShape, CallShape, AnswerShape, Answering
<1>4. NoneAgain' /\ AllThere' /\ Accounted'
  BY DEF CursorKnown, NoneAgain, AllThere, Accounted
<1> QED
  BY <1>3, <1>4 DEF CursorKnown

(* The cursor at hand is one of the server the connection goes to.         *)
LEMMA CursorServer ==
  ASSUME LinkInv, CursorKnown, cur.id # 0 \/ Reads
  PROVE  conn.connected /\ conn.left \in Servers /\ conn.sock \in Socks
<1>1. conn.connected
  BY DEF CursorKnown, CurShape, NoCur, Reads, LinkInv, Turn
<1> QED
  BY <1>1 DEF LinkInv, Current

(* Servers forget cursors, and nothing else.                               *)
LEMMA ForgetCursor ==
  ASSUME LinkInv, CursorKnown, ~clean', UNCHANGED <<conn, call, cur, socks, docs, found, given>>,
         \A v \in Servers, k \in Cursors : kept'[v][k] \subseteq kept[v][k]
  PROVE  CursorKnown'
<1>1. Link' = Link
  BY DEF Link
<1>2. Rest' = Rest /\ Answering' = Answering
  BY <1>1 DEF Rest, Answering, Reads
<1>3. Ahead' = Ahead /\ Num' = Num
  BY <1>1, <1>2 DEF Ahead, Num
<1>4. Behind' \subseteq Behind
  <2>1. Num # 0 => conn.left \in Servers /\ Num \in Cursors
    <3>1. Num # 0 => cur.id # 0 \/ Reads
      BY DEF Num, Answering
    <3>2. Num # 0 => conn.left \in Servers /\ conn.sock \in Socks
      BY <3>1, CursorServer
    <3>3. Answering => Num \in {0} \cup Cursors
      <4> SUFFICES ASSUME Answering
                   PROVE  Link.in[1].id \in {0} \cup Cursors
        BY DEF Num
      <4>1. conn.sock \in Socks /\ Link.in # <<>>
        BY CursorServer DEF Answering
      <4>2. Link.in \in Seq(Replies)
        BY <4>1 DEF LinkInv, TypeOK, SockRecords, Link
      <4> DEFINE q == Link.in
      <4> HIDE DEF q
      <4>3. q[1] \in Replies
        <5>1. q \in Seq(Replies) /\ q # <<>>
          BY <4>1, <4>2 DEF q
        <5>2. Len(q) > 0
          BY <5>1, EmptySeq
        <5> QED
          BY <5>1, <5>2
      <4> QED
        BY <4>3 DEF Replies, q
    <3>4. ~Answering => Num \in {0} \cup Cursors
      BY DEF Num, LinkInv, TypeOK, Curs
    <3> QED
      BY <3>2, <3>3, <3>4
  <2> QED
    BY <1>3, <2>1 DEF Behind
<1> QED
  BY <1>1, <1>3, <1>4, LessCursor

(* A server is gone, and all that was on its way to it or from it.         *)
Crash(v) ==
  /\ v \in up /\ ~clean' /\ UNCHANGED <<conn, call, cur, docs, believed, found, given>>
  /\ socks' = [s \in Socks |->
       IF socks[s].peer = v
       THEN [socks[s] EXCEPT !.up = FALSE, !.out = <<>>, !.in = <<>>]
       ELSE socks[s]]
  /\ kept' = [kept EXCEPT ![v] = [k \in Cursors |-> {}]]

LEMMA CrashLink ==
  ASSUME LinkInv, NEW v, Crash(v), conn.connected
  PROVE  Link' = Link \/ (~Link'.up /\ conn.left = v)
<1>1. conn.sock \in Socks /\ Link.peer = conn.left /\ Link \in SockRecords
  BY DEF LinkInv, Current, Link, TypeOK
<1>2. Link' = IF Link.peer = v THEN Crashed(Link) ELSE Link
  BY <1>1 DEF Crash, Crashed, Link
<1> QED
  BY <1>1, <1>2, CrashSet DEF SameEnd

LEMMA CrashReads ==
  ASSUME LinkInv, NEW v, Crash(v), Reads'
  PROVE  Link' = Link
<1>1. conn.connected
  BY DEF Reads, Crash, LinkInv, Turn
<1> QED
  BY <1>1, CrashLink DEF Reads

LEMMA CrashCursor ==
  ASSUME LinkInv, CursorKnown, NEW v, Crash(v)
  PROVE  CursorKnown'
<1>1. /\ ~clean' /\ UNCHANGED <<conn, call, cur, docs, found, given>>
      /\ kept' = [kept EXCEPT ![v] = [k \in Cursors |-> {}]]
      /\ v \in Servers /\ kept \in [Servers -> [Cursors -> SUBSET Ids]]
      /\ cur.id \in {0} \cup Cursors
  BY DEF Crash, LinkInv, TypeOK, Curs
<1>2. Reads' => Link' = Link
  BY CrashReads
<1>3. Rest' = Rest
  BY <1>1 DEF Rest
<1>4. \A w \in Servers, k \in Cursors :
        kept'[w][k] \subseteq kept[w][k] /\ (w = v => kept'[w][k] = {})
  BY <1>1
<1>5. CASE Answering'
  <2>1. Link' = Link /\ Answering
    BY <1>1, <1>2, <1>5 DEF Answering, Reads
  <2>2. Ahead' = Ahead /\ Num' = Num /\ Num = Link.in[1].id
    BY <1>5, <2>1 DEF Ahead, Num
  <2>3. conn.left \in Servers /\ conn.sock \in Socks
    BY <2>1, CursorServer DEF Answering
  <2>4. Num \in {0} \cup Cursors
    <3>1. Link.in \in Seq(Replies) /\ Link.in # <<>>
      BY <2>1, <2>3 DEF LinkInv, TypeOK, SockRecords, Link, Answering
    <3> DEFINE q == Link.in
    <3>2. q \in Seq(Replies) /\ q # <<>>
      BY <3>1
    <3> HIDE DEF q
    <3>3. Len(q) > 0
      BY <3>2, EmptySeq
    <3>4. q[1] \in Replies
      BY <3>2, <3>3
    <3> QED
      BY <2>2, <3>4 DEF Replies, q
  <2>5. Behind' \subseteq Behind
    BY <1>1, <1>4, <2>2, <2>3, <2>4 DEF Behind
  <2> QED
    BY <1>1, <1>2, <2>2, <2>5, LessCursor
<1>6. CASE ~Answering' /\ ~Answering
  <2>1. Ahead' = Ahead /\ Num' = Num /\ Num = cur.id
    BY <1>1, <1>3, <1>6 DEF Ahead, Num
  <2>2. cur.id # 0 => conn.left \in Servers
    BY CursorServer
  <2>3. Behind' \subseteq Behind
    BY <1>1, <1>4, <2>1, <2>2 DEF Behind
  <2> QED
    BY <1>1, <1>2, <2>1, <2>3, LessCursor
<1>7. CASE ~Answering' /\ Answering
  <2>1. conn.connected /\ conn.left \in Servers
    BY <1>7, CursorServer DEF Answering
  <2>2. conn.left = v
    <3>1. Link' # Link
      BY <1>1, <1>7 DEF Answering, Reads
    <3> QED
      BY <2>1, <3>1, CrashLink
  <2>3. Num' = cur.id /\ Ahead' = Rest
    BY <1>1, <1>3, <1>7 DEF Num, Ahead
  <2>4. Behind' = {}
    BY <1>1, <1>4, <2>1, <2>2, <2>3 DEF Behind
  <2>5. Rest = {}
    <3>1. cur.pos + 1 .. Len(cur.batch) = {}
      <4>1. CASE call.then = "find"
        <5>1. cur.batch = <<>> /\ cur.pos = 0
          BY <4>1 DEF CursorKnown, CallShape, CurShape, NoCur
        <5>2. Len(cur.batch) = 0
          BY <5>1
        <5> QED
          BY <5>1, <5>2
      <4>2. CASE call.then = "more"
        <5>1. cur.pos >= Len(cur.batch)
          BY <4>2 DEF CursorKnown, CallShape, NeedsMore
        <5>2. cur.pos \in Nat /\ Len(cur.batch) \in Nat
          BY DEF LinkInv, TypeOK, Curs
        <5> QED
          BY <5>1, <5>2
      <4> QED
        BY <1>7, <4>1, <4>2 DEF Answering
    <3> QED
      BY <3>1 DEF Rest
  <2> QED
    BY <1>1, <1>2, <2>3, <2>4, <2>5, LessCursor
<1> QED
  BY <1>5, <1>6, <1>7

LEMMA FaultKnown ==
  ASSUME LinkInv, WritesKnown, CursorKnown, Fault
  PROVE  WritesKnown' /\ CursorKnown'
<1>1. ~clean' /\ UNCHANGED <<conn, call, cur, docs, believed, found, given>>
  BY DEF Fault, client
<1>2. ASSUME NEW v, Crash(v)
      PROVE  WritesKnown' /\ CursorKnown'
  <2>1. Reads' => Link' = Link
    BY <1>2, CrashReads
  <2>2. WritesKnown'
    BY <1>1, <2>1, OtherWrites
  <2> QED
    BY <1>2, <2>2, CrashCursor
<1>3. ASSUME UNCHANGED socks, kept' = kept
      PROVE  WritesKnown' /\ CursorKnown'
  <2>1. Link' = Link
    BY <1>1, <1>3 DEF Link
  <2> QED
    BY <1>1, <1>3, <2>1, OtherWrites, OtherCursor
<1>4. ASSUME NEW v \in Servers, NEW k \in Cursors, kept' = [kept EXCEPT ![v][k] = {}],
             UNCHANGED socks
      PROVE  WritesKnown' /\ CursorKnown'
  <2>1. Link' = Link
    BY <1>1, <1>4 DEF Link
  <2>2. kept \in [Servers -> [Cursors -> SUBSET Ids]]
    BY DEF LinkInv, TypeOK
  <2>3. \A w \in Servers, j \in Cursors : kept'[w][j] \subseteq kept[w][j]
    BY <1>4, <2>2
  <2>4. CursorKnown'
    BY <1>1, <1>4, <2>3, ForgetCursor
  <2> QED
    BY <1>1, <2>1, <2>4, OtherWrites
<1>5. ASSUME NEW v \in up,
             socks' = [s \in Socks |->
               IF socks[s].peer = v
               THEN [socks[s] EXCEPT !.up = FALSE, !.out = <<>>, !.in = <<>>]
               ELSE socks[s]],
             kept' = [kept EXCEPT ![v] = [k \in Cursors |-> {}]]
      PROVE  Crash(v)
  BY <1>1, <1>5 DEF Crash
<1> QED
  BY <1>2, <1>3, <1>4, <1>5 DEF Fault

-----------------------------------------------------------------------------
(* Every step keeps all of it.                                             *)

DataInv == LinkInv /\ WritesKnown /\ CursorKnown

LEMMA IdleThen == LinkInv /\ Ready => call.then = ""
<1>1. LinkInv /\ Ready => call = Idle
  BY DEF Ready, LinkInv, Turn
<1>2. Idle.then = ""
  BY DEF Idle
<1> QED
  BY <1>1, <1>2

LEMMA WriteKnown ==
  ASSUME DataInv, NEW m \in Msgs, NEW b, m.op \in {"insert", "update", "delete"},
         Write(m, b), b = Effect(believed, m)
  PROVE  WritesKnown' /\ CursorKnown'
<1> DEFINE ms == <<m>>
<1>1. /\ Ready /\ socks' = Sent(socks, conn.sock, ms)
      /\ UNCHANGED <<conn, call, cur, docs, kept, clean, found, given>>
      /\ Link.up => believed' = b
  BY DEF Write, client, server, Link
<1>2. ms \in Seq(Msgs) /\ Len(ms) = 1 /\ ms[1] = m
  OBVIOUS
<1>3. ms = <<m>>
  OBVIOUS
<1> HIDE DEF ms
<1>4. LinkInv /\ Said(ms)
  BY <1>1, <1>2, SendSaid DEF DataInv
<1>5. call.then = "" /\ call'.then = ""
  BY <1>1, <1>4, IdleThen
<1>6. CleanUp /\ Believed /\ CursorKnown
  BY DEF DataInv, WritesKnown
<1>7. CleanUp' /\ Believed'
  BY <1>1, <1>3, <1>4, <1>6, SaidOne
<1>8. Counted' /\ SaveKnown'
  BY <1>4, <1>5, SaidCall
<1>9. CursorKnown'
  <2>1. \A i \in 1 .. Len(ms) : ms[i].op # "kill_cursors"
    BY <1>2
  <2> QED
    BY <1>1, <1>4, <1>5, <1>6, <2>1, SaidWrite
<1> QED
  BY <1>7, <1>8, <1>9 DEF WritesKnown

LEMMA WritesCallsKnown ==
  ASSUME DataInv
  PROVE  /\ \A d \in Ids : MongoUpdate(d) \/ MongoRemove(d) => WritesKnown' /\ CursorKnown'
         /\ \A d, e \in Ids : MongoInsertBatch(<<d, e>>) => WritesKnown' /\ CursorKnown'
<1>1. LinkInv
  BY DEF DataInv
<1>2. ASSUME NEW d \in Ids, MongoUpdate(d)
      PROVE  WritesKnown' /\ CursorKnown'
  <2> DEFINE m == Msg("update", d)
             b == believed \cup {d}
  <2>1. m \in Msgs /\ m.op = "update" /\ m.arg = d
    BY <1>1, PlainMsgs
  <2>2. Write(m, b)
    BY <1>2 DEF MongoUpdate
  <2> HIDE DEF m
  <2>3. b = Effect(believed, m)
    BY <2>1 DEF Effect
  <2> HIDE DEF b
  <2> QED
    BY <2>1, <2>2, <2>3, WriteKnown
<1>3. ASSUME NEW d \in Ids, MongoRemove(d)
      PROVE  WritesKnown' /\ CursorKnown'
  <2> DEFINE m == Msg("delete", d)
             b == believed \ {d}
  <2>1. m \in Msgs /\ m.op = "delete" /\ m.arg = d
    BY <1>1, PlainMsgs
  <2>2. Write(m, b)
    BY <1>3 DEF MongoRemove
  <2> HIDE DEF m
  <2>3. b = Effect(believed, m)
    BY <2>1 DEF Effect
  <2> HIDE DEF b
  <2> QED
    BY <2>1, <2>2, <2>3, WriteKnown
<1>4. ASSUME NEW d \in Ids, NEW e \in Ids, MongoInsertBatch(<<d, e>>)
      PROVE  WritesKnown' /\ CursorKnown'
  <2> DEFINE q == <<d, e>>
             m == InsertMsg(q)
             b == InsertedBy(believed, q).docs
  <2>1. m \in Msgs /\ m.op = "insert" /\ m.arg = q
    BY <1>1, PlainMsgs
  <2>2. Write(m, b)
    BY <1>4 DEF MongoInsertBatch
  <2> HIDE DEF m, q
  <2>3. b = Effect(believed, m)
    BY <2>1 DEF Effect
  <2> HIDE DEF b
  <2> QED
    BY <2>1, <2>2, <2>3, WriteKnown
<1> QED
  BY <1>2, <1>3, <1>4

(* A request, but a save's.                                                *)
LEMMA AskKnown ==
  ASSUME DataInv, Ready, NEW m \in Msgs, NEW ms, ms = <<m>>, NEW then, then # "save",
         m.op \in Asking, Ask(ms, then, 0), UNCHANGED <<cur, believed>>,
         Said(ms) => CallShape'
  PROVE  WritesKnown' /\ CursorKnown'
<1>1. ms \in Seq(Msgs) /\ Len(ms) = 1 /\ ms[1] = m
  OBVIOUS
<1>2. LinkInv /\ CleanUp /\ Believed /\ CursorKnown
  BY DEF DataInv, WritesKnown
<1> DEFINE z == 0
<1>3. Ask(ms, then, z)
  OBVIOUS
<1> HIDE DEF z
<1>4. Said(ms) /\ call'.then = then /\ UNCHANGED <<found, given>>
  BY <1>1, <1>2, <1>3, AskSaid
<1>5. m.op # "kill_cursors" /\ m.op \notin {"insert", "update", "delete"}
  BY DEF Asking
<1>6. believed = Effect(believed, m)
  BY <1>5 DEF Effect
<1>7. CleanUp' /\ Believed'
  BY <1>2, <1>4, <1>6, SaidOne
<1>8. Counted' /\ SaveKnown'
  BY <1>2, <1>4, SaidCall
<1>9. CursorKnown'
  <2>1. \A i \in 1 .. Len(ms) : ms[i].op # "kill_cursors"
    BY <1>1, <1>5
  <2>2. call.at # "read"
    BY DEF Ready
  <2> QED
    BY <1>2, <1>4, <2>1, <2>2, SaidCursor
<1> QED
  BY <1>7, <1>8, <1>9 DEF WritesKnown

LEMMA AsksKnown ==
  ASSUME DataInv
  PROVE  /\ \A n \in 0 .. 2 : MongoFind(n) => WritesKnown' /\ CursorKnown'
         /\ \A name \in {"getlasterror", "count"} :
              RunCommand(name) => WritesKnown' /\ CursorKnown'
         /\ CursorGetMore => WritesKnown' /\ CursorKnown'
<1>1. LinkInv /\ ticket \in Ticket /\ cur \in Curs
  BY DEF DataInv, LinkInv, TypeOK
<1>2. ASSUME NEW n \in 0 .. 2, MongoFind(n)
      PROVE  WritesKnown' /\ CursorKnown'
  <2> DEFINE m == Request("query", n)
             ms == <<m>>
  <2>1. m = [op |-> "query", arg |-> n, to |-> 1 - ticket] /\ 1 - ticket \in Ticket
    BY <1>1, RequestIs
  <2>2. Ready /\ ~cur.open /\ Ask(ms, "find", 0) /\ UNCHANGED <<cur, believed>>
    BY <1>2 DEF MongoFind
  <2> HIDE DEF m
  <2>3. m \in Msgs /\ m.op \in Asking
    BY <2>1 DEF Msgs, Asking
  <2>4. call'.then = "find"
    BY <2>2 DEF Ask, Asked
  <2>5. CallShape'
    BY <2>2, <2>4 DEF CallShape
  <2>6. ms = <<m>>
    OBVIOUS
  <2> HIDE DEF ms
  <2> QED
    BY <2>2, <2>3, <2>5, <2>6, AskKnown
<1>3. ASSUME NEW name \in {"getlasterror", "count"}, RunCommand(name)
      PROVE  WritesKnown' /\ CursorKnown'
  <2> DEFINE m == Request(name, 0)
             ms == <<m>>
  <2>1. m = [op |-> name, arg |-> 0, to |-> 1 - ticket] /\ 1 - ticket \in Ticket
    BY <1>1, RequestIs
  <2>2. Ready /\ Ask(ms, name, 0) /\ UNCHANGED <<cur, believed>>
    BY <1>3 DEF RunCommand
  <2> HIDE DEF m
  <2>3. m \in Msgs /\ m.op \in Asking
    BY <2>1 DEF Msgs, Asking
  <2>4. call'.then = name
    BY <2>2 DEF Ask, Asked
  <2>5. CallShape'
    BY <2>4, PlainCall
  <2>6. ms = <<m>>
    OBVIOUS
  <2> HIDE DEF ms
  <2> QED
    BY <2>2, <2>3, <2>5, <2>6, AskKnown
<1>4. ASSUME CursorGetMore
      PROVE  WritesKnown' /\ CursorKnown'
  <2> DEFINE m == GetMoreMsg
             ms == <<m>>
  <2>1. m = [op |-> "get_more", arg |-> cur.id, to |-> 1 - ticket] /\ 1 - ticket \in Ticket
    BY <1>1, RequestIs DEF GetMoreMsg
  <2>2. /\ Ready /\ Ask(ms, "more", 0) /\ UNCHANGED <<cur, believed>>
        /\ cur.open /\ cur.batch # <<>> /\ NeedsMore /\ cur.id # 0
    BY <1>4 DEF CursorGetMore
  <2> HIDE DEF m
  <2>3. m \in Msgs /\ m.op \in Asking /\ m.arg = cur.id
    BY <1>1, <2>1, <2>2 DEF Msgs, Asking, Curs
  <2>4. call'.then = "more"
    BY <2>2 DEF Ask, Asked
  <2>5. ms = <<m>>
    OBVIOUS
  <2> HIDE DEF ms
  <2>6. Said(ms) => CallShape'
    BY <2>2, <2>3, <2>4, <2>5, MoreCall
  <2> QED
    BY <2>2, <2>3, <2>5, <2>6, AskKnown
<1> QED
  BY <1>2, <1>3, <1>4

(* A turn of the loop that saves a document.                               *)
LEMMA InsertsKnown ==
  ASSUME DataInv, NEW d \in Ids, Said(Inserts(d)), Believes(d),
         call'.then = "save", call'.doc = d, UNCHANGED <<cur, found, given>>,
         call.then \notin {"find", "more"}
  PROVE  WritesKnown' /\ CursorKnown'
<1>1. LinkInv /\ CleanUp /\ Believed /\ CursorKnown
  BY DEF DataInv, WritesKnown
<1>2. CleanUp' /\ Believed'
  BY <1>1, SaidInserts
<1>3. Counted' /\ SaveKnown'
  BY <1>1, SaidCall
<1> DEFINE ms == Inserts(d)
<1>4. \A i \in 1 .. Len(ms) : ms[i].op # "kill_cursors"
  <2>1. ms[1] = InsertMsg(<<d>>) /\ ms[2] = Request("getlasterror", 0) /\ Len(ms) = 2
    BY DEF Inserts
  <2>2. ms[1].op = "insert" /\ ms[2].op = "getlasterror"
    <3>1. ticket \in Ticket
      BY <1>1 DEF LinkInv, TypeOK
    <3>2. Request("getlasterror", 0) = [op |-> "getlasterror", arg |-> 0, to |-> 1 - ticket]
      BY <3>1, RequestIs
    <3> QED
      BY <1>1, <2>1, <3>2, PlainMsgs
  <2> HIDE DEF ms
  <2>3. \A i \in 1 .. Len(ms) : i = 1 \/ i = 2
    BY <2>1
  <2> QED
    BY <2>2, <2>3
<1>5. CursorKnown'
  BY <1>1, <1>4, SaidWrite
<1> QED
  BY <1>2, <1>3, <1>5 DEF WritesKnown

LEMMA SaveIsKnown ==
  ASSUME DataInv, NEW d \in Ids, Save(d)
  PROVE  WritesKnown' /\ CursorKnown'
<1>1. LinkInv /\ Ready /\ Ask(Inserts(d), "save", d) /\ Believes(d) /\ UNCHANGED cur
  BY DEF DataInv, Save
<1>2. Inserts(d) \in Seq(Msgs)
  BY <1>1, SaveAsks
<1>3. /\ Said(Inserts(d)) /\ call'.then = "save" /\ call'.doc = d
      /\ UNCHANGED <<found, given>>
  BY <1>1, <1>2, AskSaid
<1>4. call.then = ""
  BY <1>1, IdleThen
<1> QED
  BY <1>1, <1>3, <1>4, InsertsKnown

LEMMA RepliesKnown ==
  ASSUME DataInv, MongoReadResponse
  PROVE  WritesKnown' /\ CursorKnown'
<1> DEFINE r == Head(Link.in)
<1>1. LinkInv /\ WritesKnown /\ CursorKnown /\ ReadReply(r)
  BY DEF DataInv, MongoReadResponse, Link
<1>2. r = Link.in[1]
  BY <1>1, ToRead
<1>3. Returns => Ended
  BY <1>1, ReturnsEnded
<1>4. Returns => WritesKnown'
  BY <1>1, <1>3, EndedWrites
<1> HIDE DEF r
<1>5. CASE Returns /\ UNCHANGED <<cur, given>> /\ call.then \notin {"find", "more"}
  BY <1>1, <1>3, <1>4, <1>5, EndedPlain
<1>6. ASSUME Returns, call.then = "find", given' = given,
             cur' = [open |-> TRUE, id |-> r.id, batch |-> r.batch, pos |-> 0]
      PROVE  WritesKnown' /\ CursorKnown'
  BY <1>1, <1>2, <1>3, <1>4, <1>6, EndedFind
<1>7. ASSUME Returns, call.then = "more",
             cur' = [cur EXCEPT !.id = r.id, !.batch = r.batch, !.pos = PosIn(r.batch)],
             given' = given \cup (IF r.batch = <<>> THEN {} ELSE {Head(r.batch)})
      PROVE  WritesKnown' /\ CursorKnown'
  BY <1>1, <1>2, <1>3, <1>4, <1>7, EndedMore
<1>8. ASSUME NEW d \in Ids, Asked(conn, Popped, conn.sock, Inserts(d), "save", d),
             Believes(d), call.then = "save",
             UNCHANGED <<cur, server, faults, clean, found, given>>
      PROVE  WritesKnown' /\ CursorKnown'
  BY <1>1, <1>8, AgainSaid, InsertsKnown
<1>9. ASSUME OtherServer(conn, Popped), Reset, call.then = "master",
             UNCHANGED <<cur, server, faults, found, given>>
      PROVE  WritesKnown' /\ CursorKnown'
  <2>1. Connecting
    BY <1>1, <1>9, NotMasterConnects
  <2> QED
    BY <1>1, <2>1, ConnectingWrites, ConnectingCursor
<1>10. CASE /\ call.then \in {"getlasterror", "count"}
            /\ Returns /\ UNCHANGED <<cur, given>>
  BY <1>5, <1>10
<1>11. CASE /\ call.then \in {"save", "master", "other"}
            /\ Returns /\ UNCHANGED <<cur, given>>
  BY <1>5, <1>11
<1> QED
  BY <1>1, <1>6, <1>7, <1>8, <1>9, <1>10, <1>11 DEF ReadReply

LEMMA ClientKnown ==
  ASSUME DataInv, Client
  PROVE  WritesKnown' /\ CursorKnown'
<1>1. LinkInv /\ WritesKnown /\ CursorKnown /\ program' = program
  BY DEF DataInv, Client
<1>2. CASE Connecting
  BY <1>1, <1>2, ConnectingWrites, ConnectingCursor
<1>3. CASE PairCalls
  <2>1. program = "pair" /\ 1 \in Ids
    BY <1>3, DriverAssumption DEF PairCalls, Ids
  <2>2. ASSUME NEW v \in Servers, NEW w \in Servers \ {v}, MongoConnectPair(v, w)
        PROVE  Connecting
    BY <1>1, <2>1, <2>2, PairConnects
  <2> QED
    BY <1>1, <1>2, <1>3, <2>1, <2>2, ReconnectConnects, DisconnectConnects,
       DestroyConnects, WritesCallsKnown, AsksKnown
       DEF PairCalls
<1>4. CASE CursorStep
  <2>1. /\ UNCHANGED <<conn, call, socks, docs, clean, believed>>
    BY <1>4 DEF CursorStep, server
  <2>2. Link' = Link
    BY <2>1 DEF Link
  <2> QED
    BY <1>1, <1>4, <2>1, <2>2, OtherWrites, StepCursor
<1>5. CASE LoopHangs
  <2>1. /\ UNCHANGED <<conn, socks, docs, clean, believed>> /\ call'.at = "hung"
    BY <1>1, <1>5 DEF LoopHangs, server, history, LinkInv, TypeOK, Calls
  <2>2. Link' = Link
    BY <2>1 DEF Link
  <2> QED
    BY <1>1, <1>5, <2>1, <2>2, OtherWrites, HangCursor
<1>6. CASE CursorDestroy
  BY <1>1, <1>6, DestroyWrites, DestroyCursor
<1>7. CASE EdbCalls
  BY <1>4, <1>6, <1>7, SaveIsKnown, WritesCallsKnown, AsksKnown DEF EdbCalls
<1> QED
  BY <1>1, <1>2, <1>3, <1>5, <1>7, RepliesKnown, ConnectConnects DEF Client

LEMMA ExternalKnown ==
  ASSUME DataInv, LinkInv', External
  PROVE  WritesKnown' /\ CursorKnown'
<1>1. LinkInv /\ WritesKnown /\ CursorKnown /\ call.at # "hung"
  BY DEF DataInv, External
<1>2. ASSUME NEW s \in Socks, Serve(s)
      PROVE  WritesKnown' /\ CursorKnown'
  <2> DEFINE m == Head(Link.out)
  <2>1. m \in Msgs
    BY <1>1, <1>2, ServeServed
  <2>2. m.op \in {"insert", "update", "delete", "kill_cursors"}
          \/ m.op \in {"query", "get_more", "getlasterror", "ismaster", "count"}
    BY <2>1, MessageArg
  <2>3. Takes(m) \/ \E r : Gives(m, r)
    BY <1>1, <1>2, <2>2, ServeTakes, ServeGives
  <2> HIDE DEF m
  <2> QED
    BY <1>1, <2>3, TakesWrites, TakesCursor, GivesWrites, GivesCursor
<1>3. ASSUME NEW v \in Servers, Restart(v)
      PROVE  WritesKnown' /\ CursorKnown'
  <2>1. UNCHANGED <<conn, call, cur, socks, kept, docs, clean, believed, found, given>>
    BY <1>3 DEF Restart, client, history
  <2>2. Link' = Link
    BY <2>1 DEF Link
  <2> QED
    BY <1>1, <2>1, <2>2, OtherWrites, OtherCursor
<1> QED
  BY <1>1, <1>2, <1>3, FaultKnown DEF External

LEMMA DataInvKept == DataInv /\ [Next]_vars => DataInv'
<1> SUFFICES ASSUME DataInv, [Next]_vars
             PROVE  DataInv'
  OBVIOUS
<1>1. LinkInv'
  BY LinkInvKept DEF DataInv
<1>2. CASE UNCHANGED vars
  <2>1. UNCHANGED <<conn, call, cur, socks, kept, docs, clean, believed, found, given>>
    BY <1>2 DEF vars, client, server, history
  <2>2. Link' = Link
    BY <2>1 DEF Link
  <2> QED
    BY <1>1, <2>1, <2>2, OtherWrites, OtherCursor DEF DataInv
<1> QED
  BY <1>1, <1>2, ClientKnown, ExternalKnown DEF Next, DataInv

LEMMA InitKnown == Init => DataInv
<1> SUFFICES ASSUME Init
             PROVE  DataInv
  OBVIOUS
<1>1. LinkInv
  BY InitGood
<1>2. ~conn.connected /\ call.at = "idle" /\ call.then = "" /\ cur = NoCur /\ ~cur.open
  BY DEF Init, NoConn, Idle, NoCur
<1>3. WritesKnown
  BY <1>2 DEF WritesKnown, CleanUp, Believed, Counted, SaveKnown, Reads
<1>4. ~Answering
  BY <1>2 DEF Answering, Reads
<1>5. cur.batch = <<>> /\ cur.id = 0 /\ Len(cur.batch) = 0
  BY <1>2 DEF NoCur
<1>6. Num = 0 /\ Ahead = Rest
  BY <1>4, <1>5 DEF Num, Ahead
<1>7. Behind = {}
  BY <1>6 DEF Behind
<1>8. given = {} /\ found = {} /\ docs = {}
  BY DEF Init
<1>9. CurShape
  <2>1. Injective(cur.batch)
    BY <1>5 DEF Injective
  <2> QED
    BY <1>2, <1>5, <1>8, <2>1 DEF CurShape
<1>10. CallShape /\ AnswerShape
  BY <1>2, <1>4 DEF CallShape, AnswerShape, Reads
<1>11. NoneAgain /\ AllThere /\ Accounted
  BY <1>2, <1>7, <1>8 DEF NoneAgain, AllThere, Accounted
<1> QED
  BY <1>1, <1>3, <1>9, <1>10, <1>11 DEF DataInv, CursorKnown

(* The documents, the cursor and what is on its way agree in every state.  *)
THEOREM DataInvHolds == Spec => []DataInv
BY InitKnown, DataInvKept, PTL DEF Spec
-----------------------------------------------------------------------------
(* What the invariant says of the calls.                                   *)

(* A reply at hand is the answer to the call, over a connection that is up *)
LEMMA ReplyAtHand ==
  ASSUME DataInv, call.then # "", Link.in # <<>>
  PROVE  /\ Reads /\ conn.connected /\ Link.out = <<>>
         /\ Link.in \in Seq(Replies) /\ Head(Link.in) = Link.in[1]
<1>1. LinkInv
  BY DEF DataInv
<1>2. Idle.then = ""
  BY DEF Idle
<1>3. call.at # "idle"
  BY <1>1, <1>2 DEF LinkInv, Turn
<1>4. conn.connected /\ conn.sock \in Socks
  BY <1>1, <1>3 DEF LinkInv, Turn, Current
<1>5. Link.up
  BY <1>1, <1>4 DEF LinkInv, Quiet, Link
<1>6. call.at = "read"
  BY <1>1, <1>3, <1>5 DEF LinkInv, Turn, TypeOK, Calls
<1>7. HasAnswer(Link)
  BY <1>1, <1>5, <1>6 DEF LinkInv, Turn, Waits
<1>8. Link.in \in Seq(Replies)
  BY <1>1, <1>4 DEF LinkInv, TypeOK, SockRecords, Link
<1>9. Head(Link.in) = Link.in[1]
  <2> DEFINE q == Link.in
  <2>1. q \in Seq(Replies) /\ Len(q) = 1
    BY <1>7, <1>8 DEF HasAnswer
  <2> HIDE DEF q
  <2>2. Head(q) = q[1]
    BY <2>1, OneElement
  <2> QED
    BY <2>2 DEF q
<1> QED
  BY <1>4, <1>5, <1>6, <1>7, <1>8, <1>9 DEF Reads, HasAnswer

(* Between two calls all there is of a cursor is what it has.              *)
LEMMA BetweenCalls ==
  ASSUME DataInv, call.at = "idle"
  PROVE  /\ ~Answering /\ Ahead = Rest /\ Num = cur.id
         /\ CurShape /\ NoneAgain /\ AllThere /\ Accounted
<1>1. ~Answering
  BY DEF Answering, Reads
<1> QED
  BY <1>1 DEF Ahead, Num, DataInv, CursorKnown

(* A cursor at its end has handed out all that its query found and nobody  *)
(* removed, wherever the server cut the batches.                           *)
THEOREM DriverAllGiven == Spec => []AllGiven
<1>1. ASSUME DataInv, clean, cur.open, AtEnd, call.at = "idle"
      PROVE  found \subseteq given
  <2>1. Ahead = Rest /\ Num = cur.id /\ CurShape /\ AllThere
    BY <1>1, BetweenCalls
  <2>2. cur \in Curs /\ cur.batch \in Seq(Ids) /\ cur.pos \in Nat /\ Len(cur.batch) \in Nat
    BY <1>1 DEF DataInv, LinkInv, TypeOK, Curs
  <2>3. cur.batch = <<>> => Len(cur.batch) = 0
    OBVIOUS
  <2>4. cur.id = 0 /\ cur.pos >= Len(cur.batch)
    BY <1>1, <2>1, <2>2, <2>3 DEF AtEnd, NeedsMore, CurShape
  <2>5. Rest = {}
    BY <2>2, <2>4 DEF Rest
  <2>6. Behind = {}
    BY <2>1, <2>4 DEF Behind
  <2> QED
    BY <1>1, <2>1, <2>5, <2>6 DEF AllThere, CurShape
<1>2. DataInv => AllGiven
  BY <1>1 DEF AllGiven
<1> QED
  BY <1>2, DataInvHolds, PTL

(* Once a cursor is gone, by its end, early or by the collector, and what  *)
(* was sent is handled, the server keeps none for this connection.         *)
THEOREM DriverNoCursorLeak == Spec => []NoCursorLeak
<1>1. ASSUME DataInv, clean, Ready, ~cur.open, Link.out = <<>>, NEW k \in Cursors
      PROVE  kept[conn.left][k] = {}
  <2>1. call.at = "idle" /\ conn.connected
    BY <1>1 DEF Ready
  <2>2. Num = cur.id /\ CurShape /\ Accounted
    BY <1>1, <2>1, BetweenCalls
  <2>3. cur.id = 0
    BY <1>1, <2>2 DEF CurShape, NoCur
  <2>4. Len(Link.out) = 0
    BY <1>1
  <2>5. ~KillsAt(k)
    BY <2>4 DEF KillsAt
  <2>6. k # 0
    BY DEF Cursors
  <2> QED
    BY <1>1, <2>1, <2>2, <2>3, <2>5, <2>6 DEF Accounted
<1>2. DataInv => NoCursorLeak
  BY <1>1 DEF NoCursorLeak, Link
<1> QED
  BY <1>2, DataInvHolds, PTL

(* Nobody acknowledges a write, and yet a count after any writes counts    *)
(* them all, and no other.                                                 *)
THEOREM DriverReadsOwnWrites == Spec => []ReadsOwnWrites
<1>1. ASSUME DataInv, clean, call.then = "count", Link.in # <<>>
      PROVE  Head(Link.in).n = Cardinality(believed)
  <2>1. Reads /\ conn.connected /\ Link.out = <<>> /\ Head(Link.in) = Link.in[1]
    BY <1>1, ReplyAtHand
  <2>2. Counted /\ Believed /\ docs \in SUBSET Ids
    BY <1>1 DEF DataInv, WritesKnown, LinkInv, TypeOK
  <2>3. Path(docs, Link.out, believed)
    BY <1>1, <2>1, <2>2 DEF Believed
  <2>4. docs = believed
    BY <2>1, <2>2, <2>3, PathEmpty
  <2> QED
    BY <1>1, <2>1, <2>2, <2>4 DEF Counted
<1>2. DataInv => ReadsOwnWrites
  BY <1>1 DEF ReadsOwnWrites, Link
<1> QED
  BY <1>2, DataInvHolds, PTL

(* Only the next document of a message and the first of the next message   *)
(* become the one at hand.                                                 *)
LEMMA CursorMoves ==
  ASSUME Next
  PROVE  \/ cur' = cur \/ cur'.pos = 0
         \/ CursorStep
         \/ MongoReadResponse /\ call.then = "more"
<1>1. ASSUME MongoReadResponse
      PROVE  \/ cur' = cur \/ cur'.pos = 0
             \/ call.then = "more"
  <2>1. ReadReply(Head(Link.in))
    BY <1>1 DEF MongoReadResponse, Link
  <2> QED
    BY <2>1 DEF ReadReply
<1>2. PairCalls => cur' = cur
  BY DEF PairCalls, MongoConnectPair, MongoReconnect, MongoDisconnect, MongoDestroy,
         MongoUpdate, Write, RunCommand, client
<1>3. EdbCalls => cur' = cur \/ cur'.pos = 0 \/ CursorStep
  <2>1. CursorDestroy => cur'.pos = 0
    BY DEF CursorDestroy, NoCur
  <2>2. \A m, b : Write(m, b) => cur' = cur
    BY DEF Write, client
  <2>3. \A d \in Ids : MongoRemove(d) \/ Save(d) \/ MongoUpdate(d) => cur' = cur
    BY <2>2 DEF MongoRemove, MongoUpdate, Save
  <2>4. \A d, e \in Ids : MongoInsertBatch(<<d, e>>) => cur' = cur
    BY <2>2 DEF MongoInsertBatch
  <2>5. (\E n \in 0 .. 2 : MongoFind(n)) \/ RunCommand("count") \/ CursorGetMore
          => cur' = cur
    BY DEF MongoFind, RunCommand, CursorGetMore
  <2> QED
    BY <2>1, <2>3, <2>4, <2>5 DEF EdbCalls
<1>4. (\E v \in Servers : MongoConnect(v)) \/ LoopHangs => cur' = cur
  BY DEF MongoConnect, LoopHangs
<1>5. External => cur' = cur
  BY DEF External, Serve, Fault, Restart, client
<1> QED
  BY <1>1, <1>2, <1>3, <1>4, <1>5 DEF Next, Client

LEMMA StepIsNew ==
  ASSUME DataInv, CursorStep
  PROVE  cur'.batch[cur'.pos] \notin given
<1>1. cur' = [cur EXCEPT !.pos = @ + 1] /\ call.at = "idle" /\ cur.batch # <<>> /\ ~NeedsMore
  BY DEF CursorStep
<1>2. cur \in Curs /\ cur.batch \in Seq(Ids) /\ cur.pos \in Nat /\ Len(cur.batch) \in Nat
  BY DEF DataInv, LinkInv, TypeOK, Curs
<1>3. cur'.batch = cur.batch /\ cur'.pos = cur.pos + 1
  BY <1>1, <1>2 DEF Curs
<1>4. Ahead = Rest /\ NoneAgain
  BY <1>1, BetweenCalls
<1>5. Len(cur.batch) > 0
  BY <1>1, <1>2, EmptySeq
<1>6. cur.pos + 1 =< Len(cur.batch)
  BY <1>1, <1>2, <1>5 DEF NeedsMore
<1>7. cur.batch[cur.pos + 1] \in Rest
  BY <1>2, <1>6 DEF Rest
<1> QED
  BY <1>3, <1>4, <1>7 DEF NoneAgain

LEMMA MoreIsNew ==
  ASSUME DataInv, MongoReadResponse, call.then = "more", cur'.batch # <<>>
  PROVE  cur'.batch[cur'.pos] \notin given
<1> DEFINE r == Link.in[1]
<1>1. /\ Reads /\ Link.in # <<>> /\ Head(Link.in) = r /\ ReadReply(r)
      /\ Link.in \in Seq(Replies)
  BY ReplyAtHand DEF MongoReadResponse, Link
<1>2. Len(Link.in) > 0
  BY <1>1, EmptySeq
<1>3. r \in Replies
  BY <1>1, <1>2
<1>4. Answering /\ Ahead = Range(r.batch)
  BY <1>1 DEF Answering, Ahead
<1> HIDE DEF r
<1>5. r.batch \in Seq(Ids)
  BY <1>3 DEF Replies
<1>6. cur' = [cur EXCEPT !.id = r.id, !.batch = r.batch, !.pos = PosIn(r.batch)]
  BY <1>1 DEF ReadReply
<1>7. cur \in Curs
  BY DEF DataInv, LinkInv, TypeOK
<1>8. cur'.batch = r.batch /\ cur'.pos = PosIn(r.batch)
  BY <1>6, <1>7 DEF Curs
<1>9. cur'.pos = 1 /\ Len(r.batch) > 0
  BY <1>5, <1>8, EmptySeq DEF PosIn
<1>10. r.batch[1] \in Range(r.batch)
  BY <1>5, <1>9 DEF Range
<1>11. NoneAgain
  BY DEF DataInv, CursorKnown
<1> QED
  BY <1>4, <1>8, <1>9, <1>10, <1>11 DEF NoneAgain

(* A cursor hands out no document twice: neither within a message, nor one *)
(* of an earlier message, in whatever order and batches they come.         *)
THEOREM DriverNoneTwice == Spec => NoneTwice
<1>1. ASSUME DataInv, [Next]_vars, cur'.pos # 0, cur'.batch # <<>>,
             <<cur'.pos, cur'.batch>> # <<cur.pos, cur.batch>>
      PROVE  cur'.batch[cur'.pos] \notin given
  <2>1. cur' # cur
    BY <1>1
  <2>2. Next
    BY <1>1, <2>1 DEF vars, client
  <2>3. CursorStep \/ (MongoReadResponse /\ call.then = "more")
    BY <1>1, <2>1, <2>2, CursorMoves
  <2> QED
    BY <1>1, <2>3, StepIsNew, MoreIsNew
<1>2. DataInv /\ [Next]_vars =>
        [cur'.pos # 0 /\ cur'.batch # <<>> /\ <<cur'.pos, cur'.batch>> # <<cur.pos, cur.batch>>
           => cur'.batch[cur'.pos] \notin given]_vars
  BY <1>1
<1> QED
  BY <1>2, DataInvHolds, PTL DEF Spec, NoneTwice

(* A call under way ends with its reply, or not at all.                    *)
LEMMA EndsWithReply ==
  ASSUME Next, call.at # "idle", call'.at = "idle"
  PROVE  MongoReadResponse
<1>1. ~PairCalls
  BY DEF PairCalls, MongoConnectPair, MongoReconnect, MongoDisconnect, MongoDestroy,
         MongoUpdate, Write, RunCommand, Ready
<1>2. ~EdbCalls
  BY DEF EdbCalls, MongoRemove, MongoUpdate, MongoInsertBatch, Save, Write, MongoFind,
         RunCommand, CursorStep, CursorGetMore, CursorDestroy, Ready
<1>3. ~\E v \in Servers : MongoConnect(v)
  BY DEF MongoConnect
<1>4. ASSUME LoopHangs
      PROVE  FALSE
  <2>1. call' = [call EXCEPT !.at = "hung"]
    BY <1>4 DEF LoopHangs
  <2> QED
    BY <2>1
<1>5. ~External
  BY DEF External, Serve, Fault, Restart, client
<1> QED
  BY <1>1, <1>2, <1>3, <1>4, <1>5 DEF Next, Client

LEMMA SaveEnds ==
  ASSUME DataInv, MongoReadResponse, call.then = "save", call'.at = "idle"
  PROVE  ~Link.err /\ call.doc \in docs
<1> DEFINE r == Link.in[1]
<1>1. /\ Reads /\ Link.in # <<>> /\ Head(Link.in) = r /\ ReadReply(r) /\ Link.out = <<>>
  BY ReplyAtHand DEF MongoReadResponse, Link
<1>2. SaveKnown
  BY DEF DataInv, WritesKnown
<1>3. Len(Link.out) = 0
  BY <1>1
<1>4. r.err = Link.err /\ (Link.err \/ call.doc \in docs)
  BY <1>1, <1>2, <1>3 DEF SaveKnown
<1> HIDE DEF r
<1>5. ~HasError(r)
  BY <1>1 DEF ReadReply, Asked
<1> QED
  BY <1>4, <1>5 DEF HasError

(* A save ends only with its document in the collection, whatever numbers  *)
(* it drew before and whatever was there.                                  *)
THEOREM DriverSaveSettled == Spec => SaveSettled
<1>1. ASSUME DataInv, [Next]_vars, call.then = "save", call'.at = "idle"
      PROVE  ~Link.err /\ (clean => call.doc \in docs)
  <2>1. Idle.then = ""
    BY DEF Idle
  <2>2. call.at # "idle"
    BY <1>1, <2>1 DEF DataInv, LinkInv, Turn
  <2>3. Next
    BY <1>1, <2>2 DEF vars, client
  <2>4. MongoReadResponse
    BY <1>1, <2>2, <2>3, EndsWithReply
  <2> QED
    BY <1>1, <2>4, SaveEnds
<1>2. DataInv /\ [Next]_vars =>
        [call.then = "save" /\ call'.at = "idle" =>
           ~socks[conn.sock].err /\ (clean => call.doc \in docs)]_vars
  BY <1>1 DEF Link
<1> QED
  BY <1>2, DataInvHolds, PTL DEF Spec, SaveSettled
=============================================================================
