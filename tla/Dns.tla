--------------------------------- MODULE Dns ---------------------------------
(***************************************************************************)
(* dns_transmit and dns_resolve of libowfat: a question is asked of one    *)
(* server after the other over UDP, with longer and longer timeouts, and   *)
(* over TCP when the question or an answer does not fit a datagram.        *)
(* Answers come late, twice, cut off or not at all; servers fail or        *)
(* refuse; sockets and memory run out.                                     *)
(*                                                                         *)
(* Every query has its own socket on a random port; here a late answer of  *)
(* the server that is asked now always finds the port it was meant for.    *)
(***************************************************************************)
EXTENDS Integers, SequencesExt

CONSTANTS
  Questions,   \* name and type
  LongOnes,    \* those that do not fit a datagram
  Ids,         \* 0 .. 65535, chosen at random
  Slots,       \* 16: the places in servers
  Servers,     \* the places that hold an address, not V6any
  Loops,       \* 4: the timeouts of UDP
  Recursive,   \* flagrecursive: dns_resolve gives TRUE
  QueryLen, BodyLen,  \* parts in which a query, an answer goes over TCP
  NoQuery,     \* 0
  MaxQueries,  \* bound: calls of dns_transmit_start
  MaxAsked,    \* bound: queries that servers still may answer
  MaxReplies   \* bound: answers to one query

ASSUME DnsAssumption ==
  /\ LongOnes \subseteq Questions /\ NoQuery \notin Questions
  /\ Slots \in Nat /\ Servers \subseteq 0 .. Slots - 1
  /\ {Loops, QueryLen, BodyLen} \subseteq Nat \ {0}
  /\ Recursive \subseteq BOOLEAN
  /\ {MaxQueries, MaxAsked, MaxReplies} \subseteq Nat

VARIABLES
  query, id, packet, s1, tcpstate, udploop, curserver, pos,  \* dns_transmit
  expired,   \* the deadline is behind
  result,    \* "idle", "waiting" (0), "answered" (1), "failed" (-1)
  open,      \* the descriptors that are open
  inbox,     \* what the socket has to read
  heard,     \* TCP: the parts of the query that the server got in order, or -1
  asked,     \* queries on their way to servers, the last ones first
  asking,    \* history: the question of the current query
  started,   \* history: queries started
  astray     \* history: a TCP connection was there at once, pos being old

dvars == <<query, id, packet, s1, tcpstate, udploop, curserver, pos, expired>>
history == <<asking, started>>
vars == <<dvars, result, open, inbox, heard, asked, history, astray>>

NoPacket == [kind |-> "none"]

Init ==
  /\ query = NoQuery /\ id \in Ids /\ packet = NoPacket /\ s1 = 0 /\ tcpstate = 0
  /\ udploop = 0 /\ curserver = 0 /\ pos = 0 /\ expired = FALSE
  /\ result = "idle" /\ open = {} /\ inbox = <<>> /\ heard = 0 /\ asked = <<>>
  /\ asking = NoQuery /\ started = 0 /\ astray = FALSE

-----------------------------------------------------------------------------
(* Mutant of Closed: the descriptor is forgotten. *)
Forgotten(fds, s) == fds
(* socketfree. *)
Closed(fds, s) == fds \ {s - 1}

NewFd(fds) == CHOOSE f \in 0 .. 1 : f \notin fds /\ \A g \in 0 .. f - 1 : g \in fds

(* dns_transmit_free, and -1. *)
Failed ==
  /\ query' = NoQuery /\ packet' = NoPacket /\ s1' = 0 /\ open' = Closed(open, s1)
  /\ inbox' = <<>> /\ result' = "failed"

(* A socket to server c, its deadline ahead. *)
Socket(c) ==
  /\ open' = Closed(open, s1) \cup {NewFd(Closed(open, s1))}
  /\ s1' = NewFd(Closed(open, s1)) + 1
  /\ id' \in Ids /\ curserver' = c /\ expired' = FALSE
  /\ inbox' = <<>> /\ heard' = 0 /\ result' = "waiting"

Ahead(l, c) == {t \in (l .. Loops - 1) \X Servers : t[1] = l => t[2] >= c}

(* thisudp, from udploop l and curserver c on.  Servers are passed to      *)
(* which nothing can be sent; a socket that cannot be had or bound, and    *)
(* the end of the last loop, end the query.                                *)
ThisUdp(q, l, c) ==
  /\ \/ \E t \in Ahead(l, c) :
          /\ Socket(t[2]) /\ query' = q /\ packet' = NoPacket
          /\ udploop' = t[1] /\ tcpstate' = 0
          /\ asked' = SubSeq(<<[to |-> t[2], q |-> q, id |-> id', left |-> MaxReplies]>>
                               \o asked, 1, IF Len(asked) < MaxAsked THEN Len(asked) + 1 ELSE MaxAsked)
     \/ /\ Failed
        /\ \/ \E t \in Ahead(l, c) : udploop' = t[1] /\ curserver' = t[2]
           \/ udploop' = Loops /\ curserver' = 0
        /\ UNCHANGED <<id, tcpstate, expired, heard, asked>>
  /\ UNCHANGED astray

(* thistcp, from curserver c on.  A connection that is there at once goes  *)
(* to state 2 past the line that sets pos to 0.                            *)
ThisTcp(q, l, c) ==
  /\ \/ \E t \in {s \in Servers : s >= c} :
          /\ Socket(t) /\ query' = q /\ packet' = NoPacket
          /\ \/ tcpstate' = 1 /\ UNCHANGED astray
             \/ tcpstate' = 2 /\ astray' = (astray \/ pos' # 0)
     \/ /\ Failed
        /\ curserver' \in {s \in Servers : s >= c} \cup {Slots}
        /\ UNCHANGED <<id, tcpstate, expired, heard, astray>>
  /\ udploop' = l
  /\ UNCHANGED asked

(* Mutant of NextUdp: the same server is asked again. *)
SameUdp == ThisUdp(query, udploop, curserver)
NextUdp == ThisUdp(query, udploop, curserver + 1)
FirstTcp == ThisTcp(query, udploop, 0)
NextTcp == ThisTcp(query, udploop, curserver + 1)

(* dns_transmit_start, or its malloc fails. *)
Start(q, recursive) ==
  /\ result # "waiting" /\ started < MaxQueries
  /\ started' = started + 1 /\ asking' = q /\ UNCHANGED pos
  /\ LET l == IF recursive THEN 1 ELSE 0
     IN  \/ IF q \in LongOnes THEN ThisTcp(q, l, 0) ELSE ThisUdp(q, l, 0)
         \/ /\ Failed
            /\ UNCHANGED <<id, tcpstate, udploop, curserver, expired, heard, asked, astray>>

-----------------------------------------------------------------------------
(* The world.                                                              *)

TimePasses ==
  /\ result = "waiting" /\ ~expired /\ expired' = TRUE
  /\ UNCHANGED <<query, id, packet, s1, tcpstate, udploop, curserver, pos, result, open,
                 inbox, heard, asked, history, astray>>

Reply(q, i, kind) == [kind |-> kind, q |-> q, id |-> i]

Arrives(m) ==
  /\ inbox' = Append(inbox, m)
  /\ UNCHANGED <<dvars, result, open, heard, history, astray>>

(* The server that is asked answers a query of now or of before: with what *)
(* was asked for, cut off, with a failure, with something damaged, or with *)
(* 513 bytes and more.  One datagram is read before the next comes.        *)
AnswerUdp ==
  /\ result = "waiting" /\ tcpstate = 0 /\ inbox = <<>>
  /\ \E k \in DOMAIN asked, kind \in {"ok", "cut", "fail", "damaged", "large"} :
       /\ asked[k].to = curserver /\ asked[k].left > 0
       /\ asked' = [asked EXCEPT ![k].left = @ - 1]
       /\ Arrives(Reply(asked[k].q, asked[k].id, kind))

(* No-one listens there, or the datagram is empty. *)
RefuseUdp ==
  /\ result = "waiting" /\ tcpstate = 0 /\ inbox = <<>> /\ ~expired
  /\ UNCHANGED asked
  /\ \E kind \in {"refused", "error"} : Arrives([kind |-> kind])

(* Over TCP only the whole query is answered. *)
AnswerTcp ==
  /\ result = "waiting" /\ tcpstate >= 2 /\ heard = QueryLen /\ inbox = <<>>
  /\ UNCHANGED asked
  /\ \E kind \in {"ok", "cut", "fail", "damaged"} : Arrives(Reply(query, id, kind))

-----------------------------------------------------------------------------
(* dns_transmit_get, as dns_resolve calls it when something happened on    *)
(* the socket or the deadline has come.                                    *)

Waiting(state) == result = "waiting" /\ tcpstate = state

(* Mutant of Irrelevant: the question is not compared. *)
IrrelevantId(m) == m.kind = "damaged" \/ m.id # id
Irrelevant(m) == m.kind = "damaged" \/ m.id # id \/ m.q # query
ServerWantsTcp(m) == m.kind = "cut"
ServerFailed(m) == m.kind = "fail"

(* The deadline counts only while there is nothing to read. *)
GetTimeout ==
  /\ result = "waiting" /\ expired /\ inbox = <<>>
  /\ UNCHANGED <<pos, history>>
  /\ IF tcpstate = 0 THEN NextUdp ELSE NextTcp

StillWaiting ==
  /\ inbox' = Tail(inbox)
  /\ UNCHANGED <<query, id, packet, s1, tcpstate, udploop, curserver, expired, result, open,
                 heard, asked, astray>>

Answered(m) ==
  /\ s1' = 0 /\ open' = Closed(open, s1) /\ inbox' = <<>>
  /\ packet' = m /\ query' = NoQuery /\ result' = "answered"
  /\ UNCHANGED <<id, tcpstate, udploop, curserver, expired, heard, asked, astray>>

NoMemory ==
  /\ Failed
  /\ UNCHANGED <<id, tcpstate, udploop, curserver, expired, heard, asked, astray>>

(* In the loop of udploop 2 a server that has refused or failed is waited  *)
(* for until the deadline.                                                 *)
GetUdp ==
  /\ Waiting(0) /\ inbox # <<>> /\ UNCHANGED <<pos, history>>
  /\ LET m == Head(inbox)
     IN  CASE m.kind \in {"refused", "error"} ->
                IF m.kind = "refused" /\ udploop = 2 THEN StillWaiting ELSE NextUdp
           [] m.kind = "large" -> StillWaiting
           [] OTHER ->
                CASE Irrelevant(m) -> StillWaiting
                  [] ~Irrelevant(m) /\ ServerWantsTcp(m) -> FirstTcp
                  [] ~Irrelevant(m) /\ ServerFailed(m) ->
                       IF udploop = 2 THEN StillWaiting ELSE NextUdp
                  [] OTHER -> Answered(m) \/ NoMemory

Stays == UNCHANGED <<query, id, s1, udploop, curserver, result, open, asked, history, astray>>

(* Mutant of PosConnected: pos is left as it is. *)
PosAsItWas(n) == n
(* pos behind state 1. *)
PosConnected(n) == 0

GetConnected ==
  /\ Waiting(1)
  /\ pos' = PosConnected(pos) /\ tcpstate' = 2
  /\ UNCHANGED <<packet, expired, inbox, heard>> /\ Stays

(* write takes some of what is left.  With a pos of before the server      *)
(* hears something else; past the end of the query there is no telling.    *)
GetWrite ==
  /\ Waiting(2) /\ pos # QueryLen
  /\ \E r \in 1 .. QueryLen :
       /\ pos < QueryLen => pos + r <= QueryLen
       /\ pos' = IF pos > QueryLen THEN pos ELSE pos + r
       /\ heard' = IF heard = pos THEN heard + r ELSE -1
       /\ IF pos' = QueryLen THEN expired' = FALSE /\ tcpstate' = 3
          ELSE UNCHANGED <<expired, tcpstate>>
  /\ UNCHANGED <<packet, inbox>> /\ Stays

(* The two bytes of the length, and memory for so much. *)
GetLength ==
  \/ /\ Waiting(3) /\ inbox # <<>> /\ tcpstate' = 4
     /\ UNCHANGED <<packet, pos, expired, inbox, heard>> /\ Stays
  \/ /\ Waiting(4) /\ inbox # <<>> /\ tcpstate' = 5 /\ pos' = 0
     /\ packet' = [kind |-> "part"]
     /\ UNCHANGED <<expired, inbox, heard>> /\ Stays
  \/ /\ Waiting(4) /\ inbox # <<>> /\ pos' = 0 /\ UNCHANGED history /\ NoMemory

GetBody ==
  /\ Waiting(5) /\ inbox # <<>>
  /\ \E r \in 1 .. BodyLen - pos : pos' = pos + r
  /\ IF pos' < BodyLen
     THEN UNCHANGED <<packet, tcpstate, expired, inbox, heard>> /\ Stays
     ELSE LET m == Head(inbox)
          IN  /\ UNCHANGED history
              /\ IF Irrelevant(m) \/ ServerWantsTcp(m) \/ ServerFailed(m)
                 THEN NextTcp ELSE Answered(m)

(* connect, write or read fails, or the server has closed. *)
GetBroken ==
  /\ result = "waiting" /\ tcpstate > 0
  /\ UNCHANGED <<pos, history>> /\ NextTcp

Next ==
  \/ \E q \in Questions, recursive \in Recursive : Start(q, recursive)
  \/ TimePasses \/ AnswerUdp \/ RefuseUdp \/ AnswerTcp
  \/ GetTimeout \/ GetUdp \/ GetConnected \/ GetWrite \/ GetLength \/ GetBody \/ GetBroken

Spec == Init /\ [][Next]_vars

(* Time passes, and dns_resolve comes back to dns_transmit_get whenever    *)
(* there is something to read or the deadline is behind.  Nothing makes a  *)
(* server answer, connect or take what is written.                         *)
LiveSpec ==
  Spec /\ WF_vars(TimePasses) /\ WF_vars(GetTimeout) /\ WF_vars(GetUdp)
       /\ WF_vars(GetLength \/ GetBody)

-----------------------------------------------------------------------------
(* The answer that is handed on is one to the question asked, whole, of    *)
(* the server that is asked now and to the query it was sent last - not a  *)
(* late one to another question or to a query of before.                   *)
AnswerIsOurs ==
  result = "answered" =>
    /\ packet.kind = "ok" /\ packet.q = asking /\ packet.id = id
    /\ curserver \in Servers

(* What the transmission holds: one socket while it waits, none when it    *)
(* ended, however it did; the query while it waits; a packet when it has   *)
(* been answered; and what the comments before the states say of pos       *)
(* (dns_transmit.c:302-306, 349-355), save for a connection that was there *)
(* at once (dns_transmit.c:173-176), whose pos is that of an earlier one.  *)
HoldsWhatItSays ==
  /\ open = IF s1 = 0 THEN {} ELSE {s1 - 1}
  /\ result = "waiting" <=> s1 # 0
  /\ query = IF result = "waiting" THEN asking ELSE NoQuery
  /\ packet # NoPacket <=> result = "answered" \/ (result = "waiting" /\ tcpstate = 5)
  /\ result = "waiting" /\ ~astray =>
       /\ tcpstate = 2 => heard = pos /\ pos < QueryLen
       /\ tcpstate > 2 => heard = QueryLen
       /\ tcpstate = 5 => pos < BodyLen

(* Every query comes to an end: the servers, the loops and the timeouts    *)
(* are finite, and so are the answers that are none.                       *)
QueryEnds == result = "waiting" ~> result # "waiting"
=============================================================================
