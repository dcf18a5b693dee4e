------------------------------- MODULE Driver -------------------------------
(***************************************************************************)
(* mongo.c, the C driver of MongoDB that core/edb.d talks to the database  *)
(* with: connections to a server or to a pair of them, the unacknowledged  *)
(* writes, queries and cursors, commands, and the loop in which            *)
(* EdbObject.save inserts a new object.                                    *)
(*                                                                         *)
(* The program is one thread making any legal sequence of these calls over *)
(* one connection.  A call that waits for a reply is under way (call)      *)
(* while servers and faults take their steps; everything else is atomic.   *)
(* Of a document only its _id is kept; the servers of the pair share their *)
(* documents.                                                              *)
(***************************************************************************)
EXTENDS Integers, Sequences, SequencesExt, FiniteSetsExt

CONSTANTS
  Servers,
  None,
  MaxDoc,     \* bound: _ids
  MaxSock,    \* bound: socket numbers of the process
  MaxQueue,   \* bound: messages on their way to a server
  MaxFaults,  \* bound: crashes, failovers and forgotten cursors
  Programs    \* bound: "edb" connects once and uses data; "pair" connects
              \* again and again and uses little data

Ids == 1 .. MaxDoc
Socks == 1 .. MaxSock
Cursors == 1 .. 2      \* cursor numbers a server gives

ASSUME DriverAssumption ==
  /\ MaxDoc \in Nat \ {0} /\ MaxSock \in Nat
  /\ MaxQueue \in Nat /\ MaxFaults \in Nat
  /\ None \notin Servers /\ IsFiniteSet(Servers)
  /\ Programs \subseteq {"edb", "pair"}

VARIABLES
  conn,     \* mongo_connection: left_opts, right_opts, sock, connected
  call,     \* the call under way: idle, reading a reply, or hung
  cur,      \* the open cursor: mm (id, batch) and current (pos, 0 for NULL)
  socks,    \* per socket: open, its peer, up, requests, replies, last error
  up,       \* servers that run
  master,   \* the one that is master
  kept,     \* per server and cursor: the _ids it still has to return
  docs,     \* the collection
  faults,
  program,  \* the calls the program makes
  ticket,   \* history: number of the last request with a reply, modulo 2
  clean,    \* history: no fault since the connection was made
  believed, \* history: the documents after all writes sent so far
  found,    \* history: documents of the open cursor, not removed since
  given     \* history: documents the open cursor handed out

client == <<conn, call, cur>>
server == <<up, master, kept, docs>>
history == <<ticket, clean, believed, found, given>>
vars == <<client, socks, server, faults, program, history>>

NoConn == [left |-> None, right |-> None, sock |-> 0, connected |-> FALSE]
NoCur == [open |-> FALSE, id |-> 0, batch |-> <<>>, pos |-> 0]
Idle == [at |-> "idle", then |-> "", doc |-> 0]
FreeSock == [open |-> FALSE, peer |-> None, up |-> FALSE,
             out |-> <<>>, in |-> <<>>, err |-> FALSE]

Init ==
  /\ conn = NoConn /\ call = Idle /\ cur = NoCur
  /\ socks = [s \in Socks |-> FreeSock]
  /\ up = Servers /\ master \in Servers
  /\ kept = [v \in Servers |-> [k \in Cursors |-> {}]]
  /\ docs = {} /\ faults = 0 /\ program \in Programs
  /\ ticket = 0 /\ clean = TRUE /\ believed = {}
  /\ found = {} /\ given = {}
-----------------------------------------------------------------------------
(* Messages.                                                               *)

Msg(op, arg) == [op |-> op, arg |-> arg, to |-> ticket]
Request(op, arg) == [Msg(op, arg) EXCEPT !.to = 1 - @]   \* has a reply
Asking == {"query", "get_more", "getlasterror", "ismaster", "count"}

(* looping_write: a peer that is gone may still have its system take the   *)
(* bytes, which are lost.                                                  *)
Sent(sk, s, ms) ==
  IF sk[s].up THEN [sk EXCEPT ![s].out = @ \o ms] ELSE sk

HasRoom(n) == Len(socks[conn.sock].out) + n <= MaxQueue

Ready == call.at = "idle" /\ conn.connected

(* mongo_message_send of a request with a reply, and looping_read after it *)
Asked(c, sk, s, ms, then, d) ==
  /\ socks' = Sent(sk, s, ms)
  /\ ticket' = 1 - ticket
  /\ call' = [at |-> "read", then |-> then, doc |-> d]
  /\ conn' = c

-----------------------------------------------------------------------------
(* Connections.                                                            *)

(* mongo_connect_helper: the socket is forgotten before a new one is made, *)
(* and stays open when connect fails.                                      *)
Helped(c, sk) ==
  LET free == {s \in Socks : ~sk[s].open}
      s == Min(free)
      ok == c.left \in up
  IN  IF free = {}
      THEN [conn |-> [c EXCEPT !.sock = -1, !.connected = FALSE], socks |-> sk]
      ELSE [conn |-> [c EXCEPT !.sock = s, !.connected = ok],
            socks |-> [sk EXCEPT ![s] = [FreeSock EXCEPT
                         !.open = TRUE, !.peer = c.left, !.up = ok]]]

(* mongo_disconnect: only what is connected is closed.  What a server has  *)
(* not handled by then is lost.                                            *)
Disconnected(c, sk) ==
  IF ~c.connected THEN [conn |-> c, socks |-> sk]
  ELSE [conn |-> [c EXCEPT !.sock = 0, !.connected = FALSE],
        socks |-> [sk EXCEPT ![c.sock] = FreeSock]]

Swapped(c) == [c EXCEPT !.left = c.right, !.right = c.left]

(* What the history says of a connection just made. *)
Reset == /\ clean' = (~cur.open /\ \A v \in Servers, k \in Cursors : kept[v][k] = {})
         /\ believed' = docs

Done(r) == conn' = r.conn /\ socks' = r.socks /\ call' = Idle /\ UNCHANGED ticket

AskMaster(r, then) ==
  Asked(r.conn, r.socks, r.conn.sock, <<Request("ismaster", 0)>>, then, 0)

(* Mutant of OtherServer: the options are swapped after the attempt. *)
SwappedLate(c, sk) ==
  LET h == Helped(c, sk)
      r == [h EXCEPT !.conn = Swapped(h.conn)]
  IN  IF r.conn.connected THEN AskMaster(r, "other") ELSE Done(r)

(* The second half of mongo_reconnect: the other server of the pair. *)
OtherServer(c, sk) ==
  LET r == Helped(Swapped(c), sk)
  IN  IF r.conn.connected THEN AskMaster(r, "other") ELSE Done(r)

(* mongo_reconnect once the options are set. *)
Reconnected(c, sk) ==
  LET d == Disconnected(c, sk)
      r == Helped(d.conn, d.socks)
  IN  /\ IF c.right = None THEN Done(r)
         ELSE IF r.conn.connected THEN AskMaster(r, "master")
         ELSE OtherServer(r.conn, r.socks)
      /\ Reset

MongoConnect(v) ==
  /\ call.at = "idle" /\ conn.left = None
  /\ program = "edb" => v = master
  /\ Done(Helped([conn EXCEPT !.left = v, !.right = None], socks)) /\ Reset
  /\ UNCHANGED <<cur, server, faults, found, given>>

MongoConnectPair(l, r) ==
  /\ call.at = "idle" /\ conn.left = None
  /\ Reconnected([conn EXCEPT !.left = l, !.right = r, !.connected = FALSE], socks)
  /\ UNCHANGED <<cur, server, faults, found, given>>

MongoReconnect ==
  /\ call.at = "idle" /\ conn.left # None
  /\ Reconnected(conn, socks)
  /\ UNCHANGED <<cur, server, faults, found, given>>

MongoDisconnect ==
  /\ Ready
  /\ Done(Disconnected(conn, socks))
  /\ clean' = FALSE
  /\ UNCHANGED <<cur, server, faults, believed, found, given>>

MongoDestroy ==
  /\ call.at = "idle" /\ conn.left # None
  /\ Done(Disconnected([conn EXCEPT !.left = None, !.right = None], socks))
  /\ clean' = FALSE
  /\ UNCHANGED <<cur, server, faults, believed, found, given>>

-----------------------------------------------------------------------------
(* Unacknowledged writes.                                                  *)

(* A server inserts the documents of a message in their order, up to the   *)
(* first that is there already.                                            *)
InsertedBy(ds, ms) ==
  LET new == {k \in DOMAIN ms : ms[k] \notin ds \cup {ms[j] : j \in 1 .. k - 1}}
      taken == {k \in DOMAIN ms : 1 .. k \subseteq new}
  IN  [docs |-> ds \cup {ms[k] : k \in taken}, err |-> taken # DOMAIN ms]

(* Mutant of InsertMsg: data does not advance, so the last document is the *)
(* only one sent.                                                          *)
InsertMsgOverwriting(ds) == Msg("insert", <<Last(ds)>>)

(* mongo_insert (one document) and mongo_insert_batch *)
InsertMsg(ds) == Msg("insert", ds)

Write(m, b) ==
  /\ Ready /\ HasRoom(1)
  /\ socks' = Sent(socks, conn.sock, <<m>>)
  /\ believed' = IF socks[conn.sock].up THEN b ELSE believed
  /\ UNCHANGED <<client, server, faults, ticket, clean, found, given>>

MongoInsertBatch(ds) == Write(InsertMsg(ds), InsertedBy(believed, ds).docs)
MongoUpdate(d) == Write(Msg("update", d), believed \cup {d})   \* an upsert
MongoRemove(d) == Write(Msg("delete", d), believed \ {d})

-----------------------------------------------------------------------------
(* Queries.                                                                *)

Ask(ms, then, d) ==
  /\ HasRoom(Len(ms))
  /\ Asked(conn, socks, conn.sock, ms, then, d)
  /\ UNCHANGED <<server, faults, clean, found, given>>

(* mongo_find with nToReturn; EdbObject destroys the cursor it had first. *)
MongoFind(n) ==
  /\ Ready /\ ~cur.open
  /\ Ask(<<Request("query", n)>>, "find", 0)
  /\ UNCHANGED <<cur, believed>>

(* Mutant of NeedsMore: the document at hand counts as the last too early. *)
NeedsMoreEarly == cur.pos # 0 /\ cur.pos + 1 >= Len(cur.batch)

(* The document behind the one at hand is past the end of the message. *)
NeedsMore == cur.pos # 0 /\ cur.pos >= Len(cur.batch)

(* Where mongo_cursor_next returns 0. *)
AtEnd == cur.batch = <<>> \/ (NeedsMore /\ cur.id = 0)

(* Mutant of GetMoreMsg: the other op with a cursor. *)
KillMsg == Request("kill_cursors", cur.id)
GetMoreMsg == Request("get_more", cur.id)

(* mongo_cursor_next: the next document of the message, or get_more. *)
CursorStep ==
  /\ call.at = "idle" /\ cur.open /\ cur.batch # <<>> /\ ~NeedsMore
  /\ cur' = [cur EXCEPT !.pos = @ + 1]
  /\ given' = given \cup {cur.batch[i] : i \in {cur.pos + 1} \cap DOMAIN cur.batch}
  /\ UNCHANGED <<conn, call, socks, server, faults, ticket, clean, believed, found>>

CursorGetMore ==
  /\ Ready /\ cur.open /\ cur.batch # <<>> /\ NeedsMore /\ cur.id # 0
  /\ Ask(<<GetMoreMsg>>, "more", 0)
  /\ UNCHANGED <<cur, believed>>

(* Mutant of Kills: the cursor is freed and the server not told. *)
KillsNothing == <<>>
Kills == IF cur.id # 0 THEN <<Msg("kill_cursors", cur.id)>> ELSE <<>>

(* mongo_cursor_destroy, at any time between two calls. *)
CursorDestroy ==
  /\ call.at = "idle" /\ cur.open /\ (cur.id # 0 => conn.connected /\ HasRoom(1))
  /\ socks' = IF conn.connected THEN Sent(socks, conn.sock, Kills) ELSE socks
  /\ cur' = NoCur /\ found' = {} /\ given' = {}
  /\ UNCHANGED <<conn, call, server, faults, ticket, clean, believed>>

(* mongo_run_command through mongo_find_one: one document, no cursor.      *)
(* mongo_count and mongo_cmd_get_last_error.                               *)
RunCommand(name) ==
  /\ Ready
  /\ Ask(<<Request(name, 0)>>, name, 0)
  /\ UNCHANGED <<cur, believed>>

(* One turn of the loop in EdbObject.save: the document goes out under an  *)
(* _id, and getlasterror asks for the result.                              *)
Inserts(d) == <<InsertMsg(<<d>>), Request("getlasterror", 0)>>

Believes(d) ==
  believed' = IF socks[conn.sock].up THEN believed \cup {d} ELSE believed

Save(d) ==
  /\ Ready
  /\ Ask(Inserts(d), "save", d) /\ Believes(d)
  /\ UNCHANGED cur

-----------------------------------------------------------------------------
(* mongo_read_response and what the calls do with the reply.               *)

(* bson_find(..., "err") != bson_null. *)
(* Mutant of HasError: the comparison is the other way round. *)
HasNoError(r) == ~r.err
HasError(r) == r.err

(* Mutant of PosIn: current is made NULL, as in a new cursor. *)
PosNull(batch) == 0
PosIn(batch) == IF batch = <<>> THEN cur.pos ELSE 1

(* Mutant of Popped: the reply is left in the socket. *)
NotPopped == socks
Popped == [socks EXCEPT ![conn.sock].in = Tail(@)]

Returns == /\ call' = Idle /\ socks' = Popped
           /\ UNCHANGED <<conn, server, faults, ticket, clean, believed, found>>

ReadReply(r) ==
  \/ /\ call.then \in {"getlasterror", "count"}
     /\ Returns /\ UNCHANGED <<cur, given>>
  \/ /\ call.then = "find"
     /\ cur' = [open |-> TRUE, id |-> r.id, batch |-> r.batch, pos |-> 0]
     /\ Returns /\ UNCHANGED given
  \/ /\ call.then = "more"   \* current is left dangling after an empty batch
     /\ cur' = [cur EXCEPT !.id = r.id, !.batch = r.batch, !.pos = PosIn(r.batch)]
     /\ given' = given \cup (IF r.batch = <<>> THEN {} ELSE {Head(r.batch)})
     /\ Returns
  \/ /\ call.then = "save" /\ ~HasError(r)
     /\ Returns /\ UNCHANGED <<cur, given>>
  \/ /\ call.then = "save" /\ HasError(r)   \* find_id draws another number
     /\ \E d \in Ids :
          /\ Asked(conn, Popped, conn.sock, Inserts(d), "save", d)
          /\ Believes(d)
     /\ UNCHANGED <<cur, server, faults, clean, found, given>>
  \/ /\ \/ call.then = "master" /\ r.master
        \/ call.then = "other"    \* mongo_conn_not_master stays connected
     /\ Returns /\ UNCHANGED <<cur, given>>
  \/ /\ call.then = "master" /\ ~r.master
     /\ OtherServer(conn, Popped)
     /\ Reset
     /\ UNCHANGED <<cur, server, faults, found, given>>

MongoReadResponse ==
  /\ call.at = "read" /\ socks[conn.sock].in # <<>>
  /\ ReadReply(Head(socks[conn.sock].in))

(* looping_write and looping_read ignore a failure: 0 is no progress, and  *)
(* -1 moves the pointer back, so the call never ends.                      *)
LoopHangs ==
  /\ call.at # "hung" /\ conn.connected /\ ~socks[conn.sock].up
  /\ call' = [call EXCEPT !.at = "hung"]
  /\ UNCHANGED <<conn, cur, socks, server, faults, history>>

PairCalls ==
  /\ program = "pair"
  /\ \/ \E v \in Servers : \E w \in Servers \ {v} : MongoConnectPair(v, w)
     \/ MongoReconnect \/ MongoDisconnect \/ MongoDestroy
     \/ MongoUpdate(1)
     \/ \E name \in {"getlasterror", "count"} : RunCommand(name)

EdbCalls ==
  /\ program = "edb"
  /\ \/ \E d \in Ids : MongoRemove(d) \/ Save(d) \/ MongoUpdate(d)
     \/ \E d, e \in Ids : d # e /\ MongoInsertBatch(<<d, e>>)
     \/ \E n \in 0 .. 2 : MongoFind(n)
     \/ RunCommand("count") \/ CursorStep \/ CursorGetMore \/ CursorDestroy

Client == /\ \/ PairCalls \/ EdbCalls \/ (\E v \in Servers : MongoConnect(v))
             \/ MongoReadResponse \/ LoopHangs
          /\ UNCHANGED program

-----------------------------------------------------------------------------
(* The servers: external.                                                  *)

Reply(m) == [to |-> m.to, id |-> 0, batch |-> <<>>, err |-> FALSE,
             master |-> FALSE, n |-> 0]

Answered(s, r) ==
  socks' = [socks EXCEPT ![s].out = Tail(@), ![s].in = Append(@, r)]

(* The order a server returns documents in is its own.                     *)
Orders(ds) ==
  {f \in [1 .. Cardinality(ds) -> ds] :
     \A i, j \in 1 .. Cardinality(ds) : f[i] = f[j] => i = j}

(* The documents ds from a cursor: some first ones, in a batch, and the    *)
(* rest under a cursor number.                                             *)
Batch(s, m, v, ds, n) ==
  \E order \in Orders(ds) : \E k \in 0 .. Cardinality(ds) :
    LET first == {order[i] : i \in 1 .. k}
        answer == [Reply(m) EXCEPT !.batch = SubSeq(order, 1, k)]
    IN  /\ (k = 0) = (ds = {}) /\ (n > 0 => k <= n)
        /\ n = 2 => k = Min({2, Cardinality(ds)})
        /\ \/ /\ ds = first \/ n = 1
              /\ Answered(s, answer)
              /\ UNCHANGED kept
           \/ /\ ds # first /\ n # 1
              /\ \E c \in Cursors :
                   /\ kept[v][c] = {}
                   /\ Answered(s, [answer EXCEPT !.id = c])
                   /\ kept' = [kept EXCEPT ![v][c] = ds \ first]
        /\ found' = IF n = 1 THEN first ELSE ds

(* ... and the next ones of it.                                            *)
NextBatch(s, m, v, ds) ==
  \E order \in Orders(ds) : \E k \in 0 .. Cardinality(ds) :
    LET rest == ds \ {order[i] : i \in 1 .. k}
    IN  /\ (k = 0) = (ds = {})
        /\ Answered(s, [Reply(m) EXCEPT !.batch = SubSeq(order, 1, k),
                                        !.id = IF rest = {} THEN 0 ELSE m.arg])
        /\ kept' = [kept EXCEPT ![v][m.arg] = rest]

Handles(s, m, v) ==
  \/ /\ m.op = "insert"
     /\ docs' = InsertedBy(docs, m.arg).docs
     /\ socks' = [socks EXCEPT ![s].out = Tail(@), ![s].err = InsertedBy(docs, m.arg).err]
     /\ UNCHANGED <<kept, found>>
  \/ /\ m.op \in {"update", "delete"}
     /\ docs' = IF m.op = "update" THEN docs \cup {m.arg} ELSE docs \ {m.arg}
     /\ found' = IF m.op = "delete" THEN found \ {m.arg} ELSE found
     /\ socks' = [socks EXCEPT ![s].out = Tail(@), ![s].err = FALSE]
     /\ UNCHANGED kept
  \/ /\ m.op = "query"
     /\ Batch(s, m, v, docs, m.arg)
     /\ UNCHANGED docs
  \/ /\ m.op = "get_more"
     /\ NextBatch(s, m, v, kept[v][m.arg] \cap docs)
     /\ UNCHANGED <<docs, found>>
  \/ /\ m.op = "kill_cursors"
     /\ kept' = [kept EXCEPT ![v][m.arg] = {}]
     /\ socks' = [socks EXCEPT ![s].out = Tail(@)]
     /\ UNCHANGED <<docs, found>>
  \/ /\ m.op \in {"getlasterror", "ismaster", "count"}
     /\ Answered(s, [Reply(m) EXCEPT !.err = socks[s].err, !.master = (v = master),
                                     !.n = Cardinality(docs)])
     /\ UNCHANGED <<kept, docs, found>>

Serve(s) ==
  /\ socks[s].up /\ socks[s].out # <<>>
  /\ Handles(s, Head(socks[s].out), socks[s].peer)
  /\ UNCHANGED <<client, up, master, faults, ticket, clean, believed, given>>

Fault ==
  /\ faults < MaxFaults /\ faults' = faults + 1 /\ clean' = FALSE
  /\ \/ \E v \in up :     \* a crash: connections and cursors are gone
          /\ program = "edb" => v = conn.left
          /\ up' = up \ {v}
          /\ socks' = [s \in Socks |->
               IF socks[s].peer = v
               THEN [socks[s] EXCEPT !.up = FALSE, !.out = <<>>, !.in = <<>>]
               ELSE socks[s]]
          /\ kept' = [kept EXCEPT ![v] = [k \in Cursors |-> {}]]
          /\ UNCHANGED master
     \/ \E v \in Servers :    \* a failover
          program = "pair" /\ v # master /\ master' = v /\ UNCHANGED <<up, socks, kept>>
     \/ \E v \in Servers, k \in Cursors :    \* idle for ten minutes
          /\ kept[v][k] # {} /\ kept' = [kept EXCEPT ![v][k] = {}]
          /\ UNCHANGED <<up, socks, master>>
  /\ UNCHANGED <<client, docs, ticket, believed, found, given>>

Restart(v) ==
  /\ v \notin up /\ up' = up \cup {v}
  /\ UNCHANGED <<client, socks, master, kept, docs, faults, history>>

(* Once the program hangs it sees no more of what servers do. *)
External ==
  /\ call.at # "hung"
  /\ (\E s \in Socks : Serve(s)) \/ Fault \/ (\E v \in Servers : Restart(v))
  /\ UNCHANGED program

Next == Client \/ External

Spec == Init /\ [][Next]_vars

(* The servers answer and the driver reads on. *)
Fairness == /\ WF_vars(MongoReadResponse /\ UNCHANGED program)
            /\ \A s \in Socks : WF_vars(Serve(s) /\ UNCHANGED program)

LiveSpec == Spec /\ Fairness

-----------------------------------------------------------------------------
(* mongo.h:50, "always current server": whatever pairs, failovers and      *)
(* failed attempts came before, a connection goes to left_opts.            *)
LeftIsCurrent ==
  conn.connected => /\ socks[conn.sock].open
                    /\ socks[conn.sock].peer = conn.left

(* No responseTo is compared: that a reply belongs to the request at hand  *)
(* rests on one request being under way and each being read to its end.    *)
RepliesMatch ==
  conn.connected /\ socks[conn.sock].up =>
    LET s == socks[conn.sock]
        due == {i \in DOMAIN s.out : s.out[i].op \in Asking}
    IN  /\ Cardinality(due) + Len(s.in) = IF call.at = "read" THEN 1 ELSE 0
        /\ \A i \in due : s.out[i].to = ticket
        /\ \A i \in DOMAIN s.in : s.in[i].to = ticket

(* A cursor hands out no document twice, however the server cuts batches. *)
NoneTwice ==
  [][cur'.pos # 0 /\ cur'.batch # <<>> /\ <<cur'.pos, cur'.batch>> # <<cur.pos, cur.batch>>
       => cur'.batch[cur'.pos] \notin given]_vars

(* ... and when it ends it has handed out all that the query found and     *)
(* nobody removed, unless something failed.                                *)
AllGiven == clean /\ cur.open /\ AtEnd /\ call.at = "idle" => found \subseteq given

(* Cursors closed by exhaustion, early or by a collector leave none open   *)
(* on the server.                                                          *)
NoCursorLeak ==
  clean /\ Ready /\ ~cur.open /\ socks[conn.sock].out = <<>> =>
    \A k \in Cursors : kept[conn.left][k] = {}

(* Writes are not acknowledged, yet what is read after them shows them.    *)
ReadsOwnWrites ==
  clean /\ call.then = "count" /\ socks[conn.sock].in # <<>> =>
    Head(socks[conn.sock].in).n = Cardinality(believed)

(* EdbObject.save ends only when the server took the document: an _id that *)
(* was in use is never taken for the new object's.                         *)
SaveSettled ==
  [][call.then = "save" /\ call'.at = "idle" =>
       ~socks[conn.sock].err /\ (clean => call.doc \in docs)]_vars

(* A call that waits for a reply ends, unless the server at the other end  *)
(* is gone, or it is a save, which may draw numbers in use for ever.       *)
CallsEnd ==
  (call.at = "read" /\ call.then # "save")
    ~> (call.at # "read" \/ ~socks[conn.sock].up)
=============================================================================
