------------------------------ MODULE MainLoop ------------------------------
(***************************************************************************)
(* main_loop of core/core.d: one thread that waits for readiness, writes   *)
(* responses, accepts and reads, over the connection pool of ConnPool, the *)
(* globals cur_conn and cur_sock, and libowfat's table of descriptors.     *)
(* The peers and the kernel are the environment; they move between any two *)
(* steps of the loop.                                                      *)
(*                                                                         *)
(* The order in which libowfat (vendored) hands out ready descriptors is   *)
(* left open, and accept() always gives a descriptor io_fd takes.  What    *)
(* process_header and the page code make of the input is reduced to the    *)
(* outcomes main_loop tells apart.  cur_sock is the descriptor an action   *)
(* is about: every iteration sets it first.  turn and connects are back at *)
(* 0 when they are dead.                                                   *)
(***************************************************************************)
EXTENDS ConnPool

CONSTANTS
  AcceptMargin,    \* the 10 of "connects = 10 + reading + writing - connected"
  WritesPerLoop,   \* 50
  ReadsPerLoop,    \* 5
  UintMod,         \* 2^32: connects is a uint
  FileLens,        \* lengths static files have, in units of output
  PrintLen,        \* length of what is printed: a page or a refusal
  Mapped,          \* bound: how far behind the output bytes can be written
  MaxSends,        \* bound: sends of one peer
  MaxTogether,     \* bound: sends of any two peers, together
  Backlog          \* bound: peers waiting to be accepted (16 in socket_listen)

ASSUME LoopAssumption ==
  /\ AcceptMargin \in Nat \ {0}
  /\ WritesPerLoop \in Nat \ {0} /\ ReadsPerLoop \in Nat \ {0}
  /\ UintMod \in Nat \ {0}
  /\ FileLens \subseteq Nat \ {0} /\ PrintLen \in Nat \ {0} /\ Mapped \in Nat
  /\ MaxSends \in Nat /\ MaxTogether \in Nat /\ Backlog \in Nat

(* The listening socket and the null connection; neither is in Fds, Slots. *)
CONSTANTS Listen, NoSlot

ASSUME NamesAssumption ==
  /\ Listen \notin Fds /\ Listen # NoFd
  /\ NoSlot \notin Slots

VARIABLES
  pool,       \* the dyn_connection pool
  outputFile, \* per structure: output_file # null
  outLen,     \* output_len
  curPtr,     \* cur_ptr
  replaced,   \* history: a file took the place of output under way
  curConn,    \* the global cur_conn
  phase,      \* where in main_loop the thread is
  turn,       \* writes or reads done in this round
  connects,   \* the local of the accept loop
  inuse,      \* io_entry: inuse and wantread, set and cleared together here
  wantwrite,  \* io_entry: wantwrite
  cookie,     \* io_entry: cookie, the structure the descriptor serves
  canread,    \* descriptors io_canread will still return
  canwrite,   \* descriptors io_canwrite will still return
  net,        \* kernel: state of the socket behind a descriptor
  unread,     \* kernel: descriptors with bytes in the receive buffer
  sends,      \* sends of the peer so far (bounded by MaxSends)
  waiting     \* kernel: connections not accepted yet

serverVars == <<pool, outputFile, outLen, curPtr, replaced, curConn, phase, turn,
                connects, inuse, wantwrite, cookie, canread, canwrite>>
kernelVars == <<net, unread, sends, waiting>>
vars == <<serverVars, kernelVars>>

(***************************************************************************)
(* What a read makes of the input of a connection (header_len, output_file *)
(* and the branch of main_loop taken with them):                           *)
(*   none    header_len = 0: nothing complete yet                          *)
(*   bad     header_len = -1: 500, 411 or 304 was printed                  *)
(*   render  a page, a 404 or a photo was printed                          *)
(*   file    output_file points into FILES or FILES_GZIP                   *)
(*   empty   a photo that does not exist: io_wantwrite, nothing printed    *)
(*   silent  complete header, no answer: the body of a POST is missing or  *)
(*           too long, or the document is "/d/" with a wid                 *)
(***************************************************************************)
Requests == {"none", "bad", "render", "file", "empty", "silent"}

(* With every read the header is parsed again from its start, and the      *)
(* bytes behind the input are looked at: a request line that is cut is     *)
(* refused with a 500 and may parse well when the rest of it is there, a   *)
(* header that seemed to end may go on, and a document that was a 404 may  *)
(* be a file after a reload.  So one outcome does not bind the next, until *)
(* a file is found: then the header is not parsed again, and the document  *)
(* is looked up in a table that never loses a key.  (Which document it is  *)
(* is not told apart, so this allows more than the code: a page never      *)
(* becomes a photo.)                                                       *)
NextRequests(c) == IF outputFile[c] THEN {"file"} ELSE Requests

Answers(r) == r \in {"bad", "render", "file", "empty"}

TypeOK ==
  /\ pool \in Pools
  /\ outputFile \in [Slots -> BOOLEAN] /\ replaced \in [Slots -> BOOLEAN]
  /\ outLen \in [Slots -> Nat] /\ curPtr \in [Slots -> Nat]
  /\ curConn \in Slots \cup {NoSlot}
  /\ phase \in {"wait", "write", "read", "accept"}
  /\ turn \in Nat
  /\ connects \in 0 .. UintMod - 1
  /\ inuse \subseteq Fds /\ wantwrite \subseteq Fds
  /\ cookie \in [Fds -> Slots \cup {NoSlot}]
  /\ canread \subseteq Fds \cup {Listen} /\ canwrite \subseteq Fds
  /\ net \in [Fds -> {"none", "open", "eof", "reset"}]
  /\ unread \subseteq Fds
  /\ sends \in [Fds -> 0 .. MaxSends]
  /\ waiting \in 0 .. Backlog

Init ==
  /\ pool = InitPool
  /\ outputFile = [c \in Slots |-> FALSE] /\ replaced = [c \in Slots |-> FALSE]
  /\ outLen = [c \in Slots |-> 0] /\ curPtr = [c \in Slots |-> 0]
  /\ curConn = NoSlot
  /\ phase = "wait" /\ turn = 0 /\ connects = 0
  /\ inuse = {} /\ wantwrite = {}
  /\ cookie = [fd \in Fds |-> NoSlot]
  /\ canread = {} /\ canwrite = {}
  /\ net = [fd \in Fds |-> "none"]
  /\ unread = {}
  /\ sends = [fd \in Fds |-> 0]
  /\ waiting = 0

-----------------------------------------------------------------------------
(* The environment.                                                        *)

PeerConnects ==
  /\ waiting < Backlog
  /\ waiting' = waiting + 1
  /\ UNCHANGED <<serverVars, net, unread, sends>>

PeerSends(fd) ==
  /\ net[fd] = "open" /\ sends[fd] < MaxSends
  /\ \A other \in Fds \ {fd} : sends[fd] + sends[other] < MaxTogether
  /\ unread' = unread \cup {fd}
  /\ sends' = [sends EXCEPT ![fd] = @ + 1]
  /\ UNCHANGED <<serverVars, net, waiting>>

PeerCloses(fd) ==
  /\ net[fd] = "open"
  /\ net' = [net EXCEPT ![fd] = "eof"]
  /\ UNCHANGED <<serverVars, unread, sends, waiting>>

PeerResets(fd) ==
  /\ net[fd] \in {"open", "eof"}
  /\ net' = [net EXCEPT ![fd] = "reset"]
  /\ unread' = unread \ {fd}
  /\ UNCHANGED <<serverVars, sends, waiting>>

-----------------------------------------------------------------------------
(* io_waituntil2: everything with input, end of input or an error becomes  *)
(* readable; an error is reported to whoever wants to write, and of the    *)
(* other writers those whose peer has made room.                           *)
Readable ==
  {fd \in inuse : fd \in unread \/ net[fd] \in {"eof", "reset"}}
    \cup (IF waiting > 0 THEN {Listen} ELSE {})

(* Mutant of WaitUntil2: nothing is written to a peer that has closed its  *)
(* side.                                                                   *)
WaitUntil2Open(room) ==
  /\ phase = "wait"
  /\ canread' = canread \cup Readable
  /\ canwrite' = canwrite \cup {fd \in wantwrite : fd \in room /\ net[fd] = "open"}
  /\ phase' = "write" /\ turn' = 0
  /\ UNCHANGED <<pool, outputFile, outLen, curPtr, replaced, curConn, connects, inuse,
                 wantwrite, cookie, kernelVars>>

WaitUntil2(room) ==
  /\ phase = "wait"
  /\ canread' = canread \cup Readable
  /\ canwrite' = canwrite \cup {fd \in wantwrite : fd \in room \/ net[fd] = "reset"}
  /\ phase' = "write" /\ turn' = 0
  /\ UNCHANGED <<pool, outputFile, outLen, curPtr, replaced, curConn, connects, inuse,
                 wantwrite, cookie, kernelVars>>

(* Mutant of IoClose: close() without io_dontwantwrite. *)
CloseKeepsWants(fd) ==
  /\ inuse' = inuse \ {fd}
  /\ cookie' = [cookie EXCEPT ![fd] = NoSlot]
  /\ canread' = canread \ {fd} /\ canwrite' = canwrite \ {fd}
  /\ net' = [net EXCEPT ![fd] = "none"]
  /\ unread' = unread \ {fd}
  /\ sends' = [sends EXCEPT ![fd] = 0]
  /\ UNCHANGED <<waiting, wantwrite>>

(* io_close(cur_sock): the entry is cleared and the descriptor goes back   *)
(* to the kernel.  Ready marks of an entry that is not wanted are skipped  *)
(* by io_canread and io_canwrite, and io_fd clears them before reuse.      *)
IoClose(fd) ==
  /\ inuse' = inuse \ {fd} /\ wantwrite' = wantwrite \ {fd}
  /\ cookie' = [cookie EXCEPT ![fd] = NoSlot]
  /\ canread' = canread \ {fd} /\ canwrite' = canwrite \ {fd}
  /\ net' = [net EXCEPT ![fd] = "none"]
  /\ unread' = unread \ {fd}
  /\ sends' = [sends EXCEPT ![fd] = 0]
  /\ UNCHANGED waiting

(* Mutant of End: output_len is not reset. *)
EndKeepsOutput(p, c, sock) ==
  /\ pool' = Release(p, c)
  /\ outputFile' = [outputFile EXCEPT ![c] = FALSE]
  /\ replaced' = [replaced EXCEPT ![c] = FALSE]
  /\ curPtr' = [curPtr EXCEPT ![c] = 0]
  /\ UNCHANGED outLen
  /\ IoClose(sock)

(* dyn_connection.end for structure c of pool p: it closes cur_sock, the   *)
(* global, not the socket of the structure.                                *)
End(p, c, sock) ==
  /\ pool' = Release(p, c)
  /\ outputFile' = [outputFile EXCEPT ![c] = FALSE]
  /\ replaced' = [replaced EXCEPT ![c] = FALSE]
  /\ outLen' = [outLen EXCEPT ![c] = 0] /\ curPtr' = [curPtr EXCEPT ![c] = 0]
  /\ IoClose(sock)

(* One iteration of the write loop.  The stage that moves on is that of    *)
(* cur_conn, the connection last read or accepted, whatever conn is.       *)
Promoted == IF curConn \in Slots THEN StartWriting(pool, curConn) ELSE pool

TakeWritable(fd) ==
  /\ phase = "write" /\ turn < WritesPerLoop /\ fd \in canwrite
  /\ turn' = turn + 1
  /\ UNCHANGED <<curConn, phase, connects>>

(* l = -3, or -2: the write would block, and no time-out was ever set.     *)
WriteFails(fd) ==
  /\ TakeWritable(fd)
  /\ End(Promoted, cookie[fd], fd)

(* how_much is an unsigned difference.  When the pointer has passed the    *)
(* end of the output it is huge, and the kernel takes what is mapped       *)
(* behind the output until it reports a fault.                             *)
HowMuch(c) == (IF curPtr[c] <= outLen[c] THEN outLen[c] ELSE Mapped) - curPtr[c]

(* Mutant of WriteSome: the end of the response is looked for in this      *)
(* write alone, forgetting cur_ptr.                                        *)
WriteForgetsPtr(fd, l) ==
  LET c == cookie[fd] IN
  /\ TakeWritable(fd)
  /\ net[fd] # "reset"
  /\ l <= HowMuch(c) /\ (l > 0 \/ curPtr[c] = outLen[c])
  /\ IF l = outLen[c]
     THEN End(Promoted, c, fd)
     ELSE /\ pool' = Promoted
          /\ curPtr' = [curPtr EXCEPT ![c] = @ + l]
          /\ canwrite' = canwrite \ {fd}
          /\ UNCHANGED <<outputFile, outLen, replaced, inuse, wantwrite, cookie,
                         canread, kernelVars>>

(* l bytes of the how_much left were taken by the kernel: the connection   *)
(* ends when nothing is left, which is at once when nothing was printed.   *)
WriteSome(fd, l) ==
  LET c == cookie[fd] IN
  /\ TakeWritable(fd)
  /\ net[fd] # "reset"
  /\ l <= HowMuch(c) /\ (l > 0 \/ curPtr[c] = outLen[c])
  /\ IF l + curPtr[c] = outLen[c]
     THEN End(Promoted, c, fd)
     ELSE /\ pool' = Promoted
          /\ curPtr' = [curPtr EXCEPT ![c] = @ + l]
          /\ canwrite' = canwrite \ {fd}
          /\ UNCHANGED <<outputFile, outLen, replaced, inuse, wantwrite, cookie,
                         canread, kernelVars>>

WritesDone ==
  /\ phase = "write"
  /\ turn = WritesPerLoop \/ canwrite = {}
  /\ phase' = "read" /\ turn' = 0
  /\ UNCHANGED <<pool, outputFile, outLen, curPtr, replaced, curConn, connects, inuse, wantwrite,
                 cookie, canread, canwrite, kernelVars>>

-----------------------------------------------------------------------------
(* The read loop.                                                          *)

TakeReadable(fd) == phase = "read" /\ turn < ReadsPerLoop /\ fd \in canread

(* The listening socket is ready: connects is computed in a uint.          *)
StartAccepting ==
  /\ TakeReadable(Listen)
  /\ turn' = turn + 1
  /\ canread' = canread \ {Listen}
  /\ connects' = (AcceptMargin + pool.reading + pool.writing - pool.connected) % UintMod
  /\ phase' = "accept"
  /\ UNCHANGED <<pool, outputFile, outLen, curPtr, replaced, curConn, inuse, wantwrite, cookie,
                 canwrite, kernelVars>>

Decremented == (connects - 1) % UintMod

(* Mutant of HasRoom: one connection more. *)
RoomForOneMore == pool.used <= MaxConnections + 1

HasRoom == pool.used <= MaxConnections

(* One round of the accept loop: the kernel gives any descriptor that is   *)
(* free.                                                                   *)
Accept(fd) ==
  LET c == ConnectSlot(pool) IN
  /\ phase = "accept" /\ HasRoom /\ Decremented # 0
  /\ waiting > 0 /\ net[fd] = "none"
  /\ connects' = Decremented
  /\ waiting' = waiting - 1
  /\ net' = [net EXCEPT ![fd] = "open"]
  /\ curConn' = c
  /\ pool' = Connect(pool, fd)
  /\ inuse' = inuse \cup {fd}
  /\ cookie' = [cookie EXCEPT ![fd] = c]
  /\ UNCHANGED <<outputFile, outLen, curPtr, replaced, phase, turn, wantwrite, canread, canwrite,
                 unread, sends>>

AcceptDone ==
  /\ phase = "accept"
  /\ ~HasRoom \/ Decremented = 0 \/ waiting = 0 \/ \A fd \in Fds : net[fd] # "none"
  /\ phase' = "read"
  /\ connects' = 0
  /\ UNCHANGED <<pool, outputFile, outLen, curPtr, replaced, curConn, turn, inuse,
                 wantwrite, cookie, canread, canwrite, kernelVars>>

(* Bytes arrived.  r is what the whole input amounts to now; a bad header  *)
(* leaves the read loop at once.  What is printed goes behind what was     *)
(* printed before; a file, of length len, takes the place of it all, and   *)
(* cur_ptr stays where it was.                                             *)
ReadBytes(fd, r, len) ==
  LET c == cookie[fd] IN
  /\ TakeReadable(fd)
  /\ fd \in unread
  /\ r \in NextRequests(c)
  /\ unread' = unread \ {fd}
  /\ canread' = canread \ {fd}
  /\ curConn' = c
  /\ pool' = StartReading(pool, c)
  /\ outputFile' = [outputFile EXCEPT ![c] = (r = "file")]
  /\ outLen' = [outLen EXCEPT ![c] = CASE r \in {"bad", "render"} -> @ + PrintLen
                                       [] r = "file" -> len
                                       [] OTHER -> @]
  /\ replaced' = [replaced EXCEPT
       ![c] = @ \/ (r = "file" /\ curPtr[c] > 0 /\ (outputFile[c] => len # outLen[c]))]
  /\ wantwrite' = IF Answers(r) THEN wantwrite \cup {fd} ELSE wantwrite
  /\ phase' = IF r = "bad" THEN "wait" ELSE "read"
  /\ turn' = IF r = "bad" THEN 0 ELSE turn + 1
  /\ UNCHANGED <<curPtr, connects, inuse, cookie, canwrite, net, sends, waiting>>

(* Bytes arrived and the document is a photo path the code rejects         *)
(* ("goto error").                                                         *)
ReadRejected(fd) ==
  LET c == cookie[fd] IN
  /\ TakeReadable(fd)
  /\ turn' = turn + 1
  /\ fd \in unread
  /\ ~outputFile[c]
  /\ curConn' = c
  /\ End(StartReading(pool, c), c, fd)
  /\ UNCHANGED <<phase, connects>>

(* l = 0, the peer has closed its side: main_loop does nothing at all.     *)
ReadNothing(fd) ==
  /\ TakeReadable(fd)
  /\ turn' = turn + 1
  /\ fd \notin unread /\ net[fd] = "eof"
  /\ canread' = canread \ {fd}
  /\ UNCHANGED <<pool, outputFile, outLen, curPtr, replaced, curConn, phase, connects, inuse,
                 wantwrite, cookie, canwrite, kernelVars>>

(* l = -2 or -3. *)
ReadError(fd) ==
  /\ TakeReadable(fd)
  /\ turn' = turn + 1
  /\ net[fd] = "reset"
  /\ curConn' = cookie[fd]
  /\ End(pool, cookie[fd], fd)
  /\ UNCHANGED <<phase, connects>>

(* The rest of the round resets globals of the page code.  io_timeouted    *)
(* never returns a descriptor, since nothing calls io_timeout.             *)
ReadsDone ==
  /\ phase = "read"
  /\ turn = ReadsPerLoop \/ canread = {}
  /\ phase' = "wait" /\ turn' = 0
  /\ UNCHANGED <<pool, outputFile, outLen, curPtr, replaced, curConn, connects, inuse,
                 wantwrite, cookie, canread, canwrite, kernelVars>>

-----------------------------------------------------------------------------
Environment ==
  \/ PeerConnects
  \/ \E fd \in Fds : PeerSends(fd) \/ PeerCloses(fd) \/ PeerResets(fd)

WritePhase ==
  \/ \E fd \in canwrite : \/ WriteFails(fd)
                            \/ \E l \in 0 .. HowMuch(cookie[fd]) : WriteSome(fd, l)
  \/ WritesDone

ReadPhase ==
  \/ StartAccepting
  \/ \E fd \in Fds : Accept(fd)
  \/ AcceptDone
  \/ \E fd \in canread \cap Fds, r \in Requests, len \in FileLens : ReadBytes(fd, r, len)
  \/ \E fd \in canread \cap Fds : ReadRejected(fd) \/ ReadNothing(fd) \/ ReadError(fd)
  \/ ReadsDone

Server ==
  \/ \E room \in SUBSET Fds : WaitUntil2(room)
  \/ WritePhase
  \/ ReadPhase

Next == Environment \/ Server

Spec == Init /\ [][Next]_vars

(* The thread never blocks for more than the second it gives to            *)
(* io_waituntil2, so the loop goes on whatever the peers do; and a peer    *)
(* that is sent something makes room for more again and again.  Nothing is *)
(* assumed about peers sending, closing or connecting.                     *)
PeersReceive ==
  \A fd \in Fds : SF_vars(\E room \in SUBSET Fds : fd \in room /\ WaitUntil2(room))

FairSpec == Spec /\ WF_vars(Server) /\ PeersReceive

-----------------------------------------------------------------------------
(* The counters main_loop steers by count what they are named after:       *)
(* connected, reading and writing the structures in that stage, used the   *)
(* structures with a socket.  They are changed in five places, one of      *)
(* which touches cur_conn and ends another connection in the same round.   *)
PoolInv == PoolOK(pool)

(* One structure per watched descriptor and one descriptor per structure   *)
(* in use: the cookie of a descriptor names the structure whose socket it  *)
(* is.  assert(conn.socket == cur_sock) of the write loop rests on this,   *)
(* as does end(), which closes cur_sock on behalf of another structure's   *)
(* socket; a descriptor is never closed under a live connection, and every *)
(* open one belongs to one, so none leaks.                                 *)
SocketsOwned ==
  /\ \A fd \in inuse : /\ cookie[fd] \in Slots
                       /\ pool.socket[cookie[fd]] = fd
  /\ \A fd \in Fds : net[fd] # "none" <=> fd \in inuse
  /\ \A c \in Live(pool) : /\ pool.socket[c] \in inuse
                           /\ cookie[pool.socket[c]] = c
  /\ wantwrite \subseteq inuse /\ canwrite \subseteq wantwrite
  /\ canread \subseteq inuse \cup {Listen}
  /\ unread \subseteq inuse

(* What a structure holds belongs to its present connection: a free one    *)
(* is empty (the assert on output_file in connect()), so a new connection  *)
(* never starts with the output, the pointer or the file of the last one.  *)
FreeSlotsClean ==
  \A c \in Slots \ Live(pool) :
    ~outputFile[c] /\ outLen[c] = 0 /\ curPtr[c] = 0 /\ ~replaced[c]

(* The pointer into the response stays inside it while more requests on    *)
(* the connection lengthen it, and a response under way always has         *)
(* something left: how_much is an unsigned difference.  The exception is a *)
(* file that takes the place of output which is under way, be it what was  *)
(* printed for a request line cut between two reads, or a file loaded      *)
(* again with another length: output_len is set anew, cur_ptr is not, and  *)
(* the pointer may be anywhere (core.d:1713).  Whatever happens, a         *)
(* connection that has output is one the loop wants to write to.           *)
WithinOutput ==
  \A c \in Live(pool) :
    /\ replaced[c] \/ curPtr[c] < outLen[c] \/ (curPtr[c] = 0 /\ outLen[c] = 0)
    /\ outLen[c] > 0 => pool.socket[c] \in wantwrite

(* The pool never serves more than MAX_CONNECTIONS + 1 connections, and    *)
(* the list of structures stops growing there; the accept loop's own       *)
(* budget does not bound it, since connects wraps around.                  *)
PoolBounded ==
  /\ pool.used <= MaxConnections + 1
  /\ pool.allocated <= InitAllocated \/ pool.allocated <= MaxConnections + 1

(* The loop implements the abstract life of connections: the stage of a    *)
(* descriptor is the stage of the structure its cookie names.  Two         *)
(* connections change in one step only in the write loop, and then one     *)
(* ends while another starts writing.                                      *)
Life == [fd \in Fds |-> IF fd \in inuse THEN pool.stage[cookie[fd]] ELSE 0]

Abstract == INSTANCE ConnLife WITH Limit <- MaxConnections, life <- Life

ImplementsConnLife == Abstract!Spec

(* Once main_loop wants to write to a connection, that connection is in    *)
(* the end closed: the write loop finishes every response, longer than one *)
(* write or lengthened by a further request as it may be, whatever the     *)
(* other connections do.                                                   *)
ResponsesFinish == \A fd \in Fds : fd \in wantwrite ~> fd \notin wantwrite

(* "start garbage collecting connections" (core.d, at the end of           *)
(* main_loop): the structure of a peer that has gone is collected.         *)
ClosedPeersCollected == \A fd \in Fds : fd \in inuse /\ net[fd] = "eof" ~> fd \notin inuse

=============================================================================
