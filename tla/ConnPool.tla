------------------------------ MODULE ConnPool ------------------------------
(***************************************************************************)
(* The pool of dyn_connection structures (core/core.d).  The structures    *)
(* form a linked list that only ever grows; a structure is free when its   *)
(* socket is 0 and is then handed out again.  The static counters          *)
(* allocated / used / connected / reading / writing are kept beside the    *)
(* list by hand, one increment or decrement at a time.                     *)
(*                                                                         *)
(* A pool is one value, and an operation of the code is an operator from   *)
(* pools to pools, because one iteration of the write loop applies two of  *)
(* them: it promotes whatever cur_conn points at and may end another       *)
(* connection.                                                             *)
(***************************************************************************)
EXTENDS Integers, FiniteSets

CONSTANTS
  Fds,             \* the descriptors accept() can return
  NoFd,            \* socket == 0: the structure is free
  InitAllocated,   \* structures made by init() (19 in the code)
  MaxConnections   \* MAX_CONNECTIONS (200 in the code)

ASSUME PoolAssumption ==
  /\ NoFd \notin Fds
  /\ InitAllocated \in Nat \ {0}
  /\ MaxConnections \in Nat

(* Structures are named by their position in the list; the last one is the *)
(* first that can never be reached (see PoolOK).                           *)
Slots == 1 .. (InitAllocated + MaxConnections + 1)

(* cur_stage: 0 free, 1 connected, 2 reading, 3 writing. *)
Stages == 0 .. 3

Pools == [allocated : Nat, used : Nat,
          connected : Nat, reading : Nat, writing : Nat,
          socket : [Slots -> Fds \cup {NoFd}], stage : [Slots -> Stages]]

InStage(p, s) == {c \in Slots : p.stage[c] = s}
Live(p)       == {c \in Slots : p.socket[c] # NoFd}

(* dyn_connection.init: the first connect() of the loop finds the first    *)
(* structure free, so nineteen rounds make nineteen, not twenty.           *)
InitPool ==
  [allocated |-> InitAllocated, used |-> 0,
   connected |-> 0, reading |-> 0, writing |-> 0,
   socket |-> [c \in Slots |-> NoFd], stage |-> [c \in Slots |-> 0]]

(* dyn_connection.connect: the first free structure of the list, if the    *)
(* counters say there is one; otherwise a new one at the end.              *)
FreeSlots(p) == {c \in 1 .. p.allocated : p.socket[c] = NoFd}

ConnectSlot(p) ==
  IF p.used < p.allocated /\ FreeSlots(p) # {}
  THEN CHOOSE c \in FreeSlots(p) : \A d \in FreeSlots(p) : c <= d
  ELSE p.allocated + 1

(* connect() followed by what the accept loop writes into the structure.   *)
Connect(p, fd) ==
  LET c == ConnectSlot(p) IN
  [p EXCEPT !.allocated = IF c <= @ THEN @ ELSE @ + 1,
            !.used      = @ + 1,
            !.connected = @ + 1,
            !.socket[c] = fd,
            !.stage[c]  = 1]

(* Mutant of StartReading: the answer is expected at once, so the stage    *)
(* jumps to writing.                                                       *)
ReadingSkipped(p, c) ==
  IF p.stage[c] = 1
  THEN [p EXCEPT !.stage[c] = 3, !.connected = @ - 1, !.writing = @ + 1]
  ELSE p

(* The first bytes arrive: stage 1 becomes 2. *)
StartReading(p, c) ==
  IF p.stage[c] = 1
  THEN [p EXCEPT !.stage[c] = 2, !.connected = @ - 1, !.reading = @ + 1]
  ELSE p

(* Mutant of StartWriting: the test of cur_stage == 2 is missing. *)
WritingAnyStage(p, c) ==
  [p EXCEPT !.stage[c] = 3, !.reading = @ - 1, !.writing = @ + 1]

(* The write loop turns stage 2 into 3. *)
StartWriting(p, c) ==
  IF p.stage[c] = 2
  THEN [p EXCEPT !.stage[c] = 3, !.reading = @ - 1, !.writing = @ + 1]
  ELSE p

(* Mutant of Release: cur_stage keeps its value, as keepalive does. *)
ReleaseKeepsStage(p, c) ==
  [p EXCEPT !.connected = IF p.stage[c] = 1 THEN @ - 1 ELSE @,
            !.reading   = IF p.stage[c] = 2 THEN @ - 1 ELSE @,
            !.writing   = IF p.stage[c] = 3 THEN @ - 1 ELSE @,
            !.socket[c] = NoFd,
            !.used      = @ - 1]

(* dyn_connection.end, without the close of the descriptor. *)
Release(p, c) ==
  [p EXCEPT !.connected = IF p.stage[c] = 1 THEN @ - 1 ELSE @,
            !.reading   = IF p.stage[c] = 2 THEN @ - 1 ELSE @,
            !.writing   = IF p.stage[c] = 3 THEN @ - 1 ELSE @,
            !.stage[c]  = 0,
            !.socket[c] = NoFd,
            !.used      = @ - 1]

-----------------------------------------------------------------------------
(* What the hand-kept counters promise: each equals the number of          *)
(* structures it stands for, so none of these unsigned counters is ever    *)
(* decremented at zero, and connect() appends to the list only when every  *)
(* structure in it is taken.                                               *)
CountersMatch(p) ==
  /\ p.used      = Cardinality(Live(p))
  /\ p.connected = Cardinality(InStage(p, 1))
  /\ p.reading   = Cardinality(InStage(p, 2))
  /\ p.writing   = Cardinality(InStage(p, 3))

SlotsConsistent(p) ==
  /\ \A c \in Slots : (p.socket[c] = NoFd) <=> (p.stage[c] = 0)
  /\ \A c \in Live(p) : c <= p.allocated
  /\ \A c, d \in Live(p) : p.socket[c] = p.socket[d] => c = d

PoolOK(p) ==
  /\ p \in Pools
  /\ CountersMatch(p)
  /\ SlotsConsistent(p)
  /\ p.allocated >= InitAllocated
  /\ p.allocated <= InitAllocated \/ p.allocated <= MaxConnections + 1
=============================================================================
