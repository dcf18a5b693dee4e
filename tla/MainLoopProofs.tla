--------------------------- MODULE MainLoopProofs ---------------------------
(***************************************************************************)
(* The operations of the connection pool keep the hand-made counters equal *)
(* to what they count, and the invariants of the main loop hold for every  *)
(* number of descriptors and every setting of its limits; with them it     *)
(* implements ConnLife.                                                    *)
(***************************************************************************)
EXTENDS MainLoop, FiniteSetTheorems, WellFoundedInduction, TLAPS

-----------------------------------------------------------------------------
(* The pool. *)
(* The structures are finitely many, and so is every part of them. *)
LEMMA SlotsFinite ==
  /\ IsFiniteSet(Slots)
  /\ \A S \in SUBSET Slots : IsFiniteSet(S) /\ Cardinality(S) \in Nat
<1>1. IsFiniteSet(Slots)
  BY FS_Interval, PoolAssumption DEF Slots
<1>2. QED
  BY <1>1, FS_Subset, FS_CardinalityType

(* Putting one structure into a set of structures, and taking one out.     *)
LEMMA CardinalityStep ==
  ASSUME NEW S \in SUBSET Slots, NEW c \in Slots
  PROVE  /\ c \notin S => Cardinality(S \cup {c}) = Cardinality(S) + 1
         /\ c \in S => Cardinality(S \ {c}) = Cardinality(S) - 1
         /\ c \in S => Cardinality(S) >= 1
<1>1. IsFiniteSet(S) /\ Cardinality(S) \in Nat
  BY SlotsFinite
<1>2. c \in S => Cardinality(S) # 0
  BY <1>1, FS_EmptySet
<1>3. c \notin S => Cardinality(S \cup {c}) = Cardinality(S) + 1
  BY <1>1, FS_AddElement
<1>4. c \in S => Cardinality(S \ {c}) = Cardinality(S) - 1
  BY <1>1, FS_RemoveElement
<1>5. QED
  BY <1>1, <1>2, <1>3, <1>4

(* A non-empty set of naturals has a least element: the CHOOSE of
   ConnectSlot, the first free structure of the list, finds one. *)
LEMMA LeastElement ==
  ASSUME NEW S \in SUBSET Nat, S # {}
  PROVE  \E c \in S : \A d \in S : c <= d
<1>1. PICK c \in S : \A d \in S : ~ (<<d, c>> \in OpToRel(<, Nat))
  BY NatLessThanWellFounded, WFMin
<1>2. \A d \in S : ~ (d < c)
  BY <1>1 DEF OpToRel
<1>3. \A d \in S : d \in Nat
  OBVIOUS
<1>4. \A d \in S : c <= d
  BY <1>2, <1>3
<1>5. QED
  BY <1>4

(* The pool that init() leaves has exact counters: all are 0. *)
LEMMA InitPoolOK == PoolOK(InitPool)
<1>1. Live(InitPool) = {} /\ \A s \in 1 .. 3 : InStage(InitPool, s) = {}
  BY DEF Live, InStage, InitPool
<1>2. CountersMatch(InitPool)
  BY <1>1, FS_EmptySet DEF CountersMatch, InitPool
<1>3. SlotsConsistent(InitPool)
  BY <1>1 DEF SlotsConsistent, InitPool
<1>4. InitPool \in Pools
  BY PoolAssumption DEF InitPool, Pools, Stages
<1>5. QED
  BY <1>2, <1>3, <1>4, PoolAssumption DEF PoolOK, InitPool

(* The structure connect() returns is free, and while the accept loop's    *)
(* test on used holds it lies within the bound.                            *)
LEMMA ConnectSlotFree ==
  ASSUME NEW p, PoolOK(p), p.used <= MaxConnections
  PROVE  /\ ConnectSlot(p) \in Slots \ Live(p)
         /\ \/ ConnectSlot(p) <= p.allocated
            \/ ConnectSlot(p) = p.allocated + 1 /\ p.allocated + 1 <= MaxConnections + 1
<1> DEFINE A == 1 .. p.allocated
<1>1. /\ p \in Pools /\ p.allocated \in Nat /\ p.used \in Nat
      /\ Live(p) \subseteq A /\ A \subseteq Slots
      /\ p.used = Cardinality(Live(p))
  BY PoolAssumption DEF PoolOK, Pools, SlotsConsistent, CountersMatch, Live, Slots
<1>2. IsFiniteSet(A) /\ Cardinality(A) = p.allocated
  <2>1. p.allocated \in Nat /\ p.allocated \in Int /\ 1 \in Int
    BY <1>1
  <2>2. IsFiniteSet(A)
    BY <2>1, FS_Interval
  <2>3. Cardinality(A) = IF 1 > p.allocated THEN 0 ELSE p.allocated - 1 + 1
    BY <2>1, FS_Interval
  <2>4. QED
    BY <2>1, <2>2, <2>3
<1>3. Cardinality(Live(p)) <= Cardinality(A)
      /\ (Cardinality(Live(p)) = Cardinality(A) => Live(p) = A)
  BY <1>1, <1>2, FS_Subset
<1>4. CASE p.used < p.allocated
  <2>1. FreeSlots(p) # {}
    <3>1. SUFFICES ASSUME FreeSlots(p) = {} PROVE FALSE
      OBVIOUS
    <3>2. A \subseteq Live(p)
      BY <3>1, <1>1 DEF FreeSlots, Live
    <3>3. Live(p) = A
      BY <3>2, <1>1
    <3>4. QED
      BY <3>3, <1>1, <1>2, <1>4
  <2>2. \E c \in FreeSlots(p) : \A d \in FreeSlots(p) : c <= d
    <3>1. FreeSlots(p) \in SUBSET Nat
      BY <1>1 DEF FreeSlots
    <3>2. QED
      BY <3>1, <2>1, LeastElement
  <2>3. ConnectSlot(p) \in FreeSlots(p)
    BY <2>1, <2>2, <1>4 DEF ConnectSlot
  <2>4. QED
    BY <2>3, <1>1 DEF FreeSlots, Live
<1>5. CASE ~ (p.used < p.allocated)
  <2>1. p.used = p.allocated /\ Live(p) = A
    BY <1>1, <1>2, <1>3, <1>5
  <2>2. ConnectSlot(p) = p.allocated + 1
    BY <1>5 DEF ConnectSlot
  <2>3. QED
    BY <1>1, <2>1, <2>2, PoolAssumption DEF Slots
<1>6. QED
  BY <1>4, <1>5

(* Accepting: connect() and the assignments of the accept loop.            *)
LEMMA ConnectOK ==
  ASSUME NEW p, PoolOK(p), p.used <= MaxConnections,
         NEW fd \in Fds, \A c \in Live(p) : p.socket[c] # fd
  PROVE  LET c == ConnectSlot(p)
             q == Connect(p, fd)
         IN  /\ PoolOK(q)
             /\ c \in Slots \ Live(p) /\ Live(q) = Live(p) \cup {c}
             /\ q.used = p.used + 1
             /\ q.allocated <= InitAllocated \/ q.allocated <= MaxConnections + 1
             /\ q.socket = [p.socket EXCEPT ![c] = fd]
             /\ q.stage = [p.stage EXCEPT ![c] = 1]
<1> DEFINE c == ConnectSlot(p)
           q == Connect(p, fd)
<1>1. /\ c \in Slots /\ c \notin Live(p)
      /\ c <= p.allocated \/ (c = p.allocated + 1 /\ p.allocated + 1 <= MaxConnections + 1)
  BY ConnectSlotFree
<1>2. p \in Pools /\ fd # NoFd
  BY PoolAssumption DEF PoolOK
<1> HIDE DEF c
<1>3. /\ q.allocated = IF c <= p.allocated THEN p.allocated ELSE p.allocated + 1
      /\ q.used = p.used + 1 /\ q.connected = p.connected + 1
      /\ q.reading = p.reading /\ q.writing = p.writing
      /\ q.socket = [p.socket EXCEPT ![c] = fd]
      /\ q.stage = [p.stage EXCEPT ![c] = 1]
  BY <1>1, <1>2 DEF Connect, c, Pools
<1>4. q \in Pools
  <2>1. /\ q.allocated \in Nat /\ q.used \in Nat /\ q.connected \in Nat
        /\ q.socket \in [Slots -> Fds \cup {NoFd}] /\ q.stage \in [Slots -> Stages]
    BY <1>1, <1>2, <1>3 DEF Pools, Stages
  <2>2. QED
    BY <1>2, <1>3, <2>1 DEF Connect, Pools
<1>5. p.stage[c] = 0
  BY <1>1 DEF PoolOK, SlotsConsistent, Live
<1>6. /\ Live(q) = Live(p) \cup {c}
      /\ InStage(q, 1) = InStage(p, 1) \cup {c}
      /\ InStage(q, 2) = InStage(p, 2)
      /\ InStage(q, 3) = InStage(p, 3)
  BY <1>1, <1>2, <1>3, <1>5 DEF Live, InStage, Pools, Stages
<1>7. CountersMatch(q)
  <2>1. Cardinality(Live(p) \cup {c}) = Cardinality(Live(p)) + 1
    BY <1>1, CardinalityStep DEF Live
  <2>2. Cardinality(InStage(p, 1) \cup {c}) = Cardinality(InStage(p, 1)) + 1
    BY <1>1, <1>5, CardinalityStep DEF InStage
  <2>3. QED
    BY <1>3, <1>6, <2>1, <2>2 DEF CountersMatch, PoolOK
<1>8. SlotsConsistent(q)
  <2>1. \A d \in Slots : (q.socket[d] = NoFd) <=> (q.stage[d] = 0)
    BY <1>1, <1>2, <1>3 DEF PoolOK, SlotsConsistent, Pools
  <2>2. \A d \in Live(q) : d <= q.allocated
    BY <1>1, <1>2, <1>3, <1>6 DEF PoolOK, SlotsConsistent, Pools, Slots, Live
  <2>3. \A d, e \in Live(q) : q.socket[d] = q.socket[e] => d = e
    BY <1>1, <1>2, <1>3, <1>6 DEF PoolOK, SlotsConsistent, Pools, Live
  <2>4. QED
    BY <2>1, <2>2, <2>3 DEF SlotsConsistent
<1>9. /\ q.allocated >= InitAllocated
      /\ q.allocated <= InitAllocated \/ q.allocated <= MaxConnections + 1
  BY <1>1, <1>2, <1>3, PoolAssumption DEF PoolOK, Pools
<1>10. QED
  BY <1>1, <1>3, <1>4, <1>6, <1>7, <1>8, <1>9 DEF PoolOK, c

(* The first bytes of a connection.                                         *)
LEMMA StartReadingOK ==
  ASSUME NEW p, PoolOK(p), NEW c \in Slots
  PROVE  LET q == StartReading(p, c)
         IN  /\ PoolOK(q)
             /\ q.socket = p.socket /\ q.used = p.used /\ Live(q) = Live(p)
             /\ q.allocated = p.allocated
             /\ q.stage = IF p.stage[c] = 1 THEN [p.stage EXCEPT ![c] = 2] ELSE p.stage
<1> DEFINE q == StartReading(p, c)
<1>1. p \in Pools
  BY DEF PoolOK
<1>2. CASE p.stage[c] # 1
  BY <1>1, <1>2 DEF StartReading, PoolOK
<1>3. CASE p.stage[c] = 1
  <2>1. /\ q.allocated = p.allocated /\ q.used = p.used /\ q.socket = p.socket
        /\ q.connected = p.connected - 1 /\ q.reading = p.reading + 1
        /\ q.writing = p.writing
        /\ q.stage = [p.stage EXCEPT ![c] = 2]
    BY <1>1, <1>3 DEF StartReading, Pools
  <2>2. /\ Live(q) = Live(p)
        /\ InStage(q, 1) = InStage(p, 1) \ {c}
        /\ InStage(q, 2) = InStage(p, 2) \cup {c}
        /\ InStage(q, 3) = InStage(p, 3)
    BY <1>1, <1>3, <2>1 DEF Live, InStage, Pools, Stages
  <2>3. /\ Cardinality(InStage(p, 1) \ {c}) = Cardinality(InStage(p, 1)) - 1
        /\ Cardinality(InStage(p, 1)) >= 1
        /\ Cardinality(InStage(p, 2) \cup {c}) = Cardinality(InStage(p, 2)) + 1
    BY <1>3, CardinalityStep DEF InStage
  <2>4. CountersMatch(q)
    BY <2>1, <2>2, <2>3 DEF CountersMatch, PoolOK
  <2>5. SlotsConsistent(q)
    BY <1>1, <1>3, <2>1, <2>2 DEF PoolOK, SlotsConsistent, Pools
  <2>6. q \in Pools
    <3>1. /\ q.connected \in Nat /\ q.reading \in Nat
          /\ q.stage \in [Slots -> Stages]
      BY <1>1, <2>1, <2>3 DEF Pools, Stages, PoolOK, CountersMatch
    <3>2. QED
      BY <1>1, <1>3, <2>1, <3>1 DEF StartReading, Pools
  <2>7. QED
    BY <1>3, <2>1, <2>2, <2>4, <2>5, <2>6 DEF PoolOK
<1>4. QED
  BY <1>2, <1>3

(* The promotion in the write loop, of whatever structure cur_conn names.   *)
LEMMA StartWritingOK ==
  ASSUME NEW p, PoolOK(p), NEW c \in Slots
  PROVE  LET q == StartWriting(p, c)
         IN  /\ PoolOK(q)
             /\ q.socket = p.socket /\ q.used = p.used /\ Live(q) = Live(p)
             /\ q.allocated = p.allocated
             /\ q.stage = IF p.stage[c] = 2 THEN [p.stage EXCEPT ![c] = 3] ELSE p.stage
<1> DEFINE q == StartWriting(p, c)
<1>1. p \in Pools
  BY DEF PoolOK
<1>2. CASE p.stage[c] # 2
  BY <1>1, <1>2 DEF StartWriting, PoolOK
<1>3. CASE p.stage[c] = 2
  <2>1. /\ q.allocated = p.allocated /\ q.used = p.used /\ q.socket = p.socket
        /\ q.reading = p.reading - 1 /\ q.writing = p.writing + 1
        /\ q.connected = p.connected
        /\ q.stage = [p.stage EXCEPT ![c] = 3]
    BY <1>1, <1>3 DEF StartWriting, Pools
  <2>2. /\ Live(q) = Live(p)
        /\ InStage(q, 2) = InStage(p, 2) \ {c}
        /\ InStage(q, 3) = InStage(p, 3) \cup {c}
        /\ InStage(q, 1) = InStage(p, 1)
    BY <1>1, <1>3, <2>1 DEF Live, InStage, Pools, Stages
  <2>3. /\ Cardinality(InStage(p, 2) \ {c}) = Cardinality(InStage(p, 2)) - 1
        /\ Cardinality(InStage(p, 2)) >= 1
        /\ Cardinality(InStage(p, 3) \cup {c}) = Cardinality(InStage(p, 3)) + 1
    BY <1>3, CardinalityStep DEF InStage
  <2>4. CountersMatch(q)
    BY <2>1, <2>2, <2>3 DEF CountersMatch, PoolOK
  <2>5. SlotsConsistent(q)
    BY <1>1, <1>3, <2>1, <2>2 DEF PoolOK, SlotsConsistent, Pools
  <2>6. q \in Pools
    <3>1. /\ q.reading \in Nat /\ q.writing \in Nat
          /\ q.stage \in [Slots -> Stages]
      BY <1>1, <2>1, <2>3 DEF Pools, Stages, PoolOK, CountersMatch
    <3>2. QED
      BY <1>1, <1>3, <2>1, <3>1 DEF StartWriting, Pools
  <2>7. QED
    BY <1>3, <2>1, <2>2, <2>4, <2>5, <2>6 DEF PoolOK
<1>4. QED
  BY <1>2, <1>3

(* end(): the structure of a connection in any stage becomes free.         *)
LEMMA ReleaseOK ==
  ASSUME NEW p, PoolOK(p), NEW c \in Live(p)
  PROVE  LET q == Release(p, c)
         IN  /\ PoolOK(q)
             /\ Live(q) = Live(p) \ {c} /\ q.used = p.used - 1
             /\ q.allocated = p.allocated
             /\ q.socket = [p.socket EXCEPT ![c] = NoFd]
             /\ q.stage = [p.stage EXCEPT ![c] = 0]
<1> DEFINE q == Release(p, c)
           Was(s) == IF p.stage[c] = s THEN 1 ELSE 0
<1>1. p \in Pools /\ c \in Slots /\ p.stage[c] \in {1, 2, 3}
  BY DEF PoolOK, Live, SlotsConsistent, Pools, Stages
<1>2. /\ q.allocated = p.allocated /\ q.used = p.used - 1
      /\ q.connected = p.connected - Was(1)
      /\ q.reading = p.reading - Was(2)
      /\ q.writing = p.writing - Was(3)
      /\ q.socket = [p.socket EXCEPT ![c] = NoFd]
      /\ q.stage = [p.stage EXCEPT ![c] = 0]
  BY <1>1 DEF Release, Pools
<1>3. /\ Live(q) = Live(p) \ {c}
      /\ \A s \in 1 .. 3 : InStage(q, s) = InStage(p, s) \ {c}
  BY <1>1, <1>2 DEF Live, InStage, Pools, Stages
<1>4. \A s \in 1 .. 3 : /\ Cardinality(InStage(p, s) \ {c}) = Cardinality(InStage(p, s)) - Was(s)
                        /\ Cardinality(InStage(p, s)) - Was(s) \in Nat
  <2>1. TAKE s \in 1 .. 3
  <2>2. InStage(p, s) \in SUBSET Slots /\ IsFiniteSet(InStage(p, s))
        /\ Cardinality(InStage(p, s)) \in Nat
    BY SlotsFinite DEF InStage
  <2>3. CASE p.stage[c] = s
    <3>1. c \in InStage(p, s)
      BY <1>1, <2>3 DEF InStage
    <3>2. /\ Cardinality(InStage(p, s) \ {c}) = Cardinality(InStage(p, s)) - 1
          /\ Cardinality(InStage(p, s)) >= 1
      BY <1>1, <2>2, <3>1, CardinalityStep
    <3>3. Was(s) = 1
      BY <2>3
    <3> HIDE DEF Was
    <3>4. QED
      BY <2>2, <3>2, <3>3
  <2>4. CASE p.stage[c] # s
    <3>1. InStage(p, s) \ {c} = InStage(p, s)
      BY <2>4 DEF InStage
    <3>2. Cardinality(InStage(p, s) \ {c}) = Cardinality(InStage(p, s))
      BY <3>1
    <3>3. Was(s) = 0
      BY <2>4
    <3> HIDE DEF Was
    <3>4. QED
      BY <2>2, <3>2, <3>3
  <2>5. QED
    BY <2>3, <2>4
<1>5. /\ Cardinality(Live(p) \ {c}) = Cardinality(Live(p)) - 1
      /\ Cardinality(Live(p)) >= 1
  BY <1>1, CardinalityStep DEF Live
<1>6. CountersMatch(q)
  <2>1. /\ p.used = Cardinality(Live(p))
        /\ p.connected = Cardinality(InStage(p, 1))
        /\ p.reading = Cardinality(InStage(p, 2))
        /\ p.writing = Cardinality(InStage(p, 3))
    BY DEF PoolOK, CountersMatch
  <2>2. q.used = Cardinality(Live(q))
    BY <1>2, <1>3, <1>5, <2>1
  <2>3. /\ q.connected = Cardinality(InStage(q, 1))
        /\ q.reading = Cardinality(InStage(q, 2))
        /\ q.writing = Cardinality(InStage(q, 3))
    <3>1. 1 \in 1 .. 3 /\ 2 \in 1 .. 3 /\ 3 \in 1 .. 3
      OBVIOUS
    <3> HIDE DEF q, Was
    <3>2. QED
      BY <1>2, <1>3, <1>4, <2>1, <3>1
  <2>4. QED
    BY <2>2, <2>3 DEF CountersMatch
<1>7. SlotsConsistent(q)
  BY <1>1, <1>2, <1>3 DEF PoolOK, SlotsConsistent, Pools, Live
<1>8. q \in Pools
  <2>1. /\ q.used \in Nat /\ q.connected \in Nat /\ q.reading \in Nat /\ q.writing \in Nat
    <3>1. 1 \in 1 .. 3 /\ 2 \in 1 .. 3 /\ 3 \in 1 .. 3
      OBVIOUS
    <3>2. /\ p.used = Cardinality(Live(p)) /\ p.used \in Nat
          /\ p.connected = Cardinality(InStage(p, 1))
          /\ p.reading = Cardinality(InStage(p, 2))
          /\ p.writing = Cardinality(InStage(p, 3))
      BY <1>1 DEF PoolOK, CountersMatch, Pools
    <3> HIDE DEF q, Was
    <3>3. QED
      BY <1>2, <1>4, <1>5, <3>1, <3>2
  <2>2. /\ q.socket \in [Slots -> Fds \cup {NoFd}] /\ q.stage \in [Slots -> Stages]
    BY <1>1, <1>2 DEF Pools, Stages
  <2>3. QED
    BY <1>1, <1>2, <2>1, <2>2 DEF Release, Pools
<1>9. QED
  BY <1>2, <1>3, <1>6, <1>7, <1>8 DEF PoolOK

-----------------------------------------------------------------------------
(* The main loop. *)

(* The inductive invariant is the conjunction of what the runs check: the  *)
(* counters of the pool need SocketsOwned (end() is called for a structure *)
(* in use), SocketsOwned needs the pool to be consistent, and the output   *)
(* of a connection needs its structure to have been clean at accept.       *)
IInv ==
  /\ TypeOK
  /\ PoolInv
  /\ SocketsOwned
  /\ FreeSlotsClean
  /\ WithinOutput
  /\ PoolBounded

USE PoolAssumption, LoopAssumption, NamesAssumption

(* What a uint holds after an assignment is below UintMod. *)
LEMMA UintRange == \A x \in Int : x % UintMod \in 0 .. UintMod - 1
  OBVIOUS

(* The strengthened invariant holds when main_loop starts. *)
LEMMA InitInv == Init => IInv
<1> SUFFICES ASSUME Init PROVE IInv
  OBVIOUS
<1>1. pool = InitPool /\ PoolOK(pool) /\ pool \in Pools
  BY InitPoolOK DEF Init, PoolOK
<1>2. Live(pool) = {}
  BY <1>1 DEF Live, InitPool
<1>3. TypeOK
  BY <1>1 DEF Init, TypeOK, Requests
<1>4. SocketsOwned
  BY <1>2 DEF Init, SocketsOwned
<1>5. FreeSlotsClean /\ WithinOutput
  BY <1>2 DEF Init, FreeSlotsClean, WithinOutput
<1>6. PoolBounded
  BY <1>1 DEF PoolBounded, InitPool
<1>7. QED
  BY <1>1, <1>3, <1>4, <1>5, <1>6 DEF IInv, PoolInv

(* A descriptor in use has a structure of its own.                         *)
LEMMA OwnSlot ==
  ASSUME IInv, NEW fd \in inuse
  PROVE  /\ fd \in Fds /\ cookie[fd] \in Live(pool) /\ cookie[fd] \in Slots
         /\ pool.socket[cookie[fd]] = fd
         /\ \A c \in Live(pool) : pool.socket[c] = fd => c = cookie[fd]
BY DEF IInv, TypeOK, SocketsOwned, Live, PoolInv, PoolOK, SlotsConsistent

(* Steps of the peers touch nothing the server has.                        *)
LEMMA EnvironmentInv == ASSUME IInv, Environment PROVE IInv'
<1>1. pool' = pool /\ UNCHANGED serverVars
  BY DEF Environment, PeerConnects, PeerSends, PeerCloses, PeerResets, serverVars
<1> DEFINE Kernel == /\ net' \in [Fds -> {"none", "open", "eof", "reset"}]
                     /\ unread' \subseteq Fds
                     /\ sends' \in [Fds -> 0 .. MaxSends]
                     /\ waiting' \in 0 .. Backlog
                     /\ unread' \subseteq inuse
                     /\ \A fd \in Fds : net'[fd] # "none" <=> fd \in inuse
<1>2. Kernel
  <2>1. TypeOK /\ SocketsOwned
    BY DEF IInv
  <2>2. CASE PeerConnects
    BY <2>1, <2>2 DEF TypeOK, SocketsOwned, PeerConnects
  <2>3. ASSUME NEW fd \in Fds, PeerSends(fd) PROVE Kernel
    BY <2>1, <2>3 DEF TypeOK, SocketsOwned, PeerSends
  <2>4. ASSUME NEW fd \in Fds, PeerCloses(fd) PROVE Kernel
    BY <2>1, <2>4 DEF TypeOK, SocketsOwned, PeerCloses
  <2>5. ASSUME NEW fd \in Fds, PeerResets(fd) PROVE Kernel
    BY <2>1, <2>5 DEF TypeOK, SocketsOwned, PeerResets
  <2>6. QED
    BY <2>2, <2>3, <2>4, <2>5 DEF Environment
<1>3. TypeOK'
  BY <1>1, <1>2 DEF IInv, TypeOK, serverVars
<1>4. SocketsOwned'
  BY <1>1, <1>2 DEF IInv, SocketsOwned, serverVars, Live
<1>5. PoolInv' /\ FreeSlotsClean' /\ WithinOutput' /\ PoolBounded'
  BY <1>1 DEF IInv, PoolInv, FreeSlotsClean, WithinOutput, PoolBounded, serverVars, Live
<1>6. QED
  BY <1>3, <1>4, <1>5 DEF IInv

(* end() applied to the structure of descriptor fd, over a pool p that     *)
(* differs from the present one in the stages of connections at most.      *)
LEMMA EndInv ==
  ASSUME IInv, NEW fd \in inuse,
         NEW p, PoolOK(p), p.socket = pool.socket, p.used = pool.used,
         p.allocated = pool.allocated,
         End(p, cookie[fd], fd),
         curConn' \in Slots \cup {NoSlot}, phase' \in {"write", "read"}, turn' \in Nat,
         connects' = connects
  PROVE  IInv'
<1> DEFINE c == cookie[fd]
<1>1. /\ c \in Live(p) /\ Live(p) = Live(pool) /\ c \in Slots /\ fd \in Fds
      /\ pool.socket[c] = fd
      /\ \A d \in Live(pool) : pool.socket[d] = fd => d = c
  BY OwnSlot DEF Live
<1>2. /\ PoolOK(Release(p, c)) /\ Live(Release(p, c)) = Live(p) \ {c}
      /\ Release(p, c).used = p.used - 1 /\ Release(p, c).allocated = p.allocated
      /\ Release(p, c).socket = [p.socket EXCEPT ![c] = NoFd]
  <2> HIDE DEF c
  <2>1. QED
    BY <1>1, ReleaseOK
<1>3. /\ PoolOK(pool') /\ Live(pool') = Live(pool) \ {c}
      /\ pool'.used = pool.used - 1 /\ pool'.allocated = pool.allocated
      /\ pool'.socket = [pool.socket EXCEPT ![c] = NoFd]
  <2>1. pool' = Release(p, c)
    BY DEF End
  <2>2. Live(pool') = Live(Release(p, c)) /\ (PoolOK(pool') <=> PoolOK(Release(p, c)))
    BY <2>1
  <2> HIDE DEF c
  <2>3. QED
    BY <1>1, <1>2, <2>1, <2>2
<1>4. TypeOK'
  BY <1>1, <1>3 DEF IInv, TypeOK, End, IoClose, PoolOK, Requests
<1>5. SocketsOwned'
  <2>1. /\ inuse' = inuse \ {fd} /\ wantwrite' = wantwrite \ {fd}
        /\ canread' = canread \ {fd} /\ canwrite' = canwrite \ {fd}
        /\ unread' = unread \ {fd}
        /\ cookie' = [cookie EXCEPT ![fd] = NoSlot]
        /\ net' = [net EXCEPT ![fd] = "none"]
    BY DEF End, IoClose
  <2>2. SocketsOwned /\ TypeOK /\ pool.socket \in [Slots -> Fds \cup {NoFd}]
    BY DEF IInv, PoolInv, PoolOK, Pools
  <2>3. \A e \in inuse \ {fd} : cookie[e] \in Slots /\ cookie[e] # c
    BY <1>1, <2>2 DEF SocketsOwned
  <2>4. \A e \in inuse' : /\ cookie'[e] \in Slots
                          /\ pool'.socket[cookie'[e]] = e
    BY <1>1, <1>3, <2>1, <2>2, <2>3 DEF SocketsOwned, TypeOK
  <2>5. \A e \in Fds : net'[e] # "none" <=> e \in inuse'
    BY <1>1, <2>1, <2>2 DEF SocketsOwned, TypeOK
  <2>6. \A d \in Live(pool) \ {c} : pool.socket[d] # fd /\ pool.socket[d] \in Fds /\ d \in Slots
    BY <1>1, <2>2 DEF Live
  <2>7. \A d \in Live(pool') : /\ pool'.socket[d] \in inuse'
                               /\ cookie'[pool'.socket[d]] = d
    BY <1>1, <1>3, <2>1, <2>2, <2>6 DEF SocketsOwned, TypeOK
  <2>8. /\ wantwrite' \subseteq inuse' /\ canwrite' \subseteq wantwrite'
        /\ canread' \subseteq inuse' \cup {Listen} /\ unread' \subseteq inuse'
    BY <2>1, <2>2 DEF SocketsOwned
  <2>9. QED
    BY <2>4, <2>5, <2>7, <2>8 DEF SocketsOwned
<1>6. FreeSlotsClean'
  BY <1>1, <1>3 DEF IInv, TypeOK, FreeSlotsClean, End, Live
<1>7. WithinOutput'
  <2>1. \A d \in Live(pool') : /\ d # c /\ d \in Live(pool) /\ d \in Slots
                               /\ pool'.socket[d] = pool.socket[d]
                               /\ pool.socket[d] # fd
    BY <1>1, <1>3 DEF IInv, TypeOK, Live, PoolInv, PoolOK, Pools
  <2>2. \A d \in Slots \ {c} : /\ outLen'[d] = outLen[d] /\ curPtr'[d] = curPtr[d]
                               /\ replaced'[d] = replaced[d]
    BY <1>1 DEF IInv, TypeOK, End
  <2>3. wantwrite' = wantwrite \ {fd}
    BY DEF End, IoClose
  <2>4. QED
    BY <2>1, <2>2, <2>3 DEF IInv, WithinOutput
<1>8. PoolBounded'
  BY <1>3 DEF IInv, PoolBounded, PoolOK, Pools, TypeOK
<1>9. QED
  BY <1>3, <1>4, <1>5, <1>6, <1>7, <1>8 DEF IInv, PoolInv

(* Steps that move the thread, its local counters and libowfat's ready     *)
(* marks only.                                                             *)
LEMMA QuietInv ==
  ASSUME IInv, UNCHANGED <<pool, outputFile, outLen, curPtr, replaced, curConn, inuse,
                           wantwrite, cookie, kernelVars>>,
         phase' \in {"wait", "write", "read", "accept"}, turn' \in Nat,
         connects' \in 0 .. UintMod - 1,
         canread' \subseteq inuse \cup {Listen}, canwrite' \subseteq wantwrite
  PROVE  IInv'
<1>1. TypeOK'
  BY DEF IInv, TypeOK, SocketsOwned, kernelVars
<1>2. SocketsOwned'
  BY DEF IInv, SocketsOwned, kernelVars, Live
<1>3. PoolInv' /\ FreeSlotsClean' /\ WithinOutput' /\ PoolBounded'
  BY DEF IInv, PoolInv, FreeSlotsClean, WithinOutput, PoolBounded, Live
<1>4. QED
  BY <1>1, <1>2, <1>3 DEF IInv

(* cur_conn may name any structure, live or free: promoting it changes     *)
(* stages and their counters and nothing else.                             *)
LEMMA PromotedOK ==
  ASSUME IInv
  PROVE  /\ PoolOK(Promoted)
         /\ Promoted.socket = pool.socket /\ Promoted.used = pool.used
         /\ Promoted.allocated = pool.allocated /\ Live(Promoted) = Live(pool)
<1>1. PoolOK(pool)
  BY DEF IInv, PoolInv
<1>2. CASE curConn \in Slots
  <2>1. Promoted = StartWriting(pool, curConn)
    BY <1>2 DEF Promoted
  <2>2. QED
    BY <1>1, <1>2, <2>1, StartWritingOK
<1>3. CASE curConn \notin Slots
  BY <1>1, <1>3 DEF Promoted
<1>4. QED
  BY <1>2, <1>3

(* A failed write promotes cur_conn and ends another connection: both
   changes of the pool keep the invariant. *)
LEMMA WriteFailsInv == ASSUME IInv, NEW fd \in canwrite, WriteFails(fd) PROVE IInv'
<1>1. fd \in inuse /\ End(Promoted, cookie[fd], fd)
  BY DEF IInv, SocketsOwned, WriteFails
<1>2. /\ curConn' \in Slots \cup {NoSlot} /\ phase' \in {"write", "read"}
      /\ turn' \in Nat /\ connects' = connects
  BY DEF IInv, TypeOK, WriteFails, TakeWritable
<1>3. QED
  BY <1>1, <1>2, PromotedOK, EndInv

(* So does a write that succeeds, whether the response is finished by it
   or not. *)
LEMMA WriteSomeInv ==
  ASSUME IInv, NEW fd \in canwrite, NEW l \in 0 .. HowMuch(cookie[fd]), WriteSome(fd, l)
  PROVE  IInv'
<1> DEFINE c == cookie[fd]
<1>1. fd \in inuse /\ fd \in Fds /\ fd \in wantwrite /\ c \in Slots /\ c \in Live(pool)
  BY OwnSlot DEF IInv, SocketsOwned
<1>2. /\ curConn' \in Slots \cup {NoSlot} /\ phase' \in {"write", "read"}
      /\ turn' \in Nat /\ connects' = connects
  BY DEF IInv, TypeOK, WriteSome, TakeWritable
<1>3. CASE l + curPtr[c] = outLen[c]
  <2>1. End(Promoted, c, fd)
    BY <1>3 DEF WriteSome
  <2>2. QED
    BY <1>1, <1>2, <2>1, PromotedOK, EndInv
<1>4. CASE l + curPtr[c] # outLen[c]
  <2>1. /\ pool' = Promoted
        /\ curPtr' = [curPtr EXCEPT ![c] = @ + l]
        /\ canwrite' = canwrite \ {fd}
        /\ UNCHANGED <<outputFile, outLen, replaced, inuse, wantwrite, cookie,
                       canread, kernelVars>>
        /\ l <= HowMuch(c) /\ (l > 0 \/ curPtr[c] = outLen[c])
    BY <1>4 DEF WriteSome
  <2>2. /\ PoolOK(pool') /\ pool'.socket = pool.socket /\ pool'.used = pool.used
        /\ pool'.allocated = pool.allocated /\ Live(pool') = Live(pool)
    BY <2>1, PromotedOK
  <2>3. outLen[c] \in Nat /\ curPtr[c] \in Nat /\ l \in Nat /\ Mapped \in Nat
    BY <1>1, LoopAssumption DEF IInv, TypeOK, HowMuch
  <2>4. replaced[c] \/ curPtr[c] + l < outLen[c]
    <3>1. replaced[c] \/ curPtr[c] <= outLen[c]
      BY <1>1, <2>3 DEF IInv, WithinOutput
    <3>2. replaced[c] \/ l <= outLen[c] - curPtr[c]
      BY <2>1, <2>3, <3>1 DEF HowMuch
    <3>3. QED
      BY <1>4, <2>3, <3>2
  <2>5. curPtr'[c] = curPtr[c] + l /\ \A d \in Slots \ {c} : curPtr'[d] = curPtr[d]
    BY <1>1, <2>1 DEF IInv, TypeOK
  <2>6. curPtr' \in [Slots -> Nat]
    BY <1>1, <2>1, <2>3 DEF IInv, TypeOK
  <2>7. TypeOK'
    BY <1>2, <2>1, <2>2, <2>6 DEF IInv, TypeOK, kernelVars, PoolOK
  <2>8. SocketsOwned'
    BY <2>1, <2>2 DEF IInv, SocketsOwned, kernelVars
  <2>9. FreeSlotsClean'
    BY <1>1, <2>1, <2>2, <2>5 DEF IInv, FreeSlotsClean
  <2>10. WithinOutput'
    <3>1. ASSUME NEW d \in Live(pool')
          PROVE  /\ replaced'[d] \/ curPtr'[d] < outLen'[d] \/ (curPtr'[d] = 0 /\ outLen'[d] = 0)
                 /\ outLen'[d] > 0 => pool'.socket[d] \in wantwrite'
      <4>1. d \in Live(pool) /\ d \in Slots
        BY <2>2 DEF Live
      <4>2. d # c => curPtr'[d] = curPtr[d]
        BY <2>5, <4>1
      <4>3. QED
        BY <2>1, <2>2, <2>4, <2>5, <4>1, <4>2 DEF IInv, WithinOutput
    <3>2. QED
      BY <3>1 DEF WithinOutput
  <2>11. PoolInv' /\ PoolBounded'
    BY <2>2 DEF IInv, PoolInv, PoolBounded
  <2>12. QED
    BY <2>7, <2>8, <2>9, <2>10, <2>11 DEF IInv
<1>5. QED
  BY <1>3, <1>4

(* connect() and io_setcookie tie a free structure to a free descriptor. *)
LEMMA AcceptInv == ASSUME IInv, NEW fd \in Fds, Accept(fd) PROVE IInv'
<1> DEFINE c == ConnectSlot(pool)
<1>1. PoolOK(pool) /\ pool \in Pools /\ pool.used <= MaxConnections /\ TypeOK /\ SocketsOwned
  BY DEF Accept, HasRoom, IInv, PoolInv, PoolOK
<1>2. fd \notin inuse /\ \A d \in Live(pool) : pool.socket[d] # fd
  BY <1>1 DEF Accept, SocketsOwned
<1>3. /\ PoolOK(pool') /\ c \in Slots /\ c \notin Live(pool)
      /\ Live(pool') = Live(pool) \cup {c}
      /\ pool'.used = pool.used + 1
      /\ pool'.allocated <= InitAllocated \/ pool'.allocated <= MaxConnections + 1
      /\ pool'.socket = [pool.socket EXCEPT ![c] = fd]
  <2>1. pool' = Connect(pool, fd)
    BY DEF Accept
  <2>2. Live(pool') = Live(Connect(pool, fd)) /\ (PoolOK(pool') <=> PoolOK(Connect(pool, fd)))
    BY <2>1
  <2>3. QED
    BY <1>1, <1>2, <2>1, <2>2, ConnectOK
<1>4. /\ inuse' = inuse \cup {fd} /\ cookie' = [cookie EXCEPT ![fd] = c]
      /\ net' = [net EXCEPT ![fd] = "open"] /\ curConn' = c
      /\ waiting' = waiting - 1 /\ waiting > 0
      /\ connects' = (connects - 1) % UintMod
      /\ UNCHANGED <<outputFile, outLen, curPtr, replaced, phase, turn, wantwrite,
                     canread, canwrite, unread, sends>>
  BY DEF Accept, Decremented
<1> HIDE DEF c
<1>5. TypeOK'
  <2>1. connects' \in 0 .. UintMod - 1
    BY <1>1, <1>4, UintRange DEF TypeOK
  <2>2. waiting' \in 0 .. Backlog
    BY <1>1, <1>4 DEF TypeOK
  <2>3. cookie' \in [Fds -> Slots \cup {NoSlot}]
        /\ net' \in [Fds -> {"none", "open", "eof", "reset"}]
    BY <1>1, <1>3, <1>4 DEF TypeOK
  <2>4. QED
    BY <1>1, <1>3, <1>4, <2>1, <2>2, <2>3 DEF TypeOK, PoolOK
<1>6. pool.socket \in [Slots -> Fds \cup {NoFd}]
  BY <1>1 DEF Pools
<1>7. SocketsOwned'
  <2>1. \A e \in inuse : cookie[e] \in Slots /\ cookie[e] # c /\ e # fd
    BY <1>2, <1>3, OwnSlot
  <2>2. \A e \in inuse' : cookie'[e] \in Slots /\ pool'.socket[cookie'[e]] = e
    BY <1>1, <1>3, <1>4, <1>6, <2>1 DEF SocketsOwned, TypeOK
  <2>3. \A e \in Fds : net'[e] # "none" <=> e \in inuse'
    BY <1>1, <1>4 DEF SocketsOwned, TypeOK
  <2>4. \A d \in Live(pool) : pool.socket[d] \in Fds /\ d \in Slots /\ d # c
    BY <1>3, <1>6 DEF Live
  <2>5. \A d \in Live(pool') : pool'.socket[d] \in inuse' /\ cookie'[pool'.socket[d]] = d
    BY <1>1, <1>2, <1>3, <1>4, <1>6, <2>4 DEF SocketsOwned, TypeOK
  <2>6. QED
    BY <1>1, <1>4, <2>2, <2>3, <2>5 DEF SocketsOwned
<1>8. FreeSlotsClean'
  BY <1>3, <1>4 DEF IInv, FreeSlotsClean
<1>9. WithinOutput'
  <2>1. outLen[c] = 0 /\ curPtr[c] = 0
    BY <1>3 DEF IInv, FreeSlotsClean
  <2>2. \A d \in Live(pool) : d # c /\ pool'.socket[d] = pool.socket[d]
    BY <1>3, <1>6 DEF Live
  <2>3. QED
    BY <1>3, <1>4, <2>1, <2>2 DEF IInv, WithinOutput
<1>10. PoolBounded'
  BY <1>1, <1>3 DEF PoolBounded, Pools
<1>11. QED
  BY <1>3, <1>5, <1>7, <1>8, <1>9, <1>10 DEF IInv, PoolInv

(* A read that is served keeps the invariant, whatever it makes of the
   input. *)
LEMMA ReadBytesInv ==
  ASSUME IInv, NEW fd \in canread \cap Fds, NEW r \in Requests,
         NEW len \in FileLens, ReadBytes(fd, r, len)
  PROVE  IInv'
<1> DEFINE c == cookie[fd]
<1>1. /\ fd \in inuse /\ fd \in Fds /\ c \in Slots /\ c \in Live(pool)
      /\ pool.socket[c] = fd /\ \A d \in Live(pool) : pool.socket[d] = fd => d = c
  <2>1. fd \in inuse
    BY DEF IInv, SocketsOwned
  <2>2. QED
    BY <2>1, OwnSlot
<1>2. PoolOK(pool) /\ TypeOK /\ SocketsOwned /\ FreeSlotsClean /\ WithinOutput
  BY DEF IInv, PoolInv
<1>3. /\ PoolOK(pool') /\ Live(pool') = Live(pool)
      /\ pool'.used = pool.used /\ pool'.allocated = pool.allocated
      /\ pool'.socket = pool.socket
  <2>1. pool' = StartReading(pool, c)
    BY DEF ReadBytes
  <2>2. Live(pool') = Live(StartReading(pool, c)) /\ (PoolOK(pool') <=> PoolOK(StartReading(pool, c)))
    BY <2>1
  <2> HIDE DEF c
  <2>3. QED
    BY <1>1, <1>2, <2>1, <2>2, StartReadingOK
<1>4. /\ unread' = unread \ {fd} /\ canread' = canread \ {fd} /\ curConn' = c
      /\ outputFile' = [outputFile EXCEPT ![c] = (r = "file")]
      /\ outLen' = [outLen EXCEPT ![c] = CASE r \in {"bad", "render"} -> @ + PrintLen
                                           [] r = "file" -> len
                                           [] OTHER -> @]
      /\ replaced' = [replaced EXCEPT
           ![c] = @ \/ (r = "file" /\ curPtr[c] > 0 /\ (outputFile[c] => len # outLen[c]))]
      /\ wantwrite' = IF Answers(r) THEN wantwrite \cup {fd} ELSE wantwrite
      /\ phase' \in {"wait", "read"} /\ (turn' = 0 \/ turn' = turn + 1)
      /\ UNCHANGED <<curPtr, connects, inuse, cookie, canwrite, net, sends, waiting>>
  BY DEF ReadBytes
<1> HIDE DEF c
<1>5. /\ outputFile[c] \in BOOLEAN /\ replaced[c] \in BOOLEAN
      /\ outLen[c] \in Nat /\ curPtr[c] \in Nat
      /\ len \in Nat \ {0} /\ PrintLen \in Nat \ {0}
  BY <1>1, <1>2, LoopAssumption DEF TypeOK
<1>6. /\ r \in {"bad", "render"} => outLen'[c] = outLen[c] + PrintLen
      /\ r = "file" => outLen'[c] = len
      /\ r \in {"none", "empty", "silent"} => outLen'[c] = outLen[c]
      /\ \A d \in Slots \ {c} : /\ outputFile'[d] = outputFile[d]
                               /\ outLen'[d] = outLen[d] /\ replaced'[d] = replaced[d]
  <2>1. r \in {"bad", "render"} => outLen'[c] = outLen[c] + PrintLen
    BY <1>1, <1>2, <1>4 DEF TypeOK
  <2>2. r = "file" => outLen'[c] = len
    BY <1>1, <1>2, <1>4 DEF TypeOK
  <2>3. r \in {"none", "empty", "silent"} => outLen'[c] = outLen[c]
    BY <1>1, <1>2, <1>4 DEF TypeOK
  <2>4. QED
    BY <1>1, <1>2, <1>4, <2>1, <2>2, <2>3 DEF TypeOK
<1>7. replaced'[c] = (replaced[c] \/ (r = "file" /\ curPtr[c] > 0
                                       /\ (outputFile[c] => len # outLen[c])))
  BY <1>1, <1>2, <1>4 DEF TypeOK
<1>8. outLen'[c] \in Nat
  BY <1>5, <1>6 DEF Requests
<1>9. TypeOK'
  <2>1. /\ outLen' \in [Slots -> Nat]
        /\ outputFile' \in [Slots -> BOOLEAN] /\ replaced' \in [Slots -> BOOLEAN]
    <3>1. outLen' \in [Slots -> Nat]
      BY <1>1, <1>2, <1>4, <1>6, <1>8 DEF TypeOK
    <3>2. QED
      BY <1>1, <1>2, <1>4, <3>1 DEF TypeOK
  <2>2. turn' \in Nat
    BY <1>2, <1>4 DEF TypeOK
  <2>3. wantwrite' \subseteq Fds
    BY <1>1, <1>2, <1>4 DEF TypeOK
  <2>4. QED
    BY <1>1, <1>2, <1>3, <1>4, <2>1, <2>2, <2>3 DEF TypeOK, PoolOK
<1>10. SocketsOwned'
  BY <1>1, <1>2, <1>3, <1>4 DEF SocketsOwned
<1>11. FreeSlotsClean'
  BY <1>1, <1>2, <1>3, <1>4, <1>6 DEF FreeSlotsClean
<1>12. WithinOutput'
  <2>1. /\ replaced[c] \/ curPtr[c] < outLen[c] \/ (curPtr[c] = 0 /\ outLen[c] = 0)
        /\ outLen[c] > 0 => fd \in wantwrite
    BY <1>1, <1>2 DEF WithinOutput
  <2>2. replaced'[c] \/ curPtr[c] < outLen'[c] \/ (curPtr[c] = 0 /\ outLen'[c] = 0)
    <3>1. CASE r = "file"
      <4>1. CASE curPtr[c] = 0
        BY <1>5, <1>6, <3>1, <4>1
      <4>2. CASE curPtr[c] > 0
        BY <1>5, <1>6, <1>7, <2>1, <3>1, <4>2
      <4>3. QED
        BY <1>5, <4>1, <4>2
    <3>2. CASE r # "file"
      BY <1>5, <1>6, <1>7, <2>1, <3>2 DEF Requests
    <3>3. QED
      BY <3>1, <3>2
  <2>3. outLen'[c] > 0 => fd \in wantwrite'
    BY <1>4, <1>6, <2>1 DEF Answers, Requests
  <2>4. ASSUME NEW d \in Live(pool), d # c
        PROVE  /\ d \in Slots /\ replaced'[d] = replaced[d] /\ outLen'[d] = outLen[d]
               /\ curPtr'[d] = curPtr[d]
               /\ pool.socket[d] \in wantwrite => pool.socket[d] \in wantwrite'
    BY <1>4, <1>6, <2>4 DEF Live
  <2>5. ASSUME NEW d \in Live(pool')
        PROVE  /\ replaced'[d] \/ curPtr'[d] < outLen'[d] \/ (curPtr'[d] = 0 /\ outLen'[d] = 0)
               /\ outLen'[d] > 0 => pool'.socket[d] \in wantwrite'
    <3>1. CASE d = c
      BY <1>1, <1>3, <1>4, <1>6, <2>2, <2>3, <3>1
    <3>2. CASE d # c
      BY <1>2, <1>3, <2>4, <3>2 DEF WithinOutput
    <3>3. QED
      BY <3>1, <3>2
  <2>6. QED
    BY <2>5 DEF WithinOutput
<1>13. PoolInv' /\ PoolBounded'
  BY <1>3 DEF IInv, PoolInv, PoolBounded
<1>14. QED
  BY <1>9, <1>10, <1>11, <1>12, <1>13 DEF IInv

(* The two ways in which the read loop ends the connection it reads. *)
LEMMA ReadEndsInv ==
  ASSUME IInv, NEW fd \in canread \cap Fds, ReadRejected(fd) \/ ReadError(fd)
  PROVE  IInv'
<1>1. /\ fd \in inuse /\ cookie[fd] \in Slots /\ PoolOK(pool)
      /\ phase = "read" /\ turn \in Nat
  <2>1. fd \in inuse
    BY DEF IInv, SocketsOwned
  <2>2. QED
    BY <2>1, OwnSlot DEF IInv, PoolInv, TypeOK, ReadRejected, ReadError, TakeReadable
<1>2. CASE ReadRejected(fd)
  <2>1. /\ End(StartReading(pool, cookie[fd]), cookie[fd], fd)
        /\ curConn' \in Slots \cup {NoSlot} /\ phase' \in {"write", "read"}
        /\ turn' \in Nat /\ connects' = connects
    BY <1>1, <1>2 DEF ReadRejected
  <2>2. LET q == StartReading(pool, cookie[fd])
        IN  PoolOK(q) /\ q.socket = pool.socket /\ q.used = pool.used
            /\ q.allocated = pool.allocated
    BY <1>1, StartReadingOK
  <2>3. QED
    BY <1>1, <2>1, <2>2, EndInv
<1>3. CASE ReadError(fd)
  <2>1. /\ End(pool, cookie[fd], fd)
        /\ curConn' \in Slots \cup {NoSlot} /\ phase' \in {"write", "read"}
        /\ turn' \in Nat /\ connects' = connects
    BY <1>1, <1>3 DEF ReadError
  <2>2. QED
    BY <1>1, <2>1, EndInv
<1>4. QED
  BY <1>2, <1>3

(* Every step of the loop, the peers and the kernel keeps the invariant. *)
LEMMA NextInv == ASSUME IInv, Next PROVE IInv'
<1>1. CASE Environment
  BY <1>1, EnvironmentInv
<1>2. ASSUME NEW room \in SUBSET Fds, WaitUntil2(room) PROVE IInv'
  <2>1. Readable \subseteq inuse \cup {Listen}
    BY DEF Readable
  <2>2. canread' \subseteq inuse \cup {Listen} /\ canwrite' \subseteq wantwrite
    BY <1>2, <2>1 DEF WaitUntil2, IInv, SocketsOwned
  <2>3. QED
    BY <1>2, <2>2, QuietInv DEF WaitUntil2, IInv, TypeOK
<1>3. ASSUME NEW fd \in canwrite, WriteFails(fd) PROVE IInv'
  BY <1>3, WriteFailsInv
<1>4. ASSUME NEW fd \in canwrite, NEW l \in 0 .. HowMuch(cookie[fd]), WriteSome(fd, l) PROVE IInv'
  BY <1>4, WriteSomeInv
<1>5. CASE WritesDone
  BY <1>5, QuietInv DEF WritesDone, IInv, TypeOK, SocketsOwned
<1>6. CASE StartAccepting
  <2>1. AcceptMargin + pool.reading + pool.writing - pool.connected \in Int
    BY DEF IInv, TypeOK, Pools
  <2>2. connects' \in 0 .. UintMod - 1
    BY <1>6, <2>1, UintRange DEF StartAccepting
  <2>3. QED
    BY <1>6, <2>2, QuietInv DEF StartAccepting, IInv, TypeOK, SocketsOwned
<1>7. ASSUME NEW fd \in Fds, Accept(fd) PROVE IInv'
  BY <1>7, AcceptInv
<1>8. CASE AcceptDone
  BY <1>8, QuietInv DEF AcceptDone, IInv, TypeOK, SocketsOwned
<1>9. ASSUME NEW fd \in canread \cap Fds, NEW r \in Requests,
             NEW len \in FileLens, ReadBytes(fd, r, len)
      PROVE IInv'
  BY <1>9, ReadBytesInv
<1>10. ASSUME NEW fd \in canread \cap Fds, ReadRejected(fd) \/ ReadError(fd) PROVE IInv'
  BY <1>10, ReadEndsInv
<1>11. ASSUME NEW fd \in canread \cap Fds, ReadNothing(fd) PROVE IInv'
  BY <1>11, QuietInv DEF ReadNothing, TakeReadable, IInv, TypeOK, SocketsOwned
<1>12. CASE ReadsDone
  BY <1>12, QuietInv DEF ReadsDone, IInv, TypeOK, SocketsOwned
<1>13. QED
  BY <1>1, <1>2, <1>3, <1>4, <1>5, <1>6, <1>7, <1>8, <1>9, <1>10, <1>11, <1>12
     DEF Next, Server, WritePhase, ReadPhase

(* And so does a step that changes nothing. *)
LEMMA StutterInv == ASSUME IInv, UNCHANGED vars PROVE IInv'
BY DEF IInv, TypeOK, PoolInv, SocketsOwned, FreeSlotsClean, WithinOutput, PoolBounded,
       vars, serverVars, kernelVars, Live

(* The inductive invariant holds in every reachable state.                 *)
THEOREM Invariance == Spec => []IInv
<1>1. IInv /\ [Next]_vars => IInv'
  BY NextInv, StutterInv
<1>2. QED
  BY InitInv, <1>1, PTL DEF Spec

(* Every variable keeps its type: in particular connects stays in its uint *)
(* and no hand-kept counter of the pool goes below zero.                   *)
THEOREM TypeCorrect == Spec => []TypeOK
<1>1. IInv => TypeOK
  BY DEF IInv
<1>2. QED
  BY Invariance, <1>1, PTL

(* connected, reading, writing and used count what they are named after,   *)
(* for every number of descriptors and every setting of the limits.        *)
THEOREM CountersExact == Spec => []PoolInv
<1>1. IInv => PoolInv
  BY DEF IInv
<1>2. QED
  BY Invariance, <1>1, PTL

(* Every open descriptor has exactly one structure and the other way       *)
(* round, so end() never closes a descriptor another structure uses.       *)
THEOREM OwnershipExact == Spec => []SocketsOwned
<1>1. IInv => SocketsOwned
  BY DEF IInv
<1>2. QED
  BY Invariance, <1>1, PTL

(* A structure handed out again carries nothing of its last connection.    *)
THEOREM NoLeftovers == Spec => []FreeSlotsClean
<1>1. IInv => FreeSlotsClean
  BY DEF IInv
<1>2. QED
  BY Invariance, <1>1, PTL

(* Unless a file took the place of output under way, how_much, the         *)
(* unsigned rest of a response, never goes below zero; and what has output *)
(* is wanted, whatever its reads amounted to.                              *)
THEOREM OutputInBounds == Spec => []WithinOutput
<1>1. IInv => WithinOutput
  BY DEF IInv
<1>2. QED
  BY Invariance, <1>1, PTL

(* At most MAX_CONNECTIONS + 1 connections are served, however connects    *)
(* wraps.                                                                  *)
THEOREM ConnectionsBounded == Spec => []PoolBounded
<1>1. IInv => PoolBounded
  BY DEF IInv
<1>2. QED
  BY Invariance, <1>1, PTL

-----------------------------------------------------------------------------
(* The main loop implements ConnLife. *)

(* The stage of a descriptor is not 0 exactly while it is watched. *)
LEMMA LifeInUse ==
  ASSUME IInv
  PROVE  /\ \A fd \in inuse : Life[fd] = pool.stage[cookie[fd]] /\ Life[fd] \in 1 .. 3
         /\ \A fd \in Fds \ inuse : Life[fd] = 0
<1>1. \A fd \in inuse : /\ fd \in Fds /\ cookie[fd] \in Slots
                        /\ pool.socket[cookie[fd]] # NoFd
  BY OwnSlot DEF IInv, TypeOK
<1>2. \A c \in Slots : /\ pool.stage[c] \in 0 .. 3
                       /\ (pool.socket[c] = NoFd) <=> (pool.stage[c] = 0)
  BY DEF IInv, PoolInv, PoolOK, SlotsConsistent, Pools, Stages
<1>3. QED
  BY <1>1, <1>2 DEF Life

(* Both modules count with the same operator. *)
LEMMA SameCardinality == \A S : Abstract!Cardinality(S) = Cardinality(S)
BY Zenon DEF Cardinality, Abstract!Cardinality

(* Served connections are those of the structures in use, so used bounds   *)
(* them.                                                                   *)
LEMMA ServedBound ==
  ASSUME IInv, pool.used <= MaxConnections
  PROVE  Abstract!Cardinality(Abstract!Served) <= MaxConnections
<1>1. Abstract!Served = inuse
  BY LifeInUse DEF Abstract!Served, IInv, TypeOK
<1>2. inuse = {pool.socket[c] : c \in Live(pool)}
  <2>1. \A fd \in inuse : cookie[fd] \in Live(pool) /\ pool.socket[cookie[fd]] = fd
    BY OwnSlot
  <2>2. \A c \in Live(pool) : pool.socket[c] \in inuse
    BY DEF IInv, SocketsOwned
  <2>3. QED
    BY <2>1, <2>2
<1>3. /\ IsFiniteSet(Live(pool)) /\ Cardinality(Live(pool)) = pool.used
      /\ pool.used \in Nat
  BY SlotsFinite DEF Live, IInv, PoolInv, PoolOK, CountersMatch, Pools
<1>4. /\ IsFiniteSet(inuse)
      /\ Cardinality(inuse) <= Cardinality(Live(pool))
  <2> DEFINE f == [c \in Live(pool) |-> pool.socket[c]]
  <2>1. f \in Surjection(Live(pool), inuse)
    BY <1>2 DEF Surjection
  <2>2. QED
    BY <1>3, <2>1, FS_Surjection
<1>5. Cardinality(inuse) \in Nat
  BY <1>4, FS_CardinalityType
<1>6. QED
  BY <1>1, <1>3, <1>4, <1>5, SameCardinality

(* When main_loop starts no connection is alive. *)
LEMMA InitLife == Init => Abstract!Init
BY DEF Init, Abstract!Init, Life

(* What touches neither a stage nor a descriptor is a stutter.             *)
LEMMA LifeUnchanged ==
  ASSUME UNCHANGED <<pool, inuse, cookie>>
  PROVE  UNCHANGED Life
BY DEF Life

(* Promotion moves at most one live connection, from reading to writing.   *)
LEMMA PromotedLife ==
  ASSUME IInv
  PROVE  \E S \in Abstract!AtMostOne :
           /\ \A fd \in S : fd \in inuse /\ Life[fd] = 2
           /\ \A fd \in inuse : Promoted.stage[cookie[fd]] = IF fd \in S THEN 3 ELSE Life[fd]
<1>1. /\ PoolOK(pool) /\ pool.stage \in [Slots -> Stages]
      /\ \A fd \in inuse : fd \in Fds /\ cookie[fd] \in Slots /\ pool.socket[cookie[fd]] = fd
      /\ \A c \in Slots : (pool.socket[c] = NoFd) <=> (pool.stage[c] = 0)
  BY OwnSlot DEF IInv, PoolInv, PoolOK, Pools, SlotsConsistent
<1>2. \A fd \in inuse : Life[fd] = pool.stage[cookie[fd]]
  BY LifeInUse
<1>3. CASE curConn \in Slots /\ pool.stage[curConn] = 2
  <2> DEFINE S == {pool.socket[curConn]}
  <2>1. Promoted.stage = [pool.stage EXCEPT ![curConn] = 3]
    <3>1. Promoted = StartWriting(pool, curConn)
      BY <1>3 DEF Promoted
    <3>2. QED
      BY <1>1, <1>3, <3>1, StartWritingOK
  <2>2. curConn \in Live(pool)
    <3>1. pool.stage[curConn] # 0
      BY <1>3
    <3>2. pool.socket[curConn] # NoFd
      BY <1>1, <1>3, <3>1
    <3>3. QED
      BY <1>3, <3>2 DEF Live
  <2>3. pool.socket[curConn] \in inuse /\ cookie[pool.socket[curConn]] = curConn
    BY <2>2 DEF IInv, SocketsOwned
  <2>4. S \in Abstract!AtMostOne
    <3>1. pool.socket[curConn] \in Fds
      BY <1>1, <2>3
    <3>2. S \in {{fd} : fd \in Fds}
      BY <3>1
    <3>3. QED
      BY <3>2 DEF Abstract!AtMostOne
  <2>5. \A fd \in S : fd \in inuse /\ Life[fd] = 2
    BY <1>2, <1>3, <2>3
  <2>6. \A fd \in inuse : Promoted.stage[cookie[fd]] = IF fd \in S THEN 3 ELSE Life[fd]
    BY <1>1, <1>2, <2>1, <2>3
  <2>7. QED
    BY <2>4, <2>5, <2>6
<1>4. CASE ~ (curConn \in Slots /\ pool.stage[curConn] = 2)
  <2>1. Promoted = pool
    BY <1>4 DEF Promoted, StartWriting
  <2>2. {} \in Abstract!AtMostOne
    BY DEF Abstract!AtMostOne
  <2>3. QED
    BY <1>2, <2>1, <2>2
<1>5. QED
  BY <1>3, <1>4

(* end() closes its own connection; the others keep the stage the pool p   *)
(* gives them.                                                             *)
LEMMA EndLife ==
  ASSUME IInv, NEW fd \in inuse, NEW p, PoolOK(p), p.socket = pool.socket,
         End(p, cookie[fd], fd)
  PROVE  Life' = [e \in Fds |-> IF e \in inuse /\ e # fd THEN p.stage[cookie[e]] ELSE 0]
<1> DEFINE c == cookie[fd]
<1>1. /\ fd \in Fds /\ c \in Live(p)
      /\ \A e \in inuse : cookie[e] \in Slots /\ pool.socket[cookie[e]] = e
  <2>1. \A e \in inuse : cookie[e] \in Live(pool) /\ cookie[e] \in Slots /\ pool.socket[cookie[e]] = e
    BY OwnSlot
  <2>2. QED
    BY <2>1, OwnSlot DEF Live
<1>2. /\ inuse' = inuse \ {fd} /\ cookie' = [cookie EXCEPT ![fd] = NoSlot]
      /\ pool' = Release(p, c)
  BY DEF End, IoClose
<1>3. Release(p, c).stage = [p.stage EXCEPT ![c] = 0] /\ p.stage \in [Slots -> Stages]
  <2> HIDE DEF c
  <2>1. QED
    BY <1>1, ReleaseOK DEF PoolOK, Pools
<1>4. \A e \in inuse' : cookie'[e] = cookie[e] /\ cookie[e] # c /\ cookie[e] \in Slots
  BY <1>1, <1>2 DEF IInv, TypeOK
<1>5. pool'.stage = [p.stage EXCEPT ![c] = 0]
  BY <1>2, <1>3
<1>6. \A e \in inuse' : pool'.stage[cookie'[e]] = p.stage[cookie[e]]
  BY <1>3, <1>4, <1>5
<1>7. QED
  BY <1>2, <1>6 DEF Life

(* Every step of the loop is a step of ConnLife or changes no life.        *)
LEMMA StepLife == ASSUME IInv, Next PROVE [Abstract!Next]_Life
<1>1. CASE UNCHANGED <<pool, inuse, cookie>>
  BY <1>1, LifeUnchanged
<1>2. \A fd \in inuse : fd \in Fds /\ cookie[fd] \in Slots /\ cookie[fd] \in Live(pool)
                      /\ pool.socket[cookie[fd]] = fd
  BY OwnSlot
<1>3. /\ PoolOK(pool) /\ pool.stage \in [Slots -> Stages]
      /\ canread \cap Fds \subseteq inuse /\ canwrite \subseteq inuse
      /\ cookie \in [Fds -> Slots \cup {NoSlot}]
  BY DEF IInv, PoolInv, PoolOK, Pools, SocketsOwned, TypeOK
<1>4. \A fd \in Fds : {} \in Abstract!AtMostOne /\ {fd} \in Abstract!AtMostOne
  BY DEF Abstract!AtMostOne
<1>5. ASSUME NEW ending \in Abstract!AtMostOne, NEW starting \in Abstract!AtMostOne,
             Abstract!Round(ending, starting)
      PROVE  Abstract!Next
  BY <1>5 DEF Abstract!Next
<1>6. ASSUME NEW fd \in Fds, Accept(fd) PROVE Abstract!Next
  <2> DEFINE c == ConnectSlot(pool)
  <2>1. pool.used <= MaxConnections /\ fd \notin inuse
    BY <1>6 DEF Accept, HasRoom, IInv, SocketsOwned
  <2>2. \A d \in Live(pool) : pool.socket[d] # fd
    BY <2>1 DEF IInv, SocketsOwned
  <2>3. /\ pool'.stage = [pool.stage EXCEPT ![c] = 1] /\ c \in Slots /\ c \notin Live(pool)
    <3>1. pool' = Connect(pool, fd)
      BY <1>6 DEF Accept
    <3>2. QED
      BY <1>3, <2>1, <2>2, <3>1, ConnectOK
  <2>4. inuse' = inuse \cup {fd} /\ cookie' = [cookie EXCEPT ![fd] = c]
    BY <1>6 DEF Accept
  <2> HIDE DEF c
  <2>5. \A e \in inuse : cookie'[e] = cookie[e] /\ cookie[e] # c /\ e # fd
    BY <1>2, <1>3, <2>1, <2>3, <2>4
  <2>6. cookie'[fd] = c
    BY <1>3, <2>4
  <2>7. \A e \in inuse : pool'.stage[cookie'[e]] = pool.stage[cookie[e]]
    BY <1>2, <1>3, <2>3, <2>5
  <2>8. pool'.stage[cookie'[fd]] = 1
    BY <1>3, <2>3, <2>6
  <2>9. Life' = [Life EXCEPT ![fd] = 1]
    BY <2>1, <2>4, <2>7, <2>8 DEF Life
  <2>10. Life[fd] = 0
    BY <2>1, LifeInUse
  <2>11. Abstract!Accepted(fd)
    BY <2>1, <2>9, <2>10, ServedBound DEF Abstract!Accepted
  <2>12. QED
    BY <2>11 DEF Abstract!Next
<1>7. ASSUME NEW fd \in canread \cap Fds, NEW r \in Requests,
             NEW len \in FileLens, ReadBytes(fd, r, len)
      PROVE  [Abstract!Next]_Life
  <2> DEFINE c == cookie[fd]
  <2>1. pool' = StartReading(pool, c) /\ UNCHANGED <<inuse, cookie>>
    BY <1>7 DEF ReadBytes
  <2>2. c \in Slots /\ fd \in inuse /\ \A e \in inuse : cookie[e] = c => e = fd
    BY <1>2, <1>3
  <2>3. pool'.stage = IF pool.stage[c] = 1 THEN [pool.stage EXCEPT ![c] = 2] ELSE pool.stage
    <3> HIDE DEF c
    <3>1. QED
      BY <1>3, <2>1, <2>2, StartReadingOK
  <2>4. CASE pool.stage[c] = 1
    <3>1. \A e \in inuse : pool'.stage[cookie[e]] = IF e = fd THEN 2 ELSE pool.stage[cookie[e]]
      BY <1>2, <1>3, <2>2, <2>3, <2>4
    <3>2. Life' = [Life EXCEPT ![fd] = 2]
      BY <2>1, <2>2, <3>1 DEF Life
    <3>3. Life[fd] = 1
      BY <2>2, <2>4, LifeInUse
    <3>4. Abstract!FirstBytes(fd)
      BY <3>2, <3>3 DEF Abstract!FirstBytes
    <3>5. QED
      BY <3>4 DEF Abstract!Next
  <2>5. CASE pool.stage[c] # 1
    BY <2>1, <2>3, <2>5 DEF Life
  <2>6. QED
    BY <2>4, <2>5
<1>8. ASSUME NEW fd \in inuse, NEW p, PoolOK(p), p.socket = pool.socket,
             NEW S \in Abstract!AtMostOne, \A e \in S : e \in inuse /\ Life[e] = 2,
             \A e \in inuse \ {fd} : p.stage[cookie[e]] = IF e \in S THEN 3 ELSE Life[e],
             End(p, cookie[fd], fd)
      PROVE  Abstract!Next
  <2>1. Life' = [e \in Fds |-> IF e \in inuse /\ e # fd THEN p.stage[cookie[e]] ELSE 0]
    BY <1>8, EndLife
  <2>2. Life' = [e \in Fds |-> IF e \in {fd} THEN 0 ELSE IF e \in S THEN 3 ELSE Life[e]]
    BY <1>8, <2>1, LifeInUse
  <2>3. Abstract!Round({fd}, S)
    BY <1>2, <1>8, <2>2, LifeInUse DEF Abstract!Round
  <2>4. QED
    BY <1>2, <1>4, <1>5, <2>3
<1>9. ASSUME NEW fd \in canread \cap Fds, ReadRejected(fd) \/ ReadError(fd)
      PROVE  Abstract!Next
  <2> DEFINE c == cookie[fd]
  <2>1. PICK p \in {pool, StartReading(pool, c)} : End(p, c, fd)
    BY <1>9 DEF ReadRejected, ReadError
  <2>2. fd \in inuse /\ c \in Slots /\ \A e \in inuse \ {fd} : cookie[e] # c /\ cookie[e] \in Slots
    BY <1>2, <1>3
  <2>3. /\ PoolOK(p) /\ p.socket = pool.socket
        /\ \A d \in Slots \ {c} : p.stage[d] = pool.stage[d]
    <3> DEFINE q == StartReading(pool, c)
    <3>1. /\ PoolOK(q) /\ q.socket = pool.socket
          /\ q.stage = IF pool.stage[c] = 1 THEN [pool.stage EXCEPT ![c] = 2] ELSE pool.stage
      <4> HIDE DEF c
      <4>1. QED
        BY <1>3, <2>2, StartReadingOK
    <3>2. \A d \in Slots \ {c} : q.stage[d] = pool.stage[d]
      BY <1>3, <2>2, <3>1
    <3> HIDE DEF q
    <3>3. p = pool \/ p = q
      BY <2>1 DEF q
    <3>4. QED
      BY <1>3, <3>1, <3>2, <3>3
  <2>4. \A e \in inuse \ {fd} : p.stage[cookie[e]] = Life[e]
    BY <2>2, <2>3, LifeInUse
  <2>5. QED
    BY <1>4, <1>8, <2>1, <2>2, <2>3, <2>4
<1>10. ASSUME NEW fd \in canwrite, End(Promoted, cookie[fd], fd) PROVE Abstract!Next
  <2>1. PICK S \in Abstract!AtMostOne :
           /\ \A e \in S : e \in inuse /\ Life[e] = 2
           /\ \A e \in inuse : Promoted.stage[cookie[e]] = IF e \in S THEN 3 ELSE Life[e]
    BY PromotedLife
  <2>2. QED
    BY <1>3, <1>8, <1>10, <2>1, PromotedOK
<1>11. ASSUME pool' = Promoted, UNCHANGED <<inuse, cookie>> PROVE Abstract!Next
  <2>1. PICK S \in Abstract!AtMostOne :
           /\ \A e \in S : e \in inuse /\ Life[e] = 2
           /\ \A e \in inuse : Promoted.stage[cookie[e]] = IF e \in S THEN 3 ELSE Life[e]
    BY PromotedLife
  <2>2. Life' = [e \in Fds |-> IF e \in {} THEN 0 ELSE IF e \in S THEN 3 ELSE Life[e]]
    BY <1>11, <2>1, LifeInUse DEF Life
  <2>3. Abstract!Round({}, S)
    BY <2>1, <2>2 DEF Abstract!Round
  <2>4. {} \in Abstract!AtMostOne
    BY DEF Abstract!AtMostOne
  <2>5. QED
    BY <1>5, <2>3, <2>4
<1>12. ASSUME NEW fd \in canwrite,
              WriteFails(fd) \/ \E l \in 0 .. HowMuch(cookie[fd]) : WriteSome(fd, l)
       PROVE  Abstract!Next
  <2>1. \/ End(Promoted, cookie[fd], fd)
        \/ pool' = Promoted /\ UNCHANGED <<inuse, cookie>>
    BY <1>12 DEF WriteFails, WriteSome
  <2>2. QED
    BY <1>10, <1>11, <2>1
<1>13. CASE Environment
  <2>1. UNCHANGED <<pool, inuse, cookie>>
    BY <1>13 DEF Environment, PeerConnects, PeerSends, PeerCloses, PeerResets, serverVars
  <2>2. QED
    BY <1>1, <2>1
<1>14. CASE \/ \E room \in SUBSET Fds : WaitUntil2(room)
            \/ WritesDone \/ StartAccepting \/ AcceptDone \/ ReadsDone
            \/ \E fd \in canread \cap Fds : ReadNothing(fd)
  <2>1. UNCHANGED <<pool, inuse, cookie>>
    BY <1>14 DEF WaitUntil2, WritesDone, StartAccepting, AcceptDone, ReadsDone, ReadNothing
  <2>2. QED
    BY <1>1, <2>1
<1>15. QED
  BY <1>6, <1>7, <1>9, <1>12, <1>13, <1>14 DEF Next, Server, WritePhase, ReadPhase

(* Stages only move forward, one at a time, no connection is accepted      *)
(* while more than MAX_CONNECTIONS are served, and a round ends at most    *)
(* one connection, although main_loop keeps all of this in hand-made       *)
(* counters, list positions and cookies.                                   *)
THEOREM Refinement == Spec => ImplementsConnLife
<1>1. IInv /\ [Next]_vars => [Abstract!Next]_Life
  <2>1. UNCHANGED vars => UNCHANGED Life
    BY DEF vars, serverVars, Life
  <2>2. QED
    BY <2>1, StepLife
<1>2. QED
  BY InitLife, <1>1, Invariance, PTL DEF Spec, ImplementsConnLife, Abstract!Spec
=============================================================================
