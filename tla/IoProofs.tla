------------------------------ MODULE IoProofs ------------------------------
(***************************************************************************)
(* What io_waituntil2 trusts, for every table size and in every wait mode: *)
(* the counter of wanted descriptors (WantsAgree), and that a wake-up does *)
(* not outlive its connection (NoStaleWakeup); for both a step of the      *)
(* lists is known only by the flags it may leave.  Then the lists          *)
(* themselves: what is flagged is among what can be met by following the   *)
(* links (LostOnlyBroken), through the loop of io_canread and the sweep of *)
(* poll, which are iterations and need an induction over the numbers.      *)
(***************************************************************************)
EXTENDS Io, FiniteSetTheorems, WellFoundedInduction, TLAPS

LEMMA TableSize == MaxFd \in Nat
BY IoAssumption

USE TableSize DEF Fds, Dirs

(* The part of the types that the counter rests on. *)
WantTypes ==
  /\ inuse \subseteq Fds
  /\ want \in [Dirs -> SUBSET Fds]
  /\ interest \in [Dirs -> SUBSET Fds]
  /\ overcounted \in Int
  /\ len \in Nat

(* A count that is too large by the wants that failed. *)
Counted(w, n) == n = Cardinality(w["read"] \cup w["write"]) + overcounted

(* The kernel's set agrees with the flags but for what it was not told;    *)
(* before a mode is found, and in those without a set, it is empty.        *)
KernelAgrees ==
  /\ mode \in KernelModes =>
       \A dir \in Dirs : interest[dir] \ unheard = want[dir] \ unheard
  /\ mode \notin KernelModes => \A dir \in Dirs : interest[dir] = {}
  /\ len = 0 => mode = "UNDECIDED"

IInv ==
  /\ WantTypes
  /\ Counted(want, wanted)
  /\ KernelAgrees
  /\ \A dir \in Dirs : want[dir] \cup interest[dir] \subseteq inuse
  /\ stale \in [Dirs -> SUBSET Fds]
  /\ \A dir \in Dirs : stale[dir] \cap inuse = {}

LEMMA WantedFinite ==
  ASSUME NEW w \in [Dirs -> SUBSET Fds]
  PROVE  /\ IsFiniteSet(w["read"] \cup w["write"])
         /\ Cardinality(w["read"] \cup w["write"]) \in Nat
<1>1. IsFiniteSet(Fds)
  BY FS_Interval
<1>2. w["read"] \cup w["write"] \subseteq Fds
  OBVIOUS
<1> QED
  BY <1>1, <1>2, FS_Subset, FS_CardinalityType

(* io_wantread and io_wantwrite add one for a descriptor that was wanted   *)
(* for nothing.                                                            *)
LEMMA WantCounts ==
  ASSUME WantTypes, Counted(want, wanted),
         NEW d \in Fds, NEW dir \in Dirs, d \notin want[dir]
  PROVE  Counted([want EXCEPT ![dir] = @ \cup {d}], CountedWith(d))
<1> DEFINE w == [want EXCEPT ![dir] = @ \cup {d}]
           U == want["read"] \cup want["write"]
<1>1. w["read"] \cup w["write"] = U \cup {d}
  BY DEF WantTypes
<1>2. IsFiniteSet(U) /\ Cardinality(U) \in Nat
  BY WantedFinite DEF WantTypes
<1>3. Cardinality(U \cup {d}) = IF d \in U THEN Cardinality(U) ELSE Cardinality(U) + 1
  BY <1>2, FS_AddElement
<1>4. Fresh(d) <=> d \notin U
  BY DEF Fresh
<1>5. wanted = Cardinality(U) + overcounted /\ overcounted \in Int
  BY DEF Counted, WantTypes
<1>6. Cardinality(w["read"] \cup w["write"]) = Cardinality(U \cup {d})
  BY <1>1, Zenon
<1> HIDE DEF U, w
<1>7. CountedWith(d) = Cardinality(U \cup {d}) + overcounted
  BY <1>2, <1>3, <1>4, <1>5 DEF CountedWith
<1>8. CountedWith(d) = Cardinality(w["read"] \cup w["write"]) + overcounted
  BY <1>6, <1>7, Zenon
<1> QED
  BY <1>8, Zenon DEF Counted, w

(* io_dontwantread and io_dontwantwrite take one off for the last want. *)
LEMMA DontWantCounts ==
  ASSUME WantTypes, NEW w \in [Dirs -> SUBSET Fds], NEW n, Counted(w, n),
         NEW d \in Fds, NEW dir \in Dirs
  PROVE  /\ DontWant(w, n, d, dir).want = [w EXCEPT ![dir] = @ \ {d}]
         /\ Counted(DontWant(w, n, d, dir).want, DontWant(w, n, d, dir).wanted)
<1> DEFINE v == [w EXCEPT ![dir] = @ \ {d}]
           U == w["read"] \cup w["write"]
<1>1. CASE d \notin w[dir]
  <2>1. v = w
    BY <1>1
  <2> QED
    BY <1>1, <2>1 DEF DontWant
<1>2. CASE d \in w[dir]
  <2>1. IsFiniteSet(U) /\ Cardinality(U) \in Nat /\ d \in U
    BY <1>2, WantedFinite
  <2>2. DontWant(w, n, d, dir).want = v
    BY <1>2 DEF DontWant
  <2>3. CASE \A o \in Dirs \ {dir} : d \notin w[o]
    <3>1. v["read"] \cup v["write"] = U \ {d}
      BY <2>3
    <3>2. Cardinality(U \ {d}) = Cardinality(U) - 1
      BY <2>1, FS_RemoveElement
    <3>3. DontWant(w, n, d, dir).wanted = n - 1
      BY <1>2, <2>3 DEF DontWant
    <3>4. n = Cardinality(U) + overcounted /\ overcounted \in Int
      BY DEF Counted, WantTypes
    <3>5. Cardinality(v["read"] \cup v["write"]) = Cardinality(U \ {d})
      BY <3>1, Zenon
    <3> HIDE DEF U, v
    <3>6. n - 1 = Cardinality(U \ {d}) + overcounted
      BY <2>1, <3>2, <3>4
    <3>7. n - 1 = Cardinality(v["read"] \cup v["write"]) + overcounted
      BY <3>5, <3>6, Zenon
    <3>8. Counted(v, n - 1)
      BY <3>7, Zenon DEF Counted
    <3> QED
      BY <2>2, <3>3, <3>8 DEF v
  <2>4. CASE ~(\A o \in Dirs \ {dir} : d \notin w[o])
    <3>1. v["read"] \cup v["write"] = U
      BY <2>4
    <3>2. n \in Int
      BY <2>1 DEF Counted, WantTypes
    <3>3. DontWant(w, n, d, dir).wanted = n
      BY <1>2, <2>4, <3>2 DEF DontWant
    <3> QED
      BY <2>2, <3>1, <3>3 DEF Counted
  <2> QED
    BY <2>3, <2>4
<1> QED
  BY <1>1, <1>2

(* A call that tells the kernel leaves its set in agreement with the flags *)
(* after the call, whether the kernel obeys or refuses.                    *)
LEMMA KernelTold ==
  ASSUME WantTypes, KernelAgrees, NEW d \in Fds, NEW dir \in Dirs,
         want' \in [Dirs -> SUBSET Fds],
         \A o \in Dirs : want'[o] \ {d} = want[o] \ {d},
         \A o \in Dirs \ {dir} : want'[o] = want[o],
         TellKernel(d, dir, want'), mode' = mode, len' = len
  PROVE  /\ interest' \in [Dirs -> SUBSET Fds] /\ KernelAgrees'
         /\ \A o \in Dirs : interest'[o] \subseteq interest[o] \cup {d}
<1>1. CASE mode \notin KernelModes
  BY <1>1 DEF TellKernel, KernelAgrees, WantTypes
<1>2. CASE mode \in KernelModes /\ interest' = Told(d, dir, want') /\ UNCHANGED unheard
  <2>1. /\ interest' \in [Dirs -> SUBSET Fds]
        /\ \A o \in Dirs : interest'[o] \subseteq interest[o] \cup {d}
    BY <1>2 DEF Told, WantTypes
  <2>2. ASSUME NEW o \in Dirs
        PROVE  interest'[o] \ unheard' = want'[o] \ unheard'
    <3>1. interest[o] \ unheard = want[o] \ unheard /\ want'[o] \ {d} = want[o] \ {d}
      BY <1>2 DEF KernelAgrees
    <3>2. CASE o # dir /\ mode = "KQUEUE"
      BY <1>2, <3>1, <3>2 DEF Told
    <3>3. CASE ~(o # dir /\ mode = "KQUEUE")
      <4>1. interest'[o] = IF d \in want'[o] THEN interest[o] \cup {d} ELSE interest[o] \ {d}
        BY <1>2, <3>3 DEF Told
      <4> QED
        BY <1>2, <3>1, <4>1
    <3> QED
      BY <3>2, <3>3
  <2> QED
    BY <1>2, <2>1, <2>2 DEF KernelAgrees
<1>3. CASE mode \in KernelModes /\ unheard' = unheard \cup {d} /\ UNCHANGED interest
  <2>1. ASSUME NEW o \in Dirs
        PROVE  interest'[o] \ unheard' = want'[o] \ unheard'
    <3>1. interest[o] \ unheard = want[o] \ unheard /\ want'[o] \ {d} = want[o] \ {d}
      BY <1>3 DEF KernelAgrees
    <3> QED
      BY <1>3, <3>1
  <2> QED
    BY <1>3, <2>1 DEF KernelAgrees, WantTypes
<1> QED
  BY <1>1, <1>2, <1>3 DEF TellKernel

LEMMA StaleShrinks ==
  ASSUME IInv, NEW reported, Recorded(reported), inuse' = inuse
  PROVE  /\ stale' \in [Dirs -> SUBSET Fds]
         /\ \A dir \in Dirs : stale'[dir] \cap inuse' = {}
BY DEF IInv, Recorded

LEMMA InitIInv == Init => IInv
<1> SUFFICES ASSUME Init PROVE IInv
  OBVIOUS
<1>1. Cardinality(want["read"] \cup want["write"]) = 0
  BY FS_EmptySet DEF Init
<1>2. Counted(want, wanted)
  BY <1>1 DEF Init, Counted
<1> QED
  BY <1>2 DEF Init, IInv, WantTypes, KernelAgrees, KernelModes

(* io_fd leaves the flags alone, and what is wanted when it finds a mode   *)
(* is from then on unheard of.                                             *)
LEMMA FdIInv == ASSUME IInv, NEW d \in Fds, IoFd(d) PROVE IInv'
<1> USE DEF IInv
<1>1. want' = want
  BY DEF IoFd, WantTypes
<1>2. stale' \in [Dirs -> SUBSET Fds]
  BY DEF IoFd, Recorded
<1>3. \A dir \in Dirs : d \notin stale'[dir]
  BY DEF IoFd, Recorded, Zeroed
<1>4. \A dir \in Dirs : stale'[dir] \cap inuse' = {}
  BY <1>3 DEF IoFd, Recorded
<1>5. len' \in Nat /\ len' # 0
  BY DEF IoFd, Grown, Known, WantTypes
<1>6. /\ mode' = mode \/ mode = "UNDECIDED"
      /\ interest' = interest
      /\ unheard' = IF mode' = mode THEN unheard ELSE want["read"] \cup want["write"]
  BY DEF IoFd, Choices, KernelAgrees, WantTypes
<1>7. KernelAgrees'
  <2>1. CASE mode' = mode
    BY <1>1, <1>5, <1>6, <2>1 DEF KernelAgrees
  <2>2. CASE mode' # mode
    <3>1. \A dir \in Dirs : interest'[dir] = {} /\ want'[dir] \subseteq unheard'
      BY <1>1, <1>6, <2>2 DEF KernelAgrees, KernelModes
    <3> QED
      BY <1>5, <3>1 DEF KernelAgrees
  <2> QED
    BY <2>1, <2>2
<1>8. WantTypes' /\ Counted(want, wanted)'
  BY <1>1, <1>5, <1>6 DEF IoFd, WantTypes, Counted
<1>9. \A dir \in Dirs : want'[dir] \cup interest'[dir] \subseteq inuse'
  BY <1>1, <1>6 DEF IoFd
<1> QED
  BY <1>2, <1>4, <1>7, <1>8, <1>9

(* io_close gives up both wants, and the kernel forgets the number. *)
LEMMA CloseIInv == ASSUME IInv, NEW d \in Fds, IoClose(d) PROVE IInv'
<1> USE DEF IInv
<1> DEFINE r == DontWant(want, wanted, d, "read")
           s == DontWant(r.want, r.wanted, d, "write")
<1>1. want \in [Dirs -> SUBSET Fds]
  BY DEF WantTypes
<1>2. want' = s.want /\ wanted' = s.wanted
  BY DEF IoClose
<1>3. r.want = [want EXCEPT !["read"] = @ \ {d}] /\ Counted(r.want, r.wanted)
  BY <1>1, DontWantCounts
<1>4. r.want \in [Dirs -> SUBSET Fds]
  BY <1>1, <1>3
<1> HIDE DEF r
<1>5. s.want = [r.want EXCEPT !["write"] = @ \ {d}] /\ Counted(s.want, s.wanted)
  BY <1>3, <1>4, DontWantCounts
<1> HIDE DEF s
<1>6. want' \in [Dirs -> SUBSET Fds] /\ \A dir \in Dirs : want'[dir] = want[dir] \ {d}
  BY <1>1, <1>2, <1>3, <1>4, <1>5
<1>7. /\ inuse' = inuse \ {d}
      /\ interest' = [dir \in Dirs |-> interest[dir] \ {d}]
      /\ unheard' = unheard \ {d}
      /\ UNCHANGED <<mode, len, overcounted>>
  BY DEF IoClose
<1>8. Counted(want, wanted)'
  BY <1>2, <1>5, <1>7 DEF Counted
<1>9. KernelAgrees'
  <2>1. ASSUME NEW dir \in Dirs, interest[dir] \ unheard = want[dir] \ unheard
        PROVE  interest'[dir] \ unheard' = want'[dir] \ unheard'
    BY <1>6, <1>7, <2>1
  <2> QED
    BY <1>7, <2>1 DEF KernelAgrees
<1>10. WantTypes'
  BY <1>6, <1>7 DEF WantTypes
<1>11. \A dir \in Dirs : want'[dir] \cup interest'[dir] \subseteq inuse'
  BY <1>6, <1>7 DEF WantTypes
<1>12. /\ stale' \in [Dirs -> SUBSET Fds]
       /\ \A dir \in Dirs : stale'[dir] \cap inuse' = {}
  BY DEF IoClose
<1> QED
  BY <1>8, <1>9, <1>10, <1>11, <1>12

(* A want of either direction. *)
LEMMA WantIInv ==
  ASSUME IInv, NEW d \in Fds, NEW dir \in Dirs, IoWant(d, dir)
  PROVE  IInv'
<1> USE DEF IInv
<1>1. /\ d \in inuse /\ d \notin want[dir]
      /\ want' = [want EXCEPT ![dir] = @ \cup {d}] /\ wanted' = CountedWith(d)
      /\ TellKernel(d, dir, want')
      /\ UNCHANGED <<mode, len, inuse, overcounted>>
  BY DEF IoWant
<1>2. Counted(want, wanted)'
  BY <1>1, WantCounts DEF Counted
<1>3. /\ want' \in [Dirs -> SUBSET Fds]
      /\ \A o \in Dirs : want'[o] \ {d} = want[o] \ {d}
      /\ \A o \in Dirs \ {dir} : want'[o] = want[o]
      /\ \A o \in Dirs : want'[o] \subseteq want[o] \cup {d}
  BY <1>1 DEF WantTypes
<1>4. /\ interest' \in [Dirs -> SUBSET Fds] /\ KernelAgrees'
      /\ \A o \in Dirs : interest'[o] \subseteq interest[o] \cup {d}
  <2>1. WantTypes /\ KernelAgrees
    OBVIOUS
  <2>2. TellKernel(d, dir, want') /\ mode' = mode /\ len' = len
    BY <1>1
  <2>3. /\ want' \in [Dirs -> SUBSET Fds]
        /\ \A o \in Dirs : want'[o] \ {d} = want[o] \ {d}
        /\ \A o \in Dirs \ {dir} : want'[o] = want[o]
    BY <1>3
  <2> HIDE DEF IInv
  <2> QED
    BY <2>1, <2>2, <2>3, KernelTold
<1>5. WantTypes' /\ \A o \in Dirs : want'[o] \cup interest'[o] \subseteq inuse'
  BY <1>1, <1>3, <1>4 DEF WantTypes
<1>6. stale' = stale \/ \E reported : Recorded(reported)
  BY DEF IoWant
<1> QED
  BY <1>1, <1>2, <1>4, <1>5, <1>6, StaleShrinks

(* A want that is counted and dropped: the excess of the counter grows     *)
(* with it.                                                                *)
LEMMA WantFailsIInv ==
  ASSUME IInv, NEW d \in Fds, NEW dir \in Dirs, IoWantFails(d, dir)
  PROVE  IInv'
<1> USE DEF IInv
<1>1. /\ wanted' = CountedWith(d) /\ overcounted' = overcounted + (wanted' - wanted)
      /\ UNCHANGED <<mode, len, inuse, want, interest, unheard, stale>>
  BY DEF IoWantFails
<1>2. Cardinality(want["read"] \cup want["write"]) \in Nat
  BY WantedFinite DEF WantTypes
<1>3. wanted \in Int /\ wanted' \in Int
  BY <1>1, <1>2 DEF Counted, CountedWith, WantTypes
<1>4. Counted(want, wanted)' /\ overcounted' \in Int
  BY <1>1, <1>2, <1>3 DEF Counted, WantTypes
<1> QED
  BY <1>1, <1>4 DEF WantTypes, KernelAgrees

LEMMA DontWantIInv ==
  ASSUME IInv, NEW d \in Fds, NEW dir \in Dirs, IoDontWant(d, dir)
  PROVE  IInv'
<1> USE DEF IInv
<1> DEFINE r == DontWant(want, wanted, d, dir)
<1>1. /\ want' = r.want /\ wanted' = r.wanted
      /\ TellKernel(d, dir, want')
      /\ UNCHANGED <<mode, len, inuse, overcounted, stale>>
  BY DEF IoDontWant
<1>2. want \in [Dirs -> SUBSET Fds]
  BY DEF WantTypes
<1>3. r.want = [want EXCEPT ![dir] = @ \ {d}] /\ Counted(r.want, r.wanted)
  <2>1. WantTypes /\ Counted(want, wanted)
    OBVIOUS
  <2> HIDE DEF IInv, Fds, Dirs
  <2> QED
    BY <1>2, <2>1, DontWantCounts
<1> HIDE DEF r
<1>4. Counted(want, wanted)'
  BY <1>1, <1>3 DEF Counted
<1>5. /\ want' \in [Dirs -> SUBSET Fds]
      /\ \A o \in Dirs : want'[o] \ {d} = want[o] \ {d}
      /\ \A o \in Dirs \ {dir} : want'[o] = want[o]
      /\ \A o \in Dirs : want'[o] \subseteq want[o]
      /\ d \in inuse
  BY <1>1, <1>2, <1>3 DEF IoDontWant
<1>6. /\ interest' \in [Dirs -> SUBSET Fds] /\ KernelAgrees'
      /\ \A o \in Dirs : interest'[o] \subseteq interest[o] \cup {d}
  <2>1. WantTypes /\ KernelAgrees
    OBVIOUS
  <2>2. TellKernel(d, dir, want') /\ mode' = mode /\ len' = len
    BY <1>1
  <2>3. /\ want' \in [Dirs -> SUBSET Fds]
        /\ \A o \in Dirs : want'[o] \ {d} = want[o] \ {d}
        /\ \A o \in Dirs \ {dir} : want'[o] = want[o]
    BY <1>5
  <2> HIDE DEF IInv
  <2> QED
    BY <2>1, <2>2, <2>3, KernelTold
<1> QED
  BY <1>1, <1>4, <1>5, <1>6 DEF WantTypes

LEMMA NextIInv == IInv /\ [Next]_vars => IInv'
<1> SUFFICES ASSUME IInv, [Next]_vars PROVE IInv'
  OBVIOUS
<1> DEFINE Kept == UNCHANGED <<mode, len, inuse, want, wanted, interest, unheard, overcounted>>
<1>1. ASSUME Kept, NEW reported, Recorded(reported) PROVE IInv'
  <2>1. WantTypes' /\ Counted(want, wanted)' /\ KernelAgrees'
    BY <1>1 DEF IInv, WantTypes, Counted, KernelAgrees
  <2> QED
    BY <1>1, <2>1, StaleShrinks DEF IInv
<1>2. ASSUME NEW d \in Fds, NEW dir \in Dirs,
             IoTryEmpty(d, dir) \/ IoTryBlocking(d, dir) \/ IoEagain(d) \/ IoCan(dir)
      PROVE  IInv'
  <2>1. Kept /\ Recorded({})
    BY <1>2 DEF IoTryEmpty, IoTryBlocking, IoEagain, IoCan
  <2> QED
    BY <1>1, <2>1
<1>3. CASE IoWaitUntil2
  <2>1. Kept /\ \E reported : Recorded(reported)
    BY <1>3 DEF IoWaitUntil2, WaitEvents, WaitSignal, WaitPoll
  <2> QED
    BY <1>1, <2>1
<1>4. CASE UNCHANGED vars
  BY <1>4 DEF vars, IInv, WantTypes, Counted, KernelAgrees
<1>5. "read" \in Dirs
  OBVIOUS
<1> QED
  BY <1>2, <1>3, <1>4, <1>5, FdIInv, CloseIInv, WantIInv, WantFailsIInv, DontWantIInv DEF Next

LEMMA IInvAlways == Spec => []IInv
BY InitIInv, NextIInv, PTL DEF Spec

(* The counter of wanted descriptors that io_waituntil2 trusts is right    *)
(* but for the wants that a failing poll dropped, and the kernel's set     *)
(* agrees with the flags but for what it was not told or refused, after    *)
(* every sequence of calls.                                                *)
THEOREM IoWantsAgree == Spec => []WantsAgree
<1>1. IInv => WantsAgree
  BY DEF IInv, Counted, KernelAgrees, WantsAgree
<1> QED
  BY <1>1, IInvAlways, PTL

(* io_canread and io_canwrite never answer with a readiness that was       *)
(* reported for the former owner of a number: io_fd's byte_zero is what    *)
(* this rests on.                                                          *)
THEOREM IoNoStaleWakeup == Spec => []NoStaleWakeup
<1>1. IInv => NoStaleWakeup
  BY DEF IInv, WantTypes, NoStaleWakeup
<1> QED
  BY <1>1, IInvAlways, PTL

-----------------------------------------------------------------------------
(* Induction and iteration over the numbers, with sets and functions in    *)
(* place of the operators of the library's theorems.                       *)

LEMMA LeastNumber ==
  ASSUME NEW T \in SUBSET Nat, T # {}
  PROVE  \E c \in T : \A d \in T : c =< d
<1>0. T \subseteq Nat
  OBVIOUS
<1>1. PICK c \in T : \A d \in T : ~ (<<d, c>> \in OpToRel(<, Nat))
  BY <1>0, NatLessThanWellFounded, WFMin
<1>2. c \in Nat /\ \A d \in T : d \in Nat /\ ~ (d < c)
  BY <1>0, <1>1 DEF OpToRel
<1> QED
  BY <1>2

LEMMA NumbersIn ==
  ASSUME NEW S, 0 \in S, \A n \in Nat : n \in S => n + 1 \in S
  PROVE  \A n \in Nat : n \in S
<1>1. SUFFICES ASSUME Nat \ S # {} PROVE FALSE
  OBVIOUS
<1>2. PICK c \in Nat \ S : \A d \in Nat \ S : c =< d
  BY <1>1, LeastNumber
<1>3. c \in Nat /\ c # 0
  BY <1>2
<1>4. c - 1 \in Nat /\ ~ (c =< c - 1) /\ (c - 1) + 1 = c
  BY <1>3
<1>5. c - 1 \in S
  BY <1>2, <1>4
<1> QED
  BY <1>2, <1>4, <1>5

(* The first n + 1 values of an iteration.                                 *)
Iterates(g, n, X, x, F) ==
  /\ g \in [0 .. n -> X]
  /\ g[0] = x
  /\ \A m \in 0 .. n - 1 : g[m + 1] = F[m][g[m]]

LEMMA IteratesExist ==
  ASSUME NEW X, NEW x \in X, NEW F \in [Nat -> [X -> X]]
  PROVE  \A n \in Nat : \E g : Iterates(g, n, X, x, F)
<1> DEFINE S == {n \in Nat : \E g : Iterates(g, n, X, x, F)}
<1>1. 0 \in S
  <2>1. Iterates([m \in 0 .. 0 |-> x], 0, X, x, F)
    BY DEF Iterates
  <2> QED
    BY <2>1
<1>2. ASSUME NEW n \in Nat, n \in S PROVE n + 1 \in S
  <2>1. PICK g : Iterates(g, n, X, x, F)
    BY <1>2
  <2> DEFINE h == [m \in 0 .. n + 1 |-> IF m = n + 1 THEN F[n][g[n]] ELSE g[m]]
  <2>2. F[n][g[n]] \in X
    BY <2>1 DEF Iterates
  <2>3. h \in [0 .. n + 1 -> X]
    BY <2>1, <2>2 DEF Iterates
  <2>4. \A m \in 0 .. n : h[m] = g[m]
    OBVIOUS
  <2>5. h[n + 1] = F[n][g[n]]
    OBVIOUS
  <2>6. \A m \in 0 .. (n + 1) - 1 : h[m + 1] = F[m][h[m]]
    <3>0. (n + 1) - 1 = n
      OBVIOUS
    <3> SUFFICES ASSUME NEW m \in 0 .. n PROVE h[m + 1] = F[m][h[m]]
      BY <3>0
    <3>1. CASE m = n
      BY <3>1, <2>4, <2>5
    <3>2. CASE m # n
      <4>1. m \in 0 .. n - 1 /\ m + 1 \in 0 .. n
        BY <3>2
      <4> QED
        BY <4>1, <2>1, <2>4 DEF Iterates
    <3> QED
      BY <3>1, <3>2
  <2>7. h[0] = x
    BY <2>1, <2>4 DEF Iterates
  <2> HIDE DEF h
  <2>8. Iterates(h, n + 1, X, x, F)
    BY <2>3, <2>6, <2>7 DEF Iterates
  <2> QED
    BY <2>8
<1> HIDE DEF S
<1>3. \A n \in Nat : n \in S
  BY <1>1, <1>2, NumbersIn
<1> QED
  BY <1>3 DEF S

LEMMA IteratesAgree ==
  ASSUME NEW X, NEW x, NEW F, NEW n \in Nat, NEW k \in Nat, n =< k, NEW g, NEW h,
         Iterates(g, n, X, x, F), Iterates(h, k, X, x, F)
  PROVE  \A m \in 0 .. n : g[m] = h[m]
<1> DEFINE S == {m \in Nat : m =< n => g[m] = h[m]}
<1>1. 0 \in S
  BY DEF Iterates
<1>2. ASSUME NEW m \in Nat, m \in S PROVE m + 1 \in S
  <2>1. SUFFICES ASSUME m + 1 =< n PROVE g[m + 1] = h[m + 1]
    OBVIOUS
  <2>2. g[m] = h[m] /\ m \in 0 .. n - 1 /\ m \in 0 .. k - 1
    BY <1>2, <2>1
  <2> QED
    BY <2>2 DEF Iterates
<1> HIDE DEF S
<1>3. \A m \in Nat : m \in S
  BY <1>1, <1>2, NumbersIn
<1> QED
  BY <1>3 DEF S

Steps(F, X) == F \in [Nat -> [X -> X]]
IterationOf(g, X, x, F) ==
  g \in [Nat -> X] /\ g[0] = x /\ \A n \in Nat : g[n + 1] = F[n][g[n]]

LEMMA Iterated ==
  ASSUME NEW X, NEW x \in X, NEW F, Steps(F, X)
  PROVE  \E g : IterationOf(g, X, x, F)
<1> DEFINE U(n) == CHOOSE u : Iterates(u, n, X, x, F)
           g == [n \in Nat |-> U(n)[n]]
<1>1. \A n \in Nat : Iterates(U(n), n, X, x, F)
  BY IteratesExist DEF Steps
<1> HIDE DEF U
<1>2. \A n \in Nat : g[n] = U(n)[n]
  OBVIOUS
<1>3. g \in [Nat -> X]
  BY <1>1 DEF Iterates
<1>4. g[0] = x
  BY <1>1, <1>2 DEF Iterates
<1>5. ASSUME NEW n \in Nat PROVE g[n + 1] = F[n][g[n]]
  <2>1. n + 1 \in Nat /\ n =< n + 1 /\ n \in 0 .. n
    OBVIOUS
  <2>2. \A m \in 0 .. n : U(n)[m] = U(n + 1)[m]
    BY <1>1, <2>1, IteratesAgree
  <2>3. U(n)[n] = U(n + 1)[n]
    BY <2>1, <2>2
  <2>4. U(n + 1)[n + 1] = F[n][U(n + 1)[n]]
    BY <1>1, <2>1 DEF Iterates
  <2> QED
    BY <1>2, <2>1, <2>3, <2>4
<1> HIDE DEF g
<1>6. IterationOf(g, X, x, F)
  BY <1>3, <1>4, <1>5 DEF IterationOf
<1> QED
  BY <1>6

-----------------------------------------------------------------------------
(* The lists.                                                              *)

Links == Fds \cup {None}
Lists == [first : Links, alt : Links, next : [Fds -> Links], can : SUBSET Fds]
Walks == [first : Links, alt : Links, next : [Fds -> Links], can : SUBSET Fds,
          got : Links]

LEMMA ChainHeld ==
  ASSUME NEW l, NEW S \in SUBSET Fds, Holds(S, l, None)
  PROVE  Chain(l) \subseteq S
BY DEF Chain

LEMMA ChainHolds ==
  ASSUME NEW l, l.first \in Links, l.next \in [Fds -> Links]
  PROVE  Chain(l) \in SUBSET Fds /\ Holds(Chain(l), l, None)
<1>1. Chain(l) \in SUBSET Fds
  BY DEF Chain
<1>2. \A x \in Links : (\A S \in SUBSET Fds : Holds(S, l, None) => x \in S \cup {None})
                          => x \in Chain(l) \cup {None}
  BY DEF Chain, Links
<1>3. l.first \in Chain(l) \cup {None}
  <2>1. \A S \in SUBSET Fds : Holds(S, l, None) => l.first \in S \cup {None}
    BY DEF Holds
  <2> QED
    BY <1>2, <2>1
<1>4. ASSUME NEW d \in Chain(l) \ {None} PROVE l.next[d] \in Chain(l) \cup {None}
  <2>1. \A S \in SUBSET Fds : Holds(S, l, None) => l.next[d] \in S \cup {None}
    BY <1>4 DEF Holds, Chain
  <2>2. l.next[d] \in Links
    BY <1>1, <1>4
  <2> QED
    BY <1>2, <2>1, <2>2
<1> QED
  BY <1>1, <1>3, <1>4 DEF Holds

(* What is on a list stays on it when the link of one entry d is written,  *)
(* provided that nothing was behind d on it; d may come in front.          *)
LEMMA ChainKept ==
  ASSUME NEW l, l.first \in Links, l.next \in [Fds -> Links],
         NEW m, NEW d \in Fds,
         d \notin Chain(l) \/ l.next[d] = None,
         \A e \in Fds : e # d => m.next[e] = l.next[e],
         m.first = l.first \/ (m.first = d /\ m.next[d] = l.first)
  PROVE  Chain(l) \subseteq Chain(m)
<1> SUFFICES ASSUME NEW S \in SUBSET Fds, Holds(S, m, None) PROVE Chain(l) \subseteq S
  BY DEF Chain
<1>0. d # None /\ None \notin S
  BY DEF None
<1>1. l.first \in S \cup {None}
  BY <1>0 DEF Holds
<1>2. CASE l.next[d] = None
  <2>1. Holds(S, l, None)
    BY <1>0, <1>1, <1>2 DEF Holds
  <2> QED
    BY <2>1, ChainHeld
<1>3. CASE d \notin Chain(l)
  <2>1. Chain(l) \in SUBSET Fds /\ Holds(Chain(l), l, None)
    BY ChainHolds
  <2>2. Holds(S \cap Chain(l), l, None)
    <3>1. l.first \in (S \cap Chain(l)) \cup {None}
      BY <1>1, <2>1 DEF Holds
    <3>2. ASSUME NEW e \in (S \cap Chain(l)) \ {None}
          PROVE  l.next[e] \in (S \cap Chain(l)) \cup {None}
      <4>1. e # d /\ e \in Fds
        BY <1>3
      <4>2. m.next[e] \in S \cup {None}
        BY DEF Holds
      <4>3. l.next[e] \in Chain(l) \cup {None}
        BY <2>1 DEF Holds
      <4> QED
        BY <4>1, <4>2, <4>3
    <3> QED
      BY <3>1, <3>2 DEF Holds
  <2>3. S \cap Chain(l) \in SUBSET Fds
    OBVIOUS
  <2> QED
    BY <2>2, <2>3, ChainHeld
<1> QED
  BY <1>2, <1>3

(* The link may point at the first entry or nowhere.                       *)
Near(x) == x = None \/ x = 0 \/ Known(x)
InTable(l) == Near(l.first) /\ Near(l.alt) /\ \A d \in Fds : Near(l.next[d])

TableTypes ==
  /\ len \in 0 .. MaxFd + 1
  /\ mode \in AllModes
  /\ mode # "UNDECIDED" => len > 0

ListTypes ==
  /\ TableTypes
  /\ \A d \in inuse : Known(d)
  /\ lists \in [Dirs -> Lists]
  /\ \A dir \in Dirs : InTable(lists[dir])

(* What is flagged is on the list, unless something broke it.              *)
AllQueued ==
  mode # "SIGIO" =>
    \A dir \in Dirs : dir \notin broken => lists[dir].can \subseteq Chain(lists[dir])

LInv == IInv /\ ListTypes /\ AllQueued

-----------------------------------------------------------------------------
(* The loop of io_canread.                                                 *)

LEMMA DequeueType ==
  ASSUME TableTypes, NEW dir, NEW l \in Walks
  PROVE  Dequeue(l, dir) \in Walks
<1>1. CASE l.got # None \/ ~Known(l.first)
  BY <1>1 DEF Dequeue
<1>2. CASE l.got = None /\ Known(l.first)
  <2> DEFINE r == l.first
             m == Dequeue(l, dir)
             hit == r \in want[dir] /\ r \in l.can
  <2>1. r \in Fds /\ l.next[r] \in Links
    BY <1>2 DEF Known, Walks, TableTypes, Links, None
  <2>2. ASSUME hit
        PROVE  m = [first |-> l.next[r],
                    alt   |-> IF HasAlt THEN r ELSE l.alt,
                    next  |-> [l.next EXCEPT ![r] = IF HasAlt THEN l.alt ELSE None],
                    can   |-> IF mode = "SIGIO" THEN l.can ELSE l.can \ {r},
                    got   |-> r]
    BY <1>2, <2>1, <2>2 DEF Dequeue, Walks
  <2>3. ASSUME ~hit
        PROVE  m = [first |-> l.next[r], alt |-> l.alt,
                    next  |-> [l.next EXCEPT ![r] = None], can |-> l.can, got |-> l.got]
    BY <1>2, <2>1, <2>3 DEF Dequeue, Walks
  <2> HIDE DEF m
  <2>4. ASSUME hit PROVE m \in Walks
    BY <2>1, <2>2, <2>4 DEF Walks, Links
  <2>5. ASSUME ~hit PROVE m \in Walks
    <3>1. /\ [l.next EXCEPT ![r] = None] \in [Fds -> Links]
          /\ l.alt \in Links /\ l.can \in SUBSET Fds /\ l.got \in Links
      BY <2>1 DEF Walks, Links
    <3> QED
      BY <2>1, <2>3, <2>5, <3>1 DEF Walks
  <2> QED
    BY <2>4, <2>5 DEF m
<1> QED
  BY <1>1, <1>2

LEMMA TurnByTurn ==
  ASSUME TableTypes, NEW dir, NEW l \in Walks
  PROVE  /\ AfterTurns(l, dir) \in [Nat -> Walks]
         /\ AfterTurns(l, dir)[0] = l
         /\ \A n \in Nat :
              AfterTurns(l, dir)[n + 1] = Dequeue(AfterTurns(l, dir)[n], dir)
<1> DEFINE F == [n \in Nat |-> [w \in Walks |-> Dequeue(w, dir)]]
           P(f) == f = [n \in Nat |-> IF n = 0 THEN l ELSE Dequeue(f[n - 1], dir)]
<1>1. F \in [Nat -> [Walks -> Walks]]
  BY DequeueType
<1>2. \A n \in Nat : \A w \in Walks : F[n][w] = Dequeue(w, dir)
  OBVIOUS
<1> HIDE DEF F
<1> DEFINE W == Walks
<1> HIDE DEF W
<1>3. l \in W /\ Steps(F, W)
  BY <1>1 DEF W, Steps
<1>4. PICK g : IterationOf(g, W, l, F)
  BY <1>3, Iterated
<1>5. g \in [Nat -> Walks] /\ g[0] = l /\ \A n \in Nat : g[n + 1] = F[n][g[n]]
  BY <1>4 DEF W, IterationOf
<1>6. ASSUME NEW n \in Nat PROVE g[n + 1] = Dequeue(g[n], dir)
  <2>1. g[n] \in Walks /\ g[n + 1] = F[n][g[n]]
    BY <1>5
  <2> QED
    BY <1>2, <2>1
<1>7. \A n \in Nat : g[n] = IF n = 0 THEN l ELSE Dequeue(g[n - 1], dir)
  <2> SUFFICES ASSUME NEW n \in Nat, n # 0 PROVE g[n] = Dequeue(g[n - 1], dir)
    BY <1>5
  <2>1. n - 1 \in Nat /\ (n - 1) + 1 = n
    OBVIOUS
  <2> QED
    BY <1>6, <2>1
<1>8. P(g)
  BY <1>5, <1>7
<1>9. AfterTurns(l, dir) = CHOOSE f : P(f)
  BY DEF AfterTurns
<1> HIDE DEF P
<1>10. P(AfterTurns(l, dir))
  BY <1>8, <1>9
<1> DEFINE after == AfterTurns(l, dir)
<1>11. after = [n \in Nat |-> IF n = 0 THEN l ELSE Dequeue(after[n - 1], dir)]
  BY <1>10 DEF P
<1> HIDE DEF after
<1>12. after[0] = l
  BY <1>11
<1>13. \A n \in Nat : after[n + 1] = Dequeue(after[n], dir)
  <2> SUFFICES ASSUME NEW n \in Nat PROVE after[n + 1] = Dequeue(after[n], dir)
    OBVIOUS
  <2>1. n + 1 \in Nat /\ n + 1 # 0 /\ (n + 1) - 1 = n
    OBVIOUS
  <2>2. after[n + 1] = IF n + 1 = 0 THEN l ELSE Dequeue(after[(n + 1) - 1], dir)
    BY <1>11, <2>1
  <2> QED
    BY <2>1, <2>2
<1>14. after \in [Nat -> Walks]
  <2> DEFINE T == {n \in Nat : after[n] \in Walks}
  <2>1. 0 \in T
    BY <1>12
  <2>2. ASSUME NEW n \in Nat, n \in T PROVE n + 1 \in T
    BY <1>13, <2>2, DequeueType
  <2> HIDE DEF T
  <2>3. \A n \in Nat : n \in T
    BY <2>1, <2>2, NumbersIn
  <2>4. \A n \in Nat : after[n] \in Walks
    BY <2>3 DEF T
  <2>5. after = [n \in Nat |-> after[n]]
    BY <1>11
  <2> QED
    BY <2>4, <2>5
<1> QED
  BY <1>12, <1>13, <1>14 DEF after

LEMMA DequeueTable ==
  ASSUME TableTypes, NEW dir, NEW l \in Walks, InTable(l)
  PROVE  InTable(Dequeue(l, dir))
<1>1. CASE l.got # None \/ ~Known(l.first)
  BY <1>1 DEF Dequeue
<1>2. CASE l.got = None /\ Known(l.first)
  <2> DEFINE r == l.first
             m == Dequeue(l, dir)
  <2>0. r \in Fds
    BY <1>2 DEF Known, Walks, TableTypes, None, Links
  <2>1. r \in Fds /\ Near(l.next[r]) /\ Near(l.alt) /\ Near(r) /\ Near(None)
    BY <1>2, <2>0 DEF InTable, Near
  <2>2. m.first = l.next[r] /\ m.alt \in {l.alt, r}
    BY <1>2, <2>1 DEF Dequeue, Walks
  <2>3. \A d \in Fds : m.next[d] \in {l.next[d], l.alt, None}
    BY <1>2, <2>1 DEF Dequeue, Walks
  <2> HIDE DEF m
  <2>4. \A d \in Fds : Near(m.next[d])
    BY <2>1, <2>3 DEF InTable
  <2> QED
    BY <2>1, <2>2, <2>4 DEF InTable, m
<1> QED
  BY <1>1, <1>2

LEMMA TurnsTable ==
  ASSUME TableTypes, NEW dir, NEW l \in Walks, InTable(l)
  PROVE  \A n \in Nat : InTable(AfterTurns(l, dir)[n])
<1> DEFINE after == AfterTurns(l, dir)
           T == {n \in Nat : InTable(after[n])}
<1>1. /\ after \in [Nat -> Walks]
      /\ after[0] = l /\ \A n \in Nat : after[n + 1] = Dequeue(after[n], dir)
  BY TurnByTurn
<1> HIDE DEF after
<1>2. 0 \in T
  BY <1>1
<1>3. ASSUME NEW n \in Nat, n \in T PROVE n + 1 \in T
  BY <1>1, <1>3, DequeueTable
<1> HIDE DEF T
<1>4. \A n \in Nat : n \in T
  BY <1>2, <1>3, NumbersIn
<1> QED
  BY <1>4 DEF T, after

(* Of the entries that are wanted and flagged, those that the loop has not *)
(* handed out are still ahead of it.                                       *)
Ahead(m, l, dir) ==
  /\ m.got = None =>
       /\ m.can = l.can
       /\ \A S \in SUBSET Fds : Holds(S, m, None) => Ready(l, dir) \subseteq S
  /\ m.got # None =>
       /\ m.got \in Ready(l, dir)
       /\ m.can = l.can \ {m.got}
       /\ \A S \in SUBSET Fds :
            Holds(S, m, m.got) => Ready(l, dir) \ {m.got} \subseteq S

LEMMA DequeueAhead ==
  ASSUME TableTypes, mode # "SIGIO", NEW dir, NEW l, NEW m \in Walks, Ahead(m, l, dir)
  PROVE  Ahead(Dequeue(m, dir), l, dir)
<1>1. CASE m.got # None \/ ~Known(m.first)
  BY <1>1 DEF Dequeue
<1>2. CASE m.got = None /\ Known(m.first)
  <2> DEFINE r == m.first
             w == Dequeue(m, dir)
             hit == r \in want[dir] /\ r \in m.can
  <2>1. r \in Fds /\ r # None
    BY <1>2 DEF Known, Walks, TableTypes, None, Links
  <2>2. w.first = m.next[r] /\ \A d \in Fds : d # r => w.next[d] = m.next[d]
    BY <1>2, <2>1 DEF Dequeue, Walks
  <2>3. m.can = l.can /\ (hit <=> r \in Ready(l, dir))
    BY <1>2 DEF Ahead, Ready
  <2>4. IF hit THEN w.got = r /\ w.can = m.can \ {r}
               ELSE w.got = None /\ w.can = m.can /\ w.next[r] = None
    BY <1>2, <2>1 DEF Dequeue, Walks
  <2> HIDE DEF w
  <2>5. ASSUME NEW S \in SUBSET Fds, NEW x, Holds(S, w, x), x = None \/ x = r
        PROVE  Ready(l, dir) \subseteq S \cup {r}
    <3>1. m.next[r] \in S \cup {None}
      BY <2>2, <2>5 DEF Holds
    <3>2. \A d \in S : d # r => m.next[d] \in S \cup {None}
      <4> SUFFICES ASSUME NEW d \in S, d # r PROVE m.next[d] \in S \cup {None}
        OBVIOUS
      <4>1. d # x
        BY <2>5 DEF None
      <4> QED
        BY <2>2, <2>5, <4>1 DEF Holds
    <3>3. Holds(S \cup {r}, m, None)
      BY <3>1, <3>2 DEF Holds
    <3>4. S \cup {r} \in SUBSET Fds
      BY <2>1
    <3> QED
      BY <1>2, <3>3, <3>4 DEF Ahead
  <2>6. CASE hit
    <3>1. w.got = r /\ w.can = l.can \ {w.got} /\ w.got \in Ready(l, dir)
      BY <2>3, <2>4, <2>6
    <3>2. \A S \in SUBSET Fds :
            Holds(S, w, w.got) => Ready(l, dir) \ {w.got} \subseteq S
      BY <2>5, <3>1
    <3> QED
      BY <2>1, <3>1, <3>2 DEF Ahead, w
  <2>7. CASE ~hit
    <3>1. w.got = None /\ w.can = l.can /\ r \notin Ready(l, dir)
      BY <2>3, <2>4, <2>7
    <3>2. \A S \in SUBSET Fds : Holds(S, w, None) => Ready(l, dir) \subseteq S
      BY <2>5, <3>1
    <3> QED
      BY <3>1, <3>2 DEF Ahead, w
  <2> QED
    BY <2>6, <2>7
<1> QED
  BY <1>1, <1>2

LEMMA TurnsAhead ==
  ASSUME TableTypes, mode # "SIGIO", NEW dir, NEW l \in Walks,
         l.got = None, Ready(l, dir) \subseteq Chain(l)
  PROVE  \A n \in Nat : Ahead(AfterTurns(l, dir)[n], l, dir)
<1> DEFINE after == AfterTurns(l, dir)
           T == {n \in Nat : Ahead(after[n], l, dir)}
<1>1. /\ after \in [Nat -> Walks]
      /\ after[0] = l /\ \A n \in Nat : after[n + 1] = Dequeue(after[n], dir)
  BY TurnByTurn
<1> HIDE DEF after
<1>2. Ahead(l, l, dir)
  <2>1. \A S \in SUBSET Fds : Holds(S, l, None) => Ready(l, dir) \subseteq S
    BY ChainHeld
  <2> QED
    BY <2>1 DEF Ahead
<1>3. 0 \in T
  BY <1>1, <1>2
<1>4. ASSUME NEW n \in Nat, n \in T PROVE n + 1 \in T
  BY <1>1, <1>4, DequeueAhead
<1> HIDE DEF T
<1>5. \A n \in Nat : n \in T
  BY <1>3, <1>4, NumbersIn
<1> QED
  BY <1>5 DEF T, after

(* The entries whose link is set: every turn but the last clears one.      *)
Linked(l) == {d \in Fds : l.next[d] # None}

Ends(m, n) == \/ m.got # None
              \/ m.first = None
              \/ Cardinality(Linked(m)) + n =< MaxFd + 1

LEMMA LinkedBound ==
  ASSUME NEW m
  PROVE  IsFiniteSet(Linked(m)) /\ Cardinality(Linked(m)) \in 0 .. MaxFd + 1
<1>1. IsFiniteSet(Fds) /\ Cardinality(Fds) = MaxFd + 1
  BY FS_Interval
<1>2. Linked(m) \subseteq Fds
  BY DEF Linked
<1>3. IsFiniteSet(Linked(m)) /\ Cardinality(Linked(m)) =< Cardinality(Fds)
  BY <1>1, <1>2, FS_Subset
<1>4. Cardinality(Linked(m)) \in Nat
  BY <1>3, FS_CardinalityType
<1> QED
  BY <1>1, <1>3, <1>4

LEMMA DequeueEnds ==
  ASSUME TableTypes, len > 0, NEW dir, NEW m \in Walks, InTable(m),
         NEW n \in Nat, Ends(m, n)
  PROVE  Ends(Dequeue(m, dir), n + 1)
<1>1. m.first = None \/ Known(m.first)
  BY DEF InTable, Near, Known, TableTypes
<1>2. CASE m.got # None \/ m.first = None
  <2>1. Dequeue(m, dir) = m
    BY <1>2 DEF Dequeue, Known, None
  <2> QED
    BY <1>2, <2>1 DEF Ends
<1>3. CASE m.got = None /\ m.first # None
  <2> DEFINE r == m.first
             w == Dequeue(m, dir)
             hit == r \in want[dir] /\ r \in m.can
  <2>0. Known(r) /\ r \in Fds /\ r # None
    BY <1>1, <1>3 DEF Known, Walks, TableTypes, None, Links
  <2>1. CASE hit
    <3>1. w.got = r
      BY <1>3, <2>0, <2>1 DEF Dequeue, Walks
    <3> QED
      BY <2>0, <3>1 DEF Ends
  <2>2. CASE ~hit
    <3>1. w.first = m.next[r] /\ w.next = [m.next EXCEPT ![r] = None]
      BY <1>3, <2>0, <2>2 DEF Dequeue, Walks
    <3>2. CASE m.next[r] = None
      BY <3>1, <3>2 DEF Ends
    <3>3. CASE m.next[r] # None
      <4> HIDE DEF w
      <4>1. Linked(w) = Linked(m) \ {r} /\ r \in Linked(m)
        BY <2>0, <3>1, <3>3 DEF Linked, Walks
      <4>2. Cardinality(Linked(w)) = Cardinality(Linked(m)) - 1
        BY <4>1, LinkedBound, FS_RemoveElement
      <4>3. Cardinality(Linked(m)) \in 0 .. MaxFd + 1
        BY LinkedBound
      <4>4. Cardinality(Linked(m)) + n =< MaxFd + 1
        BY <1>3 DEF Ends
      <4>5. Cardinality(Linked(w)) + (n + 1) =< MaxFd + 1
        BY <4>2, <4>3, <4>4
      <4> QED
        BY <4>5 DEF Ends, w
    <3> QED
      BY <3>2, <3>3
  <2> QED
    BY <2>1, <2>2
<1> QED
  BY <1>2, <1>3

(* MaxTurns are enough: after them the loop has handed out an entry or the *)
(* list is empty.                                                          *)
LEMMA TurnsEnd ==
  ASSUME TableTypes, len > 0, NEW dir, NEW l \in Walks, InTable(l)
  PROVE  LET m == AfterTurns(l, dir)[MaxTurns] IN m.got # None \/ m.first = None
<1> DEFINE after == AfterTurns(l, dir)
           T == {n \in Nat : Ends(after[n], n)}
<1>1. /\ after \in [Nat -> Walks]
      /\ after[0] = l /\ \A n \in Nat : after[n + 1] = Dequeue(after[n], dir)
  BY TurnByTurn
<1>2. \A n \in Nat : InTable(after[n])
  BY TurnsTable
<1> HIDE DEF after
<1>3. 0 \in T
  <2>1. Cardinality(Linked(l)) + 0 =< MaxFd + 1
    BY LinkedBound
  <2> QED
    BY <1>1, <2>1 DEF Ends
<1>4. ASSUME NEW n \in Nat, n \in T PROVE n + 1 \in T
  <2>1. after[n] \in Walks /\ InTable(after[n]) /\ Ends(after[n], n)
    BY <1>1, <1>2, <1>4
  <2>2. Ends(Dequeue(after[n], dir), n + 1)
    BY <2>1, DequeueEnds
  <2> QED
    BY <1>1, <2>2
<1> HIDE DEF T
<1>5. MaxTurns \in Nat /\ \A n \in Nat : n \in T
  BY <1>3, <1>4, NumbersIn DEF MaxTurns
<1>6. Ends(after[MaxTurns], MaxTurns)
  BY <1>5 DEF T
<1>7. Cardinality(Linked(after[MaxTurns])) \in 0 .. MaxFd + 1
  BY LinkedBound
<1> QED
  BY <1>6, <1>7 DEF Ends, MaxTurns, after

-----------------------------------------------------------------------------
(* io_canread.                                                             *)

LEMMA CanType ==
  ASSUME TableTypes, NEW dir, NEW l \in Lists, InTable(l)
  PROVE  Can(l, dir) \in Walks /\ InTable(Can(l, dir))
<1> DEFINE start == [first |-> IF Swaps(l) THEN l.alt ELSE l.first,
                     alt   |-> IF Swaps(l) THEN None ELSE l.alt,
                     next  |-> l.next, can |-> l.can, got |-> None]
<1>1. start \in Walks
  BY DEF Walks, Lists, Links
<1>2. InTable(start)
  BY DEF InTable, Near
<1>3. Can(l, dir) = AfterTurns(start, dir)[MaxTurns]
  BY DEF Can
<1>4. MaxTurns \in Nat
  BY DEF MaxTurns
<1> HIDE DEF start
<1>5. AfterTurns(start, dir)[MaxTurns] \in Walks
  BY <1>1, <1>4, TurnByTurn
<1>6. InTable(AfterTurns(start, dir)[MaxTurns])
  BY <1>1, <1>2, <1>4, TurnsTable
<1> QED
  BY <1>3, <1>5, <1>6

(* One call, on a list that holds all that is ready and wanted.            *)
LEMMA CanAhead ==
  ASSUME TableTypes, mode # "SIGIO", NEW dir, NEW l \in Lists, InTable(l),
         Ready(l, dir) \subseteq Chain(l), Ready(l, dir) # {} \/ l.can = {}
  PROVE  /\ Ahead(Can(l, dir), l, dir)
         /\ len > 0 => Can(l, dir).got # None \/ Can(l, dir).first = None
<1> DEFINE start == [first |-> IF Swaps(l) THEN l.alt ELSE l.first,
                     alt   |-> IF Swaps(l) THEN None ELSE l.alt,
                     next  |-> l.next, can |-> l.can, got |-> None]
<1>1. start \in Walks /\ InTable(start)
  BY DEF Walks, Lists, Links, InTable, Near
<1>2. ~Swaps(l)
  <2>1. CASE l.can = {}
    BY <2>1 DEF Swaps
  <2>2. CASE Ready(l, dir) # {}
    <3>1. SUFFICES l.first # None
      BY DEF Swaps
    <3>2. SUFFICES ASSUME l.first = None PROVE FALSE
      OBVIOUS
    <3>3. Holds({}, l, None)
      BY <3>2 DEF Holds
    <3>4. Chain(l) \subseteq {}
      BY <3>3, ChainHeld
    <3> QED
      BY <2>2, <3>4
  <2> QED
    BY <2>1, <2>2
<1>3. start.first = l.first /\ start.next = l.next /\ start.can = l.can /\ start.got = None
  BY <1>2
<1>4. Can(l, dir) = AfterTurns(start, dir)[MaxTurns]
  BY DEF Can
<1>5. MaxTurns \in Nat
  BY DEF MaxTurns
<1> HIDE DEF start
<1>6. Ready(start, dir) = Ready(l, dir)
  BY <1>3 DEF Ready
<1>7. Chain(start) = Chain(l)
  BY <1>3 DEF Chain, Holds
<1>8. Ahead(Can(l, dir), start, dir)
  BY <1>1, <1>3, <1>4, <1>5, <1>6, <1>7, TurnsAhead
<1>9. Ahead(Can(l, dir), l, dir)
  BY <1>3, <1>6, <1>8 DEF Ahead
<1>10. len > 0 => Can(l, dir).got # None \/ Can(l, dir).first = None
  BY <1>1, <1>4, TurnsEnd
<1> QED
  BY <1>9, <1>10

LEMMA CanHands ==
  ASSUME TableTypes, mode # "SIGIO", len > 0, NEW dir, NEW l \in Lists, InTable(l),
         Ready(l, dir) \subseteq Chain(l), Ready(l, dir) # {}
  PROVE  /\ Can(l, dir).got \in Ready(l, dir)
         /\ Can(l, dir).can = l.can \ {Can(l, dir).got}
         /\ \A S \in SUBSET Fds : Holds(S, Can(l, dir), Can(l, dir).got)
              => Ready(l, dir) \ {Can(l, dir).got} \subseteq S
<1> DEFINE r == Can(l, dir)
<1>1. Ahead(r, l, dir) /\ (r.got # None \/ r.first = None)
  BY CanAhead
<1> HIDE DEF r
<1>2. r.got # None
  <2>1. SUFFICES ASSUME r.got = None, r.first = None PROVE FALSE
    BY <1>1
  <2>2. Holds({}, r, None)
    BY <2>1 DEF Holds
  <2>3. Ready(l, dir) \subseteq {}
    BY <1>1, <2>1, <2>2 DEF Ahead
  <2> QED
    BY <2>3
<1> QED
  BY <1>1, <1>2 DEF Ahead, r

(* After the call, and after the read or write that clears the link again, *)
(* what is still flagged is on the list, if nothing was skipped.           *)
LEMMA CanKeeps ==
  ASSUME TableTypes, mode # "SIGIO", NEW dir, NEW l \in Lists, InTable(l),
         l.can \subseteq Chain(l), l.can \subseteq want[dir], l.can # {} => len > 0,
         NEW r, r = Can(l, dir)
  PROVE  /\ r.can \subseteq Chain(r)
         /\ r.got # None => LET u == Unlink(ListOf(r), r.got)
                            IN  u.can \subseteq Chain(u)
<1>1. Ready(l, dir) = l.can
  BY DEF Ready
<1>2. CASE l.can = {}
  <2>1. Ahead(r, l, dir)
    BY <1>1, <1>2, CanAhead
  <2>2. r.can = {} /\ r.got = None
    BY <1>1, <1>2, <2>1 DEF Ahead
  <2> QED
    BY <2>2
<1>3. CASE l.can # {}
  <2>1. /\ r.got \in l.can
        /\ r.can = l.can \ {r.got}
        /\ \A S \in SUBSET Fds : Holds(S, r, r.got) => r.can \subseteq S
    BY <1>1, <1>3, CanHands
  <2>2. r.can \subseteq Chain(r)
    <3>1. ASSUME NEW S \in SUBSET Fds, Holds(S, r, None) PROVE r.can \subseteq S
      <4>1. None \notin S
        BY DEF None
      <4>2. Holds(S, r, r.got)
        BY <3>1, <4>1 DEF Holds
      <4> QED
        BY <2>1, <4>2
    <3>2. r.can \subseteq Fds
      BY <2>1 DEF Lists
    <3> QED
      BY <3>1, <3>2 DEF Chain
  <2>3. r \in Walks
    BY CanType
  <2> DEFINE u == Unlink(ListOf(r), r.got)
  <2>4. /\ u.can = r.can \ {r.got} /\ u.first = r.first
        /\ \A d \in Fds : d # r.got => u.next[d] = r.next[d]
    BY <2>3 DEF Unlink, ListOf, Walks
  <2> HIDE DEF u
  <2>5. u.can \subseteq Chain(u)
    <3>1. ASSUME NEW S \in SUBSET Fds, Holds(S, u, None) PROVE u.can \subseteq S
      <4>1. None \notin S
        BY DEF None
      <4>2. Holds(S, r, r.got)
        BY <2>4, <3>1, <4>1 DEF Holds
      <4> QED
        BY <2>1, <2>4, <4>2
    <3>2. u.can \subseteq Fds
      BY <2>1, <2>4 DEF Lists
    <3> QED
      BY <3>1, <3>2 DEF Chain
  <2> QED
    BY <2>2, <2>5 DEF u
<1> QED
  BY <1>2, <1>3

-----------------------------------------------------------------------------
(* poll.                                                                   *)

LEMMA PushType ==
  ASSUME TableTypes, NEW l \in Lists, NEW d \in Fds
  PROVE  /\ Push(l, d) \in Lists
         /\ InTable(l) /\ Known(d) => InTable(Push(l, d))
<1>1. CASE d \in l.can
  BY <1>1 DEF Push
<1>2. CASE d \notin l.can
  <2> DEFINE m == Push(l, d)
  <2>1. m = [first |-> d, alt |-> l.alt, next |-> [l.next EXCEPT ![d] = l.first],
             can |-> l.can \cup {d}]
    BY <1>2 DEF Push, Lists
  <2>2. [l.next EXCEPT ![d] = l.first] \in [Fds -> Links]
    BY DEF Lists
  <2>3. d \in Links /\ l.alt \in Links /\ l.can \cup {d} \in SUBSET Fds
    BY DEF Lists, Links
  <2> HIDE DEF m
  <2>4. m \in Lists
    BY <2>1, <2>2, <2>3 DEF Lists
  <2>5. InTable(l) /\ Known(d) => InTable(m)
    <3>1. \A e \in Fds : m.next[e] = IF e = d THEN l.first ELSE l.next[e]
      BY <2>1 DEF Lists
    <3> QED
      BY <2>1, <3>1 DEF InTable, Near
  <2> QED
    BY <2>4, <2>5 DEF m
<1> QED
  BY <1>1, <1>2

(* What has been pushed since the flags were cleared is what the list      *)
(* starts with.                                                            *)
Leads(l) ==
  \A S \in SUBSET Fds :
    /\ l.first \in S \cup {None}
    /\ \A d \in S : d \in l.can => l.next[d] \in S \cup {None}
    => l.can \subseteq S

LEMMA PushLeads ==
  ASSUME NEW l \in Lists, NEW d \in Fds, d \notin l.can, Leads(l)
  PROVE  Leads(Push(l, d)) /\ Push(l, d).can = l.can \cup {d}
<1> DEFINE m == Push(l, d)
<1>1. /\ m.first = d /\ m.can = l.can \cup {d}
      /\ \A e \in Fds : m.next[e] = IF e = d THEN l.first ELSE l.next[e]
  BY DEF Push, Lists
<1> HIDE DEF m
<1>2. ASSUME NEW S \in SUBSET Fds, m.first \in S \cup {None},
             \A e \in S : e \in m.can => m.next[e] \in S \cup {None}
      PROVE  m.can \subseteq S
  <2>1. d \in S
    BY <1>1, <1>2 DEF None
  <2>2. l.first \in S \cup {None}
    BY <1>1, <1>2, <2>1
  <2>3. \A e \in S : e \in l.can => l.next[e] \in S \cup {None}
    BY <1>1, <1>2
  <2>4. l.can \subseteq S
    BY <2>2, <2>3 DEF Leads
  <2> QED
    BY <1>1, <2>1, <2>4
<1>3. Leads(m)
  BY <1>2 DEF Leads
<1> QED
  BY <1>1, <1>3 DEF m

(* The lists of Polled.                                                    *)
LEMMA PushByPush ==
  ASSUME TableTypes, NEW l \in Lists, NEW e \in SUBSET Fds
  PROVE  \E g \in [Nat -> Lists] :
           /\ g[0] = [l EXCEPT !.can = {}]
           /\ \A n \in Nat : g[n + 1] = IF n \in e THEN Push(g[n], n) ELSE g[n]
           /\ Polled(l, e) = g[MaxFd + 1]
<1> DEFINE W == Lists
           start == [l EXCEPT !.can = {}]
           Turn(w, n) == IF n \in e THEN Push(w, n) ELSE w
           F == [n \in Nat |-> [w \in W |-> Turn(w, n)]]
           P(f) == f = [n \in Nat |-> IF n = 0 THEN [l EXCEPT !.can = {}]
                                      ELSE IF n - 1 \in e THEN Push(f[n - 1], n - 1)
                                      ELSE f[n - 1]]
<1>1. start \in W
  BY DEF Lists
<1>2. \A n \in Nat : \A w \in W : Turn(w, n) \in W
  BY PushType
<1> HIDE DEF W, Turn
<1>3. F \in [Nat -> [W -> W]] /\ \A n \in Nat : \A w \in W : F[n][w] = Turn(w, n)
  BY <1>2
<1> HIDE DEF F, start
<1>4. Steps(F, W)
  BY <1>3 DEF Steps
<1>5. PICK g : IterationOf(g, W, start, F)
  BY <1>1, <1>4, Iterated
<1>6. g \in [Nat -> W] /\ g[0] = start /\ \A n \in Nat : g[n + 1] = F[n][g[n]]
  BY <1>5 DEF IterationOf
<1>7. ASSUME NEW n \in Nat PROVE g[n + 1] = Turn(g[n], n)
  <2>1. g[n] \in W /\ g[n + 1] = F[n][g[n]]
    BY <1>6
  <2> QED
    BY <1>3, <2>1
<1>8. \A n \in Nat : g[n] = IF n = 0 THEN start ELSE Turn(g[n - 1], n - 1)
  <2> SUFFICES ASSUME NEW n \in Nat, n # 0 PROVE g[n] = Turn(g[n - 1], n - 1)
    BY <1>6
  <2>1. n - 1 \in Nat /\ (n - 1) + 1 = n
    OBVIOUS
  <2> QED
    BY <1>7, <2>1
<1>9. P(g)
  BY <1>6, <1>8 DEF start, Turn
<1> DEFINE upTo == CHOOSE f : P(f)
<1>10. Polled(l, e) = upTo[MaxFd + 1]
  BY DEF Polled
<1> HIDE DEF P
<1>11. P(upTo)
  BY <1>9
<1>12. upTo = [n \in Nat |-> IF n = 0 THEN start ELSE Turn(upTo[n - 1], n - 1)]
  BY <1>11 DEF P, start, Turn
<1> HIDE DEF upTo
<1>13. upTo[0] = start
  BY <1>12
<1>14. ASSUME NEW n \in Nat PROVE upTo[n + 1] = Turn(upTo[n], n)
  <2>1. n + 1 \in Nat /\ n + 1 # 0 /\ (n + 1) - 1 = n
    OBVIOUS
  <2>2. upTo[n + 1] = IF n + 1 = 0 THEN start ELSE Turn(upTo[(n + 1) - 1], (n + 1) - 1)
    BY <1>12, <2>1
  <2> QED
    BY <2>1, <2>2
<1>15. \A n \in Nat : upTo[n] = g[n]
  <2> DEFINE T == {n \in Nat : upTo[n] = g[n]}
  <2>1. 0 \in T
    BY <1>6, <1>13
  <2>2. ASSUME NEW n \in Nat, n \in T PROVE n + 1 \in T
    BY <1>7, <1>14, <2>2
  <2> HIDE DEF T
  <2>3. \A n \in Nat : n \in T
    BY <2>1, <2>2, NumbersIn
  <2> QED
    BY <2>3 DEF T
<1>16. Polled(l, e) = g[MaxFd + 1]
  BY <1>10, <1>15
<1> QED
  BY <1>6, <1>7, <1>16 DEF W, Turn, start

LEMMA PolledType ==
  ASSUME TableTypes, NEW l \in Lists, InTable(l), NEW e \in SUBSET Fds,
         \A d \in e : Known(d)
  PROVE  Polled(l, e) \in Lists /\ InTable(Polled(l, e))
<1>1. PICK g \in [Nat -> Lists] :
        /\ g[0] = [l EXCEPT !.can = {}]
        /\ \A n \in Nat : g[n + 1] = IF n \in e THEN Push(g[n], n) ELSE g[n]
        /\ Polled(l, e) = g[MaxFd + 1]
  BY PushByPush
<1> DEFINE T == {n \in Nat : InTable(g[n])}
<1>2. 0 \in T
  <2>1. LET m == [l EXCEPT !.can = {}]
        IN  m.first = l.first /\ m.alt = l.alt /\ m.next = l.next
    BY DEF Lists
  <2> QED
    BY <1>1, <2>1 DEF InTable
<1>3. ASSUME NEW n \in Nat, n \in T PROVE n + 1 \in T
  <2>1. g[n] \in Lists /\ InTable(g[n])
    BY <1>1, <1>3
  <2>2. n \in e => InTable(Push(g[n], n))
    BY <2>1, PushType
  <2>3. g[n + 1] = IF n \in e THEN Push(g[n], n) ELSE g[n]
    BY <1>1
  <2> QED
    BY <2>1, <2>2, <2>3
<1> HIDE DEF T
<1>4. \A n \in Nat : n \in T
  BY <1>2, <1>3, NumbersIn
<1> QED
  BY <1>1, <1>4 DEF T

LEMMA PolledQueued ==
  ASSUME TableTypes, NEW l \in Lists, NEW e \in SUBSET Fds
  PROVE  Polled(l, e).can \subseteq Chain(Polled(l, e))
<1> HIDE DEF Fds
<1>1. PICK g \in [Nat -> Lists] :
        /\ g[0] = [l EXCEPT !.can = {}]
        /\ \A n \in Nat : g[n + 1] = IF n \in e THEN Push(g[n], n) ELSE g[n]
        /\ Polled(l, e) = g[MaxFd + 1]
  BY PushByPush
<1> USE DEF Fds
<1> DEFINE T == {n \in Nat : Leads(g[n]) /\ \A d \in g[n].can : d < n}
<1>2. 0 \in T
  <2>1. [l EXCEPT !.can = {}].can = {}
    BY DEF Lists
  <2> QED
    BY <1>1, <2>1 DEF Leads
<1>3. ASSUME NEW n \in Nat, n \in T PROVE n + 1 \in T
  <2>1. /\ g[n] \in Lists /\ Leads(g[n]) /\ n \notin g[n].can
        /\ \A d \in g[n].can : d \in Int /\ d < n
    <3>1. g[n] \in Lists
      BY <1>1
    <3>2. Leads(g[n]) /\ \A d \in g[n].can : d < n
      BY <1>3
    <3>3. g[n].can \subseteq Int
      BY <3>1 DEF Lists
    <3> QED
      BY <3>1, <3>2, <3>3
  <2>2. g[n + 1] = IF n \in e THEN Push(g[n], n) ELSE g[n]
    BY <1>1
  <2>3. CASE n \in e
    <3>1. Leads(g[n + 1]) /\ g[n + 1].can = g[n].can \cup {n}
      BY <2>1, <2>2, <2>3, PushLeads
    <3>2. \A d \in g[n + 1].can : d < n + 1
      BY <2>1, <3>1
    <3> QED
      BY <3>1, <3>2
  <2>4. CASE n \notin e
    BY <2>1, <2>2, <2>4
  <2> QED
    BY <2>3, <2>4
<1> HIDE DEF T
<1>4. \A n \in Nat : n \in T
  BY <1>2, <1>3, NumbersIn
<1>5. Leads(g[MaxFd + 1]) /\ g[MaxFd + 1] \in Lists
  BY <1>1, <1>4 DEF T
<1> DEFINE m == Polled(l, e)
<1>6. Leads(m) /\ m.can \subseteq Fds
  BY <1>1, <1>5 DEF Lists
<1> HIDE DEF m
<1>7. ASSUME NEW S \in SUBSET Fds, Holds(S, m, None) PROVE m.can \subseteq S
  <2>1. m.first \in S \cup {None} /\ \A d \in S : m.next[d] \in S \cup {None}
    BY <1>7 DEF Holds, None
  <2> QED
    BY <1>6, <2>1 DEF Leads
<1> QED
  BY <1>6, <1>7 DEF Chain, m

-----------------------------------------------------------------------------
(* The types of the table and the lists.                                   *)

TableGrows == TableTypes' /\ len =< len' /\ len' \in Int /\ (mode' = mode \/ mode = "UNDECIDED")

LEMMA TableStep == TableTypes /\ [Next]_vars => TableGrows
<1> SUFFICES ASSUME TableTypes, [Next]_vars PROVE TableGrows
  OBVIOUS
<1>1. ASSUME UNCHANGED <<mode, len>> PROVE TableGrows
  BY <1>1 DEF TableTypes, TableGrows
<1>2. ASSUME NEW d \in Fds, IoFd(d) PROVE TableGrows
  <2>1. len' = Grown(d) /\ mode' \in Choices
    BY <1>2 DEF IoFd
  <2>2. len' \in 0 .. MaxFd + 1 /\ len =< len' /\ len' > 0
    BY <2>1 DEF Grown, Known, TableTypes
  <2> QED
    BY <2>1, <2>2, IoAssumption DEF TableTypes, TableGrows, Choices
<1>3. CASE UNCHANGED vars
  BY <1>1, <1>3 DEF vars
<1>4. ASSUME NEW d \in Fds, IoClose(d) \/ IoEagain(d) PROVE TableGrows
  BY <1>1, <1>4 DEF IoClose, IoEagain
<1>5. ASSUME NEW d \in Fds, NEW dir \in Dirs,
             IoWant(d, dir) \/ IoWantFails(d, dir) \/ IoDontWant(d, dir)
               \/ IoTryEmpty(d, dir) \/ IoTryBlocking(d, dir)
      PROVE  TableGrows
  BY <1>1, <1>5 DEF IoWant, IoWantFails, IoDontWant, IoTryEmpty, IoTryBlocking
<1>6. CASE IoWaitUntil2
  BY <1>1, <1>6 DEF IoWaitUntil2
<1>7. ASSUME NEW dir \in Dirs, IoCan(dir) PROVE TableGrows
  BY <1>1, <1>7 DEF IoCan
<1> QED
  BY <1>2, <1>3, <1>4, <1>5, <1>6, <1>7 DEF Next

LEMMA UnlinkType ==
  ASSUME TableTypes, NEW l \in Lists, InTable(l), NEW d \in Fds
  PROVE  /\ Unlink(l, d) \in Lists /\ InTable(Unlink(l, d))
         /\ Unlink(l, d).first = l.first /\ Unlink(l, d).can = l.can \ {d}
         /\ \A e \in Fds : e # d => Unlink(l, d).next[e] = l.next[e]
<1> DEFINE a == IF HasAlt /\ l.alt = d THEN l.next[d] ELSE l.alt
           x == [l.next EXCEPT ![d] = None]
           c == l.can \ {d}
           m == Unlink(l, d)
<1>1. a \in {l.alt, l.next[d]} /\ a \in Links /\ x \in [Fds -> Links] /\ c \in SUBSET Fds
  BY DEF Lists, Links
<1>2. \A e \in Fds : x[e] = IF e = d THEN None ELSE l.next[e]
  BY DEF Lists
<1>3. m = [l EXCEPT !.can = c, !.alt = a, !.next = x]
  <2>1. [l EXCEPT !.can = c].alt = l.alt
    BY DEF Lists
  <2> HIDE DEF a, c
  <2>2. [l EXCEPT !.can = c, !.alt = a].next = l.next
    BY DEF Lists
  <2>3. m = [l EXCEPT !.can = c, !.alt = a, !.next[d] = None]
    BY <2>1 DEF Unlink, a, c
  <2> QED
    BY <2>2, <2>3
<1> HIDE DEF a, x, c, m
<1>4. m \in Lists /\ m.first = l.first /\ m.alt = a /\ m.next = x /\ m.can = c
  BY <1>1, <1>3 DEF Lists
<1>5. InTable(m)
  <2>1. Near(l.first) /\ Near(a) /\ Near(None) /\ \A e \in Fds : Near(l.next[e])
    BY <1>1 DEF InTable, Near
  <2> QED
    BY <1>2, <1>4, <2>1 DEF InTable
<1> QED
  BY <1>2, <1>4, <1>5 DEF m, c

(* What each call makes of a list.                                         *)
LEMMA FdList ==
  ASSUME ListTypes, NEW d \in Fds, IoFd(d), NEW dir \in Dirs
  PROVE  LET l == lists[dir]
             m == lists'[dir]
         IN  /\ m \in Lists
             /\ m.first = IF mode = "UNDECIDED" THEN None ELSE l.first
             /\ m.alt = IF mode = "UNDECIDED" THEN None ELSE l.alt
             /\ m.can = l.can \ {d}
             /\ \A e \in Fds : m.next[e] = IF e = d THEN None ELSE l.next[e]
<1> DEFINE l == lists[dir]
           m == lists'[dir]
           f == IF mode = "UNDECIDED" THEN None ELSE l.first
           a == IF mode = "UNDECIDED" THEN None ELSE l.alt
           z == Zeroed(l, d)
<1>1. l \in Lists
  BY DEF ListTypes
<1>2. m = [z EXCEPT !.first = IF mode = "UNDECIDED" THEN None ELSE z.first,
                    !.alt = IF mode = "UNDECIDED" THEN None ELSE z.alt]
  BY DEF IoFd
<1> HIDE DEF l, m
<1>3. /\ z \in Lists /\ z.first = l.first /\ z.alt = l.alt /\ z.can = l.can \ {d}
      /\ \A e \in Fds : z.next[e] = IF e = d THEN None ELSE l.next[e]
  <2> DEFINE x == [l.next EXCEPT ![d] = None]
             c == l.can \ {d}
  <2>1. x \in [Fds -> Links] /\ c \in SUBSET Fds
    BY <1>1 DEF Lists, Links
  <2>2. \A e \in Fds : x[e] = IF e = d THEN None ELSE l.next[e]
    BY <1>1 DEF Lists
  <2>3. z = [l EXCEPT !.next = x, !.can = c]
    <3>1. [l EXCEPT !.next = x].can = l.can
      BY <1>1 DEF Lists
    <3> QED
      BY <3>1 DEF Zeroed
  <2> HIDE DEF x, c, z
  <2>4. z \in Lists /\ z.first = l.first /\ z.alt = l.alt /\ z.next = x /\ z.can = c
    BY <1>1, <2>1, <2>3 DEF Lists
  <2> QED
    BY <2>2, <2>4 DEF c
<1>4. m = [z EXCEPT !.first = f, !.alt = a]
  BY <1>2, <1>3
<1>5. f \in Links /\ a \in Links
  BY <1>1 DEF Lists, Links
<1> HIDE DEF f, a, z
<1>6. m \in Lists /\ m.first = f /\ m.alt = a /\ m.can = z.can /\ m.next = z.next
  BY <1>3, <1>4, <1>5 DEF Lists
<1> QED
  BY <1>3, <1>6 DEF l, m, f, a

LEMMA EagainList ==
  ASSUME ListTypes, NEW d \in Fds, IoEagain(d), NEW dir \in Dirs
  PROVE  LET l == lists[dir]
             m == lists'[dir]
         IN  /\ m \in Lists
             /\ m.first = l.first
             /\ m.alt \in {l.alt, l.next[d]}
             /\ m.can \subseteq l.can
             /\ \A e \in Fds : m.next[e] = IF e = d /\ dir = "read"
                                           THEN None ELSE l.next[e]
<1> DEFINE l == lists[dir]
           m == lists'[dir]
           c == IF d \in want[dir] THEN l.can \ {d} ELSE l.can
           a == IF HasAlt /\ l.alt = d THEN l.next[d] ELSE l.alt
           v == IF dir = "read" THEN None ELSE l.next[d]
           x == [l.next EXCEPT ![d] = v]
<1>1. l \in Lists
  BY DEF ListTypes
<1>2. m = [l EXCEPT !.can = IF d \in want[dir] THEN @ \ {d} ELSE @,
                    !.alt = IF HasAlt /\ @ = d THEN l.next[d] ELSE @,
                    !.next[d] = IF dir = "read" THEN None ELSE @]
  BY DEF IoEagain
<1> HIDE DEF l, m
<1>3. /\ c \in SUBSET Fds /\ c \subseteq l.can
      /\ a \in Links /\ a \in {l.alt, l.next[d]} /\ v \in Links
  BY <1>1 DEF Lists, Links
<1>4. x \in [Fds -> Links] /\ \A e \in Fds : x[e] = IF e = d THEN v ELSE l.next[e]
  BY <1>1, <1>3 DEF Lists
<1>5. m = [l EXCEPT !.can = c, !.alt = a, !.next = x]
  <2>1. [l EXCEPT !.can = c].alt = l.alt
    BY <1>1 DEF Lists
  <2> HIDE DEF a, c
  <2>2. [l EXCEPT !.can = c, !.alt = a].next = l.next
    BY <1>1 DEF Lists
  <2>3. m = [l EXCEPT !.can = c, !.alt = a,
                      !.next[d] = IF dir = "read" THEN None ELSE @]
    BY <1>2, <2>1 DEF a, c
  <2> QED
    BY <2>2, <2>3
<1> HIDE DEF c, a, v, x
<1>6. m \in Lists /\ m.first = l.first /\ m.alt = a /\ m.next = x /\ m.can = c
  BY <1>1, <1>3, <1>4, <1>5 DEF Lists
<1> QED
  BY <1>3, <1>4, <1>6 DEF l, m, v

LEMMA BlockingList ==
  ASSUME ListTypes, NEW d \in Fds, NEW dir \in Dirs, IoTryBlocking(d, dir)
  PROVE  LET l == lists[dir]
             m == lists'[dir]
         IN  /\ m \in Lists
             /\ m.first = l.first /\ m.alt = l.alt
             /\ m.can \subseteq l.can
             /\ \A e \in Fds : m.next[e] = IF e = d THEN None ELSE l.next[e]
             /\ \A o \in Dirs : o # dir => lists'[o] = lists[o]
<1> DEFINE l == lists[dir]
           m == lists'[dir]
           c == l.can \ {d}
           x == [l.next EXCEPT ![d] = None]
<1>1. l \in Lists /\ lists \in [Dirs -> Lists]
  BY DEF ListTypes
<1>2. m = [l EXCEPT !.can = @ \ {d}, !.next[d] = None]
      /\ \A o \in Dirs : o # dir => lists'[o] = lists[o]
  BY <1>1 DEF IoTryBlocking
<1> HIDE DEF l, m
<1>3. c \in SUBSET Fds /\ c \subseteq l.can
  BY <1>1 DEF Lists
<1>4. x \in [Fds -> Links] /\ \A e \in Fds : x[e] = IF e = d THEN None ELSE l.next[e]
  BY <1>1 DEF Lists, Links
<1>5. m = [l EXCEPT !.can = c, !.next = x]
  <2>1. [l EXCEPT !.can = c].next = l.next
    BY <1>1 DEF Lists
  <2> QED
    BY <1>2, <2>1
<1> HIDE DEF c, x
<1>6. m \in Lists /\ m.first = l.first /\ m.alt = l.alt /\ m.next = x /\ m.can = c
  BY <1>1, <1>3, <1>4, <1>5 DEF Lists
<1> QED
  BY <1>2, <1>3, <1>4, <1>6 DEF l, m

LEMMA WantList ==
  ASSUME ListTypes, NEW d \in Fds, NEW dir \in Dirs, IoWant(d, dir)
  PROVE  /\ mode # "SIGIO" => lists' = lists
         /\ \A o \in Dirs : o # dir => lists'[o] = lists[o]
         /\ LET l == lists[dir]
                m == lists'[dir]
            IN  /\ m \in Lists
                /\ m.first \in {l.first, d} /\ m.alt = l.alt
                /\ \A e \in Fds : m.next[e] \in {l.next[e], l.first}
<1> DEFINE l == lists[dir]
           m == lists'[dir]
<1>1. l \in Lists /\ lists \in [Dirs -> Lists]
  BY DEF ListTypes
<1>2. CASE lists' = lists
  BY <1>1, <1>2 DEF Lists
<1>3. CASE lists' = [lists EXCEPT ![dir].can = @ \cup {d},
                                  ![dir].next[d] = lists[dir].first,
                                  ![dir].first = d] /\ mode = "SIGIO"
  <2> DEFINE c == l.can \cup {d}
             x == [l.next EXCEPT ![d] = l.first]
  <2>1. m = [l EXCEPT !.can = @ \cup {d}, !.next[d] = l.first, !.first = d]
        /\ \A o \in Dirs : o # dir => lists'[o] = lists[o]
    BY <1>1, <1>3
  <2> HIDE DEF l, m
  <2>2. c \in SUBSET Fds /\ x \in [Fds -> Links] /\ d \in Links
        /\ \A e \in Fds : x[e] \in {l.next[e], l.first}
    BY <1>1 DEF Lists, Links
  <2>3. m = [l EXCEPT !.can = c, !.next = x, !.first = d]
    <3>1. [l EXCEPT !.can = c].next = l.next
      BY <1>1 DEF Lists
    <3> QED
      BY <2>1, <3>1
  <2> HIDE DEF c, x
  <2>4. m \in Lists /\ m.first = d /\ m.alt = l.alt /\ m.next = x
    BY <1>1, <2>2, <2>3 DEF Lists
  <2> QED
    BY <1>3, <2>1, <2>2, <2>4 DEF l, m
<1>4. CASE lists' = [lists EXCEPT ![dir].can = @ \ {d}] /\ mode = "SIGIO"
  <2> DEFINE c == l.can \ {d}
  <2>1. m = [l EXCEPT !.can = c] /\ \A o \in Dirs : o # dir => lists'[o] = lists[o]
    BY <1>1, <1>4
  <2> HIDE DEF l, m
  <2>2. c \in SUBSET Fds
    BY <1>1 DEF Lists
  <2> HIDE DEF c
  <2>3. m \in Lists /\ m.first = l.first /\ m.alt = l.alt /\ m.next = l.next
    BY <1>1, <2>1, <2>2 DEF Lists
  <2> QED
    BY <1>4, <2>1, <2>3 DEF l, m
<1> QED
  BY <1>2, <1>3, <1>4 DEF IoWant

(* The links of a list whose entries may not be those of this moment.      *)
Fits(l, n) ==
  \A x \in {l.first, l.alt} \cup {l.next[d] : d \in Fds} :
    x = None \/ x = 0 \/ (x >= 0 /\ x < n)

LEMMA TableFits ==
  ASSUME NEW l
  PROVE  InTable(l) <=> Fits(l, len)
BY DEF InTable, Near, Known, Fits

(* A list made of links of another one and of an entry that is known.      *)
LEMMA FitsFrom ==
  ASSUME TableTypes, TableGrows, NEW l \in Lists, InTable(l), NEW d \in Fds,
         NEW m \in Lists, m.first \in {l.first, None} \/ (Known(d) /\ m.first = d),
         m.alt \in {l.alt, None, l.next[d]},
         \A e \in Fds : m.next[e] \in {l.next[e], None, l.first}
  PROVE  Fits(m, len')
<1>1. Near(l.next[d]) /\ Near(l.first) /\ Near(l.alt) /\ Near(None)
      /\ \A e \in Fds : Near(l.next[e])
  BY DEF InTable, Near
<1>2. Near(m.first) /\ Near(m.alt) /\ \A e \in Fds : Near(m.next[e])
  <2>1. Near(m.first)
    BY <1>1 DEF Near
  <2>2. Near(m.alt)
    BY <1>1
  <2>3. \A e \in Fds : Near(m.next[e])
    BY <1>1
  <2> QED
    BY <2>1, <2>2, <2>3
<1>3. ASSUME NEW x \in Links, Near(x)
      PROVE  x = None \/ x = 0 \/ (x >= 0 /\ x < len')
  BY <1>3 DEF Near, Known, TableGrows, TableTypes, Links, None
<1>4. m.first \in Links /\ m.alt \in Links /\ \A e \in Fds : m.next[e] \in Links
  BY DEF Lists
<1> QED
  BY <1>2, <1>3, <1>4 DEF Fits

ListsFit == lists' \in [Dirs -> Lists] /\ \A dir \in Dirs : Fits(lists'[dir], len')

LEMMA SameFit ==
  ASSUME ListTypes, TableGrows, NEW dir \in Dirs, lists'[dir] = lists[dir]
  PROVE  lists'[dir] \in Lists /\ Fits(lists'[dir], len')
<1>1. TableTypes /\ lists[dir] \in Lists /\ InTable(lists[dir]) /\ 0 \in Fds
  BY DEF ListTypes
<1> QED
  BY <1>1, FitsFrom

LEMMA CanFits ==
  ASSUME ListTypes, TableGrows, NEW dir \in Dirs, NEW m,
         LET r == Can(lists[dir], dir)
         IN  m = ListOf(r) \/ (r.got # None /\ m = Unlink(ListOf(r), r.got))
  PROVE  m \in Lists /\ Fits(m, len')
<1> DEFINE r == Can(lists[dir], dir)
<1>1. TableTypes /\ lists[dir] \in Lists /\ InTable(lists[dir])
  BY DEF ListTypes
<1>2. r \in Walks /\ InTable(r)
  BY <1>1, CanType
<1> HIDE DEF r
<1>3. ListOf(r) \in Lists /\ InTable(ListOf(r))
  BY <1>2 DEF ListOf, Walks, Lists, InTable
<1>4. m \in Lists /\ InTable(m)
  <2>1. CASE m = ListOf(r)
    BY <1>3, <2>1
  <2>2. CASE r.got # None /\ m = Unlink(ListOf(r), r.got)
    <3>1. r.got \in Fds
      BY <1>2, <2>2 DEF Walks, Links
    <3> QED
      BY <1>1, <1>3, <2>2, <3>1, UnlinkType
  <2> QED
    BY <2>1, <2>2 DEF r
<1>5. 0 \in Fds
  OBVIOUS
<1> QED
  BY <1>1, <1>4, <1>5, FitsFrom

(* What an event makes of a list.                                          *)
LEMMA EventType ==
  ASSUME TableTypes, NEW l \in Lists, InTable(l), NEW d \in Fds, Known(d)
  PROVE  PushEvent(l, d) \in Lists /\ InTable(PushEvent(l, d))
<1>1. CASE HasLink(l, d)
  <2> DEFINE c == l.can \cup {d}
             m == [l EXCEPT !.can = c]
  <2>1. c \in SUBSET Fds /\ PushEvent(l, d) = m
    BY <1>1 DEF PushEvent, Lists
  <2> HIDE DEF c
  <2>2. m \in Lists /\ m.first = l.first /\ m.alt = l.alt /\ m.next = l.next
    BY <2>1 DEF Lists
  <2> HIDE DEF m
  <2>3. InTable(m)
    BY <2>2 DEF InTable
  <2> QED
    BY <2>1, <2>2, <2>3
<1>2. CASE ~HasLink(l, d)
  BY <1>2, PushType DEF PushEvent
<1> QED
  BY <1>1, <1>2

LEMMA WaitFits ==
  ASSUME IInv, ListTypes, TableGrows, IoWaitUntil2
  PROVE  ListsFit
<1>1. TableTypes /\ lists \in [Dirs -> Lists] /\ \A dir \in Dirs : InTable(lists[dir])
  BY DEF ListTypes
<1>2. /\ \A d \in inuse : d \in Fds /\ Known(d)
      /\ \A dir \in Dirs : want[dir] \cup interest[dir] \subseteq inuse
  BY DEF IInv, WantTypes, ListTypes
<1>3. ASSUME \A dir \in Dirs : lists'[dir] \in Lists /\ InTable(lists'[dir]),
             lists' \in [Dirs -> Lists]
      PROVE  ListsFit
  <2>1. ASSUME NEW dir \in Dirs PROVE Fits(lists'[dir], len')
    <3>1. 0 \in Fds
      OBVIOUS
    <3> DEFINE m == lists'[dir]
    <3>2. m \in Lists /\ InTable(m)
      BY <1>3
    <3> HIDE DEF m
    <3>3. Fits(m, len')
      BY <1>1, <3>1, <3>2, FitsFrom
    <3> QED
      BY <3>3 DEF m
  <2> QED
    BY <1>3, <2>1 DEF ListsFit
<1>4. ASSUME NEW d \in inuse, NEW ds \in SUBSET Dirs,
             lists' \in [Dirs -> {lists'[dir] : dir \in Dirs}],
             \A dir \in Dirs : lists'[dir] \in {lists[dir], Push(lists[dir], d),
                                                PushEvent(lists[dir], d)}
      PROVE  ListsFit
  <2>1. ASSUME NEW dir \in Dirs PROVE lists'[dir] \in Lists /\ InTable(lists'[dir])
    <3>1. lists[dir] \in Lists /\ InTable(lists[dir]) /\ d \in Fds /\ Known(d)
      BY <1>1, <1>2
    <3>2. Push(lists[dir], d) \in Lists /\ InTable(Push(lists[dir], d))
      BY <1>1, <3>1, PushType
    <3>3. PushEvent(lists[dir], d) \in Lists /\ InTable(PushEvent(lists[dir], d))
      BY <1>1, <3>1, <3>2, EventType
    <3> QED
      BY <1>4, <3>1, <3>2, <3>3
  <2>2. lists' \in [Dirs -> Lists]
    BY <1>4, <2>1
  <2> QED
    BY <1>3, <2>1, <2>2
<1>5. ASSUME NEW e \in [Dirs -> SUBSET Fds], WaitPoll(e) PROVE ListsFit
  <2>0. lists' = [dir \in Dirs |-> Polled(lists[dir], e[dir])]
        /\ \A dir \in Dirs : e[dir] \subseteq want[dir]
    BY <1>5 DEF WaitPoll
  <2>1. ASSUME NEW dir \in Dirs PROVE lists'[dir] \in Lists /\ InTable(lists'[dir])
    <3>1. e[dir] \in SUBSET Fds /\ \A d \in e[dir] : Known(d)
      BY <1>2, <2>0
    <3>2. Polled(lists[dir], e[dir]) \in Lists /\ InTable(Polled(lists[dir], e[dir]))
      BY <1>1, <3>1, PolledType
    <3> QED
      BY <2>0, <3>2
  <2>2. lists' \in [Dirs -> Lists]
    BY <2>0, <2>1
  <2> QED
    BY <1>3, <2>1, <2>2
<1>6. ASSUME NEW d \in Fds, NEW ds \in (SUBSET Dirs) \ {{}},
             WaitEvents(d, ds) \/ WaitSignal(d, ds)
      PROVE  ListsFit
  <2>1. d \in inuse
    BY <1>2, <1>6 DEF WaitEvents, WaitSignal
  <2>2. \/ lists' = [dir \in Dirs |-> IF dir \in ds THEN PushEvent(lists[dir], d)
                                                   ELSE lists[dir]]
        \/ lists' = [dir \in Dirs |-> IF dir \in ds THEN Push(lists[dir], d)
                                                   ELSE lists[dir]]
    BY <1>6 DEF WaitEvents, WaitSignal
  <2>3. lists' = [dir \in Dirs |-> lists'[dir]]
    BY <2>2
  <2>4. ASSUME NEW dir \in Dirs
        PROVE  lists'[dir] \in {lists[dir], Push(lists[dir], d), PushEvent(lists[dir], d)}
    BY <2>2
  <2>5. lists' \in [Dirs -> {lists'[dir] : dir \in Dirs}]
    BY <2>3
  <2> QED
    BY <1>4, <2>1, <2>4, <2>5
<1> QED
  BY <1>5, <1>6 DEF IoWaitUntil2

LEMMA TypesStep == LInv /\ [Next]_vars => ListTypes'
<1> SUFFICES ASSUME LInv, [Next]_vars PROVE ListTypes'
  OBVIOUS
<1>0. IInv /\ ListTypes /\ TableTypes
  BY DEF LInv, ListTypes
<1>1. TableGrows
  BY <1>0, TableStep
<1>2. lists \in [Dirs -> Lists] /\ \A dir \in Dirs : lists[dir] \in Lists /\ InTable(lists[dir])
  BY <1>0 DEF ListTypes
<1>3. inuse \subseteq Fds /\ \A d \in inuse : d \in Int /\ d >= 0 /\ d < len
  BY <1>0 DEF IInv, WantTypes, ListTypes, Known
<1> DEFINE Open == \A d \in inuse' : d >= 0 /\ d < len'
<1>4. ASSUME inuse' \subseteq inuse PROVE Open
  BY <1>0, <1>1, <1>3, <1>4 DEF TableGrows, TableTypes
<1>5. ASSUME lists' = lists PROVE ListsFit
  BY <1>0, <1>1, <1>2, <1>5, SameFit DEF ListsFit
<1>6. ASSUME NEW m, NEW dir \in Dirs, lists' = [lists EXCEPT ![dir] = m],
             m \in Lists, Fits(m, len')
      PROVE  ListsFit
  <2>1. \A o \in Dirs : lists'[o] = IF o = dir THEN m ELSE lists[o]
    BY <1>2, <1>6
  <2>2. lists' \in [Dirs -> Lists]
    BY <1>2, <1>6
  <2>3. ASSUME NEW o \in Dirs PROVE Fits(lists'[o], len')
    BY <1>0, <1>1, <1>6, <2>1, SameFit
  <2> QED
    BY <2>2, <2>3 DEF ListsFit
<1>7. ASSUME NEW d \in Fds, IoFd(d) PROVE Open /\ ListsFit
  <2>1. Open
    <3>1. inuse' = inuse \cup {d} /\ len' = Grown(d)
      BY <1>7 DEF IoFd
    <3> QED
      BY <1>0, <1>1, <1>3, <3>1 DEF TableGrows, TableTypes, Grown, Known
  <2>2. ASSUME NEW dir \in Dirs PROVE lists'[dir] \in Lists /\ Fits(lists'[dir], len')
    <3> DEFINE m == lists'[dir]
               l == lists[dir]
    <3>1. /\ m \in Lists
          /\ m.first = IF mode = "UNDECIDED" THEN None ELSE l.first
          /\ m.alt = IF mode = "UNDECIDED" THEN None ELSE l.alt
          /\ \A e \in Fds : m.next[e] = IF e = d THEN None ELSE l.next[e]
      BY <1>0, <1>7, FdList
    <3>2. l \in Lists /\ InTable(l)
      BY <1>2
    <3> HIDE DEF m, l
    <3>3. Fits(m, len')
      BY <1>0, <1>1, <3>1, <3>2, FitsFrom
    <3> QED
      BY <3>1, <3>3 DEF m
  <2>3. lists' \in [Dirs -> Lists]
    <3>1. DOMAIN lists' = Dirs /\ lists' = [o \in Dirs |-> lists'[o]]
      BY <1>7 DEF IoFd
    <3> QED
      BY <2>2, <3>1
  <2> QED
    BY <2>1, <2>2, <2>3 DEF ListsFit
<1>8. ASSUME NEW d \in Fds, IoClose(d) PROVE Open /\ ListsFit
  BY <1>4, <1>5, <1>8 DEF IoClose
<1>9. ASSUME NEW d \in Fds, IoEagain(d) PROVE Open /\ ListsFit
  <2>1. Open
    BY <1>4, <1>9 DEF IoEagain
  <2>2. ASSUME NEW dir \in Dirs PROVE lists'[dir] \in Lists /\ Fits(lists'[dir], len')
    <3> DEFINE m == lists'[dir]
               l == lists[dir]
    <3>1. /\ m \in Lists /\ m.first = l.first /\ m.alt \in {l.alt, l.next[d]}
          /\ \A e \in Fds : m.next[e] = IF e = d /\ dir = "read" THEN None ELSE l.next[e]
      BY <1>0, <1>9, EagainList
    <3>2. l \in Lists /\ InTable(l)
      BY <1>2
    <3> HIDE DEF m, l
    <3>3. Fits(m, len')
      BY <1>0, <1>1, <3>1, <3>2, FitsFrom
    <3> QED
      BY <3>1, <3>3 DEF m
  <2>3. lists' \in [Dirs -> Lists]
    <3>1. DOMAIN lists' = Dirs /\ lists' = [o \in Dirs |-> lists'[o]]
      BY <1>9 DEF IoEagain
    <3> QED
      BY <2>2, <3>1
  <2> QED
    BY <2>1, <2>2, <2>3 DEF ListsFit
<1>10. ASSUME NEW d \in Fds, NEW dir \in Dirs, IoWant(d, dir) PROVE Open /\ ListsFit
  <2>1. Open /\ d \in inuse
    BY <1>4, <1>10 DEF IoWant
  <2> DEFINE m == lists'[dir]
             l == lists[dir]
  <2>2. /\ m \in Lists /\ m.first \in {l.first, d} /\ m.alt = l.alt
        /\ \A e \in Fds : m.next[e] \in {l.next[e], l.first}
        /\ \A o \in Dirs : o # dir => lists'[o] = lists[o]
    BY <1>0, <1>10, WantList
  <2>3. l \in Lists /\ InTable(l) /\ Known(d)
    BY <1>2, <1>3, <2>1 DEF Known
  <2> HIDE DEF m, l
  <2>4. Fits(m, len')
    BY <1>0, <1>1, <2>2, <2>3, FitsFrom
  <2>5. \E x \in Lists : lists' = [lists EXCEPT ![dir] = x]
    <3>1. lists' = lists \/ (\E x : lists' = [lists EXCEPT ![dir] = x])
      BY <1>10 DEF IoWant
    <3>2. lists' = [lists EXCEPT ![dir] = m]
      BY <1>2, <3>1 DEF m
    <3> QED
      BY <2>2, <3>2
  <2>6. lists' = [lists EXCEPT ![dir] = m]
    BY <1>2, <2>5 DEF m
  <2> QED
    BY <1>6, <2>1, <2>2, <2>4, <2>6
<1>11. ASSUME NEW d \in Fds, NEW dir \in Dirs, IoWantFails(d, dir) \/ IoDontWant(d, dir)
       PROVE  Open /\ ListsFit
  BY <1>4, <1>5, <1>11 DEF IoWantFails, IoDontWant
<1>12. ASSUME NEW d \in Fds, NEW dir \in Dirs, IoTryEmpty(d, dir) PROVE Open /\ ListsFit
  <2>1. Open
    BY <1>4, <1>12 DEF IoTryEmpty
  <2> DEFINE m == Unlink(lists[dir], d)
  <2>2. lists' = [lists EXCEPT ![dir] = m]
    BY <1>12 DEF IoTryEmpty
  <2>3. m \in Lists /\ InTable(m)
    BY <1>0, <1>2, UnlinkType
  <2> HIDE DEF m
  <2>4. Fits(m, len')
    BY <1>0, <1>1, <2>3, FitsFrom
  <2> QED
    BY <1>6, <2>1, <2>2, <2>3, <2>4
<1>13. ASSUME NEW d \in Fds, NEW dir \in Dirs, IoTryBlocking(d, dir) PROVE Open /\ ListsFit
  <2>1. Open
    BY <1>4, <1>13 DEF IoTryBlocking
  <2> DEFINE m == lists'[dir]
             l == lists[dir]
  <2>2. /\ m \in Lists /\ m.first = l.first /\ m.alt = l.alt
        /\ \A e \in Fds : m.next[e] = IF e = d THEN None ELSE l.next[e]
    BY <1>0, <1>13, BlockingList
  <2>3. l \in Lists /\ InTable(l)
    BY <1>2
  <2>4. lists' = [lists EXCEPT ![dir] = m]
    BY <1>2, <1>13 DEF IoTryBlocking
  <2> HIDE DEF m, l
  <2>5. Fits(m, len')
    BY <1>0, <1>1, <2>2, <2>3, FitsFrom
  <2> QED
    BY <1>6, <2>1, <2>2, <2>4, <2>5
<1>14. ASSUME IoWaitUntil2 PROVE Open /\ ListsFit
  <2>1. Open
    BY <1>4, <1>14 DEF IoWaitUntil2
  <2> QED
    BY <1>0, <1>1, <1>14, <2>1, WaitFits
<1>15. ASSUME NEW dir \in Dirs, IoCan(dir) PROVE Open /\ ListsFit
  <2>1. Open
    BY <1>4, <1>15 DEF IoCan
  <2> DEFINE r == Can(lists[dir], dir)
             Answer(m) == m = ListOf(r) \/ (r.got # None /\ m = Unlink(ListOf(r), r.got))
  <2>2. PICK m : Answer(m) /\ lists' = [lists EXCEPT ![dir] = m]
    BY <1>15 DEF IoCan
  <2>3. m \in Lists /\ Fits(m, len')
    BY <1>0, <1>1, <2>2, CanFits
  <2> QED
    BY <1>6, <2>1, <2>2, <2>3
<1>16. ASSUME UNCHANGED vars PROVE Open /\ ListsFit
  BY <1>4, <1>5, <1>16 DEF vars
<1>17. Open /\ ListsFit
  BY <1>7, <1>8, <1>9, <1>10, <1>11, <1>12, <1>13, <1>14, <1>15, <1>16 DEF Next
<1>18. \A dir \in Dirs : InTable(lists[dir])'
  BY <1>17 DEF ListsFit, Fits, InTable, Near, Known
<1>19. \A d \in inuse' : Known(d)'
  BY <1>17 DEF Known
<1> QED
  BY <1>1, <1>17, <1>18, <1>19 DEF ListTypes, ListsFit, TableGrows

-----------------------------------------------------------------------------
(* What is flagged stays on its list.                                      *)

(* A list whose entry d is written as a call that clears its link does.    *)
LEMMA CutKeeps ==
  ASSUME NEW l \in Lists, NEW m, NEW d \in Fds, l.can \subseteq Chain(l),
         d \notin Chain(l) \/ l.next[d] = None,
         m.first = l.first, m.can \subseteq l.can,
         \A e \in Fds : e # d => m.next[e] = l.next[e]
  PROVE  m.can \subseteq Chain(m)
<1>1. l.first \in Links /\ l.next \in [Fds -> Links]
  BY DEF Lists
<1>2. Chain(l) \subseteq Chain(m)
  BY <1>1, ChainKept
<1> QED
  BY <1>2

LEMMA PushKeeps ==
  ASSUME NEW l \in Lists, NEW d \in Fds, l.can \subseteq Chain(l),
         d \in l.can \/ d \notin Chain(l) \/ l.next[d] = None
  PROVE  Push(l, d).can \subseteq Chain(Push(l, d))
<1>1. CASE d \in l.can
  BY <1>1 DEF Push
<1>2. CASE d \notin l.can
  <2> DEFINE m == Push(l, d)
  <2>1. /\ m.first = d /\ m.can = l.can \cup {d}
        /\ \A e \in Fds : m.next[e] = IF e = d THEN l.first ELSE l.next[e]
    BY <1>2 DEF Push, Lists
  <2>2. l.first \in Links /\ l.next \in [Fds -> Links]
    BY DEF Lists
  <2> HIDE DEF m
  <2>3. Chain(l) \subseteq Chain(m)
    BY <1>2, <2>1, <2>2, ChainKept
  <2>4. d \in Chain(m)
    BY <2>1 DEF Chain, Holds, None
  <2> QED
    BY <2>1, <2>3, <2>4 DEF m
<1> QED
  BY <1>1, <1>2

LEMMA QueuedStep == LInv /\ [Next]_vars => AllQueued'
<1> SUFFICES ASSUME LInv, [Next]_vars, mode' # "SIGIO",
                    NEW dir \in Dirs, dir \notin broken'
             PROVE  lists'[dir].can \subseteq Chain(lists'[dir])
  BY DEF AllQueued, Chain, Holds
<1> DEFINE l == lists[dir]
           m == lists'[dir]
           Goal == m.can \subseteq Chain(m)
<1>0. IInv /\ ListTypes /\ TableTypes /\ AllQueued
  BY DEF LInv, ListTypes
<1>1. TableGrows
  BY <1>0, TableStep
<1>2. l \in Lists /\ InTable(l) /\ lists \in [Dirs -> Lists]
  BY <1>0 DEF ListTypes
<1>3. ASSUME mode # "SIGIO", dir \notin broken PROVE l.can \subseteq Chain(l)
  BY <1>0, <1>3 DEF AllQueued
<1>4. ASSUME mode' = mode, m = l, dir \notin broken PROVE Goal
  BY <1>3, <1>4
<1>5. ASSUME NEW d \in Fds, NEW ds, broken' = CutBy(d, ds), dir \in ds
      PROVE  dir \notin broken /\ (d \notin Chain(l) \/ l.next[d] = None)
  BY <1>5 DEF CutBy
<1>6. ASSUME NEW d \in Fds, IoFd(d) PROVE Goal
  <2>1. /\ m.first = IF mode = "UNDECIDED" THEN None ELSE l.first
        /\ m.can = l.can \ {d}
        /\ \A e \in Fds : m.next[e] = IF e = d THEN None ELSE l.next[e]
    BY <1>0, <1>6, FdList
  <2>2. CASE mode = "UNDECIDED"
    <3>1. l.can = {}
      BY <1>6, <2>2 DEF IoFd
    <3> QED
      BY <2>1, <3>1
  <2>3. CASE mode # "UNDECIDED"
    <3>1. mode' = mode
      BY <1>0, <1>6, <2>3 DEF IoFd, Choices, IInv, KernelAgrees
    <3>2. dir \notin broken /\ (d \notin Chain(l) \/ l.next[d] = None)
      BY <1>5, <1>6, <2>3 DEF IoFd
    <3>3. l.can \subseteq Chain(l)
      BY <1>3, <3>1, <3>2
    <3> HIDE DEF l, m
    <3>4. m.can \subseteq Chain(m)
      BY <1>2, <2>1, <2>3, <3>2, <3>3, CutKeeps
    <3> QED
      BY <3>4
  <2> QED
    BY <2>2, <2>3
<1>7. ASSUME NEW d \in Fds, IoClose(d) PROVE Goal
  BY <1>4, <1>7 DEF IoClose
<1>8. ASSUME NEW d \in Fds, IoEagain(d) PROVE Goal
  <2>1. /\ m.first = l.first /\ m.can \subseteq l.can
        /\ \A e \in Fds : m.next[e] = IF e = d /\ dir = "read" THEN None ELSE l.next[e]
    BY <1>0, <1>8, EagainList
  <2>2. mode' = mode /\ broken' = CutBy(d, {"read"})
    BY <1>8 DEF IoEagain
  <2>3. dir \notin broken
    BY <2>2 DEF CutBy
  <2>4. l.can \subseteq Chain(l)
    BY <1>3, <2>2, <2>3
  <2>5. CASE dir = "read"
    <3>1. d \notin Chain(l) \/ l.next[d] = None
      BY <1>5, <2>2, <2>5
    <3> HIDE DEF l, m
    <3>2. m.can \subseteq Chain(m)
      BY <1>2, <2>1, <2>4, <3>1, CutKeeps
    <3> QED
      BY <3>2
  <2>6. CASE dir # "read"
    <3>1. \A e \in Fds : m.next[e] = l.next[e]
      BY <2>1, <2>6
    <3> HIDE DEF l, m
    <3>2. Chain(m) = Chain(l)
      BY <2>1, <3>1 DEF Chain, Holds
    <3> QED
      BY <2>1, <2>4, <3>2
  <2> QED
    BY <2>5, <2>6
<1>9. ASSUME NEW d \in Fds, NEW o \in Dirs, IoWant(d, o) PROVE Goal
  <2>1. mode' = mode /\ broken' = broken
    BY <1>9 DEF IoWant
  <2>2. m = l
    BY <1>0, <1>9, <2>1, WantList
  <2> QED
    BY <1>4, <2>1, <2>2
<1>10. ASSUME NEW d \in Fds, NEW o \in Dirs, IoWantFails(d, o) \/ IoDontWant(d, o)
       PROVE  Goal
  BY <1>4, <1>10 DEF IoWantFails, IoDontWant
<1>11. ASSUME NEW d \in Fds, NEW o \in Dirs, IoTryEmpty(d, o) PROVE Goal
  <2>1. /\ lists' = [lists EXCEPT ![o] = Unlink(lists[o], d)]
        /\ mode' = mode /\ broken' = CutBy(d, {o})
    BY <1>11 DEF IoTryEmpty
  <2>2. dir \notin broken
    BY <2>1 DEF CutBy
  <2>3. CASE o = dir
    <3>1. d \notin Chain(l) \/ l.next[d] = None
      BY <1>5, <2>1, <2>3
    <3>2. l.can \subseteq Chain(l)
      BY <1>3, <2>1, <2>2
    <3>3. m = Unlink(l, d)
      BY <1>2, <2>1, <2>3
    <3> HIDE DEF l, m
    <3>4. m.first = l.first /\ m.can \subseteq l.can
          /\ \A e \in Fds : e # d => m.next[e] = l.next[e]
      BY <1>0, <1>2, <3>3, UnlinkType
    <3>5. m.can \subseteq Chain(m)
      BY <1>2, <3>1, <3>2, <3>4, CutKeeps
    <3> QED
      BY <3>5
  <2>4. CASE o # dir
    BY <1>2, <1>4, <2>1, <2>2, <2>4
  <2> QED
    BY <2>3, <2>4
<1>12. ASSUME NEW d \in Fds, NEW o \in Dirs, IoTryBlocking(d, o) PROVE Goal
  <2>1. mode' = mode /\ broken' = CutBy(d, {o})
    BY <1>12 DEF IoTryBlocking
  <2>2. dir \notin broken
    BY <2>1 DEF CutBy
  <2>3. CASE o = dir
    <3>1. d \notin Chain(l) \/ l.next[d] = None
      BY <1>5, <2>1, <2>3
    <3>2. l.can \subseteq Chain(l)
      BY <1>3, <2>1, <2>2
    <3>3. m.first = l.first /\ m.can \subseteq l.can
          /\ \A e \in Fds : m.next[e] = IF e = d THEN None ELSE l.next[e]
      BY <1>0, <1>12, <2>3, BlockingList
    <3> HIDE DEF l, m
    <3>4. m.can \subseteq Chain(m)
      BY <1>2, <3>1, <3>2, <3>3, CutKeeps
    <3> QED
      BY <3>4
  <2>4. CASE o # dir
    <3>1. m = l
      BY <1>0, <1>12, <2>4, BlockingList
    <3> QED
      BY <1>4, <2>1, <2>2, <3>1
  <2> QED
    BY <2>3, <2>4
<1>13. ASSUME IoWaitUntil2 PROVE Goal
  <2>1. mode' = mode
    BY <1>13 DEF IoWaitUntil2
  <2>2. ASSUME NEW e \in [Dirs -> SUBSET Fds], WaitPoll(e) PROVE Goal
    <3>1. m = Polled(l, e[dir]) /\ e[dir] \in SUBSET Fds
      BY <2>2 DEF WaitPoll
    <3> QED
      BY <1>0, <1>2, <3>1, PolledQueued
  <2>3. ASSUME NEW d \in Fds, NEW ds \in SUBSET Dirs, WaitSignal(d, ds) PROVE Goal
    BY <2>1, <2>3 DEF WaitSignal
  <2>4. ASSUME NEW d \in Fds, NEW ds \in SUBSET Dirs, WaitEvents(d, ds) PROVE Goal
    <3> DEFINE cs == {o \in ds : d \notin lists[o].can /\ ~HasLink(lists[o], d)}
    <3>1. /\ m = IF dir \in ds THEN PushEvent(l, d) ELSE l
          /\ broken' = CutBy(d, cs) \cup NotQueued(d, ds)
      BY <2>4 DEF WaitEvents
    <3> HIDE DEF cs
    <3>2. dir \notin CutBy(d, cs) /\ dir \notin NotQueued(d, ds) /\ dir \notin broken
      BY <3>1 DEF CutBy
    <3>3. l.can \subseteq Chain(l)
      BY <1>3, <2>1, <3>2
    <3>4. CASE dir \notin ds
      BY <3>1, <3>3, <3>4
    <3>5. CASE dir \in ds /\ HasLink(l, d)
      <4>1. d \in Chain(l)
        BY <3>2, <3>5 DEF NotQueued
      <4>2. m.can = l.can \cup {d} /\ m.first = l.first /\ m.next = l.next
        BY <1>2, <3>1, <3>5 DEF PushEvent, Lists
      <4> HIDE DEF l, m
      <4>3. Chain(m) = Chain(l)
        BY <4>2 DEF Chain, Holds
      <4> QED
        BY <3>3, <4>1, <4>2, <4>3 DEF Goal, l, m
    <3>6. CASE dir \in ds /\ ~HasLink(l, d)
      <4>1. m = Push(l, d)
        BY <3>1, <3>6 DEF PushEvent
      <4>2. d \in l.can \/ d \notin Chain(l) \/ l.next[d] = None
        BY <3>2, <3>6 DEF CutBy, cs
      <4> QED
        BY <1>2, <3>3, <4>1, <4>2, PushKeeps
    <3> QED
      BY <3>4, <3>5, <3>6
  <2> QED
    BY <1>13, <2>2, <2>3, <2>4 DEF IoWaitUntil2
<1>14. ASSUME NEW o \in Dirs, IoCan(o) PROVE Goal
  <2> DEFINE r == Can(lists[o], o)
  <2>1. /\ mode' = mode /\ broken' = SkippedBy(o)
        /\ \/ lists' = [lists EXCEPT ![o] = ListOf(r)]
           \/ r.got # None /\ lists' = [lists EXCEPT ![o] = Unlink(ListOf(r), r.got)]
    BY <1>14 DEF IoCan
  <2>2. dir \notin broken
    BY <2>1 DEF SkippedBy
  <2>3. CASE o # dir
    BY <1>2, <1>4, <2>1, <2>2, <2>3
  <2>4. CASE o = dir
    <3>1. l.can \subseteq Chain(l)
      BY <1>3, <2>1, <2>2
    <3>2. l.can \subseteq want[dir]
      BY <2>1, <2>4, <3>1 DEF SkippedBy
    <3>3. l.can # {} => len > 0
      <4>1. want[dir] \subseteq inuse
        BY <1>0 DEF IInv
      <4>2. \A d \in inuse : d \in Int /\ 0 =< d /\ d < len
        BY <1>0 DEF IInv, WantTypes, ListTypes, Known
      <4> QED
        BY <1>0, <3>2, <4>1, <4>2 DEF TableTypes
    <3> HIDE DEF r, l
    <3>4. r = Can(l, dir)
      BY <2>4 DEF r, l
    <3>5. /\ r.can \subseteq Chain(r)
          /\ r.got # None => LET u == Unlink(ListOf(r), r.got)
                             IN  u.can \subseteq Chain(u)
      BY <1>0, <1>2, <2>1, <3>1, <3>2, <3>3, <3>4, CanKeeps
    <3>6. ListOf(r).can \subseteq Chain(ListOf(r))
      BY <3>5 DEF ListOf, Chain, Holds
    <3>7. m = ListOf(r) \/ (r.got # None /\ m = Unlink(ListOf(r), r.got))
      BY <1>2, <2>1, <2>4
    <3> QED
      BY <3>5, <3>6, <3>7
  <2> QED
    BY <2>3, <2>4
<1>15. ASSUME UNCHANGED vars PROVE Goal
  BY <1>4, <1>15 DEF vars
<1> HIDE DEF Goal
<1>16. Goal
  BY <1>6, <1>7, <1>8, <1>9, <1>10, <1>11, <1>12, <1>13, <1>14, <1>15 DEF Next
<1> QED
  BY <1>16 DEF Goal

LEMMA InitLInv == Init => LInv
<1> SUFFICES ASSUME Init PROVE LInv
  OBVIOUS
<1>1. /\ len = 0 /\ mode = "UNDECIDED" /\ inuse = {}
      /\ lists = [dir \in Dirs |-> [first |-> 0, alt |-> 0,
                                    next |-> [d \in Fds |-> 0], can |-> {}]]
  BY DEF Init
<1>2. [first |-> 0, alt |-> 0, next |-> [d \in Fds |-> 0], can |-> {}] \in Lists
  BY DEF Lists, Links
<1>3. lists \in [Dirs -> Lists]
  BY <1>1, <1>2
<1>4. \A dir \in Dirs : InTable(lists[dir]) /\ lists[dir].can = {}
  BY <1>1 DEF InTable, Near
<1>5. TableTypes
  BY <1>1 DEF TableTypes, AllModes
<1> QED
  BY <1>1, <1>3, <1>4, <1>5, InitIInv DEF LInv, ListTypes, AllQueued

LEMMA LInvAlways == Spec => []LInv
<1>1. LInv /\ [Next]_vars => LInv'
  BY NextIInv, TypesStep, QueuedStep DEF LInv
<1> QED
  BY <1>1, InitLInv, PTL DEF Spec

(* In every wait mode but SIGIO, a descriptor that was reported ready and  *)
(* is wanted is on the list that io_canread walks, and a call hands out    *)
(* one such and leaves the others there: none is lost, except in a list    *)
(* that one of the named calls has broken.                                 *)
THEOREM IoLostOnlyBroken == Spec => []LostOnlyBroken
<1>1. LInv => LostOnlyBroken
  <2> SUFFICES ASSUME LInv, mode # "SIGIO", NEW dir \in Dirs, dir \notin broken
               PROVE  HandsOut(dir)
    BY DEF LostOnlyBroken
  <2> DEFINE l == lists[dir]
             r == Can(l, dir)
  <2>1. TableTypes /\ l \in Lists /\ InTable(l) /\ l.can \subseteq Chain(l)
    BY DEF LInv, ListTypes, AllQueued
  <2>2. Ready(l, dir) \subseteq Chain(l)
    BY <2>1 DEF Ready
  <2>3. ASSUME Ready(l, dir) # {}
        PROVE  r.got \in Ready(l, dir) /\ Ready(l, dir) \ {r.got} \subseteq Chain(r)
    <3>1. len > 0
      <4>1. PICK d \in inuse : TRUE
        BY <2>3 DEF Ready, LInv, IInv
      <4>2. d \in Int /\ 0 =< d /\ d < len /\ len \in Int
        BY <2>1, <4>1 DEF LInv, IInv, WantTypes, ListTypes, Known, TableTypes
      <4> QED
        BY <4>2
    <3> HIDE DEF l
    <3>2. /\ r.got \in Ready(l, dir)
          /\ \A S \in SUBSET Fds :
               Holds(S, r, r.got) => Ready(l, dir) \ {r.got} \subseteq S
      BY <2>1, <2>2, <2>3, <3>1, CanHands
    <3> HIDE DEF r
    <3>3. ASSUME NEW S \in SUBSET Fds, Holds(S, r, None)
          PROVE  Ready(l, dir) \ {r.got} \subseteq S
      <4>1. Holds(S, r, r.got)
        BY <3>3 DEF Holds, None
      <4> QED
        BY <3>2, <4>1
    <3>4. Ready(l, dir) \subseteq Fds
      BY <2>1 DEF Ready, Lists
    <3>5. Ready(l, dir) \ {r.got} \subseteq Chain(r)
      BY <3>3, <3>4 DEF Chain
    <3> QED
      BY <3>2, <3>5
  <2> QED
    BY <2>2, <2>3 DEF HandsOut
<1> QED
  BY <1>1, LInvAlways, PTL
=============================================================================
