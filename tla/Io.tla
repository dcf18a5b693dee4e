--------------------------------- MODULE Io ---------------------------------
(***************************************************************************)
(* The descriptor table of libowfat, on which main_loop rests: io_fd,      *)
(* io_wantread and its relatives, io_waituntil2, io_canread, io_canwrite,  *)
(* io_tryread, io_trywrite, io_eagain, io_sendfile's failure and io_close, *)
(* in every wait mode a build can end in.  Reading and writing are the     *)
(* same code twice, so the state is a function of the direction.           *)
(*                                                                         *)
(* Readiness is kept in linked lists threaded through the table:           *)
(* first_readable and next_read (first_writeable and next_write), and      *)
(* where SIGIO is compiled in the lists alt_firstread and alt_firstwrite   *)
(* of what was handed out.  The program is any sequence of legal calls;    *)
(* the kernel may report any wanted descriptor and answer a read or write  *)
(* with data, end of file, EAGAIN or an error.                             *)
(***************************************************************************)
EXTENDS Integers, FiniteSets

CONSTANTS
  MaxFd,    \* descriptor numbers are 0 .. MaxFd
  Modes,    \* the wait modes io_fd may choose
  Writers,  \* per mode, the descriptors the program also writes to, and
            \* (a bound) the only ones reported writable without being asked
  AnyTime,  \* modes in which the program also reads and writes descriptors
            \* that it was not just handed, as main_loop never does
  MaxUnheard,    \* bound, per mode: descriptors the kernel refuses to watch
  MaxOvercount   \* bound: wants counted though poll failed

Fds == 0 .. MaxFd
None == -1
Dirs == {"read", "write"}
AllModes == {"UNDECIDED", "EPOLL", "KQUEUE", "DEVPOLL", "SIGIO"}

(* The modes in which the kernel keeps a set of its own, behind io_master. *)
KernelModes == {"EPOLL", "KQUEUE", "DEVPOLL"}

ASSUME IoAssumption == /\ MaxFd \in Nat
                       /\ Modes \subseteq AllModes
                       /\ Writers \in [AllModes -> SUBSET Fds]
                       /\ AnyTime \subseteq AllModes
                       /\ MaxUnheard \in [AllModes -> Nat]
                       /\ MaxOvercount \in Nat

VARIABLES
  mode,       \* io_waitmode
  len,        \* array_length(&io_fds)
  inuse,      \* entries with inuse set: the descriptors the program has open
  want,       \* wantread, wantwrite
  lists,      \* per direction: first, alt, next and the can flags
  wanted,     \* io_wanted_fds
  interest,   \* what the kernel's own set has, per direction
  unheard,    \* descriptors the kernel's set may be wrong about (history)
  overcounted,  \* wants counted and then dropped (history)
  stale,      \* flagged since before the last close of the number (history)
  broken      \* directions whose list lost a ready entry, see below (history)

vars == <<mode, len, inuse, want, lists, wanted, interest, unheard, overcounted,
          stale, broken>>

(* array_get(&io_fds, sizeof(io_entry), d): null below zero and past the   *)
(* initialized part.                                                       *)
Known(d) == d >= 0 /\ d < len

(* HAVE_SIGIO: trysigio.c compiles on Linux only, and there a first io_fd  *)
(* ends in one of these modes.                                             *)
HasAlt == mode \in {"EPOLL", "SIGIO"}

(* Static storage: first_readable and the rest start as 0, not as -1.      *)
Init ==
  /\ mode = "UNDECIDED" /\ len = 0
  /\ inuse = {}
  /\ want = [dir \in Dirs |-> {}]
  /\ lists = [dir \in Dirs |-> [first |-> 0, alt |-> 0,
                                next |-> [d \in Fds |-> 0], can |-> {}]]
  /\ wanted = 0
  /\ interest = [dir \in Dirs |-> {}]
  /\ unheard = {} /\ overcounted = 0
  /\ stale = [dir \in Dirs |-> {}]
  /\ broken = {}

-----------------------------------------------------------------------------
(* The lists.                                                              *)

(* The links from first on: S has what can be met by following next,       *)
(* except behind x.                                                        *)
Holds(S, l, x) ==
  /\ l.first \in S \cup {None}
  /\ \A d \in S \ {x} : l.next[d] \in S \cup {None}

(* What can still be met from first by following next. *)
Chain(l) == {d \in Fds : \A S \in SUBSET Fds : Holds(S, l, None) => d \in S}

(* e->canread=1; e->next_read=first_readable; first_readable=fd, unless    *)
(* the flag is already set.                                                *)
(* PushOver, mutant: what was first is not linked behind d. *)
PushOver(l, d) ==
  IF d \in l.can THEN l
  ELSE [l EXCEPT !.can = @ \cup {d}, !.next[d] = None, !.first = d]

Push(l, d) ==
  IF d \in l.can THEN l
  ELSE [l EXCEPT !.can = @ \cup {d}, !.next[d] = l.first, !.first = d]

(* One turn of the loop of io_canread: take the head off the list and hand *)
(* it out if it is wanted and ready; what is handed out goes to the front  *)
(* of the alternative list.                                                *)
Dequeue(l, dir) ==
  IF l.got # None \/ ~Known(l.first) THEN l
  ELSE LET r == l.first
           rest == [l EXCEPT !.first = l.next[r], !.next[r] = None]
       IN  IF r \in want[dir] /\ r \in l.can
           THEN [rest EXCEPT !.next[r] = IF HasAlt THEN l.alt ELSE None,
                             !.alt = IF HasAlt THEN r ELSE @,
                             !.can = IF mode = "SIGIO" THEN @ ELSE @ \ {r},
                             !.got = r]
           ELSE rest

(* The list after 0, 1, 2 ... turns.  Each turn clears a link or is the    *)
(* last, so MaxTurns are enough.                                           *)
MaxTurns == MaxFd + 2
AfterTurns(l, dir) ==
  LET after[n \in Nat] == IF n = 0 THEN l ELSE Dequeue(after[n - 1], dir)
  IN  after

(* io_canread, io_canwrite: the answer and the lists after it.  An empty   *)
(* list is replaced by the alternative one when that starts with a ready   *)
(* descriptor.                                                             *)
Swaps(l) == l.first = None /\ HasAlt /\ Known(l.alt) /\ l.alt \in l.can

Can(l, dir) ==
  LET start == [first |-> IF Swaps(l) THEN l.alt ELSE l.first,
                alt   |-> IF Swaps(l) THEN None ELSE l.alt,
                next  |-> l.next, can |-> l.can, got |-> None]
  IN  AfterTurns(start, dir)[MaxTurns]

ListOf(l) == [first |-> l.first, alt |-> l.alt, next |-> l.next, can |-> l.can]

(* Take d out of the alternative list if it is its head, and clear its     *)
(* link: io_tryread and io_trywrite at EAGAIN and end of file.             *)
Unlink(l, d) ==
  [l EXCEPT !.can = @ \ {d},
            !.alt = IF HasAlt /\ @ = d THEN l.next[d] ELSE @,
            !.next[d] = None]

(* History: the link of a queued descriptor is cleared or, when an event   *)
(* queues it again, overwritten, and what is behind it is off the list     *)
(* with its flag set.                                                      *)
CutBy(d, ds) == broken \cup {dir \in ds : d \in Chain(lists[dir])
                                            /\ lists[dir].next[d] # None}

(* History: io_canread takes a ready descriptor off the list because it is *)
(* not wanted just then.                                                   *)
SkippedBy(dir) ==
  broken \cup {o \in {dir} : \E d \in lists[dir].can \ want[dir] :
                              d \in Chain(lists[dir])}

(* History: a flag set by a report of this moment, or cleared, is stale no *)
(* longer.                                                                 *)
Recorded(reported) ==
  stale' = [dir \in Dirs |-> (stale[dir] \cap lists'[dir].can) \ reported]

-----------------------------------------------------------------------------
(* The calls.                                                              *)

(* array_allocate(&io_fds, sizeof(io_entry), d): the initialized part      *)
(* grows to take d in, and never shrinks.                                  *)
Grown(d) == IF Known(d) THEN len ELSE d + 1

(* byte_zero(e, sizeof(io_entry)), and next_read=next_write=-1. *)
(* ZeroedLink, mutant of Zeroed: only the links of the entry are reset. *)
ZeroedLink(l, d) == [l EXCEPT !.next[d] = None]
Zeroed(l, d) == [l EXCEPT !.next[d] = None, !.can = @ \ {d}]

(* accept or socket gives the lowest free number, and the program calls    *)
(* io_fd at once.  The entry of a closed descriptor is zeroed, its links   *)
(* with it, though it may still be queued.  The first call decides on the  *)
(* mode; where none is to be had, every call tries again and empties the   *)
(* lists.  (Not for epoll and SIGIO: see HasAlt.)  What is wanted when a   *)
(* later call finds a mode is not told to the kernel.                      *)
Choices == CASE len = 0 -> Modes
             [] len > 0 /\ mode = "UNDECIDED" -> Modes \ {"EPOLL", "SIGIO"}
             [] OTHER -> {mode}

IoFd(d) ==
  /\ d \notin inuse /\ \A e \in 0 .. d - 1 : e \in inuse
  /\ len' = Grown(d)
  /\ inuse' = inuse \cup {d}
  /\ want' = [dir \in Dirs |-> want[dir] \ {d}]
  /\ mode' \in Choices
  /\ unheard' = IF mode' = mode THEN unheard ELSE want["read"] \cup want["write"]
  /\ lists' = [dir \in Dirs |->
       [Zeroed(lists[dir], d) EXCEPT !.first = IF mode = "UNDECIDED" THEN None ELSE @,
                                     !.alt = IF mode = "UNDECIDED" THEN None ELSE @]]
  /\ broken' = IF mode = "UNDECIDED"
               THEN broken \cup {dir \in Dirs : lists[dir].can # {}}
               ELSE CutBy(d, Dirs)
  /\ Recorded({})
  /\ UNCHANGED <<wanted, interest, overcounted>>

(* The kernel is told, in the modes where it has a set, that d is wanted   *)
(* as w says after a call for dir: kqueue has an entry per direction, the  *)
(* others one for both.  epoll modifies or deletes only an entry that is   *)
(* there, and adds one for a descriptor wanted for nothing so far.  Each   *)
(* of the calls may fail, and no answer is looked at.                      *)
Told(d, dir, w) ==
  [o \in Dirs |-> IF o # dir /\ mode = "KQUEUE" THEN interest[o]
                  ELSE IF d \in w[o] THEN interest[o] \cup {d} ELSE interest[o] \ {d}]

Watched(d) == \E o \in Dirs : d \in interest[o]
Fresh(d) == \A o \in Dirs : d \notin want[o]

TellKernel(d, dir, w) ==
  \/ /\ mode \in KernelModes
     /\ mode = "EPOLL" => Watched(d) \/ Fresh(d)
     /\ interest' = Told(d, dir, w)
     /\ UNCHANGED unheard
  \/ /\ mode \in KernelModes
     /\ unheard' = unheard \cup {d} /\ Cardinality(unheard') <= MaxUnheard[mode]
     /\ UNCHANGED interest
  \/ mode \notin KernelModes /\ UNCHANGED <<interest, unheard>>

(* The counter counts descriptors, not wants.                              *)
CountedWith(d) == wanted + (IF Fresh(d) THEN 1 ELSE 0)

(* io_wantread, io_wantwrite.  In SIGIO mode the call polls, because only  *)
(* changes are signalled; when poll fails it returns with the descriptor   *)
(* counted and not wanted.                                                 *)
IoWant(d, dir) ==
  /\ d \in inuse /\ d \notin want[dir]
  /\ dir = "write" => d \in Writers[mode]
  /\ want' = [want EXCEPT ![dir] = @ \cup {d}]
  /\ wanted' = CountedWith(d)
  /\ TellKernel(d, dir, want')
  /\ \/ mode # "SIGIO" /\ UNCHANGED <<lists, stale>>
     \/ mode = "SIGIO"      \* poll finds it ready, queued or not
        /\ lists' = [lists EXCEPT ![dir].can = @ \cup {d},
                                  ![dir].next[d] = lists[dir].first,
                                  ![dir].first = d]
        /\ Recorded({d})
     \/ mode = "SIGIO"
        /\ lists' = [lists EXCEPT ![dir].can = @ \ {d}]
        /\ Recorded({})
  /\ UNCHANGED <<mode, len, inuse, overcounted, broken>>

IoWantFails(d, dir) ==
  /\ mode = "SIGIO" /\ overcounted < MaxOvercount
  /\ d \in inuse /\ d \notin want[dir]
  /\ dir = "write" => d \in Writers[mode]
  /\ wanted' = CountedWith(d)
  /\ overcounted' = overcounted + (wanted' - wanted)
  /\ UNCHANGED <<mode, len, inuse, want, lists, interest, unheard, stale, broken>>

(* io_dontwantread, io_dontwantwrite: the flag and the counter.            *)
(* DontWantOnce, mutant: counts down though the other direction is wanted. *)
DontWantOnce(w, n, d, dir) ==
  IF d \notin w[dir] THEN [want |-> w, wanted |-> n]
  ELSE [want |-> [w EXCEPT ![dir] = @ \ {d}], wanted |-> n - 1]

DontWant(w, n, d, dir) ==
  IF d \notin w[dir] THEN [want |-> w, wanted |-> n]
  ELSE [want |-> [w EXCEPT ![dir] = @ \ {d}],
        wanted |-> n - (IF \A o \in Dirs \ {dir} : d \notin w[o] THEN 1 ELSE 0)]

IoDontWant(d, dir) ==
  /\ d \in inuse /\ d \in want[dir]
  /\ LET r == DontWant(want, wanted, d, dir)
     IN  want' = r.want /\ wanted' = r.wanted
  /\ TellKernel(d, dir, want')
  /\ UNCHANGED <<mode, len, inuse, lists, overcounted, stale, broken>>

(* io_close: the wants go, the flags and the links stay.  close() takes    *)
(* the number out of the kernel's set, whatever the calls before it did.   *)
IoClose(d) ==
  /\ d \in inuse
  /\ inuse' = inuse \ {d}
  /\ LET r == DontWant(want, wanted, d, "read")
         s == DontWant(r.want, r.wanted, d, "write")
     IN  want' = s.want /\ wanted' = s.wanted
  /\ interest' = [dir \in Dirs |-> interest[dir] \ {d}]
  /\ unheard' = unheard \ {d}
  /\ stale' = [dir \in Dirs |-> stale[dir] \cup (lists[dir].can \cap {d})]
  /\ UNCHANGED <<mode, len, lists, overcounted, broken>>

-----------------------------------------------------------------------------
(* io_waituntil2(milliseconds).  An error or a hangup counts as whatever   *)
(* is wanted, so the events are some of what the kernel was asked for;     *)
(* each is pushed unless its flag is set.  A wait that reports several     *)
(* descriptors does what as many waits that report one do.                 *)

(* epoll_wait, kevent and DP_POLL.  For /dev/poll a descriptor that has a  *)
(* link is flagged only: it counts as queued.                              *)
HasLink(l, d) == mode = "DEVPOLL" /\ l.next[d] # None

PushEvent(l, d) == IF HasLink(l, d) THEN [l EXCEPT !.can = @ \cup {d}] ELSE Push(l, d)

(* History: the link is one of a list that is gone, and d is not queued.   *)
NotQueued(d, ds) == {dir \in ds : HasLink(lists[dir], d) /\ d \notin Chain(lists[dir])}

WaitEvents(d, ds) ==
  /\ mode \in KernelModes
  /\ \A dir \in ds : d \in interest[dir]
  /\ lists' = [dir \in Dirs |-> IF dir \in ds THEN PushEvent(lists[dir], d) ELSE lists[dir]]
  /\ broken' = CutBy(d, {dir \in ds : d \notin lists[dir].can /\ ~HasLink(lists[dir], d)})
                \cup NotQueued(d, ds)
  /\ Recorded({d})

(* sigtimedwait: nothing is waited for while the descriptor handed out     *)
(* last still counts as ready.  A signal tells of both directions, wanted  *)
(* or not.  (It is taken when the event happens: signals queued for a      *)
(* number that is closed meanwhile are left out.)                          *)
WaitSignal(d, ds) ==
  /\ mode = "SIGIO" /\ d \in inuse
  /\ "write" \in ds => d \in Writers[mode]
  /\ \A dir \in Dirs : ~(Known(lists[dir].alt) /\ lists[dir].alt \in lists[dir].can)
  /\ lists' = [dir \in Dirs |-> IF dir \in ds THEN Push(lists[dir], d) ELSE lists[dir]]
  /\ broken' = CutBy(d, {dir \in ds : d \notin lists[dir].can})
  /\ Recorded({d})

(* poll, without any of these or when the signal queue overflowed: all     *)
(* flags are cleared first, and what is ready is pushed in the order of    *)
(* the descriptors, queued or not.                                         *)
Polled(l, e) ==
  LET upTo[n \in Nat] == IF n = 0 THEN [l EXCEPT !.can = {}]
                         ELSE IF n - 1 \in e THEN Push(upTo[n - 1], n - 1)
                         ELSE upTo[n - 1]
  IN  upTo[MaxFd + 1]

WaitPoll(e) ==
  /\ mode \in {"SIGIO", "UNDECIDED"}
  /\ \A dir \in Dirs : e[dir] \subseteq want[dir]
  /\ lists' = [dir \in Dirs |-> Polled(lists[dir], e[dir])]
  /\ UNCHANGED broken
  /\ Recorded(e["read"] \cup e["write"])

IoWaitUntil2 ==
  /\ wanted # 0
  /\ \/ \E e \in [Dirs -> SUBSET Fds] : WaitPoll(e)
     \/ \E d \in Fds, ds \in (SUBSET Dirs) \ {{}} : WaitEvents(d, ds) \/ WaitSignal(d, ds)
  /\ UNCHANGED <<mode, len, inuse, want, wanted, interest, unheard, overcounted>>

(* io_canread and io_canwrite, and the io_tryread or io_trywrite that      *)
(* main_loop makes of the answer at once: it may find data, an error (and  *)
(* nothing changes) or EAGAIN or the end of the file.                      *)
IoCan(dir) ==
  /\ LET l == Can(lists[dir], dir)
     IN  \/ lists' = [lists EXCEPT ![dir] = ListOf(l)]
         \/ /\ l.got # None
            /\ lists' = [lists EXCEPT ![dir] = Unlink(ListOf(l), l.got)]
  /\ broken' = SkippedBy(dir)
  /\ Recorded({})
  /\ UNCHANGED <<mode, len, inuse, want, wanted, interest, unheard, overcounted>>

(* io_tryread, io_trywrite out of turn, at EAGAIN or end of file. *)
IoTryEmpty(d, dir) ==
  /\ mode \in AnyTime /\ d \in inuse
  /\ lists' = [lists EXCEPT ![dir] = Unlink(@, d)]
  /\ broken' = CutBy(d, {dir})
  /\ Recorded({})
  /\ UNCHANGED <<mode, len, inuse, want, wanted, interest, unheard, overcounted>>

(* io_tryread and io_trywrite of a descriptor in blocking mode that poll   *)
(* finds empty, and io_sendfile and io_mmapwritefile at -1: the            *)
(* alternative list is not looked at.                                      *)
IoTryBlocking(d, dir) ==
  /\ mode \in AnyTime /\ d \in inuse
  /\ lists' = [lists EXCEPT ![dir].can = @ \ {d}, ![dir].next[d] = None]
  /\ broken' = CutBy(d, {dir})
  /\ Recorded({})
  /\ UNCHANGED <<mode, len, inuse, want, wanted, interest, unheard, overcounted>>

(* io_eagain: both flags, both alternative heads, and the read link only. *)
IoEagain(d) ==
  /\ mode \in AnyTime /\ d \in inuse
  /\ lists' = [dir \in Dirs |->
       [lists[dir] EXCEPT !.can = IF d \in want[dir] THEN @ \ {d} ELSE @,
                          !.alt = IF HasAlt /\ @ = d THEN lists[dir].next[d] ELSE @,
                          !.next[d] = IF dir = "read" THEN None ELSE @]]
  /\ broken' = CutBy(d, {"read"})
  /\ Recorded({})
  /\ UNCHANGED <<mode, len, inuse, want, wanted, interest, unheard, overcounted>>

Next ==
  \/ \E d \in Fds : IoFd(d) \/ IoClose(d) \/ IoEagain(d)
  \/ \E d \in Fds, dir \in Dirs :
       IoWant(d, dir) \/ IoWantFails(d, dir) \/ IoDontWant(d, dir)
         \/ IoTryEmpty(d, dir) \/ IoTryBlocking(d, dir)
  \/ IoWaitUntil2
  \/ \E dir \in Dirs : IoCan(dir)

Spec == Init /\ [][Next]_vars

-----------------------------------------------------------------------------
(* The counter that io_waituntil2 trusts, the flags and the kernel agree,  *)
(* whatever the order of wants, closes and reuses: with a wrong count the  *)
(* server would sleep without waiting or never wait at all.  Two things    *)
(* are excepted.  Where io_wantread polls and poll fails, the descriptor   *)
(* stays in the count, so it is too large by exactly the wants lost in     *)
(* this way.  And the kernel's set may differ from the flags for a         *)
(* descriptor whose registration was refused, or that was wanted before    *)
(* io_fd had found a mode: nobody looks at the answer, or tries again.     *)
WantsAgree ==
  /\ wanted = Cardinality(want["read"] \cup want["write"]) + overcounted
  /\ \A dir \in Dirs :
       /\ want[dir] \subseteq inuse
       /\ mode \in KernelModes => interest[dir] \ unheard = want[dir] \ unheard

(* io_canread and io_canwrite hand out only descriptors that were reported *)
(* since this incarnation was opened: a wake-up meant for a connection     *)
(* never reaches the one that got its number.                              *)
NoStaleWakeup ==
  \A dir \in Dirs : stale[dir] \cap want[dir] = {}

Ready(l, dir) == l.can \cap want[dir]

(* What was reported ready and is wanted is on the list, and if there is   *)
(* any, then io_canread hands out one and leaves the others on the list:   *)
(* called over and over it hands out all of them before the next wait.     *)
HandsOut(dir) ==
  LET l == lists[dir]
      r == Can(l, dir)
  IN  /\ Ready(l, dir) \subseteq Chain(l)
      /\ Ready(l, dir) # {} => /\ r.got \in Ready(l, dir)
                               /\ Ready(l, dir) \ {r.got} \subseteq Chain(r)

(* A ready descriptor is lost, its flag set and itself in no list, only    *)
(* after a queued descriptor's link was cleared, by the reuse of its       *)
(* number or by a read out of turn, or overwritten, when it is reported    *)
(* again after io_eagain; after it was taken off the list while it was not *)
(* wanted; or, in a build without any of the kernel's notifications, after *)
(* an io_fd emptied the list or, if that build then finds /dev/poll, when  *)
(* it is reported with a link left from such a list.  (With SIGIO,         *)
(* io_wantread queues what may be queued already, so it is lost in more    *)
(* ways than these.)                                                       *)
LostOnlyBroken ==
  mode # "SIGIO" => \A dir \in Dirs \ broken : HandsOut(dir)
=============================================================================
