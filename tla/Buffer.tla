------------------------------- MODULE Buffer -------------------------------
(***************************************************************************)
(* buffer of libowfat: bytes on their way to a descriptor are collected    *)
(* until the space is full, bytes on their way in are read as many as fit  *)
(* and handed out as the caller wants them - a number, a line, a token -   *)
(* over reads that return less, nothing yet, or the end.                   *)
(*                                                                         *)
(* A loop that reads runs iteration by iteration (pc); what is written is  *)
(* the numbers 1, 2, ... in the order the program put them.                *)
(***************************************************************************)
EXTENDS Integers, SequencesExt

CONSTANTS
  Size,      \* a: the space of the buffer
  Sources,   \* what there is to read: sequences over {"c", "sep"}
  Lens,      \* lengths that callers give
  MaxPut,    \* bound: bytes written
  MaxCalls   \* bound: calls that read

BufferAssumption ==
  /\ Size \in Nat \ {0} /\ Lens \subseteq Nat \ {0}
  /\ MaxPut \in Nat /\ MaxCalls \in Nat

VARIABLES
  kind,      \* "out" or "in": what the buffer was made for
  x,         \* out: the p bytes collected; in: the n bytes read last
  p,         \* in: how many of them were handed out
  \* out
  wire,      \* what the descriptor took
  rest,      \* what buffer_putalign has still to copy
  put,       \* history: bytes put so far
  failed,    \* history: some call returned -1
  \* in
  source,
  taken,     \* bytes of source read by op
  pc,        \* "idle", "get", "getn", "token", "token_sa"
  want,      \* len
  dest,      \* what the call has copied, as indices of source; sa
  told,      \* history: the first byte no call has returned with
  calls

outvars == <<wire, rest, put, failed>>
invars == <<source, taken, pc, want, dest, told, calls>>
vars == <<kind, x, p, outvars, invars>>

Init ==
  /\ kind \in {"out", "in"} /\ source \in Sources
  /\ x = <<>> /\ p = 0 /\ wire = <<>> /\ rest = <<>> /\ put = 0 /\ failed = FALSE
  /\ taken = 0 /\ pc = "idle" /\ want = 0 /\ dest = <<>> /\ told = 1 /\ calls = 0

-----------------------------------------------------------------------------
(* Writing.  buffer_stubborn: op takes some of the bytes, again and again  *)
(* (EINTR is no error), until it fails; k is what it took before that.     *)

Stubborn(s) == 0 .. Len(s)
Sent(s, k) == SubSeq(s, 1, k)

(* buffer_flush: the bytes are given up, whatever op makes of them.        *)
Flush ==
  /\ kind = "out" /\ rest = <<>>
  /\ \E k \in Stubborn(x) :
       /\ wire' = wire \o Sent(x, k)
       /\ failed' = (failed \/ k < Len(x))
  /\ x' = <<>>
  /\ UNCHANGED <<kind, p, rest, put, invars>>

New(n) == [i \in 1 .. n |-> put + i]

(* Mutant of DoesntFit: room is looked for in the whole space. *)
DoesntAtAll(s) == Len(s) > Size
DoesntFit(s) == Len(s) > Size - Len(x)

(* buffer_put.  What is longer than the space goes to op at once. *)
Put(n) ==
  /\ kind = "out" /\ rest = <<>> /\ put + n <= MaxPut /\ put' = put + n
  /\ IF ~DoesntFit(New(n))
     THEN x' = x \o New(n) /\ UNCHANGED <<wire, failed>>
     ELSE \E k \in Stubborn(x), j \in Stubborn(New(n)) :
            /\ (k < Len(x) \/ n <= Size) => j = 0
            /\ wire' = wire \o Sent(x, k) \o Sent(New(n), j)
            /\ failed' = (failed \/ k < Len(x) \/ (n > Size /\ j < n))
            /\ x' = IF k < Len(x) \/ n > Size THEN <<>> ELSE New(n)
  /\ UNCHANGED <<kind, p, rest, invars>>

(* buffer_putalign fills the space before it flushes. *)
PutAlign(n) ==
  /\ kind = "out" /\ rest = <<>> /\ put + n <= MaxPut
  /\ rest' = New(n) /\ put' = put + n
  /\ UNCHANGED <<kind, x, p, wire, failed, invars>>

PutAlignStep ==
  /\ kind = "out" /\ rest # <<>>
  /\ IF DoesntFit(rest)
     THEN \E k \in Stubborn(x \o SubSeq(rest, 1, Size - Len(x))) :
            LET tmp == Size - Len(x)
            IN  /\ wire' = wire \o Sent(x \o SubSeq(rest, 1, tmp), k)
                /\ failed' = (failed \/ k < Size)
                /\ x' = <<>>
                /\ rest' = IF k < Size THEN <<>> ELSE SubSeq(rest, tmp + 1, Len(rest))
     ELSE x' = x \o rest /\ rest' = <<>> /\ UNCHANGED <<wire, failed>>
  /\ UNCHANGED <<kind, p, put, invars>>

-----------------------------------------------------------------------------
(* Reading.                                                                *)

inside == <<kind, source, outvars, calls>>

(* buffer_feed reads only when all was handed out. *)
Empty(n, q) == q = n

Call(f, len) ==
  /\ kind = "in" /\ pc = "idle" /\ calls < MaxCalls
  /\ pc' = f /\ want' = len /\ calls' = calls + 1
  /\ dest' = IF f = "token_sa" THEN dest ELSE <<>>
  /\ (f # "token_sa" => dest = <<>>)       \* the program reads lines, or it does not
  /\ UNCHANGED <<kind, x, p, outvars, source, taken, told>>

Return(next) == pc' = "idle" /\ want' = 0 /\ told' = next

(* buffer_feed brings something. *)
Feed ==
  /\ kind = "in" /\ pc # "idle" /\ Empty(Len(x), p)
  /\ \E w \in 1 .. Size :
       /\ taken + w <= Len(source)
       /\ x' = [i \in 1 .. w |-> taken + i] /\ p' = 0 /\ taken' = taken + w
  /\ UNCHANGED <<inside, pc, want, dest, told>>

(* ... or 0 at the end of the source, or -1, with errno EAGAIN as like as  *)
(* not.  buffer_get returns that and not what it has copied, and so do the *)
(* others at an error; the caller can only take it for lost.  A stralloc   *)
(* keeps what it was given.                                                *)
FeedNothing ==
  /\ kind = "in" /\ pc # "idle" /\ Empty(Len(x), p)
  /\ \E eof \in BOOLEAN :
       /\ eof => taken = Len(source)
       /\ IF eof THEN x' = <<>> /\ p' = 0 ELSE UNCHANGED <<x, p>>
  /\ IF pc = "token_sa" THEN UNCHANGED dest /\ Return(told)
     ELSE dest' = <<>> /\ Return(told + Len(dest))
  /\ UNCHANGED <<inside, taken>>

(* An iteration that copies: buffer_get as many as there are, the others   *)
(* one byte.                                                               *)
Copied == IF pc = "get" /\ want < Len(x) - p THEN want
          ELSE IF pc = "get" THEN Len(x) - p ELSE 1

Copy ==
  /\ kind = "in" /\ pc # "idle" /\ ~Empty(Len(x), p)
  /\ LET n == Copied
         now == dest \o SubSeq(x, p + 1, p + n)
         sep == pc \in {"token", "token_sa"} /\ source[Last(now)] = "sep"
     IN  /\ p' = p + n
         /\ IF sep \/ (pc # "token_sa" /\ want = n)
            THEN Return(told + Len(now)) /\ dest' = <<>>
            ELSE /\ dest' = now /\ want' = IF pc = "token_sa" THEN want ELSE want - n
                 /\ UNCHANGED <<pc, told>>
  /\ UNCHANGED <<inside, x, taken>>

(* buffer_get_token_sa finds no memory before it reads the next byte. *)
NoMemory ==
  /\ kind = "in" /\ pc = "token_sa"
  /\ Return(told)
  /\ UNCHANGED <<inside, x, p, taken, dest>>

(* buffer_seek: what lies behind the buffer stays. *)
Seek(len) ==
  /\ kind = "in" /\ pc = "idle" /\ dest = <<>> /\ calls < MaxCalls
  /\ p' = IF p + len > Len(x) THEN Len(x) ELSE p + len
  /\ told' = told + p' - p /\ calls' = calls + 1
  /\ UNCHANGED <<kind, x, outvars, source, taken, pc, want, dest>>

Next ==
  \/ Flush \/ PutAlignStep
  \/ \E n \in Lens : Put(n) \/ PutAlign(n) \/ Seek(n)
  \/ \E n \in Lens, f \in {"get", "getn", "token"} : Call(f, n)
  \/ Call("token_sa", 0)
  \/ Feed \/ FeedNothing \/ Copy \/ NoMemory

Spec == Init /\ [][Next]_vars

-----------------------------------------------------------------------------
Consecutive(s, from) == \A i \in DOMAIN s : s[i] = from + i - 1
Increasing(s) == \A i \in 1 .. Len(s) - 1 : s[i] < s[i + 1]

(* The descriptor is given what was put, in its order and nothing twice,   *)
(* however long the pieces are, and all of it as long as no call failed.   *)
(* A failed flush leaves a gap, for what it did not send is given up.      *)
OutInOrder ==
  kind = "out" =>
    LET all == wire \o x \o rest
    IN  /\ Increasing(all)
        /\ ~failed => Len(all) = put /\ Consecutive(all, 1)
        /\ Len(x) <= Size

(* What callers are handed goes on where the last call ended, over every   *)
(* split of the input into reads; and a line in a stralloc that EAGAIN,    *)
(* the end of the file or a lack of memory interrupted is taken up again   *)
(* (stralloc.h:131-135), to end at the first separator.                    *)
InInOrder ==
  kind = "in" =>
    LET ahead == dest \o SubSeq(x, p + 1, Len(x))
    IN  /\ Consecutive(ahead, told) /\ told + Len(ahead) = taken + 1
        /\ pc \in {"token", "token_sa", "idle"} =>
             \A i \in DOMAIN dest : source[dest[i]] # "sep"
=============================================================================
