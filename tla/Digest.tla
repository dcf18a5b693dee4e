------------------------------- MODULE Digest -------------------------------
(***************************************************************************)
(* The streaming half of md5.c, with which the driver hashes passwords: a  *)
(* message arrives in pieces of any length, is gathered into blocks, and   *)
(* is closed with a pad and its own length in bits.  What a block does to  *)
(* the four words of the digest (mongo_md5_process) is left out; which     *)
(* blocks there are, and in which order, is kept.                          *)
(***************************************************************************)
EXTENDS Integers, SequencesExt

CONSTANTS
  Block,      \* 64 bytes
  Wrap,       \* 2^32, where each half of the count wraps; a byte of the length is a half
  MaxPiece, MaxMessage   \* bounds: bytes in a piece, and in a message

DigestAssumption ==
  /\ Block \in Nat /\ Block > 3 /\ Wrap \in Nat \ {0} /\ Wrap % (8 * Block) = 0
  /\ MaxPiece \in Nat /\ MaxMessage \in Nat

VARIABLES
  count,     \* the bits so far: low and high word
  mbuf,      \* buf
  blocks,    \* history: the blocks given to mongo_md5_process
  message,   \* history: what was appended
  closed     \* mongo_md5_finish was called

vars == <<count, mbuf, blocks, message, closed>>

PadByte == -1
Unset == -2
State == [count |-> count, buf |-> mbuf, blocks |-> blocks]
Becomes(s) == count' = s.count /\ mbuf' = s.buf /\ blocks' = s.blocks

(* mongo_md5_init leaves buf as it is. *)
Init == /\ count = [lo |-> 0, hi |-> 0] /\ mbuf = [i \in 1 .. Block |-> Unset]
        /\ blocks = <<>> /\ message = <<>> /\ closed = FALSE

Offset(c) == (c.lo \div 8) % Block

(* Mutant of Counted: no carry. *)
CountedLow(c, n) == [lo |-> (c.lo + 8 * n) % Wrap, hi |-> (c.hi + (8 * n) \div Wrap) % Wrap]
(* The message length, in two words: a sum below its summand has wrapped.  *)
Counted(c, n) ==
  LET lo == (c.lo + 8 * n) % Wrap
  IN  [lo |-> lo,
       hi |-> (c.hi + (8 * n) \div Wrap + (IF lo < (8 * n) % Wrap THEN 1 ELSE 0)) % Wrap]

Into(buf, offset, p) ==      \* memcpy
  [i \in 1 .. Block |-> IF i \in offset + 1 .. offset + Len(p) THEN p[i - offset] ELSE buf[i]]

(* An initial partial block, full blocks, a final partial block. *)
mongo_md5_append(s, p) ==
  LET offset == Offset(s.count)
      c == Counted(s.count, Len(p))
      copy == IF offset = 0 THEN 0 ELSE IF offset + Len(p) > Block THEN Block - offset ELSE Len(p)
      first == Into(s.buf, offset, SubSeq(p, 1, copy))
      full == (Len(p) - copy) \div Block
      done == s.blocks \o (IF offset > 0 THEN <<first>> ELSE <<>>)
                \o [k \in 1 .. full |-> SubSeq(p, copy + (k - 1) * Block + 1, copy + k * Block)]
  IN  IF p = <<>> THEN s
      ELSE IF offset > 0 /\ offset + copy < Block THEN [count |-> c, buf |-> first, blocks |-> s.blocks]
      ELSE [count |-> c, blocks |-> done,
            buf |-> Into(first, 0, SubSeq(p, copy + full * Block + 1, Len(p)))]

Pad(n) == [i \in 1 .. n |-> IF i = 1 THEN PadByte ELSE 0]
mongo_md5_finish(s) ==
  LET padded == mongo_md5_append(s, Pad(((Block - 3 - s.count.lo \div 8) % Block) + 1))
  IN  mongo_md5_append(padded, <<s.count.lo, s.count.hi>>)

Append1(n) ==
  /\ ~closed /\ Len(message) + n <= MaxMessage
  /\ LET p == [i \in 1 .. n |-> Len(message) + i]
     IN  message' = message \o p /\ Becomes(mongo_md5_append(State, p))
  /\ UNCHANGED closed

Finish ==
  /\ ~closed /\ closed' = TRUE /\ Becomes(mongo_md5_finish(State)) /\ UNCHANGED message

Next == Finish \/ \E n \in 0 .. MaxPiece : Append1(n)

Spec == Init /\ [][Next]_vars

-----------------------------------------------------------------------------
(* The blocks are the message's bytes in their order, however it was cut;  *)
(* closed, they end with one pad byte, as few zeros as there can be, and   *)
(* the number of the message's bits.                                       *)
BlocksAreMessage ==
  LET flat == FlattenSeq(blocks)
      n == Len(message)
      zeros == (-(n + 3)) % Block
      bits == 8 * n
      end == <<bits % Wrap, (bits \div Wrap) % Wrap>>
  IN  /\ \A k \in DOMAIN blocks : Len(blocks[k]) = Block
      /\ ~closed => /\ flat \o SubSeq(mbuf, 1, Offset(count)) = message
                    /\ count = [lo |-> end[1], hi |-> end[2]]
      /\ closed => flat = message \o <<PadByte>> \o [i \in 1 .. zeros |-> 0] \o end
=============================================================================
