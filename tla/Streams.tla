------------------------------ MODULE Streams -------------------------------
(***************************************************************************)
(* What bytes go through on their way, side by side: the growing buffers   *)
(* they are gathered in (A), the buffers between a program and a           *)
(* descriptor (U), the batches that go out over a socket (I), and the      *)
(* blocks that md5 hashes (D).  The four share nothing.                    *)
(***************************************************************************)
EXTENDS Integers

CONSTANTS Strings, Sizes, Round, Slack, Cap, MaxMem, MaxOps
VARIABLES x, sa, meant, said, dirty, got, kind, ops

A == INSTANCE Arrays

CONSTANTS Size, Sources, Lens, MaxPut, MaxCalls
VARIABLES dir, bytes, p, wire, rest, put, failed, source, taken, pc, want, dest, told, calls

U == INSTANCE Buffer WITH kind <- dir, x <- bytes

CONSTANTS Files, Lengths, Offsets, Chunk, MaxEntries
VARIABLES by, batch, first, bytesleft, bufs, place, here, total,
          mapped, owed, mixed, added, lostTrack, leftMap

I == INSTANCE Batch WITH kind <- by, b <- batch, next <- first, pc <- place, i <- here

CONSTANTS Block, Wrap, MaxPiece, MaxMessage
VARIABLES count, block, hashed, message, closed

D == INSTANCE Digest WITH mbuf <- block, blocks <- hashed

(* The constants of each module are as it assumes. *)
ASSUME StreamsAssumption ==
  /\ A!ArraysAssumption
  /\ U!BufferAssumption
  /\ I!BatchAssumption
  /\ D!DigestAssumption

StreamsSpec == A!Spec /\ U!Spec /\ I!Spec /\ D!Spec

-----------------------------------------------------------------------------
(* Growing arrays keep their contents, buffers and batches hand on bytes   *)
(* in their order, none lost or doubled, over partial reads and writes,    *)
(* and the blocks of a digest are the bytes of the message.                *)
BytesInOrder ==
  /\ A!Contents /\ U!OutInOrder /\ U!InInOrder /\ I!BatchInOrder
  /\ D!BlocksAreMessage
=============================================================================
