------------------------------- MODULE Batch --------------------------------
(***************************************************************************)
(* iob of libowfat: a batch of buffers and pieces of files that is sent    *)
(* over a non-blocking socket, as much as it takes at a time; by iob_send, *)
(* with writev and sendfile, or by iob_write through a callback, which is  *)
(* given files as mapped chunks.                                           *)
(*                                                                         *)
(* A byte is <<where it is from, its offset there>>.                       *)
(***************************************************************************)
EXTENDS Integers, SequencesExt, FiniteSetsExt

CONSTANTS
  Files,       \* the files: negative, the buffers are 0, 1, ...
  Lengths,     \* how long pieces are
  Offsets,     \* where pieces of files begin
  Chunk,       \* 0x10000: a file is mapped in aligned chunks of it
  MaxEntries   \* bound: pieces added

BatchAssumption ==
  /\ Files \subseteq Int \ Nat /\ Lengths \subseteq Nat \ {0} /\ Offsets \subseteq Nat
  /\ Chunk \in Nat \ {0} /\ MaxEntries \in Nat

VARIABLES
  kind,        \* "send" or "write": what the program calls
  b,           \* the entries: [type, from, offset, n]
  next, bytesleft, bufs,
  pc, i, total,  \* iob_write: where it is, and what it has sent
  mapped,      \* [file, ofs, len] of the socket's io_entry, or NoMap
  owed,        \* history: the bytes added and not known to be sent
  mixed,       \* history: something else than these was sent
  added,       \* history: pieces added
  lostTrack,   \* history: iob_write gave up a batch of which half was sent, or
               \* was not told of bytes that went out in front of an error
  leftMap      \* history: a batch was given up with a chunk still mapped

local == <<pc, i, total>>
vars == <<kind, b, next, bytesleft, bufs, local, mapped, owed, mixed, added, lostTrack, leftMap>>

NoMap == [file |-> 0, ofs |-> 0, len |-> 0]

Init ==
  /\ kind \in {"send", "write"}
  /\ b = <<>> /\ next = 1 /\ bytesleft = 0 /\ bufs = 0
  /\ pc = "idle" /\ i = 0 /\ total = 0
  /\ mapped = NoMap /\ owed = <<>> /\ mixed = FALSE /\ added = 0
  /\ lostTrack = FALSE /\ leftMap = FALSE

BytesOf(e) == [j \in 1 .. e.n |-> <<e.from, e.offset + j - 1>>]
Drop(s, k) == SubSeq(s, k + 1, Len(s))

(* The bytes of k entries. *)
Pieces(s, from, k) == FlattenSeq([j \in 1 .. k |-> BytesOf(s[from + j - 1])])
Ahead == Pieces(b, next, Len(b) - next + 1)

(* iob_addbuf_internal, iob_addfile and iob_addfile_close; array_allocate  *)
(* fails at will.  Nothing is added for an n of 0.                         *)
Add(e) ==
  /\ pc = "idle" /\ added < MaxEntries /\ added' = added + 1
  /\ \/ /\ b' = Append(b, e) /\ bytesleft' = bytesleft + e.n
        /\ bufs' = IF e.type = "buf" THEN bufs + 1 ELSE bufs
        /\ owed' = owed \o BytesOf(e)
     \/ UNCHANGED <<b, bytesleft, bufs, owed>>
  /\ UNCHANGED <<kind, next, local, mapped, mixed, lostTrack, leftMap>>

AddBuf(n) == Add([type |-> "buf", from |-> added, offset |-> 0, n |-> n])
AddFile(f, off, n) == Add([type |-> "file", from |-> f, offset |-> off, n |-> n])

(* iob_reset: an empty batch, behind the cleanups of its entries.          *)
Cleared == b' = <<>> /\ next' = 1 /\ bytesleft' = 0 /\ bufs' = 0

(* The program gives a batch up: iob_reset or iob_free. *)
Reset ==
  /\ pc = "idle" /\ b # <<>> /\ Cleared /\ owed' = <<>>
  /\ leftMap' = (leftMap \/ mapped # NoMap)
  /\ UNCHANGED <<kind, local, mapped, mixed, added, lostTrack>>

-----------------------------------------------------------------------------
(* iob_send.                                                               *)

(* One turn of its loop: the buffers up to the next file in one writev, or *)
(* that file.                                                              *)
Headers == Min({k \in 0 .. Len(b) - next + 1 :
                  k = Len(b) - next + 1 \/ b[next + k].type = "file"})
Offered == Pieces(b, next, IF Headers = 0 THEN 1 ELSE Headers)

SumOf(s, from, k) == Len(Pieces(s, from, k))

(* How many entries "sent" bytes cover to their end. *)
Skipped(s, from, sent) ==
  Min({k \in 0 .. Len(s) - from + 1 :
         k = Len(s) - from + 1 \/ SumOf(s, from, k + 1) > sent})

(* What remains of the sent bytes is taken from the entry behind those.  A *)
(* turn in which the socket takes nothing, or fails, ends the call and     *)
(* changes nothing.                                                        *)
Send(sent) ==
  /\ kind = "send" /\ bytesleft > 0 /\ sent <= Len(Offered)
  /\ owed' = Drop(owed, sent)
  /\ mixed' = (mixed \/ SubSeq(Offered, 1, sent) # SubSeq(owed, 1, sent))
  /\ IF sent = bytesleft THEN Cleared
     ELSE LET k == Skipped(b, next, sent)
              rest == sent - SumOf(b, next, k)
          IN  /\ next' = next + k /\ bytesleft' = bytesleft - sent
              /\ b' = IF rest = 0 THEN b
                      ELSE [b EXCEPT ![next + k].offset = @ + rest, ![next + k].n = @ - rest]
              /\ UNCHANGED bufs
  /\ UNCHANGED <<kind, local, mapped, added, lostTrack, leftMap>>

-----------------------------------------------------------------------------
(* iob_write, an entry at a time.                                          *)

Write ==
  /\ kind = "write" /\ pc = "idle" /\ bytesleft > 0
  /\ pc' = "loop" /\ i' = next /\ total' = 0
  /\ UNCHANGED <<kind, b, next, bytesleft, bufs, mapped, owed, mixed, added, lostTrack, leftMap>>

MapFor(e) ==
  LET ofs == (e.offset \div Chunk) * Chunk
  IN  [file |-> e.from, ofs |-> ofs, len |-> Min({Chunk, e.offset + e.n - ofs})]
InMap(m, off) == off >= m.ofs /\ off < m.ofs + m.len

(* What io_mmapwritefile hands the callback: for the offsets in the chunk  *)
(* that is mapped for the socket, that chunk, whichever file it is of.     *)
Handed(e) ==
  [j \in 1 .. e.n |-> LET off == e.offset + j - 1
                      IN  <<IF InMap(mapped, off) THEN mapped.file ELSE e.from, off>>]

(* Mutant of MapAfter: a chunk sent to its end stays mapped. *)
MapKept(e, sent) ==
  LET off == e.offset + Min({sent, e.n - 1})
  IN  IF InMap(mapped, off) THEN mapped
      ELSE MapFor([e EXCEPT !.offset = off, !.n = e.offset + e.n - off])

(* What it leaves mapped: nothing behind a piece that was sent to its end. *)
MapAfter(e, sent) ==
  LET off == e.offset + sent
  IN  IF sent = e.n THEN NoMap
      ELSE IF InMap(mapped, off) THEN mapped
      ELSE MapFor([e EXCEPT !.offset = off, !.n = e.n - sent])

(* An entry that was sent is passed; of another the callback takes all, or *)
(* a part, and the loop ends, or nothing, and the call ends.               *)
WriteEntry ==
  /\ pc = "loop" /\ i <= Len(b)
  /\ \E sent \in 0 .. b[i].n :
       LET e == b[i]
           bytes == SubSeq(IF e.type = "file" THEN Handed(e) ELSE BytesOf(e), 1, sent)
       IN  /\ b' = [b EXCEPT ![i].offset = @ + sent, ![i].n = @ - sent]
           /\ bytesleft' = bytesleft - sent /\ total' = total + sent
           /\ owed' = Drop(owed, sent)
           /\ mixed' = (mixed \/ bytes # SubSeq(owed, 1, sent))
           /\ mapped' = IF e.type = "file" /\ e.n > 0 THEN MapAfter(e, sent) ELSE mapped
           /\ i' = i + 1
           /\ pc' = IF sent = e.n THEN "loop" ELSE IF sent = 0 THEN "idle" ELSE "end"
  /\ UNCHANGED <<kind, next, bufs, added, lostTrack, leftMap>>

(* The callback fails in the middle of a file, after some of its chunks or *)
(* parts of them: the chunk is unmapped, and io_mmapwritefile returns the  *)
(* error and not what it has sent, which stays in the entry and goes out   *)
(* again.                                                                  *)
WriteFails ==
  /\ pc = "loop" /\ i <= Len(b) /\ b[i].type = "file" /\ b[i].n > 0
  /\ \E sent \in 0 .. b[i].n - 1 :
       lostTrack' = (lostTrack \/ sent > 0)
  /\ mapped' = NoMap /\ pc' = "idle"
  /\ UNCHANGED <<kind, b, next, bytesleft, bufs, i, total, owed, mixed, added, leftMap>>

(* What was sent is compared with what is left, not with 0: a batch that   *)
(* was sent stays as it is, one of which half was sent is given up.        *)
WriteEnd ==
  /\ pc = "end" \/ (pc = "loop" /\ i > Len(b))
  /\ pc' = "idle"
  /\ IF total = bytesleft
     THEN Cleared /\ lostTrack' = TRUE /\ leftMap' = (leftMap \/ mapped # NoMap)
     ELSE UNCHANGED <<b, next, bytesleft, bufs, lostTrack, leftMap>>
  /\ UNCHANGED <<kind, i, total, mapped, owed, mixed, added>>

Next ==
  \/ \E n \in Lengths : AddBuf(n)
  \/ \E n \in Lengths, f \in Files, off \in Offsets : AddFile(f, off, n)
  \/ Reset
  \/ \E sent \in 1 .. bytesleft : Send(sent)
  \/ Write \/ WriteEntry \/ WriteFails \/ WriteEnd

Spec == Init /\ [][Next]_vars

-----------------------------------------------------------------------------
(* What goes out is what was added, in its order and nothing twice, over   *)
(* any number of partial writes; the batch knows what is left; and one     *)
(* that iob_send has sent is cleaned up.  Not so behind the three calls    *)
(* that go wrong: an iob_write that has sent half (iob_write.c:32), one    *)
(* that failed behind a part of a file (io_mmapwritefile.c:58-69), and one *)
(* for a socket whose last batch was given up in the middle of a file.     *)
BatchInOrder ==
  ~lostTrack /\ ~leftMap =>
    /\ ~mixed
    /\ owed = Ahead /\ bytesleft = Len(owed)
    /\ kind = "send" /\ owed = <<>> => b = <<>>

(* The vectors that iob_send has room for on its stack. *)
EnoughVectors == b # <<>> /\ kind = "send" => Headers <= bufs
=============================================================================
