------------------------------ MODULE MovBuffer ------------------------------
(***************************************************************************)
(* The memory a segment is written into: the callbacks of dash-mpd.cpp     *)
(* (mov_buffer_write, mov_buffer_seek, mov_buffer_tell) under the helpers  *)
(* of mov-ioutil.h with their sticky error, used the way every box writer  *)
(* uses them: the size field is written as 0, and when the box is complete *)
(* mov_write_size goes back, writes the size and goes to the end again.    *)
(*                                                                         *)
(* Positions count from 0 as in the code; ptr is a sequence, so byte i of  *)
(* the buffer is ptr[i + 1].                                               *)
(***************************************************************************)
EXTENDS Integers, SequencesExt

CONSTANTS
  RADIX,       \* values of a byte (256 in the code)
  N_SEGMENT,   \* how much more than needed is allocated (1 MB)
  maxsize,     \* N_FILESIZE (100 MB)
  Chunks,      \* data written in one go
  GrowResults, \* may realloc fail (FALSE), succeed (TRUE)?
  MaxDepth     \* bound: boxes inside of one another

ASSUME RadixAssumption == RADIX \in Nat \ {0, 1}
ASSUME SizeAssumption  == /\ maxsize \in Nat /\ N_SEGMENT \in Nat
                          /\ maxsize < (RADIX * RADIX) * (RADIX * RADIX)
ASSUME ChunkAssumption == /\ Chunks \subseteq Seq(0..RADIX - 1)
                          /\ GrowResults \subseteq BOOLEAN

VARIABLES
  buffer,   \* ptr, bytes, offset of the adaptation set, error of the writer
  open,     \* where the boxes begin that are not complete, outermost first
  asked     \* bytes the writer has asked for since the file was begun

vars == <<buffer, open, asked>>

WORD    == 4    \* bytes of a size field
Garbage == -1   \* memory that nobody has written

\* errno.h
E2BIG  == 7
ENOMEM == 12

capacity(b) == Len(b.ptr)
------------------------------------------------------------------------------
(* The callbacks and their wrappers.                                        *)

\* Room for end bytes, and some more, up to maxsize.
Grown(b, end) ==
  LET wanted == end + N_SEGMENT
      size == IF wanted > maxsize THEN maxsize ELSE wanted
  IN IF end <= capacity(b) THEN b
     ELSE [b EXCEPT !.ptr = [i \in 1..size |-> IF i <= Len(@) THEN @[i] ELSE Garbage]]

\* mov_buffer_write: nothing once the error is set.
write(b, data, grown) ==
  LET end == b.offset + Len(data)
      g == Grown(b, end)
  IN IF b.error # 0 THEN b
     ELSE IF end > maxsize THEN [b EXCEPT !.error = E2BIG]
     ELSE IF end > capacity(b) /\ ~grown THEN [b EXCEPT !.error = ENOMEM]
     ELSE [g EXCEPT !.ptr = [i \in 1..Len(g.ptr) |->
                               IF i \in b.offset + 1..end THEN data[i - b.offset]
                               ELSE g.ptr[i]],
                    !.offset = end, !.bytes = IF end > @ THEN end ELSE @]

\* Faulty variant: a seek leaves room for a word.
seek_Early(b, offset) ==
  IF b.error # 0 THEN b
  ELSE IF offset + WORD >= maxsize THEN [b EXCEPT !.error = E2BIG]
  ELSE [b EXCEPT !.offset = offset]

\* mov_buffer_seek: maxsize itself is refused.
seek(b, offset) ==
  IF b.error # 0 THEN b
  ELSE IF offset >= maxsize THEN [b EXCEPT !.error = E2BIG]
  ELSE [b EXCEPT !.offset = offset]

\* mov_buffer_w8, w16, w32: most significant byte first, each with a write of its own.
w8(b, v, grown)  == write(b, <<v % RADIX>>, grown)
w16(b, v, grown) == w8(w8(b, v \div RADIX, grown), v, grown)
w32(b, v, grown) == w16(w16(b, v \div (RADIX * RADIX), grown), v, grown)

\* Faulty variant: the position is not restored.
write_size_Stays(b, offset, size) == w32(seek(b, offset), size, TRUE)

\* mov_write_size.  What is overwritten is inside of the buffer: it cannot grow.
write_size(b, offset, size) ==
  seek(w32(seek(b, offset), size, TRUE), b.offset)
------------------------------------------------------------------------------
(* The box writers.                                                         *)

Init ==
  /\ buffer = [ptr |-> <<>>, bytes |-> 0, offset |-> 0, error |-> 0]
  /\ open = <<>> /\ asked = 0

\* The size field of a new box, to be filled in later.
Open ==
  /\ buffer.error = 0 /\ Len(open) < MaxDepth
  /\ \E grown \in GrowResults : buffer' = w32(buffer, 0, grown)
  /\ open' = Append(open, buffer.offset)
  /\ asked' = asked + WORD

Write ==
  /\ buffer.error = 0
  /\ \E chunk \in Chunks, grown \in GrowResults :
       /\ buffer' = write(buffer, chunk, grown)
       /\ asked' = asked + Len(chunk)
  /\ UNCHANGED open

\* The innermost box is complete.
Close ==
  /\ buffer.error = 0 /\ open # <<>>
  /\ buffer' = write_size(buffer, Last(open), buffer.offset - Last(open))
  /\ open' = Front(open)
  /\ UNCHANGED asked

\* dash_mpd_flush: the file has been handed out; bytes and offset go back to 0, the
\* memory and the error stay.
Take ==
  /\ buffer.error = 0 /\ open = <<>>
  /\ buffer' = [buffer EXCEPT !.offset = 0, !.bytes = 0]
  /\ open' = <<>> /\ asked' = 0

\* After an error the writer goes on without effect; the file is given up.
GiveUp ==
  /\ buffer.error # 0
  /\ buffer' = [buffer EXCEPT !.offset = 0, !.bytes = 0]
  /\ open' = <<>> /\ UNCHANGED asked

Next == Open \/ Write \/ Close \/ Take \/ GiveUp

Spec == Init /\ [][Next]_vars
------------------------------------------------------------------------------
(* Properties.                                                              *)

\* The file as far as it goes, cut where the open boxes begin, without the size
\* fields that are still to come; of no interest after an error.
Contents ==
  LET start(i) == IF i = 0 THEN 1 ELSE open[i] + WORD + 1
      end(i) == IF i = Len(open) THEN buffer.bytes ELSE open[i + 1]
  IN IF buffer.error # 0 THEN <<>>
     ELSE [i \in 1..Len(open) + 1 |-> SubSeq(buffer.ptr, start(i - 1), end(i - 1))]

Boxes == INSTANCE BoxTree WITH stack <- Contents, failed <- (buffer.error # 0)

\* As long as no error is reported, going back and forth in the buffer amounts to
\* writing complete boxes inside of one another: sizes are right, nothing is
\* overwritten, left out or left over from the file before.
ImplementsBoxes == Boxes!Spec

\* A file that leaves at least one byte of maxsize free never fails for its size,
\* one that does not fit never goes through.  (One that fits exactly fails if a
\* size is still to be patched.)  And what is written is inside of what is
\* allocated, this inside of maxsize, whenever realloc fails.
FailsForSize ==
  /\ buffer.error = E2BIG => asked >= maxsize
  /\ asked > maxsize => buffer.error # 0
  /\ buffer.bytes <= capacity(buffer) /\ capacity(buffer) <= maxsize
==============================================================================
