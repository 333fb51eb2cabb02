------------------------------- MODULE BoxTree -------------------------------
(***************************************************************************)
(* What the box writers rely on: a file is made of nested boxes, each      *)
(* preceded by its size.  Here a box is put together in full before it     *)
(* becomes part of the one around it, so that its size is known when it is *)
(* written.  MovBuffer, where sizes are patched into a flat buffer,        *)
(* implements this.                                                        *)
(***************************************************************************)
EXTENDS Integers, Sequences

CONSTANTS
  RADIX,    \* values of a byte
  Chunks    \* what may be written in one go: sequences of bytes

VARIABLES
  stack,    \* content so far of the file (first) and of the open boxes in it
  failed    \* the writer has reported an error

treevars == <<stack, failed>>

\* Two bytes, and four: most significant byte first.
Half(v) == <<(v \div RADIX) % RADIX, v % RADIX>>
Word(v) == Half(v \div (RADIX * RADIX)) \o Half(v)

\* A complete box: the size counts its own field, of four bytes.
Boxed(content) == Word(Len(content) + 4) \o content

Top == stack[Len(stack)]
Below == SubSeq(stack, 1, Len(stack) - 1)

Init == stack = << <<>> >> /\ failed = FALSE

Open == stack' = Append(stack, <<>>) /\ UNCHANGED failed

Write(chunk) == stack' = Append(Below, Top \o chunk) /\ UNCHANGED failed

Close ==
  /\ Len(stack) > 1
  /\ stack' = Append(SubSeq(stack, 1, Len(stack) - 2),
                     stack[Len(stack) - 1] \o Boxed(Top))
  /\ UNCHANGED failed

\* The file is taken, or given up; the next one begins.
Take == stack' = << <<>> >> /\ UNCHANGED failed

\* Once an error is reported nothing is promised any more.
Fail == failed'

Next ==
  \/ ~failed /\ (Open \/ Close \/ Take \/ \E chunk \in Chunks : Write(chunk))
  \/ Fail

Spec == Init /\ [][Next]_treevars
==============================================================================
