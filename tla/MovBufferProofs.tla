---------------------------- MODULE MovBufferProofs ----------------------------
(***************************************************************************)
(* Proofs about MovBuffer, for every size of the buffer, every way it      *)
(* grows and boxes of any depth: the file is kept within its memory, it    *)
(* fails for its size only if it is too long, and patching sizes into a    *)
(* flat buffer implements the nested boxes of BoxTree.                     *)
(***************************************************************************)
EXTENDS MovBuffer, SequenceTheorems, TLAPS

\* A buffer is within its memory, and this within what it may grow to.
Good(b) ==
  /\ b \in [ptr : Seq(Int), bytes : Nat, offset : Nat, error : {0, E2BIG, ENOMEM}]
  /\ b.offset <= b.bytes /\ b.bytes <= Len(b.ptr) /\ Len(b.ptr) <= maxsize

\* The boxes o that are open in b: one inside of the other, b at its end.
Nested(b, o) ==
  /\ b.offset = b.bytes /\ o \in Seq(Nat)
  /\ \A i \in 1..Len(o) : o[i] + WORD <= b.bytes
  /\ \A i, j \in 1..Len(o) : i < j => o[i] + WORD <= o[j]

\* The inductive invariant: the buffer is within its memory; without an error the open
\* boxes are inside of one another and all that was asked for has been written.
IInv ==
  /\ Good(buffer) /\ asked \in Nat
  /\ buffer.error = 0 => Nested(buffer, open) /\ asked = buffer.bytes
  /\ buffer.error = E2BIG => asked >= maxsize
------------------------------------------------------------------------------
(* Writing.                                                                 *)

\* c is b with data written at its position.
Wrote(b, data, c) ==
  /\ c.offset = b.offset + Len(data)
  /\ c.bytes = IF c.offset > b.bytes THEN c.offset ELSE b.bytes
  /\ \A i \in 1..c.bytes :
       c.ptr[i] = IF i \in b.offset + 1..c.offset THEN data[i - b.offset] ELSE b.ptr[i]

\* c is what becomes of b when data is written: it may fail for its size if data is
\* too long, and for memory if data goes beyond what is there.
Effect(b, data, c) ==
  /\ Good(c)
  /\ c.error = 0 => Wrote(b, data, c)
  /\ c.error = E2BIG => b.offset + Len(data) > maxsize
  /\ b.offset + Len(data) <= b.bytes => c.error # ENOMEM

\* mov_buffer_write does that.
LEMMA WriteDoes ==
  ASSUME NEW b, Good(b), b.error = 0, NEW data \in Seq(Int), NEW grown \in BOOLEAN
  PROVE  Effect(b, data, write(b, data, grown))
<1>. DEFINE end == b.offset + Len(data)
            g == Grown(b, end)
            c == write(b, data, grown)
<1>1. /\ b \in [ptr : Seq(Int), bytes : Nat, offset : Nat, error : {0, E2BIG, ENOMEM}]
      /\ b.offset \in Nat /\ b.bytes \in Nat /\ b.ptr \in Seq(Int) /\ Len(b.ptr) \in Nat
      /\ b.offset <= b.bytes /\ b.bytes <= Len(b.ptr) /\ Len(b.ptr) <= maxsize
      /\ maxsize \in Nat /\ N_SEGMENT \in Nat /\ Len(data) \in Nat /\ end \in Nat
  BY SizeAssumption DEF Good
<1>2. CASE end > maxsize
  <2>1. c = [b EXCEPT !.error = E2BIG]
    BY <1>2 DEF write
  <2>. HIDE DEF c
  <2>2. c.ptr = b.ptr /\ c.offset = b.offset /\ c.bytes = b.bytes /\ c.error = E2BIG
    BY <1>1, <2>1
  <2>3. c \in [ptr : Seq(Int), bytes : Nat, offset : Nat, error : {0, E2BIG, ENOMEM}]
    BY <1>1, <2>1
  <2>4. Good(c)
    BY <1>1, <2>2, <2>3 DEF Good
  <2>. QED  BY <1>1, <1>2, <2>2, <2>4 DEF Effect, E2BIG, ENOMEM, capacity, c
<1>3. CASE end <= maxsize /\ end > capacity(b) /\ ~grown
  <2>1. c = [b EXCEPT !.error = ENOMEM]
    BY <1>1, <1>3 DEF write
  <2>. HIDE DEF c
  <2>2. c.ptr = b.ptr /\ c.offset = b.offset /\ c.bytes = b.bytes /\ c.error = ENOMEM
    BY <1>1, <2>1
  <2>3. c \in [ptr : Seq(Int), bytes : Nat, offset : Nat, error : {0, E2BIG, ENOMEM}]
    BY <1>1, <2>1
  <2>4. Good(c)
    BY <1>1, <2>2, <2>3 DEF Good
  <2>. QED  BY <1>1, <1>3, <2>2, <2>4 DEF Effect, E2BIG, ENOMEM, capacity, c
<1>4. CASE end <= maxsize /\ ~(end > capacity(b) /\ ~grown)
  <2>1. /\ g \in [ptr : Seq(Int), bytes : Nat, offset : Nat, error : {0, E2BIG, ENOMEM}]
        /\ g.bytes = b.bytes /\ g.offset = b.offset /\ g.error = 0
        /\ g.ptr \in Seq(Int) /\ Len(g.ptr) \in Nat
        /\ Len(g.ptr) <= maxsize /\ end <= Len(g.ptr) /\ Len(b.ptr) <= Len(g.ptr)
        /\ \A i \in 1..Len(b.ptr) : g.ptr[i] = b.ptr[i]
    <3>1. CASE end <= capacity(b)
      <4>1. g = b
        BY <3>1 DEF Grown
      <4>. QED  BY <1>1, <3>1, <4>1 DEF capacity
    <3>2. CASE ~(end <= capacity(b))
      <4>. DEFINE size == IF end + N_SEGMENT > maxsize THEN maxsize ELSE end + N_SEGMENT
                  p == [i \in 1..size |-> IF i <= Len(b.ptr) THEN b.ptr[i] ELSE Garbage]
      <4>1. g = [b EXCEPT !.ptr = p]
        BY <3>2 DEF Grown
      <4>2. size \in Nat /\ size <= maxsize /\ end <= size /\ Len(b.ptr) <= size
        BY <1>1, <1>4, <3>2 DEF capacity
      <4>. HIDE DEF size
      <4>3. \A i \in 1..size : p[i] \in Int
        BY <1>1 DEF Garbage
      <4>4. p \in Seq(Int) /\ Len(p) = size
        BY <4>2, <4>3
      <4>5. \A i \in 1..Len(b.ptr) : p[i] = b.ptr[i]
        BY <1>1, <4>2
      <4>. HIDE DEF p
      <4>6. g.ptr = p /\ g.bytes = b.bytes /\ g.offset = b.offset /\ g.error = 0
        BY <1>1, <4>1
      <4>7. g \in [ptr : Seq(Int), bytes : Nat, offset : Nat, error : {0, E2BIG, ENOMEM}]
        BY <1>1, <4>1, <4>4
      <4>. QED  BY <4>2, <4>4, <4>5, <4>6, <4>7
    <3>. QED  BY <3>1, <3>2
  <2>. DEFINE q == [i \in 1..Len(g.ptr) |-> IF i \in b.offset + 1..end
                                            THEN data[i - b.offset] ELSE g.ptr[i]]
              n == IF end > b.bytes THEN end ELSE b.bytes
  <2>0. c = [g EXCEPT !.ptr = q, !.offset = end, !.bytes = IF end > @ THEN end ELSE @]
    <3>1. b.error = 0 /\ ~(end > maxsize) /\ ~(end > capacity(b) /\ ~grown)
      BY <1>1, <1>4
    <3>. QED  BY <3>1, Zenon DEF write
  <2>. HIDE DEF g, q, c
  <2>2. c = [g EXCEPT !.ptr = q, !.offset = end, !.bytes = n]
    BY <2>0, <2>1
  <2>3. \A i \in 1..Len(g.ptr) : q[i] \in Int
    <3>. USE DEF q
    <3>1. \A i \in b.offset + 1..end : data[i - b.offset] \in Int
      BY <1>1
    <3>2. \A i \in 1..Len(g.ptr) : g.ptr[i] \in Int
      BY <2>1
    <3>. QED  BY <3>1, <3>2
  <2>4. q \in Seq(Int) /\ Len(q) = Len(g.ptr)
    BY <2>1, <2>3 DEF q
  <2>5. n \in Nat /\ end <= n /\ n <= Len(g.ptr)
    BY <1>1, <2>1
  <2>6. \A i \in 1..n : q[i] = IF i \in b.offset + 1..end THEN data[i - b.offset]
                               ELSE b.ptr[i]
    <3>1. \A i \in 1..n : i \notin b.offset + 1..end => i \in 1..Len(b.ptr)
      BY <1>1
    <3>2. \A i \in 1..n : i \in 1..Len(g.ptr)
      BY <2>1, <2>5
    <3>. QED  BY <2>1, <3>1, <3>2 DEF q
  <2>. HIDE DEF n
  <2>7. c.ptr = q /\ c.offset = end /\ c.bytes = n /\ c.error = 0
    BY <2>1, <2>2
  <2>8. c \in [ptr : Seq(Int), bytes : Nat, offset : Nat, error : {0, E2BIG, ENOMEM}]
    BY <1>1, <2>1, <2>2, <2>4, <2>5
  <2>9. Good(c)
    BY <2>1, <2>4, <2>5, <2>7, <2>8 DEF Good
  <2>10. Wrote(b, data, c)
    BY <2>6, <2>7 DEF Wrote, n
  <2>. QED  BY <2>7, <2>9, <2>10 DEF Effect, E2BIG, ENOMEM, c
<1>. QED  BY <1>1, <1>2, <1>3, <1>4

\* Nothing is written once the error is set.
LEMMA Sticky ==
  ASSUME NEW b, b.error # 0, NEW data, NEW grown
  PROVE  write(b, data, grown) = b
BY Zenon DEF write

\* One thing written after another.
LEMMA OneAfterAnother ==
  ASSUME NEW b, Good(b), b.error = 0, NEW c, NEW e,
         NEW data \in Seq(Int), NEW more \in Seq(Int),
         Effect(b, data, c), c.error = 0 => Effect(c, more, e), c.error # 0 => e = c
  PROVE  Effect(b, data \o more, e)
<1>1. /\ b.offset \in Nat /\ b.bytes \in Nat /\ Good(c)
      /\ c.offset \in Nat /\ c.bytes \in Nat /\ c.offset <= c.bytes
      /\ c.error \in {0, E2BIG, ENOMEM} /\ maxsize \in Nat
  BY SizeAssumption DEF Good, Effect
<1>2. /\ Len(data) \in Nat /\ Len(more) \in Nat
      /\ Len(data \o more) = Len(data) + Len(more)
      /\ \A i \in 1..Len(data) : (data \o more)[i] = data[i]
      /\ \A i \in Len(data) + 1..Len(data) + Len(more) :
           (data \o more)[i] = more[i - Len(data)]
  OBVIOUS
<1>. DEFINE all == data \o more
<1>. HIDE DEF all
<1>3. CASE c.error # 0
  <2>1. e = c /\ Good(e)
    BY <1>1, <1>3
  <2>2. e.error = E2BIG => b.offset + Len(all) > maxsize
    BY <1>1, <1>2, <2>1 DEF Effect, all
  <2>3. b.offset + Len(all) <= b.bytes => e.error # ENOMEM
    BY <1>1, <1>2, <2>1 DEF Effect, all
  <2>4. e.error # 0
    BY <1>3, <2>1
  <2>. QED  BY <2>1, <2>2, <2>3, <2>4 DEF Effect, all
<1>4. CASE c.error = 0
  <2>1. Wrote(b, data, c) /\ Effect(c, more, e)
    BY <1>4 DEF Effect
  <2>2. /\ c.offset = b.offset + Len(data)
        /\ c.bytes = IF c.offset > b.bytes THEN c.offset ELSE b.bytes
        /\ \A i \in 1..c.bytes :
             c.ptr[i] = IF i \in b.offset + 1..c.offset THEN data[i - b.offset]
                        ELSE b.ptr[i]
    BY <2>1 DEF Wrote
  <2>3. Good(e)
    BY <2>1 DEF Effect
  <2>4. e.error = E2BIG => b.offset + Len(all) > maxsize
    BY <1>1, <1>2, <2>1, <2>2 DEF Effect, all
  <2>5. b.offset + Len(all) <= b.bytes => e.error # ENOMEM
    BY <1>1, <1>2, <2>1, <2>2 DEF Effect, all
  <2>6. ASSUME e.error = 0 PROVE Wrote(b, all, e)
    <3>1. /\ e.offset = c.offset + Len(more)
          /\ e.bytes = IF e.offset > c.bytes THEN e.offset ELSE c.bytes
          /\ \A i \in 1..e.bytes :
               e.ptr[i] = IF i \in c.offset + 1..e.offset THEN more[i - c.offset]
                          ELSE c.ptr[i]
      BY <2>1, <2>6 DEF Effect, Wrote
    <3>0. c.offset = b.offset + Len(data) /\ e.offset = (b.offset + Len(data)) + Len(more)
      BY <2>2, <3>1
    <3>2. e.offset = b.offset + Len(all)
      BY <1>1, <1>2, <2>2, <3>1 DEF all
    <3>3. e.bytes = IF e.offset > b.bytes THEN e.offset ELSE b.bytes
      BY <1>1, <1>2, <2>2, <3>1
    <3>4. ASSUME NEW i \in 1..e.bytes
          PROVE  e.ptr[i] = IF i \in b.offset + 1..e.offset THEN all[i - b.offset]
                            ELSE b.ptr[i]
      <4>. DEFINE p == b.offset
                  n == Len(data)
                  m == Len(more)
      <4>0. /\ p \in Nat /\ n \in Nat /\ m \in Nat /\ i \in Int
            /\ c.offset = p + n /\ e.offset = (p + n) + m
        BY <1>1, <1>2, <3>0
      <4>1. CASE i \in c.offset + 1..e.offset
        <5>1. i \in b.offset + 1..e.offset /\ i - b.offset \in Len(data) + 1..Len(data) + Len(more)
          <6>. HIDE DEF p, n, m
          <6>1. (p + n) + 1 <= i /\ i <= (p + n) + m
            BY <4>0, <4>1
          <6>2. i \in p + 1..(p + n) + m /\ i - p \in n + 1..n + m
            BY <4>0, <6>1
          <6>. QED  BY <4>0, <6>2 DEF p, n, m
        <5>2. all[i - b.offset] = more[(i - b.offset) - Len(data)]
          BY <1>2, <5>1 DEF all
        <5>3. (i - b.offset) - Len(data) = i - c.offset
          BY <1>1, <1>2, <2>2
        <5>. QED  BY <3>1, <4>1, <5>1, <5>2, <5>3
      <4>2. CASE i \notin c.offset + 1..e.offset
        <5>1. e.ptr[i] = c.ptr[i] /\ i \in 1..c.bytes
          BY <1>1, <1>2, <2>2, <3>1, <4>2
        <5>2. CASE i \in b.offset + 1..c.offset
          <6>1. i \in b.offset + 1..e.offset /\ i - b.offset \in 1..Len(data)
            <7>. HIDE DEF p, n, m
            <7>1. p + 1 <= i /\ i <= p + n
              BY <4>0, <5>2 DEF p
            <7>2. i \in p + 1..(p + n) + m /\ i - p \in 1..n
              BY <4>0, <7>1
            <7>. QED  BY <4>0, <7>2 DEF p, n
          <6>2. all[i - b.offset] = data[i - b.offset]
            BY <1>2, <6>1 DEF all
          <6>. QED  BY <2>2, <5>1, <5>2, <6>1, <6>2
        <5>3. CASE i \notin b.offset + 1..c.offset
          <6>1. i \notin b.offset + 1..e.offset
            BY <1>1, <1>2, <2>2, <3>1, <4>2, <5>3
          <6>. QED  BY <2>2, <5>1, <5>3, <6>1
        <5>. QED  BY <5>2, <5>3
      <4>. QED  BY <4>1, <4>2
    <3>. QED  BY <3>2, <3>3, <3>4 DEF Wrote
  <2>. QED  BY <2>3, <2>4, <2>5, <2>6 DEF Effect, all
<1>. QED  BY <1>3, <1>4

\* The bytes of a number are numbers.
LEMMA Bytes ==
  ASSUME NEW v \in Nat
  PROVE  /\ v % RADIX \in Int /\ v \div RADIX \in Nat /\ v \div (RADIX * RADIX) \in Nat
<1>1. RADIX \in Nat /\ RADIX > 0
  BY RadixAssumption
<1>2. RADIX * RADIX \in Nat /\ RADIX * RADIX > 0
  BY <1>1
<1>. DEFINE square == RADIX * RADIX
<1>3. v \div square \in Nat
  <2>. HIDE DEF square
  <2>1. square \in Nat /\ square > 0
    BY <1>2 DEF square
  <2>. QED  BY <2>1
<1>. QED  BY <1>1, <1>3

\* Two numbers in a row.
LEMMA Pair ==
  ASSUME NEW x \in Int, NEW y \in Int
  PROVE  <<x, y>> \in Seq(Int) /\ Len(<<x, y>>) = 2 /\ <<x, y>> = <<x>> \o <<y>>
<1>. DEFINE s == <<x>> \o <<y>>
            t == <<x, y>>
<1>1. <<x>> \in Seq(Int) /\ <<y>> \in Seq(Int) /\ t \in Seq(Int) /\ Len(t) = 2
  OBVIOUS
<1>2. s \in Seq(Int) /\ Len(s) = 2 /\ s[1] = x /\ s[2] = y
  BY <1>1, ConcatProperties
<1>3. t[1] = x /\ t[2] = y
  OBVIOUS
<1>. HIDE DEF s, t
<1>4. Len(s) = Len(t) /\ \A i \in 1..Len(s) : s[i] = t[i]
  BY <1>1, <1>2, <1>3
<1>5. s = t
  BY <1>1, <1>2, <1>4, SeqEqual
<1>. QED  BY <1>1, <1>5 DEF s, t

\* One sequence behind another.
LEMMA Joins ==
  ASSUME NEW s \in Seq(Int), NEW t \in Seq(Int)
  PROVE  s \o t \in Seq(Int) /\ Len(s \o t) = Len(s) + Len(t)
OBVIOUS

\* mov_buffer_w16 and mov_buffer_w32 write two and four bytes.
LEMMA HalfIs ==
  ASSUME NEW v \in Nat
  PROVE  /\ Boxes!Half(v) \in Seq(Int) /\ Len(Boxes!Half(v)) = 2
         /\ Boxes!Half(v) = <<(v \div RADIX) % RADIX>> \o <<v % RADIX>>
<1>1. (v \div RADIX) % RADIX \in Int /\ v % RADIX \in Int
  BY Bytes
<1>. DEFINE x == (v \div RADIX) % RADIX
            y == v % RADIX
<1>. HIDE DEF x, y
<1>2. x \in Int /\ y \in Int
  BY <1>1 DEF x, y
<1>3. <<x, y>> \in Seq(Int) /\ Len(<<x, y>>) = 2 /\ <<x, y>> = <<x>> \o <<y>>
  BY <1>2, Pair
<1>. QED  BY <1>3 DEF x, y, Boxes!Half

\* A size field: four bytes, two halves.
LEMMA WordIs ==
  ASSUME NEW v \in Nat
  PROVE  /\ Boxes!Word(v) \in Seq(Int) /\ Len(Boxes!Word(v)) = WORD
         /\ Boxes!Word(v) = Boxes!Half(v \div (RADIX * RADIX)) \o Boxes!Half(v)
<1>. DEFINE h == Boxes!Half(v \div (RADIX * RADIX))
            l == Boxes!Half(v)
<1>1. /\ h \in Seq(Int) /\ Len(h) = 2 /\ l \in Seq(Int) /\ Len(l) = 2
  BY Bytes, HalfIs
<1>. HIDE DEF h, l
<1>2. h \o l \in Seq(Int) /\ Len(h \o l) = Len(h) + Len(l)
  BY <1>1, Joins, Zenon
<1>3. Len(h \o l) = 4
  BY <1>1, <1>2
<1>. QED  BY <1>2, <1>3 DEF h, l, Boxes!Word, WORD

\* mov_buffer_w8 writes one byte, and nothing once the error is set.
LEMMA w8Does ==
  ASSUME NEW b, Good(b), NEW v \in Nat, NEW grown \in BOOLEAN
  PROVE  /\ b.error = 0 => Effect(b, <<v % RADIX>>, w8(b, v, grown))
         /\ b.error # 0 => w8(b, v, grown) = b
<1>1. <<v % RADIX>> \in Seq(Int)
  BY Bytes
<1>. QED  BY <1>1, WriteDoes, Sticky DEF w8

\* mov_buffer_w16 writes two.
LEMMA w16Does ==
  ASSUME NEW b, Good(b), NEW v \in Nat, NEW grown \in BOOLEAN
  PROVE  /\ b.error = 0 => Effect(b, Boxes!Half(v), w16(b, v, grown))
         /\ b.error # 0 => w16(b, v, grown) = b
<1>. DEFINE c == w8(b, v \div RADIX, grown)
            e == w8(c, v, grown)
<1>0. v \div RADIX \in Nat /\ w16(b, v, grown) = e
  BY Bytes DEF w16
<1>1. /\ b.error = 0 => Effect(b, <<(v \div RADIX) % RADIX>>, c)
      /\ b.error # 0 => c = b
  BY <1>0, w8Does
<1>. HIDE DEF c
<1>2. Good(c)
  BY <1>1 DEF Effect
<1>3. /\ c.error = 0 => Effect(c, <<v % RADIX>>, e)
      /\ c.error # 0 => e = c
  BY <1>2, w8Does
<1>. HIDE DEF e
<1>4. <<(v \div RADIX) % RADIX>> \in Seq(Int) /\ <<v % RADIX>> \in Seq(Int)
  BY <1>0, Bytes
<1>5. ASSUME b.error = 0
      PROVE  Effect(b, <<(v \div RADIX) % RADIX>> \o <<v % RADIX>>, e)
  BY <1>1, <1>3, <1>4, <1>5, OneAfterAnother
<1>. QED  BY <1>0, <1>1, <1>3, <1>5, HalfIs

\* mov_buffer_w32 writes four.
LEMMA w32Does ==
  ASSUME NEW b, Good(b), b.error = 0, NEW v \in Nat, NEW grown \in BOOLEAN
  PROVE  Effect(b, Boxes!Word(v), w32(b, v, grown))
<1>. DEFINE u == v \div (RADIX * RADIX)
            c == w16(b, u, grown)
            e == w16(c, v, grown)
<1>0. u \in Nat /\ w32(b, v, grown) = e
  BY Bytes DEF w32
<1>. HIDE DEF u
<1>1. Effect(b, Boxes!Half(u), c)
  BY <1>0, w16Does
<1>. HIDE DEF c
<1>2. Good(c)
  BY <1>1 DEF Effect
<1>3. /\ c.error = 0 => Effect(c, Boxes!Half(v), e)
      /\ c.error # 0 => e = c
  BY <1>2, w16Does
<1>. HIDE DEF e
<1>4. Boxes!Half(u) \in Seq(Int) /\ Boxes!Half(v) \in Seq(Int)
  BY <1>0, HalfIs
<1>5. Effect(b, Boxes!Half(u) \o Boxes!Half(v), e)
  BY <1>1, <1>3, <1>4, OneAfterAnother
<1>. QED  BY <1>0, <1>5, WordIs DEF u

\* mov_buffer_seek inside of what has been written.
LEMMA SeekDoes ==
  ASSUME NEW b, Good(b), b.error = 0, NEW at \in Nat, at <= b.bytes
  PROVE  LET c == seek(b, at)
         IN /\ Good(c) /\ c.bytes = b.bytes /\ c.ptr = b.ptr
            /\ c.error \in {0, E2BIG}
            /\ c.error = 0 => c.offset = at
            /\ c.error = E2BIG <=> at >= maxsize
<1>. DEFINE c == seek(b, at)
<1>1. /\ b \in [ptr : Seq(Int), bytes : Nat, offset : Nat, error : {0, E2BIG, ENOMEM}]
      /\ b.offset <= b.bytes /\ b.bytes <= Len(b.ptr) /\ Len(b.ptr) <= maxsize
      /\ maxsize \in Nat
  BY SizeAssumption DEF Good
<1>2. CASE at >= maxsize
  <2>1. c = [b EXCEPT !.error = E2BIG]
    BY <1>2 DEF seek
  <2>. HIDE DEF c
  <2>2. c.ptr = b.ptr /\ c.offset = b.offset /\ c.bytes = b.bytes /\ c.error = E2BIG
    BY <1>1, <2>1
  <2>3. c \in [ptr : Seq(Int), bytes : Nat, offset : Nat, error : {0, E2BIG, ENOMEM}]
    BY <1>1, <2>1
  <2>4. Good(c)
    BY <1>1, <2>2, <2>3 DEF Good
  <2>. QED  BY <1>2, <2>2, <2>4 DEF c, E2BIG
<1>3. CASE at < maxsize
  <2>1. c = [b EXCEPT !.offset = at]
    BY <1>1, <1>3 DEF seek
  <2>. HIDE DEF c
  <2>2. c.ptr = b.ptr /\ c.offset = at /\ c.bytes = b.bytes /\ c.error = 0
    BY <1>1, <2>1
  <2>3. c \in [ptr : Seq(Int), bytes : Nat, offset : Nat, error : {0, E2BIG, ENOMEM}]
    BY <1>1, <2>1
  <2>4. Good(c)
    BY <1>1, <2>2, <2>3 DEF Good
  <2>. QED  BY <1>1, <1>3, <2>2, <2>4 DEF c, E2BIG
<1>. QED  BY <1>1, <1>2, <1>3

\* c is b, which is at its end, with the word v at place at.
Patched(b, at, v, c) ==
  /\ c.offset = b.bytes /\ c.bytes = b.bytes
  /\ \A i \in 1..b.bytes :
       c.ptr[i] = IF i \in at + 1..at + WORD THEN Boxes!Word(v)[i - at] ELSE b.ptr[i]

\* mov_write_size: only the size is changed.  In a buffer that is full to the brim
\* the position cannot be restored.
LEMMA PatchDoes ==
  ASSUME NEW b, Good(b), b.error = 0, b.offset = b.bytes,
         NEW at \in Nat, at + WORD <= b.bytes, NEW v \in Nat
  PROVE  LET c == write_size(b, at, v)
         IN /\ Good(c)
            /\ c.error = 0 => Patched(b, at, v, c)
            /\ c.error = E2BIG => b.bytes >= maxsize
            /\ c.error # ENOMEM
<1>. DEFINE c == seek(b, at)
            d == w32(c, v, TRUE)
            e == seek(d, b.offset)
<1>1. /\ b.bytes \in Nat /\ b.bytes <= maxsize /\ maxsize \in Nat
      /\ at <= b.bytes /\ ~(at >= maxsize) /\ b.offset \in Nat
  BY SizeAssumption DEF Good, WORD
<1>2. Good(c) /\ c.bytes = b.bytes /\ c.ptr = b.ptr /\ c.error = 0 /\ c.offset = at
  BY <1>1, SeekDoes DEF E2BIG
<1>. HIDE DEF c
<1>3. Effect(c, Boxes!Word(v), d)
  BY <1>2, w32Does
<1>4. Len(Boxes!Word(v)) = WORD
  BY WordIs
<1>. HIDE DEF d
<1>5. Good(d) /\ d.error = 0
  <2>1. d.error # ENOMEM
    BY <1>2, <1>3, <1>4 DEF Effect
  <2>2. d.error # E2BIG
    BY <1>1, <1>2, <1>3, <1>4 DEF Effect, WORD
  <2>3. Good(d)
    BY <1>3 DEF Effect
  <2>. QED  BY <2>1, <2>2, <2>3 DEF Good
<1>6. Wrote(c, Boxes!Word(v), d)
  BY <1>3, <1>5 DEF Effect
<1>7. /\ d.bytes = b.bytes
      /\ \A i \in 1..b.bytes :
           d.ptr[i] = IF i \in at + 1..at + WORD THEN Boxes!Word(v)[i - at] ELSE b.ptr[i]
  <2>1. d.offset = at + WORD
    BY <1>2, <1>4, <1>6 DEF Wrote
  <2>2. d.bytes = b.bytes
    BY <1>1, <1>2, <1>6, <2>1 DEF Wrote, WORD
  <2>. QED  BY <1>2, <1>6, <2>1, <2>2 DEF Wrote
<1>8. /\ Good(e) /\ e.bytes = d.bytes /\ e.ptr = d.ptr /\ e.error \in {0, E2BIG}
      /\ e.error = 0 => e.offset = b.offset
      /\ e.error = E2BIG <=> b.offset >= maxsize
  BY <1>1, <1>5, <1>7, SeekDoes
<1>. HIDE DEF e
<1>9. write_size(b, at, v) = e
  BY DEF write_size, c, d, e
<1>. QED  BY <1>7, <1>8, <1>9 DEF Patched, E2BIG, ENOMEM
------------------------------------------------------------------------------
(* The invariant.                                                           *)

\* The empty buffer satisfies the invariant.
LEMMA InvInit == Init => IInv
<1>. SUFFICES ASSUME Init PROVE IInv
  OBVIOUS
<1>1. buffer = [ptr |-> <<>>, bytes |-> 0, offset |-> 0, error |-> 0]
  BY DEF Init
<1>2. buffer.ptr = <<>> /\ buffer.bytes = 0 /\ buffer.offset = 0 /\ buffer.error = 0
  BY <1>1
<1>3. buffer \in [ptr : Seq(Int), bytes : Nat, offset : Nat, error : {0, E2BIG, ENOMEM}]
  BY <1>1
<1>4. Good(buffer)
  BY <1>2, <1>3, SizeAssumption DEF Good
<1>5. open = <<>> /\ asked = 0
  BY DEF Init
<1>6. Nested(buffer, open)
  BY <1>2, <1>5 DEF Nested
<1>. QED  BY <1>2, <1>4, <1>5, <1>6 DEF IInv, E2BIG

\* A box begins at the end.
LEMMA OpenNests ==
  ASSUME NEW b, Good(b), NEW o, Nested(b, o), NEW data \in Seq(Int), Len(data) = WORD,
         NEW c, Good(c), Wrote(b, data, c)
  PROVE  Nested(c, Append(o, b.offset)) /\ c.bytes = b.bytes + WORD
<1>1. /\ b.offset \in Nat /\ b.bytes = b.offset /\ o \in Seq(Nat) /\ Len(o) \in Nat
      /\ c.offset = b.bytes + WORD /\ c.bytes = b.bytes + WORD
  BY DEF Good, Nested, Wrote, WORD
<1>. DEFINE p == Append(o, b.offset)
<1>2. /\ p \in Seq(Nat) /\ Len(p) = Len(o) + 1 /\ p[Len(o) + 1] = b.offset
      /\ \A i \in 1..Len(o) : p[i] = o[i]
  BY <1>1
<1>. HIDE DEF p
<1>3. \A i \in 1..Len(o) : o[i] \in Nat
  BY <1>1
<1>4. ASSUME NEW i \in 1..Len(p)
      PROVE  p[i] + WORD <= c.bytes
  <2>1. CASE i = Len(o) + 1
    BY <1>1, <1>2, <2>1 DEF WORD
  <2>2. CASE i # Len(o) + 1
    <3>1. i \in 1..Len(o)
      BY <1>1, <1>2, <2>2
    <3>2. p[i] = o[i] /\ o[i] \in Nat /\ o[i] + WORD <= b.bytes
      BY <1>2, <1>3, <3>1 DEF Nested
    <3>. QED  BY <1>1, <3>2 DEF WORD
  <2>. QED  BY <2>1, <2>2
<1>5. ASSUME NEW i \in 1..Len(p), NEW j \in 1..Len(p), i < j
      PROVE  p[i] + WORD <= p[j]
  <2>1. i \in 1..Len(o)
    BY <1>1, <1>2, <1>5
  <2>2. CASE j = Len(o) + 1
    <3>1. p[i] = o[i] /\ o[i] + WORD <= b.bytes
      BY <1>2, <2>1 DEF Nested
    <3>. QED  BY <1>1, <1>2, <2>2, <3>1
  <2>3. CASE j # Len(o) + 1
    <3>1. j \in 1..Len(o)
      BY <1>1, <1>2, <2>3
    <3>2. p[i] = o[i] /\ p[j] = o[j] /\ o[i] + WORD <= o[j]
      BY <1>2, <1>5, <2>1, <3>1 DEF Nested
    <3>. QED  BY <3>2
  <2>. QED  BY <2>2, <2>3
<1>. QED  BY <1>1, <1>2, <1>4, <1>5 DEF Nested, p

\* What is written behind the boxes that are open leaves them open.
LEMMA WriteNests ==
  ASSUME NEW b, Good(b), NEW o, Nested(b, o), NEW data \in Seq(Int),
         NEW c, Good(c), Wrote(b, data, c)
  PROVE  Nested(c, o) /\ c.bytes = b.bytes + Len(data)
<1>1. /\ b.offset \in Nat /\ b.bytes = b.offset /\ o \in Seq(Nat) /\ Len(o) \in Nat
      /\ Len(data) \in Nat
      /\ c.offset = b.bytes + Len(data)
      /\ c.bytes = IF c.offset > b.bytes THEN c.offset ELSE b.bytes
  BY DEF Good, Nested, Wrote
<1>2. c.bytes = c.offset /\ b.bytes <= c.bytes /\ c.bytes \in Nat
  BY <1>1
<1>3. \A i \in 1..Len(o) : o[i] \in Nat
  BY <1>1
<1>4. \A i \in 1..Len(o) : o[i] + WORD <= c.bytes
  <2>1. ASSUME NEW i \in 1..Len(o) PROVE o[i] + WORD <= c.bytes
    <3>1. o[i] + WORD <= b.bytes
      BY DEF Nested
    <3>2. o[i] + WORD \in Nat /\ b.bytes \in Nat
      BY <1>1, <1>3 DEF WORD
    <3>. QED  BY <1>2, <3>1, <3>2
  <2>. QED  BY <2>1
<1>. QED  BY <1>1, <1>2, <1>4 DEF Nested

\* A sequence without its last element.
LEMMA FrontIs ==
  ASSUME NEW S, NEW o \in Seq(S), o # <<>>
  PROVE  /\ Len(o) \in Nat \ {0} /\ Front(o) \in Seq(S) /\ Len(Front(o)) = Len(o) - 1
         /\ \A i \in 1..Len(o) - 1 : Front(o)[i] = o[i]
<1>1. Len(o) \in Nat \ {0} /\ \A i \in 1..Len(o) - 1 : o[i] \in S
  OBVIOUS
<1>2. /\ Front(o) \in Seq(S)
      /\ Len(Front(o)) = IF 1 <= Len(o) - 1 THEN (Len(o) - 1) - 1 + 1 ELSE 0
      /\ \A i \in 1..(Len(o) - 1) - 1 + 1 : Front(o)[i] = o[1 + i - 1]
  BY <1>1, SubSeqProperties DEF Front
<1>. DEFINE n == Len(o)
            f == Front(o)
<1>3. /\ n \in Nat \ {0} /\ Len(f) = IF 1 <= n - 1 THEN (n - 1) - 1 + 1 ELSE 0
      /\ \A i \in 1..(n - 1) - 1 + 1 : f[i] = o[1 + i - 1]
  BY <1>1, <1>2
<1>. HIDE DEF n, f
<1>4. Len(f) = n - 1 /\ (n - 1) - 1 + 1 = n - 1
  BY <1>3
<1>5. ASSUME NEW i \in 1..n - 1
      PROVE  f[i] = o[i]
  <2>1. i \in 1..(n - 1) - 1 + 1 /\ 1 + i - 1 = i
    BY <1>4
  <2>. QED  BY <1>3, <2>1
<1>. QED  BY <1>1, <1>2, <1>4, <1>5 DEF n, f

\* The innermost box is closed.
LEMMA CloseNests ==
  ASSUME NEW b, Good(b), NEW o, Nested(b, o), o # <<>>,
         NEW v, NEW c, Patched(b, Last(o), v, c)
  PROVE  Nested(c, Front(o)) /\ c.bytes = b.bytes
<1>1. o \in Seq(Nat) /\ Len(o) \in Nat \ {0}
  BY DEF Nested
<1>2. Front(o) \in Seq(Nat) /\ Len(Front(o)) = Len(o) - 1
      /\ \A i \in 1..Len(o) - 1 : Front(o)[i] = o[i]
  BY <1>1, FrontIs
<1>3. c.offset = c.bytes /\ c.bytes = b.bytes
  BY DEF Patched
<1>. DEFINE f == Front(o)
<1>4. /\ f \in Seq(Nat) /\ Len(f) = Len(o) - 1
      /\ \A i \in 1..Len(f) : f[i] = o[i] /\ i \in 1..Len(o)
  BY <1>1, <1>2
<1>. HIDE DEF f
<1>5. \A i \in 1..Len(f) : f[i] + WORD <= c.bytes
  BY <1>3, <1>4 DEF Nested
<1>6. \A i, j \in 1..Len(f) : i < j => f[i] + WORD <= f[j]
  BY <1>4 DEF Nested
<1>. QED  BY <1>3, <1>4, <1>5, <1>6 DEF Nested, f

\* A box writer writes a size field that is to be filled in.
LEMMA OpenDoes ==
  ASSUME IInv, Open
  PROVE  Effect(buffer, Boxes!Word(0), buffer')
<1>1. Good(buffer) /\ buffer.error = 0
  BY DEF IInv, Open
<1>2. PICK grown \in GrowResults : buffer' = w32(buffer, 0, grown)
  BY DEF Open
<1>3. grown \in BOOLEAN
  BY ChunkAssumption
<1>. QED  BY <1>1, <1>2, <1>3, w32Does

\* Data is written.
LEMMA WriteIsDone ==
  ASSUME IInv, NEW chunk \in Chunks, NEW grown \in GrowResults, buffer.error = 0,
         buffer' = write(buffer, chunk, grown)
  PROVE  chunk \in Seq(Int) /\ Effect(buffer, chunk, buffer')
<1>1. Good(buffer) /\ grown \in BOOLEAN
  BY ChunkAssumption DEF IInv
<1>2. chunk \in Seq(Int)
  <2>1. chunk \in Seq(0..RADIX - 1) /\ RADIX \in Nat
    BY ChunkAssumption, RadixAssumption
  <2>2. \A i \in 1..Len(chunk) : chunk[i] \in Int
    BY <2>1
  <2>. QED  BY <2>1, <2>2
<1>. QED  BY <1>1, <1>2, WriteDoes

\* A size is patched.
LEMMA CloseDoes ==
  ASSUME IInv, Close
  PROVE  /\ Good(buffer') /\ buffer'.error # ENOMEM
         /\ buffer'.error = 0 =>
              Patched(buffer, Last(open), buffer.offset - Last(open), buffer')
         /\ buffer'.error = E2BIG => buffer.bytes >= maxsize
<1>1. Good(buffer) /\ buffer.error = 0 /\ Nested(buffer, open) /\ open # <<>>
  BY DEF IInv, Close
<1>2. /\ open \in Seq(Nat) /\ Len(open) \in Nat \ {0} /\ Last(open) \in Nat
      /\ Last(open) + WORD <= buffer.bytes /\ buffer.offset = buffer.bytes
      /\ buffer.bytes \in Nat
  BY <1>1 DEF Nested, Last, Good
<1>3. buffer.offset - Last(open) \in Nat
  BY <1>2 DEF WORD
<1>4. buffer' = write_size(buffer, Last(open), buffer.offset - Last(open))
  BY DEF Close
<1>. QED  BY <1>1, <1>2, <1>3, <1>4, PatchDoes

\* The file has been handed out, or given up.
LEMMA Emptied ==
  ASSUME IInv, buffer' = [buffer EXCEPT !.offset = 0, !.bytes = 0]
  PROVE  /\ Good(buffer') /\ buffer'.error = buffer.error /\ buffer'.bytes = 0
         /\ Nested(buffer', <<>>)
<1>1. /\ buffer \in [ptr : Seq(Int), bytes : Nat, offset : Nat, error : {0, E2BIG, ENOMEM}]
      /\ Len(buffer.ptr) <= maxsize
  BY DEF IInv, Good
<1>2. /\ buffer'.ptr = buffer.ptr /\ buffer'.error = buffer.error
      /\ buffer'.offset = 0 /\ buffer'.bytes = 0
  BY <1>1
<1>3. buffer' \in [ptr : Seq(Int), bytes : Nat, offset : Nat, error : {0, E2BIG, ENOMEM}]
  BY <1>1
<1>4. Good(buffer')
  BY <1>1, <1>2, <1>3 DEF Good
<1>. QED  BY <1>2, <1>4 DEF Nested

\* The invariant is inductive.
LEMMA InvStep == IInv /\ [Next]_vars => IInv'
<1>. SUFFICES ASSUME IInv, [Next]_vars PROVE IInv'
  OBVIOUS
<1>0. /\ Good(buffer) /\ asked \in Nat /\ buffer.bytes \in Nat /\ maxsize \in Nat
      /\ buffer.error = 0 =>
           Nested(buffer, open) /\ asked = buffer.bytes /\ buffer.offset = buffer.bytes
  BY SizeAssumption DEF IInv, Nested, Good
<1>1. CASE Open
  <2>1. /\ Effect(buffer, Boxes!Word(0), buffer') /\ buffer.error = 0
        /\ open' = Append(open, buffer.offset) /\ asked' = asked + WORD
    BY <1>1, OpenDoes DEF Open
  <2>2. Boxes!Word(0) \in Seq(Int) /\ Len(Boxes!Word(0)) = WORD
    BY WordIs
  <2>3. Good(buffer') /\ asked' \in Nat
    BY <1>0, <2>1 DEF Effect, WORD
  <2>4. buffer'.error = 0 => Nested(buffer', open') /\ buffer'.bytes = buffer.bytes + WORD
    BY <1>0, <2>1, <2>2, <2>3, OpenNests DEF Effect
  <2>5. buffer'.error = E2BIG => asked' >= maxsize
    <3>1. asked' = buffer.offset + WORD /\ buffer.offset \in Nat
      BY <1>0, <2>1
    <3>2. buffer'.error = E2BIG => buffer.offset + WORD > maxsize
      BY <2>1, <2>2 DEF Effect
    <3>. QED  BY <1>0, <3>1, <3>2 DEF WORD
  <2>. QED  BY <1>0, <2>1, <2>3, <2>4, <2>5 DEF IInv
<1>2. CASE Write
  <2>1. PICK chunk \in Chunks, grown \in GrowResults :
          buffer' = write(buffer, chunk, grown) /\ asked' = asked + Len(chunk)
    BY <1>2 DEF Write
  <2>2. buffer.error = 0 /\ open' = open
    BY <1>2 DEF Write
  <2>3. chunk \in Seq(Int) /\ Effect(buffer, chunk, buffer') /\ Len(chunk) \in Nat
    <3>1. chunk \in Seq(Int) /\ Effect(buffer, chunk, buffer')
      BY <2>1, <2>2, WriteIsDone
    <3>. QED  BY <3>1
  <2>4. Good(buffer') /\ asked' \in Nat
    BY <1>0, <2>1, <2>3 DEF Effect
  <2>5. buffer'.error = 0 =>
          Nested(buffer', open') /\ buffer'.bytes = buffer.bytes + Len(chunk)
    BY <1>0, <2>2, <2>3, <2>4, WriteNests DEF Effect
  <2>6. buffer'.error = E2BIG => asked' >= maxsize
    <3>1. asked' = buffer.offset + Len(chunk) /\ buffer.offset \in Nat
      BY <1>0, <2>1, <2>2
    <3>2. buffer'.error = E2BIG => buffer.offset + Len(chunk) > maxsize
      BY <2>3 DEF Effect
    <3>. QED  BY <1>0, <2>3, <3>1, <3>2
  <2>. QED  BY <1>0, <2>1, <2>2, <2>4, <2>5, <2>6 DEF IInv
<1>3. CASE Close
  <2>1. /\ Good(buffer')
        /\ buffer'.error = 0 =>
             Patched(buffer, Last(open), buffer.offset - Last(open), buffer')
        /\ buffer'.error = E2BIG => buffer.bytes >= maxsize
    BY <1>3, CloseDoes
  <2>2. buffer.error = 0 /\ open # <<>> /\ open' = Front(open) /\ asked' = asked
    BY <1>3 DEF Close
  <2>3. buffer'.error = 0 => Nested(buffer', open') /\ buffer'.bytes = buffer.bytes
    BY <1>0, <2>1, <2>2, CloseNests
  <2>. QED  BY <1>0, <2>1, <2>2, <2>3 DEF IInv
<1>4. CASE Take
  <2>1. /\ buffer' = [buffer EXCEPT !.offset = 0, !.bytes = 0] /\ buffer.error = 0
        /\ open' = <<>> /\ asked' = 0
    BY <1>4 DEF Take
  <2>2. /\ Good(buffer') /\ buffer'.error = 0 /\ buffer'.bytes = 0
        /\ Nested(buffer', open')
    BY <2>1, Emptied
  <2>. QED  BY <2>1, <2>2 DEF IInv, E2BIG
<1>5. CASE GiveUp
  <2>1. /\ buffer' = [buffer EXCEPT !.offset = 0, !.bytes = 0] /\ buffer.error # 0
        /\ asked' = asked
    BY <1>5 DEF GiveUp
  <2>2. Good(buffer') /\ buffer'.error = buffer.error
    BY <2>1, Emptied
  <2>. QED  BY <1>0, <2>1, <2>2 DEF IInv
<1>6. CASE UNCHANGED vars
  BY <1>6 DEF vars, IInv, Nested, Good
<1>. QED  BY <1>1, <1>2, <1>3, <1>4, <1>5, <1>6 DEF Next

\* The invariant of the buffer.
THEOREM Invariance == Spec => []IInv
<1>. QED  BY InvInit, InvStep, PTL DEF Spec

\* A file fails for its size only if it does not leave a byte of maxsize free; one
\* that is too long never goes through; nothing is written outside of the memory.
THEOREM FailsOnlyForSize == Spec => []FailsForSize
<1>1. IInv => FailsForSize
  <2>. SUFFICES ASSUME IInv PROVE FailsForSize
    OBVIOUS
  <2>1. /\ buffer.bytes <= capacity(buffer) /\ capacity(buffer) <= maxsize
        /\ buffer.bytes \in Nat /\ maxsize \in Nat /\ capacity(buffer) \in Nat
    BY SizeAssumption DEF IInv, Good, capacity
  <2>2. asked > maxsize => buffer.error # 0
    BY <2>1 DEF IInv
  <2>. QED  BY <2>1, <2>2 DEF IInv, FailsForSize
<1>. QED  BY <1>1, Invariance, PTL
------------------------------------------------------------------------------
(* The nested boxes.                                                        *)

\* Where piece i of the contents begins and ends, and the pieces.
Start(o, i) == IF i = 1 THEN 1 ELSE o[i - 1] + WORD + 1
End(b, o, i) == IF i = Len(o) + 1 THEN b.bytes ELSE o[i]
Pieces(b, o) == [i \in 1..Len(o) + 1 |-> SubSeq(b.ptr, Start(o, i), End(b, o, i))]

\* The pieces are inside of what has been written.
LEMMA PieceIs ==
  ASSUME NEW b, Good(b), NEW o, Nested(b, o), NEW i \in 1..Len(o) + 1
  PROVE  /\ Start(o, i) \in Nat \ {0} /\ End(b, o, i) \in Nat
         /\ End(b, o, i) >= Start(o, i) - 1 /\ End(b, o, i) <= b.bytes
         /\ SubSeq(b.ptr, Start(o, i), End(b, o, i)) \in Seq(Int)
         /\ Len(SubSeq(b.ptr, Start(o, i), End(b, o, i))) =
              (End(b, o, i) - Start(o, i)) + 1
<1>. DEFINE s == Start(o, i)
            e == End(b, o, i)
<1>1. /\ o \in Seq(Nat) /\ Len(o) \in Nat /\ b.bytes \in Nat /\ b.bytes <= Len(b.ptr)
      /\ b.ptr \in Seq(Int) /\ Len(b.ptr) \in Nat
  BY DEF Good, Nested
<1>2. \A j \in 1..Len(o) : o[j] \in Nat /\ o[j] + WORD <= b.bytes
  BY <1>1 DEF Nested
<1>3. s \in Nat \ {0} /\ (i = 1 \/ (i - 1 \in 1..Len(o) /\ s = o[i - 1] + WORD + 1))
  <2>1. CASE i = 1
    BY <2>1 DEF Start
  <2>2. CASE i # 1
    <3>1. i - 1 \in 1..Len(o)
      BY <1>1, <2>2
    <3>. QED  BY <1>2, <2>2, <3>1 DEF Start, WORD
  <2>. QED  BY <2>1, <2>2
<1>4. /\ e \in Nat /\ e <= b.bytes
      /\ (i = Len(o) + 1 /\ e = b.bytes) \/ (i \in 1..Len(o) /\ e = o[i])
  <2>1. CASE i = Len(o) + 1
    BY <1>1, <2>1 DEF End
  <2>2. CASE i # Len(o) + 1
    <3>1. i \in 1..Len(o)
      BY <1>1, <2>2
    <3>. QED  BY <1>1, <1>2, <2>2, <3>1 DEF End, WORD
  <2>. QED  BY <2>1, <2>2
<1>5. e >= s - 1
  <2>1. CASE i = 1
    BY <1>4, <2>1 DEF Start
  <2>2. CASE i # 1 /\ i = Len(o) + 1
    <3>1. i - 1 \in 1..Len(o) /\ s = o[i - 1] + WORD + 1 /\ e = b.bytes
      BY <1>1, <1>3, <1>4, <2>2
    <3>2. o[i - 1] \in Nat /\ o[i - 1] + WORD <= b.bytes
      BY <1>2, <3>1
    <3>. HIDE DEF s, e
    <3>. QED  BY <1>1, <3>1, <3>2 DEF WORD
  <2>3. CASE i # 1 /\ i # Len(o) + 1
    <3>1. i - 1 \in 1..Len(o) /\ i \in 1..Len(o) /\ i - 1 < i
      BY <1>1, <1>3, <1>4, <2>3
    <3>2. o[i - 1] + WORD <= o[i] /\ o[i - 1] \in Nat /\ o[i] \in Nat
      BY <1>2, <3>1 DEF Nested
    <3>. QED  BY <1>3, <1>4, <2>3, <3>2 DEF WORD
  <2>. QED  BY <2>1, <2>2, <2>3
<1>. HIDE DEF s, e
<1>6. \A k \in s..e : b.ptr[k] \in Int
  BY <1>1, <1>3, <1>4
<1>7. s \in Int /\ e \in Int
  BY <1>3, <1>4
<1>8. /\ SubSeq(b.ptr, s, e) \in Seq(Int)
      /\ Len(SubSeq(b.ptr, s, e)) = IF s <= e THEN e - s + 1 ELSE 0
  BY <1>6, <1>7, SubSeqProperties
<1>9. Len(SubSeq(b.ptr, s, e)) = (e - s) + 1
  BY <1>3, <1>4, <1>5, <1>8
<1>. QED  BY <1>3, <1>4, <1>5, <1>8, <1>9 DEF s, e

\* The contents of the file are its pieces.
LEMMA PiecesAre ==
  ASSUME NEW b, Good(b), NEW o, Nested(b, o)
  PROVE  Pieces(b, o) \in Seq(Seq(Int)) /\ Len(Pieces(b, o)) = Len(o) + 1
<1>1. Len(o) + 1 \in Nat
  BY DEF Nested
<1>2. \A i \in 1..Len(o) + 1 : SubSeq(b.ptr, Start(o, i), End(b, o, i)) \in Seq(Int)
  BY PieceIs
<1>. DEFINE n == Len(o) + 1
            q == [i \in 1..n |-> SubSeq(b.ptr, Start(o, i), End(b, o, i))]
<1>3. \A i \in 1..n : q[i] \in Seq(Int)
  BY <1>2
<1>4. q \in [1..n -> Seq(Int)]
  BY <1>3
<1>. HIDE DEF n
<1>5. n \in Nat
  BY <1>1 DEF n
<1>. HIDE DEF q
<1>6. q \in Seq(Seq(Int)) /\ Len(q) = n
  BY <1>4, <1>5
<1>. QED  BY <1>6 DEF Pieces, q, n

\* Two stretches of memory with the same bytes.
LEMMA SameBytes ==
  ASSUME NEW p, NEW q, NEW s \in Int, NEW e \in Int,
         \A k \in s..e : p[k] \in Int /\ q[k] = p[k]
  PROVE  SubSeq(q, s, e) = SubSeq(p, s, e)
<1>. DEFINE P == SubSeq(p, s, e)
            Q == SubSeq(q, s, e)
<1>1. /\ P \in Seq(Int) /\ Len(P) = IF s <= e THEN e - s + 1 ELSE 0
      /\ \A i \in 1..e - s + 1 : P[i] = p[s + i - 1]
  BY SubSeqProperties
<1>2. /\ Q \in Seq(Int) /\ Len(Q) = IF s <= e THEN e - s + 1 ELSE 0
      /\ \A i \in 1..e - s + 1 : Q[i] = q[s + i - 1]
  <2>1. \A k \in s..e : q[k] \in Int
    OBVIOUS
  <2>. QED  BY <2>1, SubSeqProperties
<1>3. \A i \in 1..e - s + 1 : s + i - 1 \in s..e
  OBVIOUS
<1>. HIDE DEF P, Q
<1>4. Len(P) = Len(Q) /\ \A i \in 1..Len(P) : i \in 1..e - s + 1
  BY <1>1, <1>2
<1>5. \A i \in 1..Len(P) : P[i] = Q[i]
  BY <1>1, <1>2, <1>3, <1>4
<1>6. P = Q
  BY <1>1, <1>2, <1>4, <1>5, SeqEqual
<1>. QED  BY <1>6 DEF P, Q

\* A stretch of memory that goes on with data.
GoesOn(p, q, s, e, data, end) ==
  /\ s \in Nat \ {0} /\ e \in Nat /\ e >= s - 1
  /\ data \in Seq(Int) /\ end \in Nat /\ end = e + Len(data)
  /\ \A k \in s..e : p[k] \in Int /\ q[k] = p[k]
  /\ \A k \in e + 1..end : q[k] = data[k - e]

Continued(p, q, s, e, data, end) == SubSeq(q, s, end) = SubSeq(p, s, e) \o data

\* Such a stretch is one sequence of bytes behind the other.
LEMMA MoreBytes ==
  ASSUME NEW p, NEW q, NEW s, NEW e, NEW data, NEW end, GoesOn(p, q, s, e, data, end)
  PROVE  Continued(p, q, s, e, data, end)
<1>. USE DEF GoesOn
<1>. DEFINE P == SubSeq(p, s, e)
            Q == SubSeq(q, s, end)
            n == e - s + 1
            m == Len(data)
<1>0. n \in Nat /\ m \in Nat /\ end - s + 1 = n + m /\ \A i \in 1..m : data[i] \in Int
  OBVIOUS
<1>1. /\ P \in Seq(Int) /\ Len(P) = IF s <= e THEN e - s + 1 ELSE 0
      /\ \A i \in 1..e - s + 1 : P[i] = p[s + i - 1]
  BY SubSeqProperties
<1>2. \A k \in s..end : q[k] \in Int
  <2>1. ASSUME NEW k \in s..end PROVE q[k] \in Int
    <3>1. CASE k <= e
      <4>1. k \in s..e
        BY <3>1
      <4>. QED  BY <4>1
    <3>2. CASE ~(k <= e)
      <4>1. k \in e + 1..end /\ k - e \in 1..m
        BY <3>2
      <4>2. q[k] = data[k - e] /\ data[k - e] \in Int
        BY <1>0, <4>1
      <4>. QED  BY <4>2
    <3>. QED  BY <3>1, <3>2
  <2>. QED  BY <2>1
<1>3. /\ Q \in Seq(Int) /\ Len(Q) = IF s <= end THEN end - s + 1 ELSE 0
      /\ \A i \in 1..end - s + 1 : Q[i] = q[s + i - 1]
  BY <1>2, SubSeqProperties
<1>. HIDE DEF P, Q
<1>4. Len(P) = n /\ Len(Q) = n + m
  BY <1>0, <1>1, <1>3
<1>5. /\ P \o data \in Seq(Int) /\ Len(P \o data) = n + m
      /\ \A i \in 1..n + m : (P \o data)[i] = IF i <= n THEN P[i] ELSE data[i - n]
  <2>1. /\ P \o data \in Seq(Int) /\ Len(P \o data) = Len(P) + Len(data)
        /\ \A i \in 1..Len(P) + Len(data) :
             (P \o data)[i] = IF i <= Len(P) THEN P[i] ELSE data[i - Len(P)]
    BY <1>1, ConcatProperties
  <2>2. Len(P) + Len(data) = n + m
    BY <1>4
  <2>. QED  BY <1>4, <2>1, <2>2
<1>6. ASSUME NEW i \in 1..n + m
      PROVE  Q[i] = (P \o data)[i]
  <2>1. Q[i] = q[s + i - 1]
    BY <1>0, <1>3
  <2>2. CASE i <= n
    <3>1. i \in 1..e - s + 1 /\ s + i - 1 \in s..e
      BY <1>0, <2>2
    <3>. QED  BY <1>1, <1>5, <2>1, <2>2, <3>1
  <2>3. CASE ~(i <= n)
    <3>1. s + i - 1 \in e + 1..end /\ (s + i - 1) - e = i - n
      BY <1>0, <2>3
    <3>2. q[s + i - 1] = data[i - n]
      BY <3>1
    <3>. QED  BY <1>5, <2>1, <2>3, <3>2
  <2>. QED  BY <2>2, <2>3
<1>. DEFINE R == P \o data
<1>. HIDE DEF R, n, m
<1>7. R \in Seq(Int) /\ Len(R) = Len(Q) /\ \A i \in 1..Len(Q) : Q[i] = R[i]
  BY <1>4, <1>5, <1>6 DEF R
<1>8. Q = R
  BY <1>3, <1>7, SeqEqual
<1>. QED  BY <1>8 DEF P, Q, R, Continued

\* A box begins: an empty piece.
LEMMA OpenPieces ==
  ASSUME NEW b, Good(b), NEW o, Nested(b, o), NEW data \in Seq(Int), Len(data) = WORD,
         NEW c, Good(c), Wrote(b, data, c)
  PROVE  Pieces(c, Append(o, b.offset)) = Append(Pieces(b, o), <<>>)
<1>. DEFINE p == Append(o, b.offset)
            n == Len(o)
            P == Pieces(b, o)
            Q == Pieces(c, p)
            R == Append(P, <<>>)
<1>1. /\ Nested(c, p) /\ c.bytes = b.bytes + WORD /\ b.bytes = b.offset
      /\ o \in Seq(Nat) /\ n \in Nat /\ b.offset \in Nat
  <2>1. Nested(c, p) /\ c.bytes = b.bytes + WORD
    BY OpenNests
  <2>2. b.bytes = b.offset /\ o \in Seq(Nat) /\ n \in Nat /\ b.offset \in Nat
    BY DEF Nested, Good
  <2>. QED  BY <2>1, <2>2
<1>2. /\ Len(p) = n + 1 /\ p[n + 1] = b.offset
      /\ \A i \in 1..n : p[i] = o[i]
  BY <1>1
<1>3. P \in Seq(Seq(Int)) /\ Len(P) = n + 1 /\ Q \in Seq(Seq(Int)) /\ Len(Q) = n + 2
  <2>1. P \in Seq(Seq(Int)) /\ Len(P) = n + 1
    BY PiecesAre
  <2>2. Q \in Seq(Seq(Int)) /\ Len(Q) = Len(p) + 1
    BY <1>1, PiecesAre
  <2>. HIDE DEF P, Q, p
  <2>. QED  BY <1>1, <1>2, <2>1, <2>2
<1>4. <<>> \in Seq(Int)
  OBVIOUS
<1>5. /\ R \in Seq(Seq(Int)) /\ Len(R) = n + 2 /\ R[n + 2] = <<>>
      /\ \A i \in 1..n + 1 : R[i] = P[i]
  <2>. HIDE DEF P
  <2>. QED  BY <1>1, <1>3, <1>4
<1>6. ASSUME NEW i \in 1..n + 1
      PROVE  Q[i] = P[i]
  <2>. DEFINE s == Start(o, i)
              e == End(b, o, i)
  <2>1. s \in Nat \ {0} /\ e \in Nat /\ e <= b.bytes
    BY PieceIs
  <2>2. Start(p, i) = s
    <3>1. i = 1 \/ i - 1 \in 1..n
      BY <1>1
    <3>. QED  BY <1>2, <3>1 DEF Start
  <2>3. End(c, p, i) = e
    <3>1. i # Len(p) + 1 /\ (i = n + 1 \/ i \in 1..n)
      BY <1>1, <1>2
    <3>2. CASE i = n + 1
      BY <1>1, <1>2, <3>1, <3>2 DEF End
    <3>3. CASE i # n + 1
      BY <1>1, <1>2, <3>1, <3>3 DEF End
    <3>. QED  BY <3>2, <3>3
  <2>4. Q[i] = SubSeq(c.ptr, s, e) /\ P[i] = SubSeq(b.ptr, s, e)
    <3>1. i \in 1..Len(p) + 1
      BY <1>1, <1>2
    <3>. HIDE DEF s, e, p
    <3>2. Q[i] = SubSeq(c.ptr, Start(p, i), End(c, p, i))
      BY <3>1 DEF Pieces
    <3>3. P[i] = SubSeq(b.ptr, Start(o, i), End(b, o, i))
      BY DEF Pieces
    <3>. QED  BY <2>2, <2>3, <3>2, <3>3 DEF s, e
  <2>. HIDE DEF s, e
  <2>5. \A k \in s..e : b.ptr[k] \in Int /\ c.ptr[k] = b.ptr[k]
    <3>1. \A k \in s..e : k \in 1..b.bytes /\ k \in 1..c.bytes /\ k \notin b.offset + 1..c.offset
      BY <1>1, <2>1 DEF WORD
    <3>2. \A k \in 1..b.bytes : b.ptr[k] \in Int
      BY DEF Good
    <3>. QED  BY <3>1, <3>2 DEF Wrote
  <2>6. SubSeq(c.ptr, s, e) = SubSeq(b.ptr, s, e)
    BY <2>1, <2>5, SameBytes
  <2>. QED  BY <2>4, <2>6
<1>7. Q[n + 2] = <<>>
  <2>1. Start(p, n + 2) = b.offset + WORD + 1 /\ End(c, p, n + 2) = b.offset + WORD
    <3>1. n + 2 # 1 /\ (n + 2) - 1 = n + 1 /\ n + 2 = Len(p) + 1
      BY <1>1, <1>2
    <3>. QED  BY <1>1, <1>2, <3>1 DEF Start, End
  <2>2. n + 2 \in 1..Len(p) + 1
    BY <1>1, <1>2
  <2>3. Q[n + 2] = SubSeq(c.ptr, Start(p, n + 2), End(c, p, n + 2))
    <3>. HIDE DEF p
    <3>. QED  BY <2>2 DEF Pieces
  <2>4. b.offset + WORD + 1 \in Int /\ b.offset + WORD \in Int
        /\ b.offset + WORD < b.offset + WORD + 1
    BY <1>1 DEF WORD
  <2>. QED  BY <2>1, <2>3, <2>4, SubSeqEmpty
<1>. HIDE DEF P, Q, R, p, n
<1>8. Len(Q) = Len(R) /\ \A i \in 1..Len(Q) : Q[i] = R[i]
  <2>1. n \in Nat /\ \A i \in 1..n + 2 : i \in 1..n + 1 \/ i = n + 2
    BY <1>1
  <2>. QED  BY <1>3, <1>5, <1>6, <1>7, <2>1
<1>9. Q = R
  BY <1>3, <1>5, <1>8, SeqEqual
<1>. QED  BY <1>9 DEF Q, R, P, p

\* Data is written: the last piece goes on.
LEMMA WritePieces ==
  ASSUME NEW b, Good(b), NEW o, Nested(b, o), NEW data \in Seq(Int),
         NEW c, Good(c), Wrote(b, data, c)
  PROVE  LET P == Pieces(b, o)
         IN Pieces(c, o) = Append(SubSeq(P, 1, Len(P) - 1), P[Len(P)] \o data)
<1>. DEFINE n == Len(o)
            P == Pieces(b, o)
            Q == Pieces(c, o)
            F == SubSeq(P, 1, Len(P) - 1)
            R == Append(F, P[Len(P)] \o data)
<1>1. /\ Nested(c, o) /\ c.bytes = b.bytes + Len(data) /\ b.bytes = b.offset
      /\ o \in Seq(Nat) /\ n \in Nat /\ b.offset \in Nat /\ Len(data) \in Nat
      /\ c.offset = c.bytes
  <2>1. Nested(c, o) /\ c.bytes = b.bytes + Len(data)
    BY WriteNests
  <2>2. b.bytes = b.offset /\ o \in Seq(Nat) /\ n \in Nat /\ b.offset \in Nat
    BY DEF Nested, Good
  <2>3. c.offset = c.bytes
    BY <2>1 DEF Nested
  <2>. QED  BY <2>1, <2>2, <2>3
<1>2. P \in Seq(Seq(Int)) /\ Len(P) = n + 1
  BY PiecesAre
<1>3. Q \in Seq(Seq(Int)) /\ Len(Q) = n + 1
  BY <1>1, PiecesAre
<1>4. ASSUME NEW i \in 1..n
      PROVE  Q[i] = P[i]
  <2>. DEFINE s == Start(o, i)
              e == End(b, o, i)
  <2>1. s \in Nat \ {0} /\ e \in Nat /\ e <= b.bytes
    <3>1. i \in 1..Len(o) + 1
      BY <1>1
    <3>. QED  BY <3>1, PieceIs
  <2>2. End(c, o, i) = e
    BY <1>1 DEF End
  <2>3. Q[i] = SubSeq(c.ptr, s, e) /\ P[i] = SubSeq(b.ptr, s, e)
    <3>1. i \in 1..Len(o) + 1
      BY <1>1
    <3>. HIDE DEF s, e
    <3>2. Q[i] = SubSeq(c.ptr, Start(o, i), End(c, o, i))
      BY <3>1 DEF Pieces
    <3>3. P[i] = SubSeq(b.ptr, Start(o, i), End(b, o, i))
      BY <3>1 DEF Pieces
    <3>. QED  BY <2>2, <3>2, <3>3 DEF s, e
  <2>. HIDE DEF s, e
  <2>4. \A k \in s..e : b.ptr[k] \in Int /\ c.ptr[k] = b.ptr[k]
    <3>1. \A k \in s..e : k \in 1..b.bytes /\ k \in 1..c.bytes /\ k \notin b.offset + 1..c.offset
      BY <1>1, <2>1
    <3>2. \A k \in 1..b.bytes : b.ptr[k] \in Int
      BY DEF Good
    <3>. QED  BY <3>1, <3>2 DEF Wrote
  <2>5. SubSeq(c.ptr, s, e) = SubSeq(b.ptr, s, e)
    BY <2>1, <2>4, SameBytes
  <2>. QED  BY <2>3, <2>5
<1>5. Q[n + 1] = P[n + 1] \o data
  <2>. DEFINE s == Start(o, n + 1)
  <2>0. n + 1 \in 1..Len(o) + 1
    BY <1>1
  <2>1. /\ End(b, o, n + 1) = b.bytes /\ End(c, o, n + 1) = c.bytes
        /\ s \in Nat \ {0} /\ b.bytes \in Nat /\ b.bytes >= s - 1
    <3>1. End(b, o, n + 1) = b.bytes /\ End(c, o, n + 1) = c.bytes
      BY DEF End
    <3>2. s \in Nat \ {0} /\ End(b, o, n + 1) >= s - 1
      BY <2>0, PieceIs
    <3>. QED  BY <1>1, <3>1, <3>2
  <2>2. Q[n + 1] = SubSeq(c.ptr, s, c.bytes) /\ P[n + 1] = SubSeq(b.ptr, s, b.bytes)
    BY <2>0, <2>1 DEF Pieces
  <2>. HIDE DEF s
  <2>3. \A k \in s..b.bytes : b.ptr[k] \in Int /\ c.ptr[k] = b.ptr[k]
    <3>1. \A k \in s..b.bytes : k \in 1..b.bytes /\ k \in 1..c.bytes /\ k \notin b.offset + 1..c.offset
      BY <1>1, <2>1
    <3>2. \A k \in 1..b.bytes : b.ptr[k] \in Int
      BY DEF Good
    <3>. QED  BY <3>1, <3>2 DEF Wrote
  <2>4. \A k \in b.bytes + 1..c.bytes : c.ptr[k] = data[k - b.bytes]
    <3>1. \A k \in b.bytes + 1..c.bytes : k \in 1..c.bytes /\ k \in b.offset + 1..c.offset
      BY <1>1
    <3>. QED  BY <1>1, <3>1 DEF Wrote
  <2>5. c.bytes \in Nat
    BY <1>1
  <2>6. SubSeq(c.ptr, s, c.bytes) = SubSeq(b.ptr, s, b.bytes) \o data
    <3>1. c.bytes = b.bytes + Len(data) /\ b.bytes >= s - 1
      BY <1>1, <2>1
    <3>. DEFINE p == b.ptr
                q == c.ptr
                e == b.bytes
                end == c.bytes
    <3>2. GoesOn(p, q, s, e, data, end)
      BY <2>1, <2>3, <2>4, <2>5, <3>1 DEF GoesOn
    <3>. HIDE DEF p, q, e, end
    <3>3. Continued(p, q, s, e, data, end)
      BY <3>2, MoreBytes, Zenon
    <3>. QED  BY <3>3 DEF p, q, e, end, Continued
  <2>. QED  BY <2>2, <2>6
<1>. HIDE DEF P, Q
<1>6. /\ F \in Seq(Seq(Int)) /\ Len(F) = n /\ \A i \in 1..n : F[i] = P[i]
  <2>1. P # <<>> /\ F = Front(P)
    BY <1>1, <1>2 DEF Front
  <2>. HIDE DEF F
  <2>2. /\ F \in Seq(Seq(Int)) /\ Len(F) = Len(P) - 1
        /\ \A i \in 1..Len(P) - 1 : F[i] = P[i]
    BY <1>2, <2>1, FrontIs
  <2>3. Len(P) - 1 = n
    BY <1>1, <1>2
  <2>. QED  BY <2>2, <2>3
<1>7. P[Len(P)] \o data \in Seq(Int)
  <2>1. Len(P) \in 1..Len(P)
    BY <1>1, <1>2
  <2>2. P[Len(P)] \in Seq(Int)
    BY <1>2, <2>1
  <2>. QED  BY <2>2, ConcatProperties
<1>. HIDE DEF F
<1>8. /\ R \in Seq(Seq(Int)) /\ Len(R) = n + 1 /\ R[n + 1] = P[n + 1] \o data
      /\ \A i \in 1..n : R[i] = P[i]
  <2>. DEFINE last == P[Len(P)] \o data
  <2>1. last \in Seq(Int) /\ last = P[n + 1] \o data
    BY <1>2, <1>7
  <2>. HIDE DEF last
  <2>2. /\ R \in Seq(Seq(Int)) /\ Len(R) = Len(F) + 1 /\ R[Len(F) + 1] = last
        /\ \A i \in 1..Len(F) : R[i] = F[i]
    BY <1>6, <2>1, AppendProperties DEF last
  <2>. QED  BY <1>6, <2>1, <2>2
<1>. HIDE DEF R, n
<1>9. Len(Q) = Len(R) /\ \A i \in 1..Len(Q) : Q[i] = R[i]
  <2>1. n \in Nat /\ \A i \in 1..n + 1 : i \in 1..n \/ i = n + 1
    BY <1>1
  <2>. QED  BY <1>3, <1>4, <1>5, <1>8, <2>1
<1>10. Q = R
  BY <1>3, <1>8, <1>9, SeqEqual
<1>. QED  BY <1>10 DEF Q, R, F, P

\* The box that begins at place at of a buffer b, complete: its size and its content.
IsBox(b, at) ==
  LET box == Boxes!Boxed(SubSeq(b.ptr, at + WORD + 1, b.bytes))
  IN /\ box \in Seq(Int) /\ Len(box) = b.bytes - at
     /\ \A k \in at + 1..b.bytes :
          box[k - at] = IF k \in at + 1..at + WORD
                        THEN Boxes!Word(b.bytes - at)[k - at] ELSE b.ptr[k]

\* What Boxed makes of the last piece is as long as the box in the buffer, and differs
\* from it only in its size field.
LEMMA BoxIs ==
  ASSUME NEW b, Good(b), NEW at \in Nat, at + WORD <= b.bytes
  PROVE  IsBox(b, at)
<1>. DEFINE top == SubSeq(b.ptr, at + WORD + 1, b.bytes)
            v == b.bytes - at
            w == Boxes!Word(v)
            s == at + WORD + 1
            e == b.bytes
<1>1. e \in Nat /\ s \in Nat \ {0} /\ s - 1 <= e /\ v \in Nat /\ v = (e - s) + 1 + WORD
  <2>1. b.bytes \in Nat
    BY DEF Good
  <2>. QED  BY <2>1 DEF WORD
<1>2. \A k \in s..e : b.ptr[k] \in Int
  <2>1. \A k \in 1..e : b.ptr[k] \in Int
    BY DEF Good
  <2>. HIDE DEF s, e
  <2>. QED  BY <1>1, <2>1
<1>3. /\ top \in Seq(Int) /\ Len(top) = IF s <= e THEN e - s + 1 ELSE 0
      /\ \A i \in 1..e - s + 1 : top[i] = b.ptr[s + i - 1]
  BY <1>1, <1>2, SubSeqProperties
<1>4. Len(top) + 4 = v /\ Len(top) = (e - s) + 1
  BY <1>1, <1>3 DEF WORD
<1>5. w \in Seq(Int) /\ Len(w) = WORD
  BY <1>1, WordIs
<1>6. Boxes!Boxed(top) = w \o top
  BY <1>4 DEF Boxes!Boxed
<1>. HIDE DEF w, top
<1>7. /\ w \o top \in Seq(Int) /\ Len(w \o top) = Len(w) + Len(top)
      /\ \A i \in 1..Len(w) + Len(top) :
           (w \o top)[i] = IF i <= Len(w) THEN w[i] ELSE top[i - Len(w)]
  <2>1. w \in Seq(Int) /\ top \in Seq(Int)
    BY <1>3, <1>5
  <2>. QED  BY <2>1, ConcatProperties
<1>8. Len(w) + Len(top) = v
  BY <1>1, <1>4, <1>5
<1>9. ASSUME NEW k \in at + 1..e
      PROVE  (w \o top)[k - at] = IF k \in at + 1..at + WORD THEN w[k - at] ELSE b.ptr[k]
  <2>1. k - at \in 1..v
    BY <1>1
  <2>2. CASE k \in at + 1..at + WORD
    <3>1. k - at <= WORD
      BY <1>1, <2>2 DEF WORD
    <3>. QED  BY <1>5, <1>7, <1>8, <2>1, <2>2, <3>1
  <2>3. CASE k \notin at + 1..at + WORD
    <3>1. ~(k - at <= WORD) /\ (k - at) - WORD \in 1..e - s + 1
          /\ s + ((k - at) - WORD) - 1 = k
      BY <1>1, <2>3 DEF WORD
    <3>2. (w \o top)[k - at] = top[(k - at) - WORD]
      BY <1>5, <1>7, <1>8, <2>1, <3>1
    <3>3. top[(k - at) - WORD] = b.ptr[s + ((k - at) - WORD) - 1]
      BY <1>3, <3>1
    <3>. QED  BY <2>3, <3>1, <3>2, <3>3
  <2>. QED  BY <2>2, <2>3
<1>. QED  BY <1>6, <1>7, <1>8, <1>9 DEF IsBox, w, top

\* A box is closed: it becomes part of the one around it.
LEMMA ClosePieces ==
  ASSUME NEW b, Good(b), NEW o, Nested(b, o), o # <<>>,
         NEW c, Good(c), Patched(b, Last(o), b.bytes - Last(o), c)
  PROVE  LET P == Pieces(b, o)
         IN Pieces(c, Front(o)) = Append(SubSeq(P, 1, Len(P) - 2),
                                         P[Len(P) - 1] \o Boxes!Boxed(P[Len(P)]))
<1>. DEFINE n == Len(o)
            f == Front(o)
            at == o[n]
            P == Pieces(b, o)
            Q == Pieces(c, f)
            F == SubSeq(P, 1, Len(P) - 2)
            data == Boxes!Boxed(P[n + 1])
<1>1. /\ o \in Seq(Nat) /\ n \in Nat \ {0} /\ b.bytes \in Nat
      /\ n - 1 \in Nat /\ n \in 1..n /\ Last(o) = at
  BY DEF Nested, Good, Last
<1>2. at \in Nat /\ at + WORD <= b.bytes
  BY <1>1 DEF Nested
<1>3. /\ f \in Seq(Nat) /\ Len(f) = n - 1
      /\ \A i \in 1..n - 1 : f[i] = o[i]
  BY <1>1, FrontIs
<1>4. Nested(c, f) /\ c.bytes = b.bytes
  BY CloseNests
<1>5. P \in Seq(Seq(Int)) /\ Len(P) = n + 1
  BY PiecesAre
<1>6. Q \in Seq(Seq(Int)) /\ Len(Q) = n
  <2>1. Q \in Seq(Seq(Int)) /\ Len(Q) = Len(f) + 1
    BY <1>4, PiecesAre
  <2>. HIDE DEF Q, f
  <2>. QED  BY <1>1, <1>3, <2>1
<1>7. \A i \in 1..b.bytes :
        c.ptr[i] = IF i \in at + 1..at + WORD THEN Boxes!Word(b.bytes - at)[i - at]
                   ELSE b.ptr[i]
  BY <1>1 DEF Patched
<1>8. P[n + 1] = SubSeq(b.ptr, at + WORD + 1, b.bytes)
  <2>1. n + 1 \in 1..Len(o) + 1 /\ n + 1 # 1 /\ (n + 1) - 1 = n
    BY <1>1
  <2>2. Start(o, n + 1) = at + WORD + 1 /\ End(b, o, n + 1) = b.bytes
    BY <2>1 DEF Start, End
  <2>3. P[n + 1] = SubSeq(b.ptr, Start(o, n + 1), End(b, o, n + 1))
    BY <2>1 DEF Pieces
  <2>. QED  BY <2>2, <2>3
<1>9. ASSUME NEW i \in 1..n - 1
      PROVE  Q[i] = P[i]
  <2>. DEFINE s == Start(o, i)
              e == End(b, o, i)
  <2>0. i \in 1..Len(o) + 1 /\ i \in 1..Len(f) + 1 /\ i \in 1..n /\ i < n
    BY <1>1, <1>3
  <2>1. s \in Nat \ {0} /\ e \in Nat /\ e = o[i] /\ e <= at /\ e <= b.bytes
    <3>1. s \in Nat \ {0} /\ e \in Nat /\ e <= b.bytes
      BY <2>0, PieceIs
    <3>2. e = o[i]
      BY <1>1, <2>0 DEF End
    <3>3. o[i] + WORD <= at
      BY <1>1, <2>0 DEF Nested
    <3>. HIDE DEF s, e
    <3>. QED  BY <1>2, <3>1, <3>2, <3>3 DEF WORD
  <2>2. Start(f, i) = s
    <3>1. i = 1 \/ i - 1 \in 1..n - 1
      BY <1>1
    <3>. HIDE DEF f
    <3>. QED  BY <1>3, <3>1 DEF Start
  <2>3. End(c, f, i) = e
    <3>1. i # Len(f) + 1
      BY <1>1, <1>3
    <3>. HIDE DEF f
    <3>. QED  BY <1>3, <2>1, <3>1 DEF End
  <2>4. Q[i] = SubSeq(c.ptr, s, e) /\ P[i] = SubSeq(b.ptr, s, e)
    <3>. HIDE DEF s, e, f
    <3>2. Q[i] = SubSeq(c.ptr, Start(f, i), End(c, f, i))
      BY <2>0 DEF Pieces
    <3>3. P[i] = SubSeq(b.ptr, Start(o, i), End(b, o, i))
      BY <2>0 DEF Pieces
    <3>. QED  BY <2>2, <2>3, <3>2, <3>3 DEF s, e
  <2>. HIDE DEF s, e
  <2>5. \A k \in s..e : b.ptr[k] \in Int /\ c.ptr[k] = b.ptr[k]
    <3>1. ASSUME NEW k \in s..e PROVE k \in 1..b.bytes /\ k \notin at + 1..at + WORD
      <4>1. at \in Nat /\ b.bytes \in Nat
        BY <1>1, <1>2
      <4>. HIDE DEF at
      <4>. QED  BY <2>1, <4>1
    <3>2. \A k \in 1..b.bytes : b.ptr[k] \in Int
      BY DEF Good
    <3>. QED  BY <1>7, <3>1, <3>2
  <2>6. SubSeq(c.ptr, s, e) = SubSeq(b.ptr, s, e)
    BY <2>1, <2>5, SameBytes
  <2>. QED  BY <2>4, <2>6
<1>10. /\ data \in Seq(Int) /\ Len(data) = b.bytes - at
       /\ \A k \in at + 1..b.bytes :
            data[k - at] = IF k \in at + 1..at + WORD
                           THEN Boxes!Word(b.bytes - at)[k - at] ELSE b.ptr[k]
  <2>1. IsBox(b, at)
    <3>. HIDE DEF at
    <3>. QED  BY <1>2, BoxIs
  <2>. HIDE DEF P, at
  <2>. QED  BY <1>8, <2>1 DEF IsBox
<1>11. Q[n] = P[n] \o data
  <2>. DEFINE s == Start(o, n)
  <2>0. n \in 1..Len(o) + 1 /\ n \in 1..Len(f) + 1
    BY <1>1, <1>3
  <2>1. End(b, o, n) = at /\ End(c, f, n) = b.bytes /\ Start(f, n) = s
    <3>1. n # Len(o) + 1 /\ n = Len(f) + 1 /\ (n = 1 \/ n - 1 \in 1..n - 1)
      BY <1>1, <1>3
    <3>. HIDE DEF f
    <3>. QED  BY <1>3, <1>4, <3>1 DEF Start, End
  <2>2. s \in Nat \ {0} /\ at >= s - 1
    BY <2>0, <2>1, PieceIs
  <2>3. Q[n] = SubSeq(c.ptr, s, b.bytes) /\ P[n] = SubSeq(b.ptr, s, at)
    <3>. HIDE DEF s, f
    <3>2. Q[n] = SubSeq(c.ptr, Start(f, n), End(c, f, n))
      BY <2>0 DEF Pieces
    <3>3. P[n] = SubSeq(b.ptr, Start(o, n), End(b, o, n))
      BY <2>0 DEF Pieces
    <3>. QED  BY <2>1, <3>2, <3>3 DEF s
  <2>. HIDE DEF s, data
  <2>4. \A k \in s..at : b.ptr[k] \in Int /\ c.ptr[k] = b.ptr[k]
    <3>1. \A k \in s..at : k \in 1..b.bytes /\ k \notin at + 1..at + WORD
      BY <1>1, <1>2, <2>2 DEF WORD
    <3>2. \A k \in 1..b.bytes : b.ptr[k] \in Int
      BY DEF Good
    <3>. QED  BY <1>7, <3>1, <3>2
  <2>5. \A k \in at + 1..b.bytes : c.ptr[k] = data[k - at]
    <3>1. \A k \in at + 1..b.bytes : k \in 1..b.bytes
      BY <1>1, <1>2
    <3>. QED  BY <1>7, <1>10, <3>1
  <2>6. b.bytes = at + Len(data)
    BY <1>1, <1>2, <1>10
  <2>. DEFINE p == b.ptr
              q == c.ptr
              end == b.bytes
  <2>7. GoesOn(p, q, s, at, data, end)
    BY <1>1, <1>2, <1>10, <2>2, <2>4, <2>5, <2>6 DEF GoesOn
  <2>. HIDE DEF p, q, end, at
  <2>8. Continued(p, q, s, at, data, end)
    BY <2>7, MoreBytes, Zenon
  <2>. QED  BY <2>3, <2>8 DEF Continued, p, q, end
<1>. HIDE DEF P, Q, data
<1>12. /\ F \in Seq(Seq(Int)) /\ Len(F) = n - 1 /\ \A i \in 1..n - 1 : F[i] = P[i]
  <2>1. Len(P) - 2 = n - 1 /\ \A i \in 1..n - 1 : P[i] \in Seq(Int)
    BY <1>1, <1>5
  <2>. DEFINE m == n - 1
  <2>2. /\ SubSeq(P, 1, m) \in Seq(Seq(Int))
        /\ Len(SubSeq(P, 1, m)) = IF 1 <= m THEN m - 1 + 1 ELSE 0
        /\ \A i \in 1..m - 1 + 1 : SubSeq(P, 1, m)[i] = P[1 + i - 1]
    BY <1>1, <2>1, SubSeqProperties
  <2>3. F = SubSeq(P, 1, m)
    BY <2>1
  <2>. HIDE DEF F
  <2>4. m \in Nat
    BY <1>1
  <2>. HIDE DEF m
  <2>5. Len(F) = m /\ m - 1 + 1 = m
    BY <2>2, <2>3, <2>4
  <2>6. ASSUME NEW i \in 1..m PROVE F[i] = P[i]
    <3>1. i \in 1..m - 1 + 1 /\ 1 + i - 1 = i
      BY <2>4, <2>5
    <3>. QED  BY <2>2, <2>3, <3>1
  <2>. QED  BY <2>2, <2>3, <2>5, <2>6 DEF m
<1>. DEFINE last == P[n] \o data
            R == Append(F, last)
<1>13. last \in Seq(Int)
  <2>1. P[n] \in Seq(Int)
    BY <1>1, <1>5
  <2>. QED  BY <1>10, <2>1, ConcatProperties
<1>14. last = P[Len(P) - 1] \o Boxes!Boxed(P[Len(P)])
  <2>1. Len(P) - 1 = n /\ Len(P) = n + 1
    BY <1>1, <1>5
  <2>. QED  BY <2>1 DEF data
<1>. HIDE DEF last, F
<1>15. /\ R \in Seq(Seq(Int)) /\ Len(R) = Len(F) + 1 /\ R[Len(F) + 1] = last
       /\ \A i \in 1..Len(F) : R[i] = F[i]
  BY <1>12, <1>13, AppendProperties
<1>. HIDE DEF R
<1>16. Len(Q) = Len(R) /\ \A i \in 1..Len(Q) : Q[i] = R[i]
  <2>1. Len(F) + 1 = n /\ \A i \in 1..n : i \in 1..n - 1 \/ i = n
    BY <1>1, <1>12
  <2>2. Q[n] = last
    BY <1>11 DEF last
  <2>. HIDE DEF n
  <2>3. Len(Q) = n /\ Len(R) = n
    BY <1>6, <1>15, <2>1
  <2>4. ASSUME NEW i \in 1..n PROVE Q[i] = R[i]
    <3>1. CASE i \in 1..n - 1
      BY <1>9, <1>12, <1>15, <3>1
    <3>2. CASE i = n
      BY <1>15, <2>1, <2>2, <3>2
    <3>. QED  BY <2>1, <3>1, <3>2
  <2>. QED  BY <2>3, <2>4
<1>17. Q = R
  BY <1>6, <1>15, <1>16, SeqEqual
<1>. QED  BY <1>14, <1>17 DEF Q, R, F, P, f

\* What Contents shows of the buffer are its pieces.
LEMMA ContentsAre ==
  open \in Seq(Nat) /\ buffer.error = 0 => Contents = Pieces(buffer, open)
<1>. SUFFICES ASSUME open \in Seq(Nat), buffer.error = 0
              PROVE  Contents = Pieces(buffer, open)
  OBVIOUS
<1>. DEFINE start(i) == IF i = 0 THEN 1 ELSE open[i] + WORD + 1
            end(i) == IF i = Len(open) THEN buffer.bytes ELSE open[i + 1]
<1>1. Contents = [i \in 1..Len(open) + 1 |-> SubSeq(buffer.ptr, start(i - 1), end(i - 1))]
  BY DEF Contents
<1>2. ASSUME NEW i \in 1..Len(open) + 1
      PROVE  start(i - 1) = Start(open, i) /\ end(i - 1) = End(buffer, open, i)
  <2>1. Len(open) \in Nat /\ i \in Nat /\ (i - 1) + 1 = i
    OBVIOUS
  <2>2. (i - 1 = 0 <=> i = 1) /\ (i - 1 = Len(open) <=> i = Len(open) + 1)
    BY <2>1
  <2>. QED  BY <2>1, <2>2 DEF Start, End
<1>. HIDE DEF start, end
<1>3. [i \in 1..Len(open) + 1 |-> SubSeq(buffer.ptr, start(i - 1), end(i - 1))]
        = [i \in 1..Len(open) + 1 |-> SubSeq(buffer.ptr, Start(open, i), End(buffer, open, i))]
  BY <1>2, Zenon
<1>. QED  BY <1>1, <1>3 DEF Pieces

\* Without any box, and nothing written, there is one empty piece.
LEMMA NoPieces ==
  ASSUME NEW b, b.bytes = 0, NEW o, o = <<>>
  PROVE  Pieces(b, o) = << <<>> >>
<1>1. Len(o) = 0 /\ Len(o) + 1 = 1
  OBVIOUS
<1>2. Start(o, 1) = 1 /\ End(b, o, 1) = 0
  BY <1>1 DEF Start, End
<1>3. SubSeq(b.ptr, 1, 0) = <<>>
  BY SubSeqEmpty
<1>4. Pieces(b, o) = [i \in 1..1 |-> SubSeq(b.ptr, Start(o, i), End(b, o, i))]
  BY <1>1 DEF Pieces
<1>5. \A i \in 1..1 : SubSeq(b.ptr, Start(o, i), End(b, o, i)) = <<>>
  BY <1>2, <1>3
<1>6. [i \in 1..1 |-> SubSeq(b.ptr, Start(o, i), End(b, o, i))] = [i \in 1..1 |-> <<>>]
  BY <1>5
<1>7. [i \in 1..1 |-> <<>>] = << <<>> >>
  OBVIOUS
<1>. QED  BY <1>4, <1>6, <1>7
------------------------------------------------------------------------------
(* The buffer implements the boxes.                                         *)

\* The empty buffer is an empty file.
LEMMA TreeInit == Init => Boxes!Init
<1>. SUFFICES ASSUME Init PROVE Boxes!Init
  OBVIOUS
<1>1. buffer.error = 0 /\ buffer.bytes = 0 /\ open = <<>> /\ open \in Seq(Nat)
  BY DEF Init
<1>2. Contents = << <<>> >>
  BY <1>1, ContentsAre, NoPieces
<1>. QED  BY <1>1, <1>2 DEF Boxes!Init

\* What a step does to the pieces, as long as no error is reported.
LEMMA TreeStep ==
  ASSUME IInv, IInv', Next, buffer.error = 0, buffer'.error = 0
  PROVE  LET P == Pieces(buffer, open)
             Q == Pieces(buffer', open')
         IN \/ Q = Append(P, <<>>)
            \/ \E chunk \in Chunks :
                 Q = Append(SubSeq(P, 1, Len(P) - 1), P[Len(P)] \o chunk)
            \/ /\ Len(P) > 1
               /\ Q = Append(SubSeq(P, 1, Len(P) - 2),
                             P[Len(P) - 1] \o Boxes!Boxed(P[Len(P)]))
            \/ Q = << <<>> >>
<1>. DEFINE P == Pieces(buffer, open)
            Q == Pieces(buffer', open')
<1>1. /\ Good(buffer) /\ Good(buffer') /\ Nested(buffer, open)
      /\ buffer.offset = buffer.bytes
  BY DEF IInv, Nested
<1>2. CASE Open
  <2>1. Effect(buffer, Boxes!Word(0), buffer') /\ open' = Append(open, buffer.offset)
    BY <1>2, OpenDoes DEF Open
  <2>2. Boxes!Word(0) \in Seq(Int) /\ Len(Boxes!Word(0)) = WORD
    BY WordIs
  <2>3. Wrote(buffer, Boxes!Word(0), buffer')
    BY <2>1 DEF Effect
  <2>4. Pieces(buffer', Append(open, buffer.offset)) = Append(P, <<>>)
    BY <1>1, <2>2, <2>3, OpenPieces
  <2>. QED  BY <2>1, <2>4
<1>3. CASE Write
  <2>1. PICK chunk \in Chunks, grown \in GrowResults : buffer' = write(buffer, chunk, grown)
    BY <1>3 DEF Write
  <2>2. open' = open
    BY <1>3 DEF Write
  <2>3. chunk \in Seq(Int) /\ Effect(buffer, chunk, buffer')
    BY <2>1, WriteIsDone
  <2>4. Wrote(buffer, chunk, buffer')
    BY <2>3 DEF Effect
  <2>5. Pieces(buffer', open) = Append(SubSeq(P, 1, Len(P) - 1), P[Len(P)] \o chunk)
    BY <1>1, <2>3, <2>4, WritePieces
  <2>. QED  BY <2>2, <2>5
<1>4. CASE Close
  <2>1. open # <<>> /\ open' = Front(open)
    BY <1>4 DEF Close
  <2>2. Patched(buffer, Last(open), buffer.bytes - Last(open), buffer')
    BY <1>1, <1>4, CloseDoes
  <2>3. Pieces(buffer', Front(open)) = Append(SubSeq(P, 1, Len(P) - 2),
                                              P[Len(P) - 1] \o Boxes!Boxed(P[Len(P)]))
    BY <1>1, <2>1, <2>2, ClosePieces
  <2>4. Len(P) > 1
    <3>1. Len(P) = Len(open) + 1
      BY <1>1, PiecesAre
    <3>2. Len(open) \in Nat \ {0}
      BY <1>1, <2>1 DEF Nested
    <3>. HIDE DEF P
    <3>. QED  BY <3>1, <3>2
  <2>. QED  BY <2>1, <2>3, <2>4
<1>5. CASE Take
  <2>1. buffer' = [buffer EXCEPT !.offset = 0, !.bytes = 0] /\ open' = <<>>
    BY <1>5 DEF Take
  <2>2. buffer'.bytes = 0
    BY <2>1, Emptied
  <2>. QED  BY <2>1, <2>2, NoPieces
<1>6. CASE GiveUp
  BY <1>6 DEF GiveUp
<1>. QED  BY <1>2, <1>3, <1>4, <1>5, <1>6 DEF Next

\* The flat buffer, going back and forth, implements the nested boxes.
THEOREM BoxesAreNested == Spec => ImplementsBoxes
<1>1. IInv /\ IInv' /\ [Next]_vars => [Boxes!Next]_(Boxes!treevars)
  <2>. SUFFICES ASSUME IInv, IInv', [Next]_vars PROVE [Boxes!Next]_(Boxes!treevars)
    OBVIOUS
  <2>. DEFINE P == Pieces(buffer, open)
              Q == Pieces(buffer', open')
  <2>1. CASE UNCHANGED vars
    BY <2>1 DEF vars, Contents, Boxes!treevars
  <2>2. CASE Next /\ buffer'.error # 0
    BY <2>2 DEF Boxes!Next, Boxes!Fail
  <2>3. CASE Next /\ buffer'.error = 0
    <3>1. buffer.error = 0
      <4>1. GiveUp => buffer'.error = buffer.error /\ buffer.error # 0
        BY Emptied DEF GiveUp
      <4>2. Open \/ Write \/ Close \/ Take => buffer.error = 0
        BY DEF Open, Write, Close, Take
      <4>. QED  BY <2>3, <4>1, <4>2 DEF Next
    <3>2. open \in Seq(Nat) /\ open' \in Seq(Nat)
      BY <2>3, <3>1 DEF IInv, Nested
    <3>3. Contents = P
      BY <3>1, <3>2, ContentsAre
    <3>4. Contents' = Q
      <4>1. (open \in Seq(Nat) /\ buffer.error = 0 => Contents = Pieces(buffer, open))'
        BY ContentsAre, PTL
      <4>. QED  BY <2>3, <3>2, <4>1
    <3>5. \/ Q = Append(P, <<>>)
          \/ \E chunk \in Chunks :
               Q = Append(SubSeq(P, 1, Len(P) - 1), P[Len(P)] \o chunk)
          \/ /\ Len(P) > 1
             /\ Q = Append(SubSeq(P, 1, Len(P) - 2),
                           P[Len(P) - 1] \o Boxes!Boxed(P[Len(P)]))
          \/ Q = << <<>> >>
      BY <2>3, <3>1, TreeStep
    <3>6. (buffer'.error # 0) = (buffer.error # 0)
      BY <2>3, <3>1
    <3>. HIDE DEF P, Q
    <3>. QED  BY <3>1, <3>3, <3>4, <3>5, <3>6, Zenon
              DEF Boxes!Next, Boxes!Open, Boxes!Write, Boxes!Close, Boxes!Take,
                  Boxes!Top, Boxes!Below
  <2>. QED  BY <2>1, <2>2, <2>3
<1>. QED  BY <1>1, TreeInit, Invariance, PTL DEF Spec, ImplementsBoxes, Boxes!Spec
================================================================================
