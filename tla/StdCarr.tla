------------------------------- MODULE StdCarr -------------------------------
(* The circular array of stdutil (stdutil/src/stdcarr.c).  The array keeps its *)
(* elements in a buffer between begin and end, either of which may have        *)
(* wrapped around; one slot always stays free.  An insertion or an erasure in  *)
(* the middle shifts the shorter side, with memmove where source and target    *)
(* may overlap and memcpy where the author proved them apart.  Offsets are in  *)
(* elements; a slot outside the array holds Junk, for nothing may read it.     *)
(* The code never looks into an element, so between two calls the elements are *)
(* named 1, 2, ... in the order the caller expects to find them.               *)
EXTENDS Integers, SequencesExt

CONSTANTS Junk,
          MinAlloc,        \* STDCARR_MIN_AUTO_ALLOC
          MaxSize,         \* bound: elements in the array
          MaxStep          \* bound: elements inserted at once

VARIABLE carr        \* the stdcarr; wild: a copy left the buffer or a memcpy overlapped

vars == <<carr>>

Empty == [buf |-> <<>>, begin |-> 0, end |-> 0, size |-> 0, grow |-> TRUE, shrink |-> TRUE, wild |-> FALSE]
cap(c) == Len(c.buf)
At(c, i) == c.buf[i + 1]
high_capacity(c) == IF cap(c) # 0 THEN cap(c) - 1 ELSE 0
low_capacity(c) == cap(c) \div 4

-----------------------------------------------------------------------------
\* n elements copied from offset src to offset dst; memcpy must not overlap.
Inside(c, p, n) == p >= 0 /\ p + n <= cap(c)
memmove(c, dst, src, n) ==
    IF n = 0 THEN c
    ELSE IF n < 0 \/ ~Inside(c, dst, n) \/ ~Inside(c, src, n) THEN [c EXCEPT !.wild = TRUE]
    ELSE [c EXCEPT !.buf = [i \in 1 .. cap(c) |-> IF i - 1 \in dst .. dst + n - 1
                                                 THEN At(c, src + (i - 1 - dst)) ELSE @[i]]]
memcpy(c, dst, src, n) ==
    [memmove(c, dst, src, n) EXCEPT !.wild = @ \/ (n > 0 /\ src < dst + n /\ dst < src + n)]

\* The elements from offset b up to offset e, unwrapped.
copy_to_buf(c, b, e) ==
    IF b <= e THEN SubSeq(c.buf, b + 1, e) ELSE SubSeq(c.buf, b + 1, cap(c)) \o SubSeq(c.buf, 1, e)

forward(c, p, n) == IF p + n < cap(c) THEN p + n ELSE p + n - cap(c)
backward(c, p, n) == IF p - n >= 0 THEN p - n ELSE cap(c) - (n - p)

\* What lies between offset p and the end moves up by delta, where it may overlap.
ShiftUp(c, p, delta, n) == memmove(c, p + delta, p, n)

-----------------------------------------------------------------------------
\* Open a gap of delta before offset p by moving what follows to the right.
insert_shift_right(c, p, delta, new_size) ==
    LET over == c.end + delta - cap(c)
        tail == c.end - p
        high == cap(c) - p
        low == memmove(c, delta, 0, c.end)
        moved == IF c.begin <= c.end
                 THEN IF over <= 0 THEN ShiftUp(c, p, delta, tail)
                      ELSE IF tail <= over THEN memcpy(c, over - tail, p, tail)
                      ELSE memmove(memcpy(c, 0, c.end - over, over), p + delta, p, tail - over)
                 ELSE IF tail >= 0 THEN ShiftUp(c, p, delta, tail)
                      ELSE IF high <= delta THEN memcpy(low, delta - high, p, high)
                      ELSE memmove(memcpy(low, 0, cap(c) - delta, delta), p + delta, p, high - delta)
    IN  [moved EXCEPT !.size = new_size, !.end = forward(c, c.end, delta)]

\* The same, moving what precedes p to the left.
insert_shift_left(c, p, delta, new_size) ==
    LET over == delta - c.begin
        head == p - c.begin
        upper == memmove(c, c.begin - delta, c.begin, cap(c) - c.begin)
        moved == IF c.begin <= c.end
                 THEN IF over <= 0 THEN memmove(c, c.begin - delta, c.begin, head)
                      ELSE IF head <= over THEN memcpy(c, cap(c) - over, c.begin, head)
                      ELSE memmove(memcpy(c, cap(c) - over, c.begin, over), 0, c.begin + over, head - over)
                 ELSE IF p >= c.begin THEN memmove(c, c.begin - delta, c.begin, head)
                      ELSE IF p <= delta THEN memcpy(upper, cap(c) - delta, 0, p)
                      ELSE memmove(memcpy(upper, cap(c) - delta, 0, delta), 0, delta, p - delta)
    IN  [moved EXCEPT !.size = new_size, !.begin = backward(c, c.begin, delta)]

\* Close the gap of delta that ends at offset p by moving what follows to the left.
erase_shift_left(c, p, delta, new_size) ==
    LET first == p - delta
        tail == c.end - p
        wrapped == -first
        high == cap(c) - p
        upper == memmove(c, first, p, high)
        moved == IF tail >= 0
                 THEN IF wrapped <= 0 THEN memmove(c, first, p, tail)
                      ELSE IF tail <= wrapped THEN memcpy(c, cap(c) - wrapped, p, tail)
                      ELSE memmove(memcpy(c, cap(c) - wrapped, p, wrapped), 0, p + wrapped, tail - wrapped)
                 ELSE IF c.end <= delta THEN memcpy(upper, first + high, 0, c.end)
                      ELSE memmove(memcpy(upper, first + high, 0, delta), 0, delta, c.end - delta)
    IN  [moved EXCEPT !.size = new_size, !.end = backward(c, c.end, delta)]

\* Close the gap of delta that begins at offset p by moving what precedes to the right.
erase_shift_right(c, p, delta, new_size) ==
    LET last == p + delta
        head == p - c.begin
        wrapped == last - cap(c)
        low == memmove(c, last - p, 0, p)
        high == cap(c) - c.begin
        moved == IF head >= 0
                 THEN IF wrapped <= 0 THEN memmove(c, c.begin + delta, c.begin, head)
                      ELSE IF wrapped - head >= 0 THEN memcpy(c, wrapped - head, c.begin, head)
                      ELSE memmove(memcpy(c, 0, p - wrapped, wrapped), c.begin + delta, c.begin, head - wrapped)
                 ELSE IF high <= delta THEN memcpy(low, last - p - high, c.begin, high)
                      ELSE memmove(memcpy(low, 0, cap(c) - delta, delta), c.begin + delta, c.begin, high - delta)
    IN  [moved EXCEPT !.size = new_size, !.begin = forward(c, c.begin, delta)]

-----------------------------------------------------------------------------
\* A buffer of n slots whose first ones hold seq.
Relaid(c, seq, n) ==
    [c EXCEPT !.buf = [i \in 1 .. n |-> IF i <= Len(seq) THEN seq[i] ELSE Junk],
              !.begin = 0, !.end = Len(seq), !.size = Len(seq)]
AutoCap(n) == IF 2 * n > MinAlloc THEN 2 * n ELSE MinAlloc
Gap(n) == [i \in 1 .. n |-> Junk]
Done(ok, c, p) == [ok |-> ok, carr |-> c, at |-> p]

\* Room for delta elements at p; oom: malloc fails.
low_insert_shift(c, p, delta, right, oom) ==
    LET n == c.size + delta
        before == copy_to_buf(c, c.begin, p)
    IN  IF delta = 0 THEN Done(TRUE, c, p)
        ELSE IF n <= high_capacity(c)
             THEN IF right THEN Done(TRUE, insert_shift_right(c, p, delta, n), p)
                  ELSE Done(TRUE, insert_shift_left(c, p, delta, n), backward(c, p, delta))
        ELSE IF ~c.grow \/ oom THEN Done(FALSE, c, p)
        ELSE Done(TRUE, Relaid(c, before \o Gap(delta) \o copy_to_buf(c, p, c.end), AutoCap(n)), Len(before))

\* delta elements go: those from p on when right, else those before p.  A failed
\* malloc falls back to shifting.
low_erase_shift(c, p, delta, right, oom) ==
    LET n == c.size - delta
        from == IF right THEN p ELSE backward(c, p, delta)
        to == IF right THEN forward(c, p, delta) ELSE p
    IN  IF delta = 0 THEN c
        ELSE IF ~c.shrink \/ n > low_capacity(c) \/ cap(c) = MinAlloc \/ oom
             THEN IF right THEN erase_shift_right(c, p, delta, n) ELSE erase_shift_left(c, p, delta, n)
        ELSE Relaid(c, copy_to_buf(c, c.begin, from) \o copy_to_buf(c, to, c.end), AutoCap(n))

INS_SHIFT_RIGHT(c, p) ==
    IF p >= c.begin THEN p - c.begin > c.size \div 2 ELSE c.end - p <= c.size \div 2
ERS_SHIFT_RIGHT(c, p, n) ==
    IF p >= c.begin THEN p - c.begin < (c.size - n) \div 2 ELSE c.end - p >= (c.size + n) \div 2

-----------------------------------------------------------------------------
\* The values copied into the gap at p: in two pieces, or one by one.
\* Mutant: the second piece starts over with the first value.
TwoPieces_restart(c, p, vals) ==
    LET Slot(i) == IF i >= p /\ i - p < Len(vals) THEN vals[i - p + 1]
                   ELSE IF i < Len(vals) - (cap(c) - p) THEN vals[i + 1] ELSE At(c, i)
    IN  [c EXCEPT !.buf = [i \in 1 .. cap(c) |-> Slot(i - 1)]]
TwoPieces(c, p, vals) ==
    LET room == cap(c) - p
        Slot(i) == IF i >= p /\ i - p < Len(vals) THEN vals[i - p + 1]
                   ELSE IF room < Len(vals) /\ i < Len(vals) - room THEN vals[room + i + 1]
                   ELSE At(c, i)
    IN  [c EXCEPT !.buf = [i \in 1 .. cap(c) |-> Slot(i - 1)]]
OneByOne(c, p, vals) ==
    FoldLeft(LAMBDA x, i : [x EXCEPT !.buf[forward(c, p, i - 1) + 1] = vals[i]], c, [i \in 1 .. Len(vals) |-> i])

Insert(p, vals, oom, Copy(_, _, _)) ==
    LET r == low_insert_shift(carr, p, Len(vals), INS_SHIFT_RIGHT(carr, p), oom)
    IN  IF r.ok /\ vals # <<>> THEN [r EXCEPT !.carr = Copy(@, r.at, vals)] ELSE r

rank(c, p) == IF p >= c.begin THEN p - c.begin ELSE (cap(c) - c.begin) + p
Iterators(c) == {forward(c, c.begin, i) : i \in 0 .. c.size}          \* end included
Named(n) == [i \in 1 .. n |-> i]
Fresh(n) == [i \in 1 .. n |-> -i]
Inserted(at, vals) == SubSeq(Named(carr.size), 1, at) \o vals \o SubSeq(Named(carr.size), at + 1, carr.size)
Erased(at, n) == SubSeq(Named(carr.size), 1, at) \o SubSeq(Named(carr.size), at + n + 1, carr.size)

\* The call leaves c where the caller expects the sequence seq: the elements get
\* their new names, what lies outside [begin, end) is dead.
Expect(c, seq) ==
    LET live == {forward(c, c.begin, i) : i \in 0 .. c.size - 1}
        Name(v) == IF v \in ToSet(seq) THEN CHOOSE k \in DOMAIN seq : seq[k] = v ELSE Junk
    IN  carr' = [c EXCEPT !.buf = [i \in 1 .. cap(c) |-> IF i - 1 \in live THEN Name(@[i]) ELSE Junk]]

-----------------------------------------------------------------------------
\* insert and insert_n.
stdcarr_insert_n(p, n, oom) ==
    /\ carr.size + n <= MaxSize
    /\ LET r == Insert(p, Fresh(n), oom, TwoPieces)
       IN  Expect(r.carr, IF r.ok THEN Inserted(rank(carr, p), Fresh(n)) ELSE Named(carr.size))

\* insert_seq_n, and insert_rep, which copies one value again and again.
stdcarr_insert_seq_n(p, n, oom) ==
    /\ carr.size + n <= MaxSize
    /\ LET r == Insert(p, Fresh(n), oom, OneByOne)
       IN  Expect(r.carr, IF r.ok THEN Inserted(rank(carr, p), Fresh(n)) ELSE Named(carr.size))

\* The pushes, of an array or of a sequence.
stdcarr_push_front_n(n, oom) == stdcarr_insert_n(carr.begin, n, oom) \/ stdcarr_insert_seq_n(carr.begin, n, oom)
stdcarr_push_back_n(n, oom) == stdcarr_insert_n(carr.end, n, oom) \/ stdcarr_insert_seq_n(carr.end, n, oom)

stdcarr_erase_n(p, n, oom) ==
    /\ rank(carr, p) + n <= carr.size
    /\ LET right == ERS_SHIFT_RIGHT(carr, p, n)
           at == IF right THEN p ELSE forward(carr, p, n)
       IN  Expect(low_erase_shift(carr, at, n, right, oom), Erased(rank(carr, p), n))

stdcarr_pop_front_n(n, oom) ==
    /\ n <= carr.size
    /\ Expect(low_erase_shift(carr, carr.begin, n, TRUE, oom), Erased(0, n))

stdcarr_pop_back_n(n, oom) ==
    /\ n <= carr.size
    /\ Expect(low_erase_shift(carr, carr.end, n, FALSE, oom), Erased(carr.size - n, n))

\* New elements are not initialised: what is found there becomes the element.
Resized(c, n, oom) ==
    IF n <= c.size THEN Done(TRUE, low_erase_shift(c, c.end, c.size - n, FALSE, oom), 0)
    ELSE LET r == low_insert_shift(c, c.end, n - c.size, TRUE, oom)
         IN  IF r.ok THEN [r EXCEPT !.carr = OneByOne(@, r.at, Fresh(n - c.size))] ELSE r

stdcarr_resize(n, oom) ==
    LET r == Resized(carr, n, oom)
    IN  Expect(r.carr, IF ~r.ok THEN Named(carr.size)
                       ELSE IF n <= carr.size THEN Named(n) ELSE Named(carr.size) \o Fresh(n - carr.size))

\* set_capacity cuts off what no longer fits.
SetCapacity(c, n, oom) ==
    IF n = high_capacity(c) THEN c
    ELSE IF n = 0 THEN [Empty EXCEPT !.grow = c.grow, !.shrink = c.shrink, !.wild = c.wild]
    ELSE IF oom THEN c
    ELSE Relaid(c, copy_to_buf(c, c.begin, IF n < c.size THEN forward(c, c.begin, n) ELSE c.end), n + 1)

stdcarr_set_capacity(n, oom) ==
    Expect(SetCapacity(carr, n, oom), Named(IF n < carr.size /\ (n = 0 \/ ~oom) THEN n ELSE carr.size))

stdcarr_reserve(n, oom) ==
    Expect(IF n > high_capacity(carr) THEN SetCapacity(carr, n, oom) ELSE carr, Named(carr.size))

stdcarr_shrink_fit(oom) == Expect(SetCapacity(carr, carr.size, oom), Named(carr.size))

\* set_eq: the array is resized and overwritten from the start of the buffer.
stdcarr_set_eq(src, oom) ==
    LET r == Resized(carr, src.size, oom)
    IN  IF r.ok THEN Expect(Relaid(r.carr, copy_to_buf(src, src.begin, src.end), cap(r.carr)), Fresh(src.size))
        ELSE Expect(r.carr, Named(carr.size))

\* The array replaced by a copy of itself, unwrapped in a buffer of the same size.
stdcarr_copy_construct ==
    /\ carr.buf # <<>>
    /\ Expect(Relaid(carr, copy_to_buf(carr, carr.begin, carr.end), cap(carr)), Named(carr.size))

stdcarr_set_opts(g, s) == carr' = [carr EXCEPT !.grow = g, !.shrink = s]

-----------------------------------------------------------------------------
\* Arrays to be assigned from: n fresh elements in a full buffer, from slot b on.
Source(n, b) ==
    [Empty EXCEPT !.buf = [i \in 1 .. n + 1 |-> (Fresh(n) \o <<Junk>>)[((i - 1 - b) % (n + 1)) + 1]],
                  !.begin = b, !.end = (b + n) % (n + 1), !.size = n]

Init == carr = Empty

Next ==
    \/ \E oom \in BOOLEAN :
         \/ \E p \in Iterators(carr), n \in 0 .. MaxStep : stdcarr_insert_n(p, n, oom) \/ stdcarr_insert_seq_n(p, n, oom)
         \/ \E n \in 0 .. MaxStep : stdcarr_push_front_n(n, oom) \/ stdcarr_push_back_n(n, oom)
         \/ \E p \in Iterators(carr), n \in 0 .. MaxSize : stdcarr_erase_n(p, n, oom)
         \/ \E n \in 0 .. MaxSize : stdcarr_pop_front_n(n, oom) \/ stdcarr_pop_back_n(n, oom)
         \/ \E n \in 0 .. MaxSize : stdcarr_resize(n, oom)
         \/ \E n \in 0 .. MaxSize : stdcarr_set_capacity(n, oom) \/ stdcarr_reserve(n, oom)
         \/ stdcarr_shrink_fit(oom)
         \/ \E n \in 1 .. MaxSize : \E b \in 0 .. n : stdcarr_set_eq(Source(n, b), oom)
    \/ stdcarr_copy_construct
    \/ \E g, s \in BOOLEAN : stdcarr_set_opts(g, s)

Spec == Init /\ [][Next]_vars

-----------------------------------------------------------------------------
(* The array holds, in order, exactly the elements the calls left in it: no    *)
(* shift, wrap or reallocation drops, repeats or disorders one, and a call     *)
(* that failed changed nothing.                                                *)
Contents == copy_to_buf(carr, carr.begin, carr.end) = Named(carr.size)

(* STDCARR_IS_LEGAL: begin and end are inside the buffer, their distance is    *)
(* the size, and a slot stays free, so that a full array never looks empty.    *)
Legal ==
    LET dist == IF carr.begin > carr.end THEN (cap(carr) - carr.begin) + carr.end ELSE carr.end - carr.begin
    IN  IF cap(carr) = 0 THEN carr.size = 0 /\ carr.begin = 0 /\ carr.end = 0
        ELSE /\ carr.begin \in 0 .. cap(carr) - 1 /\ carr.end \in 0 .. cap(carr) - 1
             /\ carr.size < cap(carr) /\ dist = carr.size

(* No copy reaches outside the buffer, and no memcpy has overlapping areas.    *)
CopiesSound == ~carr.wild

=============================================================================
