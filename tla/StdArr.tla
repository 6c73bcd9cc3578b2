------------------------------- MODULE StdArr --------------------------------
(* The array of stdutil (stdutil/src/stdarr.c): a block of cap slots, the      *)
(* first size of them elements.  Insertion and erasure slide what follows, and *)
(* realloc the block when it gets full or nearly empty; realloc may move it,   *)
(* after which a pointer into the old block is dangling.                       *)
EXTENDS Integers, SequencesExt

CONSTANTS Values, Junk,
          ArrMinAlloc,     \* STDARR_MIN_AUTO_ALLOC
          ArrMaxSize,      \* bound: elements in the array
          ArrMaxStep       \* bound: elements inserted at once

VARIABLES arr,       \* the stdarr: block and its address, end, size, options
          arr_it,    \* the iterator the last call handed back
          arr_ref    \* history: the elements, and the iterator's rank, the caller expects

vars == <<arr, arr_it, arr_ref>>

NULL == 0
stdarr_construct == [blk |-> NULL, buf |-> <<>>, end |-> 0, size |-> 0, grow |-> TRUE, shrink |-> TRUE]
cap(a) == Len(a.buf)
stdarr_high_capacity(a) == cap(a)
stdarr_low_capacity(a) == cap(a) \div 4
stdarr_get(a, i) == [blk |-> a.blk, off |-> i]

memmove(buf, dst, src, n) ==
    [i \in DOMAIN buf |-> IF i - 1 \in dst .. dst + n - 1 THEN buf[src + (i - dst)] ELSE buf[i]]
\* realloc to n slots: the block moves.
realloc(a, n) == [a EXCEPT !.blk = 1 + (a.blk % 2), !.buf = [i \in 1 .. n |-> IF i <= cap(a) THEN a.buf[i] ELSE Junk]]
Freed(a) == [a EXCEPT !.blk = NULL, !.buf = <<>>, !.end = 0]
AtLeast(n) == IF n > ArrMinAlloc THEN n ELSE ArrMinAlloc
Result(ok, a, it) == [ok |-> ok, arr |-> a, it |-> it]

-----------------------------------------------------------------------------
\* The iterator moved over into the reallocated block.
Relocated(a, it) == [it EXCEPT !.blk = a.blk]

\* Room for n elements before the iterator; oom: realloc fails.
stdarr_low_insert_space(a, it, n, oom) ==
    LET nsize == a.size + n
        full == nsize > stdarr_high_capacity(a)
        big == IF full THEN realloc(a, AtLeast(2 * nsize)) ELSE a
        slid == [big EXCEPT !.buf = memmove(@, it.off + n, it.off, a.end - it.off), !.end = @ + n, !.size = nsize]
    IN  IF full /\ (~a.grow \/ oom) THEN Result(FALSE, a, it)
        ELSE Result(TRUE, slid, IF full THEN Relocated(big, it) ELSE it)

\* The n elements from the iterator on leave; a failed realloc keeps the block.
stdarr_low_remove_space(a, it, n, oom) ==
    LET nsize == a.size - n
        slid == [a EXCEPT !.buf = memmove(@, it.off, it.off + n, a.end - (it.off + n)), !.end = @ - n, !.size = nsize]
        shrinks == a.shrink /\ nsize <= stdarr_low_capacity(a) /\ cap(a) # ArrMinAlloc
        ncap == AtLeast(2 * nsize)
        small == IF ncap = 0 THEN Freed(slid) ELSE realloc(slid, ncap)
    IN  IF shrinks /\ ~(oom /\ ncap # 0) THEN Result(TRUE, small, Relocated(small, it))
        ELSE Result(TRUE, slid, it)

stdarr_low_resize(a, n, oom) ==
    IF n > a.size THEN stdarr_low_insert_space(a, stdarr_get(a, a.size), n - a.size, oom)
    ELSE IF n < a.size THEN stdarr_low_remove_space(a, stdarr_get(a, n), a.size - n, oom)
    ELSE Result(TRUE, a, stdarr_get(a, n))

\* set_capacity cuts off what no longer fits.
stdarr_low_set_capacity(a, n, oom) ==
    LET keep == IF a.size < n THEN a.size ELSE n
    IN  IF n = cap(a) \/ (oom /\ n # 0) THEN a
        ELSE IF n = 0 THEN [Freed(a) EXCEPT !.size = 0]
        ELSE [realloc(a, n) EXCEPT !.size = keep, !.end = keep]

-----------------------------------------------------------------------------
Elements(a) == SubSeq(a.buf, 1, a.size)
Fill(a, at, vals) == [a EXCEPT !.buf = [i \in DOMAIN a.buf |-> IF i - at \in DOMAIN vals THEN vals[i - at] ELSE a.buf[i]]]
\* The caller has array a and iterator it, and expects the elements seq and rank at.
Leaves(a, it, seq, at) ==
    /\ arr' = [a EXCEPT !.buf = [i \in DOMAIN a.buf |-> IF i <= a.size THEN a.buf[i] ELSE Junk]]
    /\ arr_it' = it
    /\ arr_ref' = [seq |-> seq, at |-> at]

\* insert_n, insert_seq_n and insert_rep; push_back inserts at the end.
stdarr_insert_n(p, vals, oom) ==
    LET r == stdarr_low_insert_space(arr, stdarr_get(arr, p), Len(vals), oom)
        seq == arr_ref.seq
    IN  /\ arr.size + Len(vals) <= ArrMaxSize
        /\ IF r.ok
           THEN Leaves(Fill(r.arr, r.it.off, vals), r.it,
                       SubSeq(seq, 1, p) \o vals \o SubSeq(seq, p + 1, Len(seq)), p)
           ELSE Leaves(r.arr, r.it, seq, p)

stdarr_push_back_n(vals, oom) == stdarr_insert_n(arr.size, vals, oom)

\* erase_n and erase_seq.
stdarr_erase_n(p, n, oom) ==
    LET r == stdarr_low_remove_space(arr, stdarr_get(arr, p), n, oom)
        seq == arr_ref.seq
    IN  /\ p + n <= arr.size
        /\ Leaves(r.arr, r.it, SubSeq(seq, 1, p) \o SubSeq(seq, p + n + 1, Len(seq)), p)

\* resize and clear; new elements are what is found in the block.
stdarr_resize(n, oom) ==
    LET r == stdarr_low_resize(arr, n, oom)
        seq == arr_ref.seq
        kept == IF ~r.ok THEN seq
                ELSE IF n <= arr.size THEN SubSeq(seq, 1, n)
                ELSE seq \o SubSeq(r.arr.buf, arr.size + 1, n)
    IN  Leaves(r.arr, stdarr_get(r.arr, r.arr.size), kept, Len(kept))

stdarr_pop_back_n(n, oom) == n <= arr.size /\ stdarr_resize(arr.size - n, oom)

\* set_capacity, reserve and shrink_fit.
SetTo(n, oom) ==
    LET a == stdarr_low_set_capacity(arr, n, oom)
        seq == arr_ref.seq
        kept == IF n < arr.size /\ (n = 0 \/ ~oom) THEN SubSeq(seq, 1, n) ELSE seq
    IN  Leaves(a, stdarr_get(a, a.size), kept, Len(kept))
stdarr_set_capacity(n, oom) == SetTo(n, oom)
stdarr_reserve(n, oom) == n > cap(arr) /\ SetTo(n, oom)
stdarr_shrink_fit(oom) == SetTo(arr.size, oom)

\* set_eq with a source that holds the elements src.
stdarr_set_eq(src, oom) ==
    LET r == stdarr_low_resize(arr, Len(src), oom)
    IN  IF r.ok THEN Leaves(Fill(r.arr, 0, src), stdarr_get(r.arr, r.arr.size), src, Len(src))
        ELSE Leaves(r.arr, stdarr_get(r.arr, r.arr.size), arr_ref.seq, Len(arr_ref.seq))

\* The array replaced by its copy, in a block of its own.
stdarr_copy_construct ==
    LET a == IF arr.blk = NULL THEN arr ELSE realloc(arr, cap(arr))
    IN  Leaves(a, stdarr_get(a, a.size), arr_ref.seq, Len(arr_ref.seq))

stdarr_set_opts(g, s) == Leaves([arr EXCEPT !.grow = g, !.shrink = s], arr_it, arr_ref.seq, arr_ref.at)

-----------------------------------------------------------------------------
Init ==
    /\ arr = stdarr_construct
    /\ arr_it = stdarr_get(stdarr_construct, 0)
    /\ arr_ref = [seq |-> <<>>, at |-> 0]

Next ==
    \/ \E oom \in BOOLEAN :
         \/ \E p \in 0 .. arr.size, vals \in SeqOf(Values, ArrMaxStep) : stdarr_insert_n(p, vals, oom)
         \/ \E vals \in SeqOf(Values, ArrMaxStep) : stdarr_push_back_n(vals, oom)
         \/ \E n \in 0 .. ArrMaxSize : stdarr_pop_back_n(n, oom)
         \/ \E p \in 0 .. arr.size, n \in 0 .. ArrMaxSize : stdarr_erase_n(p, n, oom)
         \/ \E n \in 0 .. ArrMaxSize : stdarr_resize(n, oom)
         \/ \E n \in 0 .. ArrMaxSize : stdarr_set_capacity(n, oom) \/ stdarr_reserve(n, oom)
         \/ stdarr_shrink_fit(oom)
         \/ \E src \in SeqOf(Values, ArrMaxStep) : stdarr_set_eq(src, oom)
    \/ stdarr_copy_construct
    \/ \E g, s \in BOOLEAN : stdarr_set_opts(g, s)

Spec == Init /\ [][Next]_vars

-----------------------------------------------------------------------------
(* STDARR_IS_LEGAL, which every call asserts: the size fits the block, end is  *)
(* size elements behind begin, and there is a block exactly when there is      *)
(* capacity, through every growth, shrinking and failed realloc.               *)
Legal ==
    /\ arr.size \in 0 .. cap(arr) /\ arr.end = arr.size
    /\ (cap(arr) = 0) = (arr.blk = NULL)

(* The array holds exactly the elements the calls left in it, in their order;  *)
(* a call that failed changed nothing.                                         *)
Contents == Elements(arr) = arr_ref.seq

(* The iterator a call hands back points into the block the array has now, at  *)
(* the rank of the insertion or the erasure, also when the block has moved.    *)
IteratorFollows == arr_it = stdarr_get(arr, arr_ref.at)

=============================================================================
