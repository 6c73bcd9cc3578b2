------------------------------- MODULE StdHash -------------------------------
(* The hash table of stdutil (stdutil/src/stdhash.c): open addressing with     *)
(* double hashing in a table whose size is a power of two.  An erased node     *)
(* stays in its place as an inactive one, so that later probes still pass it;  *)
(* the table is rebuilt when nodes, active or not, fill half of it, and when   *)
(* few active ones are left.  A key may be in the table several times.         *)
EXTENDS Integers, SequencesExt, FiniteSetsExt

CONSTANTS Keys,
          hcode_fcn,       \* the hash code of a key, below Codes
          Rows,            \* the sequences of keys put or inserted at once
          Codes,           \* number of hash codes, a power of two
          MinAlloc,        \* STDHASH_MIN_AUTO_ALLOC
          MaxSize,         \* bound: pairs in the table, and pairs asked of reserve
          MaxDrift         \* bound: puts that overwrite

VARIABLES h,         \* the stdhash
          it,        \* the iterator of a sweep over the table, or None
          ref,       \* history: how many pairs with key k the caller put in and left in
          rest,      \* history: how many of them the sweep has still to meet
          drift      \* history: puts that overwrote since the table was last cleared

vars == <<h, it, ref, rest, drift>>

Null == "NULL"
Inactive == "inactive"
None == -1
Zero == [k \in Keys |-> 0]

Constructed == [table |-> <<>>, begin |-> 0, num_nodes |-> 0, size |-> 0, grow |-> TRUE, shrink |-> TRUE]
cap(t) == Len(t.table)
Blank(n) == <<>> \o [i \in 1 .. n |-> Null]
Slot(t, p) == t.table[p + 1]
Active(t, p) == Slot(t, p) \in Keys
ActiveIn(t) == {p \in 0 .. cap(t) - 1 : Active(t, p)}
Least(S, else) == IF S = {} THEN else ELSE CHOOSE x \in S : \A y \in S : x <= y
Most(S, else) == IF S = {} THEN else ELSE CHOOSE x \in S : \A y \in S : y <= x

low_hcode(k) == IF hcode_fcn[k] = 0 THEN 1 ELSE hcode_fcn[k]

\* The highest bits of the hash code, made odd: prime to the size of the table.
Offset(hc, n) == LET x == hc \div (Codes \div n) IN IF x % 2 = 0 THEN x + 1 ELSE x

\* The i-th position of the probe sequence of a hash code (low_hash).
Probe(hc, n, i) == ((hc % n) + i * Offset(hc, n)) % n
\* The first position from the i-th on that stops the search; None: it never ends.
Search(t, hc, i, Stop(_)) ==
    LET S == {j \in i .. i + cap(t) - 1 : Stop(Slot(t, Probe(hc, cap(t), j)))}
    IN  IF S = {} THEN None ELSE Probe(hc, cap(t), Least(S, 0))

low_next(t, p) == Least({q \in ActiveIn(t) : q > p}, cap(t))

\* The position of key k (match), or the first hole in its probe sequence.
low_find(t, match, k) ==
    Search(t, low_hcode(k), 0, LAMBDA x : x = Null \/ (IF match THEN x = k ELSE x = Inactive))

high_thresh(t) == cap(t) \div 2
low_thresh(t) == cap(t) \div 8

-----------------------------------------------------------------------------
pow2_up(x) == CHOOSE n \in {2 ^ i : i \in 0 .. 10} : n >= x /\ n < 2 * x
pow2_cap(x) == IF pow2_up(x) < x + x \div 2 THEN 2 * pow2_up(x) ELSE pow2_up(x)

\* The active nodes move to a new table, the inactive ones are freed.
low_rehash(t, request) ==
    LET n == 2 * pow2_cap(IF request > MinAlloc THEN request ELSE MinAlloc)
        empty == [t EXCEPT !.table = Blank(n)]
        Move(new, k) == [new EXCEPT !.table[Search(new, low_hcode(k), 0, LAMBDA x : x = Null) + 1] = k]
        full == FoldLeft(Move, empty, SelectSeq(t.table, LAMBDA x : x \in Keys))
    IN  [full EXCEPT !.num_nodes = t.size, !.begin = IF t.size # 0 THEN low_next(full, -1) ELSE n]

Earlier(b, p) == IF p < b THEN p ELSE b

\* The pair gets slot p of a table with room; fail: the malloc that fails, if any.
Placed(t, p, k, fail) ==
    IF Slot(t, p) # Null
    THEN [ok |-> TRUE, h |-> [t EXCEPT !.table[p + 1] = k, !.size = @ + 1, !.begin = Earlier(@, p)]]
    ELSE IF fail = "node" THEN [ok |-> FALSE, h |-> t]
    ELSE [ok |-> TRUE, h |-> [t EXCEPT !.table[p + 1] = k, !.size = @ + 1, !.num_nodes = @ + 1, !.begin = Earlier(@, p)]]

\* One pair enters: overwrite looks for its key, else for a hole.
Seated(t, k, overwrite, fail) == Placed(t, low_find(t, overwrite, k), k, fail)
Ins(t, k, overwrite, fail) ==
    IF t.num_nodes < high_thresh(t) THEN Seated(t, k, overwrite, fail)
    ELSE IF ~t.grow \/ fail = "table" THEN [ok |-> FALSE, h |-> t]
    ELSE Seated(low_rehash(t, t.size + 1), k, overwrite, fail)

\* low_insert: the pairs of a sequence, until one fails; what the caller may expect.
Noted(s, r, k, again) ==
    [ok |-> r.ok, h |-> r.h,
     ref |-> IF r.ok /\ ~again THEN [s.ref EXCEPT ![k] = @ + 1] ELSE s.ref,
     drift |-> IF r.ok /\ again THEN s.drift + 1 ELSE s.drift]
low_insert(keys, overwrite, at, fail) ==
    FoldLeft(LAMBDA s, i : IF ~s.ok THEN s
                           ELSE Noted(s, Ins(s.h, keys[i], overwrite, IF i = at THEN fail ELSE ""), keys[i],
                                      overwrite /\ s.ref[keys[i]] > 0),
             [ok |-> TRUE, h |-> h, ref |-> ref, drift |-> drift], [i \in 1 .. Len(keys) |-> i])

NoSweep == it' = None /\ rest' = Zero
Becomes(s) == s.drift <= MaxDrift /\ h' = s.h /\ ref' = s.ref /\ drift' = s.drift /\ NoSweep
Insert(keys, overwrite, at, fail) ==
    h.size + Len(keys) <= MaxSize /\ Becomes(low_insert(keys, overwrite, at, fail))

stdhash_put_seq(keys, at, fail) == Insert(keys, TRUE, at, fail)
stdhash_insert_seq(keys, at, fail) == Insert(keys, FALSE, at, fail)

-----------------------------------------------------------------------------
MayShrink(t) == t.shrink /\ cap(t) # MinAlloc /\ t.size <= low_thresh(t)

Removed(t, p) == [t EXCEPT !.table[p + 1] = Inactive, !.size = @ - 1]

AfterRebuild(t, p) == t.begin

\* The node at p becomes inactive; the iterator moves on, to begin if the table
\* was rebuilt.
low_erase(t, p, oom) ==
    LET off == Removed(t, p)
        q == low_next(off, p)
        less == [off EXCEPT !.begin = IF p = @ THEN q ELSE @]
        new == low_rehash(less, less.size)
    IN  IF MayShrink(less) /\ ~oom THEN [h |-> new, at |-> AfterRebuild(new, q)] ELSE [h |-> less, at |-> q]

stdhash_erase(oom) ==
    /\ it # None /\ it # cap(h)
    /\ LET r == low_erase(h, it, oom)
           k == Slot(h, it)
       IN  /\ h' = r.h /\ it' = r.at
           /\ ref' = [ref EXCEPT ![k] = @ - 1]
           /\ rest' = [rest EXCEPT ![k] = IF @ > 0 THEN @ - 1 ELSE 0]
    /\ UNCHANGED drift

\* erase_key: find and erase until the key is not found.
EraseAll(t, k, oom) ==
    LET again == SelectSeq(t.table, LAMBDA x : x = k)
    IN  FoldLeft(LAMBDA x, key : low_erase(x, low_find(x, TRUE, key), oom).h, t, again)
stdhash_erase_key(k, oom) ==
    /\ h' = IF h.size = 0 THEN h ELSE EraseAll(h, k, oom)
    /\ ref' = [ref EXCEPT ![k] = 0]
    /\ NoSweep /\ UNCHANGED drift

stdhash_clear(oom) ==
    LET off == IF h.num_nodes = 0 THEN h
               ELSE [h EXCEPT !.table = Blank(cap(h)), !.begin = cap(h), !.num_nodes = 0, !.size = 0]
    IN  /\ h' = IF MayShrink(off) /\ ~oom THEN low_rehash(off, 0) ELSE off
        /\ ref' = Zero /\ drift' = 0 /\ NoSweep

stdhash_reserve(n) ==
    /\ n > high_thresh(h)
    /\ h' = low_rehash(h, n)
    /\ NoSweep /\ UNCHANGED <<ref, drift>>

stdhash_rehash == h' = low_rehash(h, h.size) /\ NoSweep /\ UNCHANGED <<ref, drift>>

stdhash_set_opts(g, s) == h' = [h EXCEPT !.grow = g, !.shrink = s] /\ UNCHANGED <<it, ref, rest, drift>>

-----------------------------------------------------------------------------
\* A sweep: begin, then next or erase until end.
stdhash_begin == it' = h.begin /\ rest' = ref /\ UNCHANGED <<h, ref, drift>>

stdhash_it_next ==
    /\ it # None /\ it # cap(h)
    /\ it' = low_next(h, it)
    /\ rest' = [rest EXCEPT ![Slot(h, it)] = IF @ > 0 THEN @ - 1 ELSE 0]
    /\ UNCHANGED <<h, ref, drift>>

\* Lookups: the first pair with key k, the following one, the preceding one; cap:
\* there is none.
stdhash_find(t, k) ==
    IF t.size = 0 THEN cap(t) ELSE LET p == low_find(t, TRUE, k) IN IF Slot(t, p) = k THEN p ELSE cap(t)
Turn(t, p) == CHOOSE i \in 0 .. cap(t) - 1 : Probe(low_hcode(Slot(t, p)), cap(t), i) = p
stdhash_keyed_next(t, p) ==
    LET k == Slot(t, p)
        q == Search(t, low_hcode(k), Turn(t, p) + 1, LAMBDA x : x = Null \/ x = k)
    IN  IF Slot(t, q) = k THEN q ELSE cap(t)
stdhash_keyed_prev(t, p) ==
    LET k == Slot(t, p)
        S == {i \in 0 .. Turn(t, p) - 1 : Slot(t, Probe(low_hcode(k), cap(t), i)) = k}
    IN  IF S = {} THEN cap(t) ELSE Probe(low_hcode(k), cap(t), Most(S, 0))

Init == h = Constructed /\ it = None /\ ref = Zero /\ rest = Zero /\ drift = 0

Next ==
    \/ \E keys \in Rows, at \in 1 .. 2, fail \in {"", "table", "node"} :
          stdhash_put_seq(keys, at, fail) \/ stdhash_insert_seq(keys, at, fail)
    \/ \E oom \in BOOLEAN : stdhash_erase(oom) \/ stdhash_clear(oom) \/ \E k \in Keys : stdhash_erase_key(k, oom)
    \/ \E n \in 1 .. MaxSize : stdhash_reserve(n)
    \/ stdhash_rehash
    \/ \E g, s \in BOOLEAN : stdhash_set_opts(g, s)
    \/ stdhash_begin \/ stdhash_it_next

Spec == Init /\ [][Next]_vars

-----------------------------------------------------------------------------
(* Every search ends: a table always has an empty slot, which the odd offset   *)
(* of any probe sequence reaches, however many erased nodes it is clogged with *)
(* (low_find and keyed_next loop until they meet one).                         *)
SearchesEnd ==
    cap(h) # 0 => \A k \in Keys : \E i \in 0 .. cap(h) - 1 : Slot(h, Probe(low_hcode(k), cap(h), i)) = Null

(* find and keyed_next meet every pair with the key, each once, and keyed_prev *)
(* walks the same way back: no erasure, reuse of a node or rebuild cuts a pair *)
(* off from its probe sequence.                                                *)
FindsAll ==
    \A k \in Keys :
        LET all == {p \in 0 .. cap(h) - 1 : Slot(h, p) = k}
            next == [p \in all |-> stdhash_keyed_next(h, p)]
            first == stdhash_find(h, k)
        IN  /\ Cardinality(all) = ref[k]
            /\ (first = cap(h)) = (all = {})
            /\ {first} \cup {next[p] : p \in all} = all \cup {cap(h)}
            /\ \A p \in all : next[p] # cap(h) => stdhash_keyed_prev(h, next[p]) = p

(* begin is the first active node, and the size counts the pairs, save that it *)
(* counts a pair again for every put that overwrote it.                        *)
BeginAndSize ==
    /\ h.begin = low_next(h, -1)
    /\ h.size = Cardinality(ActiveIn(h)) + drift

(* A sweep that erases on its way meets every pair that was in the table when  *)
(* it began, though an erasure may rebuild the table under it.                 *)
SweepMissesNone ==
    it # None => \A k \in Keys : Cardinality({p \in ActiveIn(h) : p >= it /\ Slot(h, p) = k}) >= rest[k]

=============================================================================
