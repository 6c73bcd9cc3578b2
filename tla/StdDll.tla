------------------------------- MODULE StdDll --------------------------------
(* The doubly linked list of stdutil (stdutil/src/stddll.c), in which the      *)
(* flush layer keeps its messages and views.  The list is circular through an  *)
(* end node.  Nodes are allocated as a chain before the chain is linked in, so *)
(* that an allocation that fails half-way leaves the list alone.               *)
EXTENDS Integers, SequencesExt, FiniteSetsExt, TLC

CONSTANTS Values, Junk,
          DllMaxSize,      \* bound: elements in the list
          DllMaxStep       \* bound: elements inserted at once

VARIABLES dll,       \* the stddll: val, next and prev of the allocated nodes, size
          dll_it,    \* the node the iterator of the last call points to
          dll_ref    \* history: the elements, and the iterator's rank, the caller expects

vars == <<dll, dll_it, dll_ref>>

End == 0
stddll_construct == [val |-> <<>>, next |-> End :> End, prev |-> End :> End, size |-> 0, crashed |-> FALSE]
Heap(l) == DOMAIN l.next \ {End}                  \* every node that was not freed
Result(ok, l, node) == [ok |-> ok, dll |-> l, node |-> node]

-----------------------------------------------------------------------------
\* A chain of new nodes with the values vals; the malloc of node fail fails (0: none).
Chained(l, vals, new) ==
    LET n == Len(vals)
        Of(m) == CHOOSE i \in 1 .. n : new[i] = m
    IN  [ok |-> TRUE, chain |-> new,
         dll |-> [l EXCEPT !.val = [m \in ToSet(new) |-> vals[Of(m)]] @@ @,
                           !.next = [m \in ToSet(new) |-> IF Of(m) < n THEN new[Of(m) + 1] ELSE m] @@ @,
                           !.prev = [m \in ToSet(new) |-> IF Of(m) > 1 THEN new[Of(m) - 1] ELSE m] @@ @]]
stddll_low_alloc_chain(l, vals, fail) ==
    IF fail \in DOMAIN vals THEN [ok |-> FALSE, chain |-> <<>>, dll |-> l]
    ELSE Chained(l, vals, SubSeq(SetToSortSeq((1 .. DllMaxSize + DllMaxStep) \ Heap(l), <), 1, Len(vals)))

\* The chain linked in before node next; the iterator gets its first node.
Spliced(c, prev, next) ==
    Result(TRUE, [c.dll EXCEPT !.next[prev] = Head(c.chain), !.prev[Head(c.chain)] = prev,
                               !.next[Last(c.chain)] = next, !.prev[next] = Last(c.chain),
                               !.size = @ + Len(c.chain)], Head(c.chain))
LinkedIn(l, c, next) == IF c.ok THEN Spliced(c, l.prev[next], next) ELSE Result(FALSE, c.dll, next)
stddll_low_insert(l, vals, next, fail) ==
    IF vals = <<>> THEN Result(TRUE, l, next) ELSE LinkedIn(l, stddll_low_alloc_chain(l, vals, fail), next)

\* The k nodes met from node b on along links.
Walk(links, b, k) == FoldLeft(LAMBDA w, i : Append(w, links[Last(w)]), <<b>>, [i \in 1 .. k |-> i])

\* The nodes freed, and the ones around the gap tied together.
Cut(l, gone, before, after) ==
    LET Kept(f) == [m \in DOMAIN f \ gone |-> f[m]]
    IN  [l EXCEPT !.val = Kept(@), !.next = Kept([@ EXCEPT ![before] = after]),
                  !.prev = Kept([@ EXCEPT ![after] = before]), !.size = @ - Cardinality(gone)]

\* n nodes from b on; with erase_seq up to the node it is given.
stddll_low_erase(l, b, n) ==
    LET Erase(w) == Result(TRUE, Cut(l, ToSet(SubSeq(w, 1, n)), l.prev[b], Last(w)), Last(w))
    IN  Erase(Walk(l.next, b, n))

\* The n nodes before e.
stddll_low_rerase(l, e, n) ==
    LET Erase(w) == Result(TRUE, Cut(l, ToSet(SubSeq(w, 1, n)), Last(w), e), e)
    IN  Erase(Walk(l.prev, l.prev[e], n))

-----------------------------------------------------------------------------
stddll_begin(l) == l.next[End]
stddll_it_advance(l, m, n) == Last(Walk(l.next, m, n))
stddll_it_retreat(l, m, n) == Last(Walk(l.prev, m, n))
\* From the nearer end.
stddll_get(l, i) ==
    IF i < l.size \div 2 THEN stddll_it_advance(l, stddll_begin(l), i)
    ELSE stddll_it_retreat(l, End, l.size - i)

Place(i) == Walk(dll.next, stddll_begin(dll), dll.size)[i + 1]   \* the node of rank i
Leaves(r, seq, at) ==
    /\ dll' = r.dll
    /\ dll_it' = r.node
    /\ dll_ref' = [seq |-> seq, at |-> at]

\* insert_n, insert_seq and insert_rep.
stddll_insert_n(p, vals, fail) ==
    LET seq == dll_ref.seq
        Done(r) == Leaves(r, IF r.ok THEN SubSeq(seq, 1, p) \o vals \o SubSeq(seq, p + 1, Len(seq)) ELSE seq, p)
    IN  /\ dll.size + Len(vals) <= DllMaxSize
        /\ Done(stddll_low_insert(dll, vals, Place(p), fail))

stddll_push_front_n(vals, fail) == stddll_insert_n(0, vals, fail)
stddll_push_back_n(vals, fail) == stddll_insert_n(dll.size, vals, fail)

\* erase_n and erase_seq.
stddll_erase_n(p, n) ==
    LET seq == dll_ref.seq
    IN  /\ p + n <= dll.size
        /\ Leaves(stddll_low_erase(dll, Place(p), n), SubSeq(seq, 1, p) \o SubSeq(seq, p + n + 1, Len(seq)), p)

stddll_pop_front_n(n) == stddll_erase_n(0, n)

stddll_pop_back_n(n) ==
    /\ n <= dll.size
    /\ Leaves(stddll_low_rerase(dll, End, n), SubSeq(dll_ref.seq, 1, dll.size - n), dll.size - n)

\* The list with n elements.  New ones are not initialised, which an unused read
\* through the NULL iterator of resize may or may not survive.
stddll_low_resize(l, n, fail) ==
    IF n > l.size THEN stddll_low_insert(l, [i \in 1 .. n - l.size |-> Junk], End, fail)
    ELSE stddll_low_rerase(l, End, l.size - n)
Crash == Leaves([dll |-> [dll EXCEPT !.crashed = TRUE], node |-> dll_it], dll_ref.seq, dll_ref.at)

\* resize and clear.
stddll_resize(n, fail) ==
    LET seq == dll_ref.seq
        Kept(ok) == IF ~ok THEN seq ELSE IF n > dll.size THEN seq \o [i \in 1 .. n - dll.size |-> Junk] ELSE SubSeq(seq, 1, n)
        Done(r) == Leaves([r EXCEPT !.node = End], Kept(r.ok), Len(Kept(r.ok)))
    IN  (n > dll.size /\ Crash) \/ Done(stddll_low_resize(dll, n, fail))

\* set_eq with a list that holds src; copy_construct is set_eq on a new list.
stddll_set_eq(src, fail) ==
    LET Copied(l, w) == [l EXCEPT !.val = [m \in DOMAIN @ |-> src[CHOOSE i \in DOMAIN src : w[i] = m]]]
        Done(r) == IF r.ok THEN Leaves(Result(TRUE, Copied(r.dll, Walk(r.dll.next, r.dll.next[End], Len(src))), End),
                                       src, Len(src))
                   ELSE Leaves([r EXCEPT !.node = End], dll_ref.seq, Len(dll_ref.seq))
    IN  \/ Len(src) > dll.size /\ Crash
        \/ Done(stddll_low_resize(dll, Len(src), fail))

-----------------------------------------------------------------------------
Init ==
    /\ dll = stddll_construct
    /\ dll_it = End
    /\ dll_ref = [seq |-> <<>>, at |-> 0]

Next ==
    /\ ~dll.crashed
    /\ \/ \E p \in 0 .. dll.size, vals \in SeqOf(Values, DllMaxStep), fail \in 0 .. DllMaxStep : stddll_insert_n(p, vals, fail)
       \/ \E p \in 0 .. dll.size, n \in 0 .. DllMaxSize : stddll_erase_n(p, n)
       \/ \E vals \in SeqOf(Values, DllMaxStep), fail \in 0 .. DllMaxStep :
            stddll_push_front_n(vals, fail) \/ stddll_push_back_n(vals, fail)
       \/ \E n \in 0 .. DllMaxSize : stddll_pop_front_n(n) \/ stddll_pop_back_n(n)
       \/ \E n \in 0 .. DllMaxSize, fail \in 0 .. DllMaxStep : stddll_resize(n, fail)
       \/ \E src \in SeqOf(Values, DllMaxStep), fail \in 0 .. DllMaxStep : stddll_set_eq(src, fail)

Spec == Init /\ [][Next]_vars

-----------------------------------------------------------------------------
(* Forwards and backwards the list leads through the same size nodes and back  *)
(* to the end node, every node that was allocated is one of them, and none     *)
(* leads to a freed one, also after an allocation that failed half-way.        *)
Linked ==
    /\ Cardinality(Heap(dll)) = dll.size /\ DOMAIN dll.val = Heap(dll) /\ DOMAIN dll.prev = DOMAIN dll.next
    /\ \A m \in DOMAIN dll.next : /\ dll.next[m] \in DOMAIN dll.next /\ dll.prev[m] \in DOMAIN dll.next
                                  /\ dll.prev[dll.next[m]] = m /\ dll.next[dll.prev[m]] = m
    /\ ToSet(SubSeq(Walk(dll.next, stddll_begin(dll), dll.size), 1, dll.size)) = Heap(dll)

(* The list holds the elements the calls left in it, in order, and stddll_get  *)
(* reaches each of them from the end it starts at.                             *)
Contents ==
    /\ dll.size = Len(dll_ref.seq)
    /\ \A i \in 1 .. dll.size : LET m == stddll_get(dll, i - 1) IN m # End /\ dll.val[m] = dll_ref.seq[i]

(* The iterator handed back is at the first element inserted, or at the one    *)
(* behind the erased ones.                                                     *)
IteratorFollows == dll_it = Place(dll_ref.at)

=============================================================================
