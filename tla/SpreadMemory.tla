---------------------------- MODULE SpreadMemory ----------------------------
(* The object memory of Spread (libspread-util/src/memory.c): disposed objects *)
(* of a type wait in a pool, a list threaded through the objects themselves,   *)
(* until the type's threshold is reached; some objects count their references. *)
(* A debugging build keeps the statistics and caches nothing but the initial   *)
(* objects, a release build counts only the pools.                             *)
EXTENDS Integers, SequencesExt, FiniteSetsExt

CONSTANTS Blocks,          \* addresses that calloc may return
          Types,           \* registered types: [size, threshold, initial]
          Lengths,         \* lengths asked of Mem_alloc
          MaxRefs          \* bound: references to an object

VARIABLES mem,       \* mem[b]: header of block b and the link in its body
          Mem,       \* Mem[t]: the mem_info of type t
          total,     \* the statistics over all types
          debug,     \* ~NDEBUG
          held       \* history: the references the program holds to block b

vars == <<mem, Mem, total, debug, held>>

BLOCK_OBJECT == "BLOCK"
NO_REF_CNT == -1
Nil == 0
Header == 1                       \* sizeof(mem_header)
AllTypes == DOMAIN Types \cup {BLOCK_OBJECT}
System == [type |-> "", ref_cnt |-> NO_REF_CNT, len |-> 0, next |-> Nil]   \* not allocated

Larger(a, b) == IF a > b THEN a ELSE b
Some == [num_obj |-> 0, inuse |-> 0, bytes |-> 0]

\* The statistics c after dn objects, du objects in use and db bytes more or
\* less (the maxima reached so far are left out).
Counted(c, dn, du, db) == [num_obj |-> c.num_obj + dn, inuse |-> c.inuse + du, bytes |-> c.bytes + db]

Account(s, t, dn, du, db) ==
    IF ~debug THEN s
    ELSE [s EXCEPT !.Mem[t].count = Counted(@, dn, du, db), !.total = Counted(@, dn, du, db)]

Now == [mem |-> mem, Mem |-> Mem, total |-> total]
Store(s) == mem' = s.mem /\ Mem' = s.Mem /\ total' = s.total /\ UNCHANGED debug

\* calloc: an address that is free (the first: they are alike), or none.
calloc(s) == {b \in Blocks : s.mem[b] = System /\ \A a \in Blocks : s.mem[a] = System => b <= a}
Fresh(s, b, t, len) == [s EXCEPT !.mem[b] = [System EXCEPT !.type = t, !.len = len]]

-----------------------------------------------------------------------------
\* One object enters the pool of its type.
Push(s, b) ==
    LET t == s.mem[b].type
    IN  [s EXCEPT !.mem[b].next = s.Mem[t].list_head, !.Mem[t].list_head = b, !.Mem[t].inpool = @ + 1]

\* Mem_init_object; the initial objects are the first addresses.
Mem_init_object(s, t, base) ==
    LET n == Types[t].initial
        mine == [i \in 1 .. n |-> SetToSortSeq(Blocks, <)[base + i]]
        init == [s EXCEPT !.Mem[t] = [list_head |-> Nil, inpool |-> 0, count |-> Some,
                                      threshold |-> IF debug THEN 0 ELSE Types[t].threshold]]
        Made(x, b) == Account(Push(Fresh(x, b, t, Types[t].size), b), t, 1, 0, Types[t].size + Header)
    IN  FoldLeft(Made, init, mine)

\* new: from the pool, and from the system when it is empty.
Taken(s, t) ==
    LET b == s.Mem[t].list_head
    IN  Account([s EXCEPT !.Mem[t].list_head = s.mem[b].next, !.Mem[t].inpool = @ - 1, !.mem[b].next = Nil], t, 0, 1, 0)
Made(s, t, b, len) == Account(Fresh(s, b, t, len), t, 1, 1, len + Header)

dispose(s, b) ==
    LET t == s.mem[b].type
        u == Account(s, t, 0, -1, 0)
    IN  IF s.Mem[t].inpool >= s.Mem[t].threshold
        THEN [Account(u, t, -1, 0, -(s.mem[b].len + Header)) EXCEPT !.mem[b] = System]
        ELSE Push(u, b)

\* Mutant: the last but one reference disposes of the object.
dec_ref_cnt_early(s, b) ==
    IF s.mem[b].ref_cnt <= 2 THEN dispose([s EXCEPT !.mem[b].ref_cnt = NO_REF_CNT], b)
    ELSE [s EXCEPT !.mem[b].ref_cnt = @ - 1]

dec_ref_cnt(s, b) ==
    LET d == [s EXCEPT !.mem[b].ref_cnt = @ - 1]
    IN  IF d.mem[b].ref_cnt = 0 THEN dispose([d EXCEPT !.mem[b].ref_cnt = NO_REF_CNT], b) ELSE d

-----------------------------------------------------------------------------
(* The program *)

Gets(s, b, ref) ==
    /\ Store([s EXCEPT !.mem[b].ref_cnt = IF ref THEN 1 ELSE @])
    /\ held' = [held EXCEPT ![b] = 1]

\* new and new_ref_cnt; without memory nothing happens.
new(t, ref) ==
    IF Mem[t].list_head # Nil THEN Gets(Taken(Now, t), Mem[t].list_head, ref)
    ELSE \E b \in calloc(Now) : Gets(Made(Now, t, b, Types[t].size), b, ref)

\* Mem_alloc and Mem_alloc_ref_cnt
Mem_alloc(len, ref) ==
    \E b \in calloc(Now) : Gets(Made(Now, BLOCK_OBJECT, b, len), b, ref)

\* Mem_copy: a copy of a counted object does not count references.
Mem_copy(b) ==
    /\ held[b] > 0
    /\ IF mem[b].type = BLOCK_OBJECT THEN Mem_alloc(mem[b].len, FALSE) ELSE new(mem[b].type, FALSE)

Dispose(b) ==
    /\ held[b] > 0 /\ mem[b].ref_cnt = NO_REF_CNT
    /\ Store(dispose(Now, b)) /\ held' = [held EXCEPT ![b] = 0]

inc_ref_cnt(b) ==
    /\ held[b] > 0 /\ mem[b].ref_cnt > 0 /\ held[b] < MaxRefs
    /\ Store([Now EXCEPT !.mem[b].ref_cnt = @ + 1]) /\ held' = [held EXCEPT ![b] = @ + 1]

Dec_ref_cnt(b) ==
    /\ held[b] > 0 /\ mem[b].ref_cnt > 0
    /\ Store(dec_ref_cnt(Now, b)) /\ held' = [held EXCEPT ![b] = @ - 1]

Init ==
    LET types == SetToSortSeq(DOMAIN Types, LAMBDA a, b : Types[a].size < Types[b].size)
        Base(i) == FoldLeft(LAMBDA n, t : n + Types[t].initial, 0, SubSeq(types, 1, i - 1))
        s0 == [mem |-> [b \in Blocks |-> System], total |-> Some,
               Mem |-> [t \in AllTypes |-> [list_head |-> Nil, inpool |-> 0, count |-> Some, threshold |-> 0]]]
        s == FoldLeft(LAMBDA x, i : Mem_init_object(x, types[i], Base(i)), s0, [i \in DOMAIN types |-> i])
    IN  /\ debug \in BOOLEAN
        /\ mem = s.mem /\ Mem = s.Mem /\ total = s.total
        /\ held = [b \in Blocks |-> 0]

Next ==
    \/ \E t \in DOMAIN Types, ref \in BOOLEAN : new(t, ref)
    \/ \E len \in Lengths, ref \in BOOLEAN : Mem_alloc(len, ref)
    \/ \E b \in Blocks : Mem_copy(b) \/ Dispose(b) \/ inc_ref_cnt(b) \/ Dec_ref_cnt(b)

Spec == Init /\ [][Next]_vars

-----------------------------------------------------------------------------
\* The blocks reached from b in n links.
Reach(b, n) ==
    LET path[i \in 0 .. n] == IF i = 0 THEN b ELSE IF path[i - 1] = Nil THEN Nil ELSE mem[path[i - 1]].next
    IN  {path[i] : i \in 0 .. n} \ {Nil}
Pool(t) == Reach(Mem[t].list_head, Cardinality(Blocks))
Of(t) == {b \in Blocks : mem[b].type = t}
Bytes(S) == FoldSet(LAMBDA b, n : n + mem[b].len + Header, 0, S)

(* The pool of a type is a list without a cycle of as many objects of the type *)
(* as it counts, none of them in the program's hands or counting references;   *)
(* what is in no pool is in the program's hands, so nothing leaks, and what is *)
(* in its hands, through one reference or several, is allocated.               *)
PoolsSound ==
    /\ \A t \in AllTypes :
         /\ Cardinality(Pool(t)) = Mem[t].inpool
         /\ Pool(t) = {b \in Of(t) : held[b] = 0}
         /\ \A b \in Pool(t) : mem[b].ref_cnt = NO_REF_CNT
         /\ \A b \in Of(t) : t # BLOCK_OBJECT => mem[b].len = Types[t].size
    /\ \A b \in Blocks : held[b] > 0 => mem[b] # System

(* The statistics of a debugging build are exact, per type and over all.       *)
StatisticsExact ==
    debug =>
      /\ \A t \in AllTypes : /\ Mem[t].count.num_obj = Cardinality(Of(t))
                            /\ Mem[t].count.inuse = Cardinality(Of(t) \ Pool(t))
                            /\ Mem[t].count.bytes = Bytes(Of(t))
      /\ total.num_obj = Cardinality(UNION {Of(t) : t \in AllTypes})
      /\ total.bytes = Bytes(UNION {Of(t) : t \in AllTypes})

(* A pool never holds more than its threshold, or the initial objects.         *)
PoolBounded == \A t \in DOMAIN Types : Mem[t].inpool <= Larger(Mem[t].threshold, Types[t].initial)
=============================================================================
