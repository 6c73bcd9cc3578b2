------------------------------- MODULE StdSkl --------------------------------
(* The skip list of stdutil (stdutil/src/stdskl.c), in which the daemon keeps  *)
(* its groups, their daemons and their members.  A node of height n is in the  *)
(* lists of the levels 0 .. n; each list is circular through the end node,     *)
(* which is replaced by a taller one when a node outgrows it.                  *)
EXTENDS Integers, SequencesExt, FiniteSetsExt, TLC

CONSTANTS Keys,            \* a set of numbers, in their order
          Rows,            \* sequences of keys put or inserted at once
          EndHeight,       \* height of the first end node (4 in the code)
          MAX_HEIGHT,      \* STDSKL_MAX_HEIGHT
          MaxSize,         \* bound: pairs in the list
          PutFreely        \* may put be given a hint, or several keys, that are in the list?

VARIABLES l,         \* the stdskl: key, nexts and prevs of its nodes, end_node, size
          ref        \* history: how many pairs with key k the caller left in the list

vars == <<l, ref>>

Ends == {0, -1}                       \* addresses of end nodes; the others are positive
Null == -2
Nodes(s) == DOMAIN s.key
height(s, n) == Cardinality(DOMAIN s.nexts[n]) - 1
Self(n, h) == [i \in 0 .. h |-> n]
Less(s, k, n) == n # s.end /\ k < s.key[n]
Greater(s, k, n) == n # s.end /\ k > s.key[n]
Equal(s, k, n) == n # s.end /\ k = s.key[n]

stdskl_construct ==
    [end |-> 0, size |-> 0, key |-> <<>>, nexts |-> 0 :> Self(0, EndHeight), prevs |-> 0 :> Self(0, EndHeight)]

-----------------------------------------------------------------------------
RECURSIVE RunRight(_, _, _, _), RunLeft(_, _, _, _), DownRight(_, _, _, _, _, _), DownLeft(_, _, _, _, _, _)
\* Along level i while the key is greater than the next node's.
RunRight(s, k, i, n) == IF Greater(s, k, s.nexts[n][i]) THEN RunRight(s, k, i, s.nexts[n][i]) ELSE n
RunLeft(s, k, i, n) == IF Less(s, k, s.prevs[n][i]) THEN RunLeft(s, k, i, s.prevs[n][i]) ELSE n

\* The highest level below i on which n is followed by another node than m.
Below(links, n, m, i) ==
    LET S == {j \in 1 .. i - 1 : links[n][j] # m} IN IF S = {} THEN 0 ELSE Max(S)

\* From the top level down; m is the node last compared with.
DownRight(s, k, any, i, n, m) ==
    LET c == RunRight(s, k, i, n)
        next == s.nexts[c][i]
    IN  IF i = 0 THEN (IF s.nexts[n][0] = m THEN m ELSE next)
        ELSE IF any /\ Equal(s, k, next) THEN next
        ELSE DownRight(s, k, any, Below(s.nexts, c, next, i), c, next)
DownLeft(s, k, any, i, n, m) ==
    LET c == RunLeft(s, k, i, n)
        prev == s.prevs[c][i]
    IN  IF i = 0 THEN (IF s.prevs[n][0] = m THEN m ELSE prev)
        ELSE IF any /\ Equal(s, k, prev) THEN prev
        ELSE DownLeft(s, k, any, Below(s.prevs, c, prev, i), c, prev)

\* The position of key k: a match (the leftmost, unless any will do), else where
\* it belongs; find_left the same from the right.
low_find_right(s, k, any) == DownRight(s, k, any, height(s, s.end), s.end, Null)
low_find_left(s, k, any) == DownLeft(s, k, any, height(s, s.end), s.end, Null)

stdskl_find(s, k) == LET n == low_find_right(s, k, TRUE) IN IF Equal(s, k, n) THEN n ELSE s.end
stdskl_lowerb(s, k) == low_find_right(s, k, FALSE)
stdskl_upperb(s, k) == s.nexts[low_find_left(s, k, FALSE)][0]

-----------------------------------------------------------------------------
\* The first node from n on (to the right, to the left) that is taller than i.
RECURSIVE TallerRight(_, _, _), TallerLeft(_, _, _)
TallerRight(s, n, i) == IF height(s, n) = i THEN TallerRight(s, s.nexts[n][i], i) ELSE n
TallerLeft(s, n, i) == IF height(s, n) = i THEN TallerLeft(s, s.prevs[n][i], i) ELSE n

\* The node linked before next into the lists of its levels: first with its
\* predecessors (link_left), then with its successors (link_right).
low_link_left(s, next, n) ==
    LET Link(x, i) ==
            LET p == IF i = 0 THEN s.prevs[next][0] ELSE TallerLeft(x.s, x.at, i - 1)
            IN  [s |-> [x.s EXCEPT !.prevs[n][i] = p, !.nexts[p][i] = n], at |-> p]
    IN  FoldLeft(Link, [s |-> s, at |-> next], [i \in 1 .. height(s, n) + 1 |-> i - 1]).s
low_link_right(s, next, n) ==
    LET Link(x, i) ==
            LET p == IF i = 0 THEN next ELSE TallerRight(x.s, x.at, i - 1)
            IN  [s |-> [x.s EXCEPT !.nexts[n][i] = p, !.prevs[p][i] = n], at |-> p]
    IN  FoldLeft(Link, [s |-> s, at |-> next], [i \in 1 .. height(s, n) + 1 |-> i - 1]).s

\* A new end node e of height h, and every link to the old one turned to it.
TakeOver(s, e, h) ==
    LET old == s.end
        top == IF \E i \in 0 .. height(s, old) : s.prevs[old][i] = old
               THEN Min({i \in 0 .. height(s, old) : s.prevs[old][i] = old}) ELSE height(s, old) + 1
        Of(links) == [i \in 0 .. h |-> IF i < top THEN links[old][i] ELSE e]
        Led(links, back) == [n \in Nodes(s) |-> [i \in DOMAIN links[n] |-> IF i < top /\ back[old][i] = n THEN e ELSE links[n][i]]]
    IN  [s EXCEPT !.end = e, !.nexts = (e :> Of(s.nexts)) @@ Led(s.nexts, s.prevs),
                  !.prevs = (e :> Of(s.prevs)) @@ Led(s.prevs, s.nexts)]

-----------------------------------------------------------------------------
\* Does key k belong before next?
Fit(s, k, next) == ~Greater(s, k, next) /\ ~Less(s, k, s.prevs[next][0])

\* Where one pair goes: at the hint, behind it, or where a search finds.
Position(s, k, hint, next) ==
    IF hint /\ Fit(s, k, next) THEN next
    ELSE IF hint /\ Fit(s, k, s.nexts[next][0]) THEN s.nexts[next][0]
    ELSE low_find_right(s, k, TRUE)

\* One pair enters, in a node of height h; fail: the malloc that fails, if any.
Ins(x, k, h, overwrite, fail) ==
    LET s == x.l
        next == Position(s, k, x.hint, x.next)
        e == CHOOSE a \in Ends : a # s.end
        tall == h > height(s, s.end)
        wide == IF tall THEN TakeOver(s, e, IF h < MAX_HEIGHT THEN h + 1 ELSE h) ELSE s
        n == Min((1 .. MaxSize + 1) \ Nodes(s))
        at == IF next = s.end THEN wide.end ELSE next
        made == [wide EXCEPT !.key = (n :> k) @@ @, !.nexts = (n :> Self(n, h)) @@ @, !.prevs = (n :> Self(n, h)) @@ @,
                             !.size = @ + 1]
    IN  IF overwrite /\ Equal(s, k, next) THEN [x EXCEPT !.hint = TRUE, !.next = next]
        ELSE IF fail = "node" \/ (fail = "end" /\ tall) THEN [x EXCEPT !.ok = FALSE]
        ELSE [x EXCEPT !.hint = TRUE, !.next = at, !.l = low_link_right(low_link_left(made, at, n), at, n)]

\* low_insert: the pairs of a sequence, until one fails; heights: as the random
\* generator has them.
low_insert(s, keys, heights, hint, next, overwrite, at, fail) ==
    FoldLeft(LAMBDA x, i : IF x.ok THEN Ins(x, keys[i], heights[i], overwrite, IF i = at THEN fail ELSE "") ELSE x,
             [l |-> s, ok |-> TRUE, hint |-> hint, next |-> next], [i \in 1 .. Len(keys) |-> i])

Heights(n) == [1 .. n -> 0 .. MAX_HEIGHT]
Faults == {<<0, "">>, <<1, "node">>, <<2, "node">>, <<1, "end">>, <<2, "end">>}
\* How many of the keys entered.
Entered(keys, r, f) == IF r.ok THEN keys ELSE SubSeq(keys, 1, f[1] - 1)

stdskl_insert_seq(keys, heights, hint, next, f) ==
    LET r == low_insert(l, keys, heights, hint, next, FALSE, f[1], f[2])
    IN  /\ l.size + Len(keys) <= MaxSize
        /\ l' = r.l
        /\ ref' = [k \in Keys |-> ref[k] + Len(SelectSeq(Entered(keys, r, f), LAMBDA x : x = k))]

\* put, which overwrites the pair of a key that is in the list.
stdskl_put_seq(keys, heights, hint, next, f) ==
    LET r == low_insert(l, keys, heights, hint, next, TRUE, f[1], f[2])
        plain == ~hint /\ Len(keys) = 1
        fresh == \A i \in DOMAIN keys : ref[keys[i]] = 0 /\ \A j \in DOMAIN keys : keys[i] = keys[j] => i = j
    IN  /\ l.size + Len(keys) <= MaxSize
        /\ plain \/ fresh \/ PutFreely
        /\ l' = r.l
        /\ ref' = [k \in Keys |-> IF ref[k] = 0 /\ k \in ToSet(Entered(keys, r, f)) THEN 1 ELSE ref[k]]

-----------------------------------------------------------------------------
RECURSIVE Along(_, _, _)
\* The n nodes from b on.
Along(s, b, n) == IF n = 0 THEN <<>> ELSE <<b>> \o Along(s, s.nexts[b][0], n - 1)

\* The two sides of the gap tied together on every level up to top.
Stitch(s, prev, next, top) ==
    LET Tie(x, i) ==
            LET p == IF i = 0 THEN prev ELSE TallerLeft(x.s, x.p, i - 1)
                q == IF i = 0 THEN next ELSE TallerRight(x.s, x.q, i - 1)
            IN  [s |-> [x.s EXCEPT !.nexts[p][i] = q, !.prevs[q][i] = p], p |-> p, q |-> q]
    IN  FoldLeft(Tie, [s |-> s, p |-> prev, q |-> next], [i \in 1 .. top + 1 |-> i - 1]).s

\* low_erase: the n nodes from b on are freed.
low_erase(s, b, n) ==
    LET gone == ToSet(Along(s, b, n))
        prev == s.prevs[b][0]
        next == IF n = 0 THEN b ELSE s.nexts[Last(Along(s, b, n))][0]
        top == Max({0} \cup {height(s, m) : m \in gone})
        tied == Stitch(s, prev, next, top)
        Kept(f) == [m \in DOMAIN f \ gone |-> f[m]]
    IN  [tied EXCEPT !.size = @ - n, !.key = Kept(@), !.nexts = Kept(@), !.prevs = Kept(@)]

Listed(s) == Along(s, s.nexts[s.end][0], s.size)

\* erase_n and erase_seq.
stdskl_erase_n(b, n) ==
    /\ b = l.end => n = 0
    /\ \A m \in ToSet(Along(l, b, n)) : m # l.end
    /\ l' = low_erase(l, b, n)
    /\ ref' = [k \in Keys |-> ref[k] - Len(SelectSeq(Along(l, b, n), LAMBDA m : l.key[m] = k))]

RECURSIVE EraseWhile(_, _, _)
EraseWhile(s, k, n) == IF Equal(s, k, n) THEN EraseWhile(low_erase(s, n, 1), k, s.nexts[n][0]) ELSE s
stdskl_erase_key(k) ==
    /\ l' = EraseWhile(l, k, stdskl_lowerb(l, k))
    /\ ref' = [ref EXCEPT ![k] = 0]

stdskl_clear ==
    /\ l' = LET e == l.end IN [l EXCEPT !.size = 0, !.key = <<>>, !.nexts = e :> Self(e, height(l, e)), !.prevs = e :> Self(e, height(l, e))]
    /\ ref' = [k \in Keys |-> 0]

\* copy_construct: the pairs inserted in their order into a new list.
stdskl_copy_construct(heights) ==
    /\ l' = LET new == stdskl_construct
            IN  low_insert(new, [i \in 1 .. l.size |-> l.key[Listed(l)[i]]], heights, FALSE, new.end, FALSE, 0, "").l
    /\ UNCHANGED ref

-----------------------------------------------------------------------------
Init == l = stdskl_construct /\ ref = [k \in Keys |-> 0]

Next ==
    \/ \E keys \in Rows, f \in Faults, hint \in BOOLEAN :
         \E heights \in Heights(Len(keys)), next \in IF hint THEN Nodes(l) \cup {l.end} ELSE {l.end} :
            stdskl_insert_seq(keys, heights, hint, next, f) \/ stdskl_put_seq(keys, heights, hint, next, f)
    \/ \E b \in Nodes(l) \cup {l.end}, n \in 0 .. l.size : stdskl_erase_n(b, n)
    \/ \E k \in Keys : stdskl_erase_key(k)
    \/ stdskl_clear
    \/ \E heights \in Heights(l.size) : stdskl_copy_construct(heights)

Spec == Init /\ [][Next]_vars

-----------------------------------------------------------------------------
(* On every level the list leads, in both directions, through exactly the      *)
(* nodes that are tall enough, in the order of the lowest level, and back to   *)
(* the end node: no link is left to a freed node or to a replaced end node.    *)
LevelsLinked ==
    /\ Cardinality(Nodes(l)) = l.size
    /\ DOMAIN l.nexts = Nodes(l) \cup {l.end} /\ DOMAIN l.prevs = DOMAIN l.nexts
    /\ \A n \in Nodes(l) : height(l, n) <= height(l, l.end)
    /\ \A n \in DOMAIN l.nexts : \A i \in DOMAIN l.nexts[n] : l.nexts[n][i] \in DOMAIN l.nexts /\ l.prevs[n][i] \in DOMAIN l.nexts
    /\ LET order == Listed(l)
       IN  /\ ToSet(order) = Nodes(l)
           /\ \A i \in 0 .. height(l, l.end) :
                LET row == <<l.end>> \o SelectSeq(order, LAMBDA n : height(l, n) >= i) \o <<l.end>>
                IN  \A j \in 1 .. Len(row) - 1 : l.nexts[row[j]][i] = row[j + 1] /\ l.prevs[row[j + 1]][i] = row[j]

(* The list is sorted, whatever hints the caller gave.                         *)
Sorted ==
    LET order == Listed(l) IN \A i \in 1 .. l.size - 1 : l.key[order[i]] <= l.key[order[i + 1]]

(* The list holds the pairs the caller left in it: a put of a key that is in   *)
(* the list overwrites, an insert adds, an erasure takes away what it names,   *)
(* and a call that failed half-way keeps what had entered.                     *)
Contents == \A k \in Keys : Cardinality({n \in Nodes(l) : l.key[n] = k}) = ref[k]

(* Searches over the upper levels find what a walk of the list would: a pair   *)
(* of the key, the first one, the one after the last.                          *)
FindsAll ==
    LET order == Listed(l)
        FirstOf(P(_)) == IF \E i \in 1 .. l.size : P(l.key[order[i]])
                         THEN order[Min({i \in 1 .. l.size : P(l.key[order[i]])})] ELSE l.end
    IN  \A k \in Keys :
          /\ IF ref[k] > 0 THEN Equal(l, k, stdskl_find(l, k)) ELSE stdskl_find(l, k) = l.end
          /\ stdskl_lowerb(l, k) = FirstOf(LAMBDA x : x >= k)
          /\ stdskl_upperb(l, k) = FirstOf(LAMBDA x : x > k)

=============================================================================
