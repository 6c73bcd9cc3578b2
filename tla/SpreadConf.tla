---------------------------- MODULE SpreadConf ----------------------------
(* The static configuration of a Spread network (daemon/configuration.c) and *)
(* the routing network.c derives from a membership.  A configuration is a    *)
(* sequence of segments, each a sequence of daemons.  Daemons are named by   *)
(* their rank in that order, so "the first daemon of the first non-empty     *)
(* segment" is the smallest member.  A configuration of the C code that      *)
(* holds part of the daemons (a membership) is the set of those daemons.     *)
EXTENDS Naturals, Sequences, FiniteSets

CONSTANTS Procs,      \* the configured daemons, 1..n in configuration order
          SegOf       \* seg_index of every daemon

ASSUME ConfAssumption ==
    /\ Procs # {} /\ IsFiniteSet(Procs) /\ Procs \subseteq Nat
    /\ SegOf \in [Procs -> Nat]
    /\ \A p, q \in Procs : p < q => SegOf[p] <= SegOf[q]

Segments == {SegOf[p] : p \in Procs}
InSegment(memb, s) == {p \in memb : SegOf[p] = s}

First(memb) == CHOOSE p \in memb : \A q \in memb : p <= q
Final(memb) == CHOOSE p \in memb : \A q \in memb : q <= p

Conf_num_segments == Cardinality(Segments)
Conf_leader(memb) == First(memb)
Conf_last(memb) == Final(memb)
Conf_seg_leader(memb, s) == First(InSegment(memb, s))

\* The daemon that sends the token to p in the ring memb.
Conf_previous(memb, p) ==
    LET before == {q \in memb : q < p}
    IN  IF before # {} THEN Final(before) ELSE Final(memb)

\* Net_set_membership: Token_address, the daemon p sends the token to.
Token_address(memb, p) ==
    LET after == {q \in memb : q > p}
    IN  IF after # {} THEN First(after) ELSE First(memb)
============================================================================
