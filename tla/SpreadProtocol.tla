--------------------------- MODULE SpreadProtocol ---------------------------
(* The ordering protocol of Spread (daemon/protocol.c, flow_control.c) and the *)
(* message recovery of a membership change (the ring information that          *)
(* Create_form1, Fill_form1 and Read_form2 of membership.c put on the form     *)
(* tokens, and Discard_packets in the state EVS).                              *)
(*                                                                             *)
(* A token circulates in the ring of a membership.  Its holder answers the     *)
(* retransmission requests on it, numbers and broadcasts new packets, asks for *)
(* the packets it misses and lowers or raises the aru, the number up to which  *)
(* everybody has everything.  AGREED packets are delivered in order, SAFE ones *)
(* when the aru of two rounds covers them.  When a ring breaks, the daemons    *)
(* that stay together exchange what they miss (state EVS), deliver the rest of *)
(* the old ring around the transitional signal, and install the new ring.      *)
(*                                                                             *)
(* Abstractions.  How the daemons of an attempt find each other is the matter  *)
(* of SpreadMembership: here any daemons may try to form a ring.  The token a  *)
(* daemon sent last stays receivable, as the hurry timer sends it again and    *)
(* again (without the retransmission requests); a held token is one that has   *)
(* not arrived yet.  A packet on its way to a daemon arrives at any time, or   *)
(* never.  The size of a message is its number of packets, and whether a small *)
(* message fits behind another one in a packet is left open.                   *)
EXTENDS SpreadConf, Integers, SequencesExt, FiniteSetsExt

CONSTANTS Messages,          \* messages the clients send
          TypeOf,            \* their service: Reliable, Agreed or Safe
          NumElements,       \* the packets each of them needs
          Starts,            \* [ring, load, bounds]: the first membership, the messages its
                             \* daemons will send, and how much may happen:
                             \*   forms: attempts to form a ring
                             \*   losses: token losses
                             \*   lost: packets lost by the network
          Window, Personal_window, MAX_SEQ_GAP, Accelerated_ring,
          ARQ,               \* size of the token's round counter
          LatePackets,       \* may a packet arrive after its receiver filled a FORM1 token?
          MaxForms           \* bound: attempts to form a ring, in any start

Unreliable == 1
Reliable == 2
Agreed == 8
Safe == 16
Block == 32                  \* BLOCK_REGULAR_DELIVERY
INT32_MAX == 2147483647

ASSUME ProtocolAssumption ==
    /\ TypeOf \in [Messages -> {Reliable, Agreed, Safe}]
    /\ NumElements \in [Messages -> 1 .. 2]
    /\ \A s \in Starts :
         /\ s.ring \subseteq Procs /\ s.load \in [s.ring -> Seq(Messages)]
         /\ \A p, q \in s.ring : \A i \in DOMAIN s.load[p], j \in DOMAIN s.load[q] :
              s.load[p][i] = s.load[q][j] => p = q /\ i = j
         /\ s.bounds \in [{"forms", "losses", "lost"} -> 0 .. 9]
         /\ s.bounds.forms <= MaxForms
    /\ Window \in Nat /\ Personal_window \in Nat /\ MAX_SEQ_GAP \in Nat
    /\ ARQ \in Nat /\ ARQ > 1
    /\ Accelerated_ring \in BOOLEAN /\ LatePackets \in BOOLEAN
    /\ MaxForms \in Nat

VARIABLES d,        \* d[p]: the static variables of daemon p
          ring,     \* ring[i]: the members of membership i (0 is the first one)
          pack,     \* pack[i]: the packets numbered in membership i
          net,      \* net[p]: packets on their way to p
          sent,     \* sent[p]: the token p sent last
          form,     \* form[i]: the form token of attempt i
          left      \* what may still happen of the bounds

vars == <<d, ring, pack, net, sent, form, left>>

Rings == 0 .. MaxForms
Larger(a, b) == IF a > b THEN a ELSE b
Smaller(a, b) == IF a < b THEN a ELSE b
Interval(a, b) == [i \in 1 .. b - a + 1 |-> a + i - 1]

\* Alarm( EXIT, ...) and Alarmp( SPLOG_FATAL, ...): the daemon ends.
Exit(r) == [r EXCEPT !.State = "EXIT"]
Exist(r, s) == IF s \in DOMAIN r.Packets THEN r.Packets[s] ELSE 0
SetExist(r, s, e) ==
    [r EXCEPT !.Packets = [i \in DOMAIN @ \cup {s} |-> IF i = s THEN e ELSE @[i]]]
Drop(r, s) == [r EXCEPT !.Packets = [i \in DOMAIN @ \ {s} |-> @[i]]]

-----------------------------------------------------------------------------
(* Delivery.  P is the sequence of packets of the daemon's membership. *)

\* A packet goes up: its first fragment completes or continues a message of
\* its sender, the messages packed behind it are whole.
Deliver_packet(r, P, s) ==
    LET k == P[s]
        index == IF k.index < 0 THEN -k.index ELSE k.index
        solo == TypeOf[k.msg] = Reliable /\ k.index = -1
        chained == IF solo THEN 0 ELSE r.Up[k.from]
        up == [r EXCEPT !.Up[k.from] = IF solo THEN @ ELSE IF k.index < 0 THEN 0 ELSE index,
                        !.log = @ \o (IF k.index < 0 THEN <<<<"msg", k.msg>>>> ELSE <<>>) \o k.also]
    IN  IF chained + 1 # index THEN Exit(r) ELSE SetExist(up, s, 2)

\* One turn of the loop over the packets up to My_aru; it stops at a SAFE one.
AgreedPastSafe(P, a, i) ==
    IF Exist(a.r, i) = 1 /\ TypeOf[P[i].msg] # Safe
    THEN [a EXCEPT !.r = [Deliver_packet(a.r, P, i) EXCEPT !.Last_delivered = @ + 1]]
    ELSE [a EXCEPT !.r.Last_delivered = @ + 1]
AgreedPacket(P, a, i) ==
    IF a.stop THEN a
    ELSE IF Exist(a.r, i) = 1
    THEN IF TypeOf[P[i].msg] = Safe THEN [a EXCEPT !.stop = TRUE]
         ELSE [a EXCEPT !.r = [Deliver_packet(a.r, P, i) EXCEPT !.Last_delivered = @ + 1]]
    ELSE IF Exist(a.r, i) = 2 /\ TypeOf[P[i].msg] < Agreed
    THEN [a EXCEPT !.r.Last_delivered = @ + 1]
    ELSE [r |-> Exit(a.r), stop |-> TRUE]
Deliver_agreed_packets(r, P) ==
    IF r.State \in {"EVS", "EXIT"} \/ r.threshold > Agreed THEN r
    ELSE FoldLeft(LAMBDA a, i : AgreedPacket(P, a, i), [r |-> r, stop |-> FALSE],
                  Interval(r.Last_delivered + 1, r.My_aru)).r

ReliablePacket(P, r, i) ==
    IF Exist(r, i) = 1 /\ TypeOf[P[i].msg] = Reliable /\ P[i].index = -1
    THEN Deliver_packet(r, P, i) ELSE r
Deliver_reliable_packets(r, P, start, num) ==
    IF r.State \in {"EVS", "EXIT"} \/ r.threshold > Reliable THEN r
    ELSE FoldLeft(LAMBDA x, i : ReliablePacket(P, x, i), r,
                  Interval(Larger(start, r.Last_delivered + 1), start + num - 1))

\* Prot_set_delivery_threshold to Unreliable and the two events it queues.
DeliverAll(r, P) ==
    LET t == [r EXCEPT !.threshold = Unreliable]
    IN  Deliver_agreed_packets(Deliver_reliable_packets(t, P, 1, t.Highest_seq), P)

\* One packet leaves Packets, after it was delivered if it still had to be.
Discard(r, P, s) ==
    IF Exist(r, s) = 1 THEN Drop(Deliver_packet(r, P, s), s) ELSE Drop(r, s)

\* Discard_packets outside EVS: everybody has the packets up to Aru.
StablePacket(P, r, i) == IF Exist(r, i) = 0 THEN Exit(r) ELSE Discard(r, P, i)
DiscardStable(r, P) ==
    [FoldLeft(LAMBDA x, i : StablePacket(P, x, i), r, Interval(r.Last_discarded + 1, r.Aru))
       EXCEPT !.Last_discarded = r.Aru, !.Last_delivered = Larger(@, r.Aru)]

\* Discard_packets in EVS, first part: up to the first hole or SAFE packet.
PacketBefore(P, a, i) ==
    IF a.stop THEN a
    ELSE IF Exist(a.r, i) = 0 THEN [r |-> Exit(a.r), stop |-> TRUE]
    ELSE IF Exist(a.r, i) = 3 \/ TypeOf[P[i].msg] = Safe THEN [a EXCEPT !.stop = TRUE]
    ELSE [a EXCEPT !.r = [Discard(a.r, P, i) EXCEPT !.Last_discarded = i]]
DeliverBeforeTransitional(r, P) ==
    FoldLeft(LAMBDA a, i : PacketBefore(P, a, i), [r |-> r, stop |-> FALSE],
             Interval(r.Last_discarded + 1, r.Highest_seq)).r

\* Second part: the rest; after a hole only packets of the committed daemons.
PacketAfter(P, a, i) ==
    IF Exist(a.r, i) = 0 THEN [a EXCEPT !.r = Exit(a.r)]
    ELSE IF Exist(a.r, i) = 3 THEN [r |-> Drop(a.r, i), hole |-> TRUE]
    ELSE [a EXCEPT !.r = IF ~a.hole \/ P[i].from \in a.r.Commit_set.commit
                         THEN Discard(a.r, P, i) ELSE Drop(a.r, i)]
DeliverAfterTransitional(r, P) ==
    FoldLeft(LAMBDA a, i : PacketAfter(P, a, i), [r |-> r, hole |-> FALSE],
             Interval(r.Last_discarded + 1, r.Highest_seq)).r

\* The membership is installed: my own message that was sent in part stays in
\* the down queue and starts again, parts of the others' are forgotten.
InstallEmptyQueue(r) ==
    IF DOMAIN r.Packets # {} THEN Exit(r)
    ELSE [r EXCEPT !.State = "OP", !.mid = r.future, !.cur = 0, !.Down = <<>>,
                   !.Up = [q \in Procs |-> 0],
                   !.Commit_set = [trans |-> {r.me}, commit |-> {r.me}],
                   !.Just_Installed = TRUE, !.threshold = Agreed,
                   !.Highest_seq = 0, !.My_aru = 0, !.Aru = 0,
                   !.Last_discarded = 0, !.Last_delivered = 0,
                   !.log = Append(@, <<"reg", r.future>>)]
Install(r) ==
    IF DOMAIN r.Packets # {} THEN Exit(r)
    ELSE [r EXCEPT !.State = "OP", !.mid = r.future, !.cur = 0,
                   !.Up = [q \in Procs |-> 0],
                   !.Commit_set = [trans |-> {r.me}, commit |-> {r.me}],
                   !.Just_Installed = TRUE, !.threshold = Agreed,
                   !.Highest_seq = 0, !.My_aru = 0, !.Aru = 0,
                   !.Last_discarded = 0, !.Last_delivered = 0,
                   !.log = Append(@, <<"reg", r.future>>)]

Discard_packets(r, P) ==
    IF r.Aru <= r.Last_discarded \/ r.State = "EXIT" THEN r
    ELSE IF r.State # "EVS" THEN DiscardStable(r, P)
    ELSE IF r.Aru # r.Last_seq THEN r
    ELSE LET before == DeliverBeforeTransitional(r, P)
             trans == [before EXCEPT !.log = Append(@, <<"trans", r.Commit_set.trans>>)]
             after == DeliverAfterTransitional(trans, P)
         IN  IF after.State = "EXIT" THEN after ELSE Install(after)

-----------------------------------------------------------------------------
(* Packets and tokens *)

\* My_aru after the packets that follow it without a gap.
Advance(r) ==
    LET missing == {i \in r.My_aru + 1 .. r.Highest_seq : Exist(r, i) = 0}
    IN  [r EXCEPT !.My_aru = IF missing = {} THEN Larger(@, r.Highest_seq) ELSE Min(missing) - 1]

\* A packet of my membership arrives.
Prot_handle_bcast(r, P, s) ==
    LET n == [SetExist(r, s, 1) EXCEPT !.Highest_seq = Larger(@, s)]
    IN  IF s <= r.Last_discarded \/ Exist(r, s) # 0 THEN r
        ELSE IF s = r.My_aru + 1 THEN Deliver_agreed_packets(Advance(n), P)
        ELSE Deliver_reliable_packets(n, P, s, 1)

\* The requests of my ring on the token are answered, or left to the others,
\* who then all get the packet I miss too; those of other rings stay.  A hole
\* has no header or body that could be sent: a request for one is an error.
Answer_retrans(r, rtr) ==
    LET mine == {g \in rtr : g.mid = r.mid}
        Target(g) == IF g.proc # 0 THEN {g.proc}
                     ELSE IF g.seg # 0 THEN InSegment(Procs, g.seg) ELSE Procs
        Missed(g) == {s \in g.seqs : Exist(r, s) = 0}
        fail == {g \in mine : Missed(g) # {}}
        Kept(g) == {s \in g.seqs : Exist(r, s) \in {1, 2}}
        answers == UNION {{<<g, s>> : s \in Kept(g)} : g \in mine}
    IN  [out |-> {[seq |-> a[2], to |-> Target(a[1])] : a \in answers},
         num |-> Cardinality(answers),
         rtr |-> rtr \ mine,
         proc |-> IF fail = {} THEN r.me ELSE 0,
         seg |-> IF \E g \in fail : g.seg # SegOf[r.me] THEN 0 ELSE SegOf[r.me],
         bad |-> \E g \in mine : \E s \in g.seqs : s < r.Aru \/ Exist(r, s) = 3]

FC_allowed(r, fc) ==
    IF r.State = "EVS" \/ r.Highest_seq > r.Aru + MAX_SEQ_GAP THEN 0
    ELSE Smaller(Smaller(Larger(Window + Personal_window - fc, 0), Window), Personal_window)

\* One new packet from the head of the down queue, with the next message
\* behind it when that is small, of the same service, and fits.
NewPacketKeepsJoined(a, fits) ==
    LET r == a.r
        m == r.Down[1]
        done == r.cur + 1 = NumElements[m]
        rest == IF done THEN Tail(r.Down) ELSE r.Down
        joins == /\ fits /\ done /\ rest # <<>>
                 /\ NumElements[Head(rest)] = 1 /\ TypeOf[Head(rest)] = TypeOf[m]
        s == r.Highest_seq + 1
        k == [from |-> r.me, msg |-> m,
              index |-> IF done THEN -NumElements[m] ELSE r.cur + 1,
              also |-> IF joins THEN <<<<"msg", Head(rest)>>>> ELSE <<>>]
    IN  IF Exist(r, s) # 0 THEN [a EXCEPT !.r = Exit(r)]
        ELSE [r |-> [SetExist(r, s, 1) EXCEPT !.Highest_seq = s,
                        !.Down = rest,
                        !.cur = IF done THEN 0 ELSE @ + 1],
              P |-> Append(a.P, k)]
NewPacket(a, fits) ==
    LET r == a.r
        m == r.Down[1]
        done == r.cur + 1 = NumElements[m]
        rest == IF done THEN Tail(r.Down) ELSE r.Down
        joins == /\ fits /\ done /\ rest # <<>>
                 /\ NumElements[Head(rest)] = 1 /\ TypeOf[Head(rest)] = TypeOf[m]
        s == r.Highest_seq + 1
        k == [from |-> r.me, msg |-> m,
              index |-> IF done THEN -NumElements[m] ELSE r.cur + 1,
              also |-> IF joins THEN <<<<"msg", Head(rest)>>>> ELSE <<>>]
    IN  IF Exist(r, s) # 0 THEN [a EXCEPT !.r = Exit(r)]
        ELSE [r |-> [SetExist(r, s, 1) EXCEPT !.Highest_seq = s,
                        !.Down = IF joins THEN Tail(rest) ELSE rest,
                        !.cur = IF done THEN 0 ELSE @ + 1],
              P |-> Append(a.P, k)]

\* Packets are sent while there are messages and the turn allows it.
SendNext(fits, a, i) ==
    IF a.r.Down = <<>> \/ Len(a.P) # a.r.Highest_seq THEN a ELSE NewPacket(a, fits)
Send_new_packets(r, P, allowed, fits) ==
    FoldLeft(LAMBDA a, i : SendNext(fits, a, i), [r |-> r, P |-> P], Interval(1, allowed))

\* What I ask for: the packets I miss, except, with an accelerated ring, the
\* ones that may still be on their way.
Requests(r, ans) ==
    LET upto == IF Accelerated_ring /\ r.State # "EVS" THEN r.Last_token.seq ELSE r.Highest_seq
        miss == {i \in r.My_aru + 1 .. upto : Exist(r, i) = 0}
    IN  IF miss = {} THEN {}
        ELSE {[mid |-> r.mid, proc |-> ans.proc, seg |-> ans.seg, seqs |-> miss]}

\* Memb_active_ptr() and Memb_active_id()
ActiveId(r) == IF r.State = "EVS" THEN r.future ELSE r.mid
Active(r) == ring[ActiveId(r)]
IsLeader(r) == Conf_leader(Active(r)) = r.me

TokenAccepted(r, t) ==
    /\ r.State \in {"OP", "EVS"}
    /\ t.mid = ActiveId(r)
    /\ t.arq = IF IsLeader(r) THEN r.Last_token.arq ELSE (r.Last_token.arq + 1) % ARQ

\* In EVS a daemon that has recovered everything says so with Last_seq.
RecoveredOldCommit(r) ==
    IF r.State = "EVS" /\ r.My_aru = r.Highest_seq
    THEN [r EXCEPT !.My_aru = r.Last_seq] ELSE r
Recovered(r) ==
    IF r.State = "EVS" /\ r.My_aru = r.Highest_seq
    THEN [r EXCEPT !.My_aru = r.Last_seq, !.Commit_set = r.Future_commit_set] ELSE r

\* Token->aru and Token->aru_last_id: lowered by who misses something, raised
\* by who lowered it, or when everybody has everything.
TokenAru(r, t) ==
    IF t.aru > r.My_aru \/ t.last = r.me \/ (t.aru = t.seq /\ r.State # "EVS")
    THEN [aru |-> r.My_aru, last |-> r.me] ELSE [aru |-> t.aru, last |-> t.last]

\* Aru is the smaller of the arus of two rounds, and never decreases.
NewAruOneRound(r, aru) == [r EXCEPT !.Aru = Larger(@, aru)]
NewAru(r, aru) ==
    LET low == Smaller(aru, r.Last_token.aru)
    IN  IF low < r.Aru THEN Exit(r) ELSE [r EXCEPT !.Aru = low]

\* Token->flow_control: my packets of this turn for those of my last turn.
TokenFlowKept(r, t, num) == t.fc + num
TokenFlow(r, t, num) == t.fc - r.Last_num + num

\* The token that goes on, after I have sent num packets.
PassedOn(c, t, v, num, rtr) ==
    [mid |-> t.mid, seq |-> IF c.State = "EVS" THEN t.seq ELSE c.Highest_seq, aru |-> v.aru, last |-> v.last,
     fc |-> TokenFlow(c, t, num), rtr |-> rtr, arq |-> IF IsLeader(c) THEN (t.arq + 1) % ARQ ELSE t.arq]

\* The token is sent; what the new Aru makes deliverable is delivered, and my own
\* packets if they are Reliable.
Noting(c, token, num) ==
    [NewAru(c, token.aru) EXCEPT !.Last_num = num,
                                 !.Last_token = [arq |-> token.arq, aru |-> token.aru, seq |-> token.seq]]
DeliverOwn(f, P, num) == Deliver_reliable_packets(f, P, f.Highest_seq - num + 1, num)
Delivering(e, P, num, bad) ==
    LET f == Deliver_agreed_packets(Discard_packets(e, P), P)
    IN  IF bad THEN Exit(f) ELSE DeliverOwn(f, P, num)
Finish(c, token, P, n, ans, new) ==
    [d |-> Delivering(Noting(c, token, ans.num + n), new.P, n, ans.bad), P |-> new.P, sent |-> token,
     out |-> ans.out \cup {[seq |-> i, to |-> ring[c.mid]] : i \in Len(P) + 1 .. Len(new.P)}]

\* Packets are sent: my aru, my requests, the token.
TurnEnd(b, c, P, t, n, ans, new) ==
    Finish(c, PassedOn(c, t, TokenAru(c, t), ans.num + n, ans.rtr \cup Requests(b, ans)), P, n, ans, new)
Turn(P, t, ans, new) ==
    LET b == Advance(new.r) IN TurnEnd(b, Recovered(b), P, t, Len(new.P) - Len(P), ans, new)

Prot_handle_token(r, P, t, fits) ==
    LET a == [r EXCEPT !.Last_token.aru = IF r.Just_Installed THEN 0 ELSE @,
                       !.Just_Installed = FALSE,
                       !.Highest_seq = Larger(@, t.seq)]
    IN  Turn(P, t, Answer_retrans(a, t.rtr), Send_new_packets(a, P, FC_allowed(a, t.fc), fits))

-----------------------------------------------------------------------------
(* Membership change: what the form tokens carry about the old rings *)

Backoff_membership(r) ==
    LET clear == [r EXCEPT !.Packets = [i \in {j \in DOMAIN @ : @[j] # 3} |-> @[i]],
                           !.Aru = r.Last_discarded, !.My_aru = r.Last_discarded]
    IN  Advance(clear)

Memb_token_loss(r) ==
    LET b == IF r.State = "EVS" THEN Backoff_membership(r) ELSE r
    IN  [b EXCEPT !.State = "LOST", !.threshold = Block, !.Just_Installed = FALSE,
                  !.Last_token = [arq |-> 0, aru |-> 0, seq |-> 0]]

\* What I know of my ring, added to what the daemons before me knew.
FillRingMyHoles(r, rings) ==
    LET old == {g \in rings : g.mid = r.mid}
        Missing(set) == {i \in set : Exist(r, i) = 0}
        mine == [mid |-> r.mid, aru |-> r.Aru, highest |-> r.Highest_seq,
                 holes |-> Missing(r.Last_discarded + 1 .. r.Highest_seq),
                 trans |-> {r.me}, commit |-> {r.me} \cup r.Commit_set.commit]
        Both(g) == [mid |-> r.mid, aru |-> Larger(g.aru, r.Aru),
                    highest |-> Larger(g.highest, r.Highest_seq),
                    holes |-> g.holes \cup Missing(g.highest + 1 .. r.Highest_seq),
                    trans |-> g.trans \cup {r.me},
                    commit |-> g.commit \cup mine.commit]
    IN  (rings \ old) \cup (IF old = {} THEN {mine} ELSE {Both(g) : g \in old})
FillRing(r, rings) ==
    LET old == {g \in rings : g.mid = r.mid}
        Missing(set) == {i \in set : Exist(r, i) = 0}
        mine == [mid |-> r.mid, aru |-> r.Aru, highest |-> r.Highest_seq,
                 holes |-> Missing(r.Last_discarded + 1 .. r.Highest_seq),
                 trans |-> {r.me}, commit |-> {r.me} \cup r.Commit_set.commit]
        Both(g) == [mid |-> r.mid, aru |-> Larger(g.aru, r.Aru),
                    highest |-> Larger(g.highest, r.Highest_seq),
                    holes |-> Missing(g.holes \cup (g.highest + 1 .. r.Highest_seq)),
                    trans |-> g.trans \cup {r.me},
                    commit |-> g.commit \cup mine.commit]
    IN  (rings \ old) \cup (IF old = {} THEN {mine} ELSE {Both(g) : g \in old})

\* Create_form1 and Fill_form1
Fill_form1(r, i, t) ==
    [d |-> [r EXCEPT !.State = "FORM", !.threshold = Block, !.attempt = i],
     t |-> [t EXCEPT !.wait = @ \ {r.me}, !.seq = Larger(@, r.Highest_seq + 3333),
                     !.rings = FillRing(r, @)]]

\* The packets that nobody has.
MarkHoles(r, holes) ==
    [r EXCEPT !.Packets = [s \in DOMAIN @ \cup holes |-> IF s \in holes THEN 3 ELSE @[s]]]

\* Read_form2: deliver what everybody had, and mark as holes the packets that
\* nobody has, one that reached me since from a daemon that is gone included.
Read_form2(r, P, i, t) ==
    LET g == CHOOSE g \in t.rings : g.mid = r.mid
        a == Discard_packets([r EXCEPT !.Highest_seq = g.highest, !.Aru = g.aru], P)
        bad == \E h \in g.holes : Exist(a, h) # 0 /\ P[h].from \in ring[i]
    IN  IF bad \/ a.State = "EXIT" THEN Exit(a)
        ELSE [MarkHoles(a, g.holes) EXCEPT !.State = "EVS", !.future = i, !.Last_seq = t.seq, !.Aru = 0,
                       !.Future_commit_set = [trans |-> g.trans, commit |-> g.commit],
                       !.Last_num = 0,
                       !.Last_token = [arq |-> 0, aru |-> 0, seq |-> 0]]

-----------------------------------------------------------------------------
NoToken == [mid |-> -1, seq |-> 0, aru |-> 0, last |-> 0, fc |-> 0, rtr |-> {}, arq |-> 0]
NoForm == [wait |-> {}, stage |-> 0, seq |-> 0, rings |-> {}]
FirstToken(i) == [NoToken EXCEPT !.mid = i, !.aru = INT32_MAX]

\* Prot_init, after the first membership is installed and before any packet.
Prot_init(p, load) ==
    [me |-> p, State |-> "OP", mid |-> 0, future |-> 0, attempt |-> 0,
     Packets |-> <<>>, Highest_seq |-> 0, My_aru |-> 0, Aru |-> 0,
     Last_discarded |-> 0, Last_delivered |-> 0, Last_seq |-> 0,
     threshold |-> Unreliable, Just_Installed |-> FALSE,
     Last_token |-> [arq |-> 0, aru |-> 0, seq |-> 0], Last_num |-> 0,
     Commit_set |-> [trans |-> {p}, commit |-> {p}],
     Future_commit_set |-> [trans |-> {}, commit |-> {}],
     todo |-> load, Down |-> <<>>, cur |-> 0, Up |-> [q \in Procs |-> 0],
     log |-> <<>>]

Init ==
    \E s \in Starts :
      /\ d = [p \in Procs |-> IF p \in s.ring THEN Prot_init(p, s.load[p])
                             ELSE [Prot_init(p, <<>>) EXCEPT !.State = "DOWN"]]
      /\ ring = [i \in Rings |-> IF i = 0 THEN s.ring ELSE {}]
      /\ pack = [i \in Rings |-> <<>>]
      /\ net = [p \in Procs |-> {}]
      /\ sent = [p \in Procs |-> IF p = Conf_last(s.ring)
                                 THEN [NoToken EXCEPT !.mid = 0, !.last = Conf_leader(s.ring)]
                                 ELSE NoToken]
      /\ form = [i \in Rings |-> NoForm]
      /\ left = s.bounds

\* A daemon that waits for a FORM2 token or reads it has parted from the
\* daemons that are not in the attempt.
Parted(q, p) == d[q].State \in {"FORM", "EVS"} /\ p \notin ring[d[q].attempt]

\* Packets out of membership i go on their way; the network loses one or none.
Broadcast(p, i, out) ==
    LET heard == {x \in Procs \ {p} : LatePackets \/ ~Parted(x, p)}
        copies == UNION {{<<q, k.seq>> : q \in k.to \cap heard} : k \in out}
    IN  \E lost \in {{}} \cup {{c} : c \in copies} :
          /\ Cardinality(lost) <= left.lost
          /\ left' = [left EXCEPT !.lost = @ - Cardinality(lost)]
          /\ net' = [q \in Procs |-> {k \in net[q] : q # p \/ k.mid >= d'[p].mid} \cup
                      {[mid |-> i, seq |-> c[2]] : c \in {x \in copies \ lost : x[1] = q}}]

\* The session hands k messages down; only the token holder looks at them.
Prot_new_message(r, k) ==
    [r EXCEPT !.Down = @ \o SubSeq(r.todo, 1, k), !.todo = SubSeq(@, k + 1, Len(@))]

\* Values nobody reads before they are written again are forgotten.
Forget(r) ==
    CASE r.State = "OP" ->
           [r EXCEPT !.future = 0, !.attempt = 0, !.Last_seq = 0,
                     !.Future_commit_set = [trans |-> {}, commit |-> {}]]
      [] r.State \in {"LOST", "FORM"} ->
           [r EXCEPT !.future = 0, !.Last_seq = 0, !.Last_num = 0,
                     !.Last_token = [arq |-> 0, aru |-> 0, seq |-> 0],
                     !.Future_commit_set = [trans |-> {}, commit |-> {}],
                     !.attempt = IF r.State = "LOST" THEN 0 ELSE @]
      [] OTHER -> r

\* The token arrives; a copy sent again by Prot_token_hurry has no requests.
TokenHandled(p, res) ==
    /\ d' = [d EXCEPT ![p] = Forget(res.d)]
    /\ pack' = [pack EXCEPT ![d[p].mid] = res.P]
    /\ sent' = [sent EXCEPT ![p] = res.sent]
    /\ Broadcast(p, d[p].mid, res.out)
Recv_token(p) ==
    /\ d[p].State \in {"OP", "EVS"}
    /\ LET t == sent[Conf_previous(Active(d[p]), p)]
       IN  /\ TokenAccepted(d[p], t)
           /\ \E k \in 0 .. Len(d[p].todo), fits \in BOOLEAN, rtr \in {t.rtr, {}} :
                TokenHandled(p, Prot_handle_token(Prot_new_message(d[p], k), pack[d[p].mid],
                                                  [t EXCEPT !.rtr = rtr], fits))
    /\ UNCHANGED <<ring, form>>

Recv_packet(p) ==
    \E k \in net[p] :
      /\ k.mid = d[p].mid /\ d[p].State \notin {"EXIT", "DOWN"}
      /\ d' = [d EXCEPT ![p] = Prot_handle_bcast(d[p], pack[k.mid], k.seq)]
      /\ net' = [net EXCEPT ![p] = @ \ {k}]
      /\ UNCHANGED <<ring, pack, sent, form, left>>

\* The group layer has completed its own exchange.
Groups_ready(p) ==
    /\ d[p].State = "OP" /\ d[p].threshold = Agreed
    /\ d' = [d EXCEPT ![p] = DeliverAll(d[p], pack[d[p].mid])]
    /\ UNCHANGED <<ring, pack, net, sent, form, left>>

Lose_token(p) ==
    /\ d[p].State \in {"OP", "FORM", "EVS"}
    /\ left.losses > 0 /\ left' = [left EXCEPT !.losses = @ - 1]
    /\ d' = [d EXCEPT ![p] = Forget(Memb_token_loss(d[p]))]
    /\ UNCHANGED <<ring, pack, net, sent, form>>

\* Once a daemon waits for the FORM2 token, packets are late that come from a
\* daemon outside the attempt, or from one that has filled the token before.
Fills(p, i, t) ==
    LET res == Fill_form1(d[p], i, t)
    IN  /\ d[p].State \in {"OP", "LOST"}
        /\ d' = [d EXCEPT ![p] = Forget(res.d)]
        /\ net' = IF LatePackets THEN net
                  ELSE [net EXCEPT ![p] = {k \in @ : LET q == pack[k.mid][k.seq].from
                                                   IN  /\ q \in ring'[i] /\ d[q].mid = k.mid
                                                       /\ d[q].State \in {"OP", "LOST"}}]
        /\ form' = [form EXCEPT ![i] =
                      IF res.t.wait = {} THEN [res.t EXCEPT !.stage = 2, !.wait = ring'[i]]
                      ELSE res.t]

Create_form1(p) ==
    \E i \in Rings \ {0}, S \in SUBSET (ring[0] \ {p}) :
      /\ left.forms > 0 /\ left' = [left EXCEPT !.forms = @ - 1]
      /\ form[i] = NoForm /\ \A j \in 1 .. i - 1 : form[j] # NoForm
      /\ ring' = [ring EXCEPT ![i] = S \cup {p}]
      /\ Fills(p, i, [NoForm EXCEPT !.stage = 1, !.wait = S \cup {p}])
      /\ UNCHANGED <<pack, sent>>

\* The form token goes from daemon to daemon in the order of the configuration.
IsNext(p, t) == p \in t.wait /\ \A q \in t.wait : p <= q

\* A form token is out of the network when a later attempt reaches its receiver.
Recv_form1(p) ==
    \E i \in Rings \ {0} :
      /\ form[i].stage = 1 /\ IsNext(p, form[i])
      /\ LatePackets \/ \A j \in Rings : j > i => p \notin ring[j]
      /\ UNCHANGED <<ring, pack, sent, left>>
      /\ Fills(p, i, form[i])

Recv_form2(p) ==
    \E i \in Rings \ {0} :
      /\ form[i].stage = 2 /\ IsNext(p, form[i])
      /\ d[p].State = "FORM" /\ d[p].attempt = i
      /\ d' = [d EXCEPT ![p] = Read_form2(d[p], pack[d[p].mid], i, form[i])]
      /\ form' = [form EXCEPT ![i] = IF @.wait = {p} THEN [NoForm EXCEPT !.stage = 3]
                                      ELSE [@ EXCEPT !.wait = form[i].wait \ {p}]]
      /\ sent' = IF form[i].wait = {p}
                 THEN [sent EXCEPT ![p] = FirstToken(i)] ELSE sent
      /\ UNCHANGED <<ring, pack, net, left>>

Next ==
    \E p \in Procs :
      \/ Recv_token(p)
      \/ Recv_packet(p)
      \/ Groups_ready(p)
      \/ Lose_token(p)
      \/ Create_form1(p)
      \/ Recv_form1(p)
      \/ Recv_form2(p)

Spec == Init /\ [][Next]_vars

-----------------------------------------------------------------------------
TypeOK ==
    /\ \A p \in Procs :
         /\ d[p].State \in {"OP", "LOST", "FORM", "EVS", "EXIT", "DOWN"}
         /\ d[p].State # "DOWN" => p \in ring[d[p].mid]
         /\ d[p].State \in {"OP", "LOST", "FORM"} =>
              /\ d[p].Last_discarded <= d[p].Last_delivered
              /\ d[p].Last_delivered <= d[p].My_aru
              /\ d[p].My_aru <= d[p].Highest_seq

(* The assertions of protocol.c and membership.c (Alarm(EXIT), SPLOG_FATAL):   *)
(* no packet is missing, double or out of sequence when it is delivered or     *)
(* discarded, nothing is left over when a membership is installed, a hole is   *)
(* nobody's packet, Aru never decreases.                                       *)
NoExit == \A p \in Procs : d[p].State # "EXIT"

(* The state of every daemon is sound: discarded, delivered, received and      *)
(* known packets are in this order outside of a recovery (Last_discarded,      *)
(* Last_delivered, My_aru, Highest_seq of protocol.c), and no assertion fails. *)
StateSound == TypeOK /\ NoExit

\* What daemon p delivered, by membership: the part of its log before the
\* regular membership i is followed by another one.
Delivered(p) == {d[p].log[i][2] : i \in {j \in DOMAIN d[p].log : d[p].log[j][1] = "msg"}}
Position(p, m) == CHOOSE i \in DOMAIN d[p].log : d[p].log[i] = <<"msg", m>>
Ordered(m) == TypeOf[m] # Reliable

(* AGREED and SAFE messages are delivered in one total order: two daemons that *)
(* deliver the same two messages deliver them in the same order, across token  *)
(* losses, partitions and merges.                                              *)
AgreedOrder ==
    \A p, q \in Procs : \A m, n \in Delivered(p) \cap Delivered(q) :
        Ordered(m) /\ Ordered(n) /\ Position(p, m) < Position(p, n)
          => Position(q, m) < Position(q, n)

(* No message is delivered twice, though packets are repeated, received again  *)
(* after they were delivered, and sent again in a new membership.              *)
DeliveredOnce ==
    \A p \in Procs : \A i, j \in DOMAIN d[p].log :
        d[p].log[i] = d[p].log[j] /\ d[p].log[i][1] = "msg" => i = j

\* The segment of p's log that ends with the installation of membership i.
Installed(p, i) == \E k \in DOMAIN d[p].log : d[p].log[k] = <<"reg", i>>
Segment(p, i) ==
    LET end == CHOOSE k \in DOMAIN d[p].log : d[p].log[k] = <<"reg", i>>
        starts == {k \in 1 .. end - 1 : d[p].log[k][1] = "reg"}
        start == IF starts = {} THEN 0 ELSE Max(starts)
    IN  [prev |-> IF start = 0 THEN 0 ELSE d[p].log[start][2],
         events |-> SelectSeq(SubSeq(d[p].log, start + 1, end),
                      LAMBDA e : e[1] # "msg" \/ Ordered(e[2])),
         msgs |-> {d[p].log[k] : k \in start + 1 .. end}]

(* Virtual synchrony: daemons that go together from one membership to the next *)
(* deliver the same messages in between, the AGREED and SAFE ones in the same  *)
(* order and on the same side of the same transitional signal.                 *)
VirtualSynchrony ==
    \A p, q \in Procs, i \in Rings \ {0} :
        Installed(p, i) /\ Installed(q, i) =>
          LET a == Segment(p, i)
              b == Segment(q, i)
          IN  a.prev = b.prev => a.events = b.events /\ a.msgs = b.msgs

\* p delivered m in membership i before any transitional signal of it.
SafeIn(p, i, m) ==
    \E k \in DOMAIN d[p].log :
      /\ d[p].log[k] = <<"msg", m>>
      /\ \A j \in 1 .. k - 1 : d[p].log[j][1] = "reg" => d[p].log[j][2] <= i
      /\ IF i = 0 THEN \A j \in 1 .. k - 1 : d[p].log[j][1] = "msg"
         ELSE \E j \in 1 .. k - 1 :
                d[p].log[j] = <<"reg", i>> /\ \A h \in j + 1 .. k - 1 : d[p].log[h][1] = "msg"

(* SAFE delivery: a SAFE message that one daemon delivers in a regular         *)
(* membership is delivered by every member of it before that member installs   *)
(* another membership, whatever breaks in between.                             *)
SafeDelivery ==
    \A p, q \in Procs, m \in Messages, i \in Rings :
        TypeOf[m] = Safe /\ SafeIn(p, i, m) /\ q \in ring[i] /\ d[q].mid # i
          /\ (i = 0 \/ Installed(q, i))
          => m \in Delivered(q)

(* Self delivery: a daemon delivers each of its own messages at the latest     *)
(* when it installs the next membership; a message sent only in part is still  *)
(* in its down queue.                                                          *)
SelfDelivery ==
    \A p \in Procs, i \in Rings : \A s \in DOMAIN pack[i] :
        pack[i][s].from = p /\ d[p].mid # i
          => \/ pack[i][s].msg \in Delivered(p)
             \/ pack[i][s].msg \in ToSet(d[p].Down)
             \/ \E h \in Rings \ {i} : \E x \in DOMAIN pack[h] : pack[h][x].msg = pack[i][s].msg

(* The flow control count on the token is exact: it is the number of packets   *)
(* the members sent in their last turns.                                       *)
FlowControlExact ==
    \A p \in Procs :
        d[p].State \in {"OP", "EVS"} =>
          LET t == sent[Conf_previous(Active(d[p]), p)]
          IN  /\ TokenAccepted(d[p], t)
              /\ \A q \in Active(d[p]) : d[q].State \in {"OP", "EVS"} /\ ActiveId(d[q]) = t.mid
              => t.fc = FoldSet(LAMBDA q, n : n + d[q].Last_num, 0, Active(d[p]))
=============================================================================
